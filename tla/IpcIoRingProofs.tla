--------------------------- MODULE IpcIoRingProofs --------------------------
(***************************************************************************)
(* The ring under ipcio: what ipcbuf's functions, and those of ipcio that  *)
(* raise start and end of data, do to the transfer table, the tokens and   *)
(* the bytes in the ring, stated of any record that satisfies the          *)
(* invariant of IpcIoRing.  With it come the facts about remainders,       *)
(* counting and addresses it needs.                                        *)
(***************************************************************************)
EXTENDS IpcIoRing, FiniteSetTheorems, TLAPS

(* Induction without an operator parameter: the least counterexample.      *)
LEMMA LeastMember ==
  ASSUME NEW T, T \subseteq Nat, T # {}
  PROVE  \E x \in T : \A y \in T : x <= y
<1>1. PICK x \in T : \A y \in T : ~(<<y, x>> \in OpToRel(<, Nat))
  BY NatLessThanWellFounded, WFMin, Zenon
<1>2. \A y \in T : <<y, x>> \in OpToRel(<, Nat) <=> y < x
  BY Zenon DEF OpToRel
<1>3. \A y \in T : ~(y < x)
  BY <1>1, <1>2
<1>4. x \in Nat /\ \A y \in T : y \in Nat
  OBVIOUS
<1> QED
  BY <1>3, <1>4

-----------------------------------------------------------------------------
(***************************************************************************)
(* Numbers modulo N.                                                       *)
(***************************************************************************)

(* A remainder is below the divisor.                                       *)
LEMMA ModRange ==
  ASSUME NEW N \in Nat \ {0}, NEW a \in Int
  PROVE  a % N \in 0 .. N - 1
OBVIOUS

(* A number is a multiple of the divisor and the remainder.                *)
LEMMA ModQuotient ==
  ASSUME NEW N \in Nat \ {0}, NEW a \in Int
  PROVE  a \div N \in Int /\ a = N * (a \div N) + (a % N)
OBVIOUS

(* Numbers less than N apart have different remainders.                    *)
LEMMA ModDistinct ==
  ASSUME NEW N \in Nat \ {0}, NEW a \in Int, NEW b \in Int,
         a % N = b % N, a <= b, b < a + N
  PROVE  a = b
<1> DEFINE p == a \div N
           q == b \div N
<1>1. p \in Int /\ q \in Int /\ a = N * p + (a % N) /\ b = N * q + (b % N)
  BY ModQuotient
<1>2. a % N \in Int /\ b % N \in Int
  BY ModRange
<1> HIDE DEF p, q
<1>3. b - a = N * q - N * p
  BY <1>1, <1>2
<1>4. N * q - N * p = N * (q - p)
  BY <1>1
<1>5. q - p >= 1 => N * (q - p) >= N
  BY <1>1
<1>6. q - p <= -1 => N * (q - p) <= -N
  BY <1>1
<1>7. q = p
  BY <1>1, <1>3, <1>4, <1>5, <1>6
<1> QED
  BY <1>1, <1>7

(* Numbers N apart have the same remainder.                                *)
LEMMA ModShift ==
  ASSUME NEW N \in Nat \ {0}, NEW a \in Int, NEW b \in Int, b = a - N
  PROVE  b % N = a % N
<1> DEFINE p == a \div N
<1>1. p \in Int /\ a = N * p + (a % N)
  BY ModQuotient
<1>2. a % N \in 0 .. N - 1
  BY ModRange
<1> HIDE DEF p
<1>3. N * (p - 1) = N * p - N
  BY <1>1
<1>4. b = N * (p - 1) + (a % N)
  BY <1>1, <1>2, <1>3
<1>5. p - 1 \in Int
  BY <1>1
<1>6. ASSUME NEW r \in 0 .. N - 1, NEW k \in Int, NEW c \in Int, c = N * k + r
      PROVE  c % N = r
  BY <1>6
<1> QED
  BY <1>2, <1>4, <1>5, <1>6

(* Among N successive numbers every remainder occurs.                      *)
LEMMA PlaceTaken ==
  ASSUME NEW N \in Nat \ {0}, NEW a \in Int, NEW k \in 0 .. N - 1
  PROVE  \E b \in a .. a + N - 1 : b % N = k
<1> DEFINE q == (k - a) \div N
           r == (k - a) % N
<1>1. k - a \in Int
  OBVIOUS
<1>2. q \in Int /\ k - a = N * q + r /\ r \in 0 .. N - 1
  BY <1>1, ModQuotient, ModRange
<1> HIDE DEF q, r
<1>3. -q \in Int /\ N * (-q) = - (N * q)
  BY <1>2
<1>4. a + r \in Int /\ a + r = N * (-q) + k
  BY <1>2, <1>3
<1>5. ASSUME NEW j \in Int, NEW c \in Int, c = N * j + k
      PROVE  c % N = k
  BY <1>5
<1>6. (a + r) % N = k
  BY <1>3, <1>4, <1>5
<1> QED
  BY <1>2, <1>6

-----------------------------------------------------------------------------
(***************************************************************************)
(* Counting the members of a set between two places.                       *)
(***************************************************************************)

(* There are finitely many.                                                *)
LEMMA AmongFinite ==
  ASSUME NEW B, NEW from \in Int, NEW to \in Int
  PROVE  IsFiniteSet(Among(B, from, to)) /\ HowMany(B, from, to) \in Nat
<1>1. IsFiniteSet(from .. to - 1)
  BY FS_Interval
<1>2. Among(B, from, to) \in SUBSET (from .. to - 1)
  BY DEF Among
<1> QED
  BY <1>1, <1>2, FS_Subset, FS_CardinalityType DEF HowMany

(* If there is none, the number is zero.                                   *)
LEMMA AmongEmpty ==
  ASSUME NEW B, NEW from \in Int, NEW to \in Int
  PROVE  HowMany(B, from, to) = 0 <=> Among(B, from, to) = {}
BY AmongFinite, FS_EmptySet DEF HowMany

(* The first place counts if it is a member.                               *)
LEMMA FirstAmong ==
  ASSUME NEW B, NEW from \in Int, NEW to \in Int, from < to
  PROVE  /\ from \in B =>
              HowMany(B, from, to) = HowMany(B, from + 1, to) + 1
         /\ from \notin B => Among(B, from, to) = Among(B, from + 1, to)
<1>1. IsFiniteSet(Among(B, from + 1, to)) /\ from + 1 \in Int
  BY AmongFinite
<1>2. from \notin Among(B, from + 1, to)
  BY DEF Among
<1>3. ASSUME from \in B
      PROVE  Among(B, from, to) = Among(B, from + 1, to) \cup {from}
  BY <1>3 DEF Among
<1>4. from \in B => HowMany(B, from, to) = HowMany(B, from + 1, to) + 1
  BY <1>1, <1>2, <1>3, FS_AddElement DEF HowMany
<1>5. ASSUME from \notin B
      PROVE  Among(B, from, to) = Among(B, from + 1, to)
  <2>1. \A b \in from .. to - 1 : b \in B => b \in from + 1 .. to - 1
    BY <1>5
  <2>2. \A b \in from + 1 .. to - 1 : b \in from .. to - 1
    OBVIOUS
  <2> QED
    BY <2>1, <2>2 DEF Among
<1> QED
  BY <1>4, <1>5

(* The last place counts if it is a member.                                *)
LEMMA LastAmong ==
  ASSUME NEW B, NEW from \in Int, NEW to \in Int, from <= to
  PROVE  /\ to \in B => HowMany(B, from, to + 1) = HowMany(B, from, to) + 1
         /\ to \notin B => Among(B, from, to + 1) = Among(B, from, to)
<1>1. IsFiniteSet(Among(B, from, to)) /\ to + 1 \in Int
  BY AmongFinite
<1>2. to \notin Among(B, from, to)
  BY DEF Among
<1>3. ASSUME to \in B
      PROVE  Among(B, from, to + 1) = Among(B, from, to) \cup {to}
  BY <1>3 DEF Among
<1>4. to \in B => HowMany(B, from, to + 1) = HowMany(B, from, to) + 1
  BY <1>1, <1>2, <1>3, FS_AddElement DEF HowMany
<1>5. ASSUME to \notin B
      PROVE  Among(B, from, to + 1) = Among(B, from, to)
  <2>1. \A b \in from .. to + 1 - 1 : b \in B => b \in from .. to - 1
    BY <1>5
  <2>2. \A b \in from .. to - 1 : b \in from .. to + 1 - 1
    OBVIOUS
  <2> QED
    BY <2>1, <2>2 DEF Among
<1> QED
  BY <1>4, <1>5

(* Places without a member may be left out.                                *)
LEMMA SkipNone ==
  ASSUME NEW B, NEW from \in Int, NEW mid \in Int, NEW to \in Int,
         from <= mid, Among(B, from, mid) = {}
  PROVE  Among(B, from, to) = Among(B, mid, to)
<1>1. \A b \in from .. to - 1 : b \in B => b \in mid .. to - 1
  <2> SUFFICES ASSUME NEW b \in from .. to - 1, b \in B, b < mid
               PROVE  FALSE
    OBVIOUS
  <2>1. b \in Among(B, from, mid)
    BY DEF Among
  <2> QED
    BY <2>1
<1>2. \A b \in mid .. to - 1 : b \in from .. to - 1
  OBVIOUS
<1> QED
  BY <1>1, <1>2 DEF Among

(* Members added beyond the places counted do not count.                   *)
LEMMA AddedBeyond ==
  ASSUME NEW B, NEW C, NEW from \in Int, NEW to \in Int,
         B \subseteq C, \A x \in C : x \in B \/ (x \in Int /\ x >= to)
  PROVE  Among(C, from, to) = Among(B, from, to)
BY DEF Among

(* A run of new members counts in full.                                    *)
LEMMA AddedRun ==
  ASSUME NEW B, NEW from \in Int, NEW a \in Int, NEW to \in Int,
         from <= a, a <= to, \A b \in B : b \in Int /\ b < a
  PROVE  HowMany(B \cup (a .. to - 1), from, to)
           = HowMany(B, from, to) + (to - a)
<1> DEFINE N == a .. to - 1
           A == Among(B, from, to)
<1>1. IsFiniteSet(N) /\ Cardinality(N) = to - a
  <2>1. to - 1 \in Int
    OBVIOUS
  <2>2. /\ IsFiniteSet(N)
        /\ Cardinality(N) = IF a > to - 1 THEN 0 ELSE (to - 1) - a + 1
    BY <2>1, FS_Interval
  <2>3. (IF a > to - 1 THEN 0 ELSE (to - 1) - a + 1) = to - a
    OBVIOUS
  <2> QED
    BY <2>2, <2>3
<1>2. IsFiniteSet(A) /\ Cardinality(A) \in Nat
  BY AmongFinite DEF HowMany
<1>3. A \cap N = {}
  BY DEF Among
<1>4. Among(B \cup N, from, to) = A \cup N
  BY DEF Among
<1>5. Cardinality(A \cup N) = Cardinality(A) + Cardinality(N) - Cardinality(A \cap N)
  BY <1>1, <1>2, FS_Union
<1>6. Cardinality(A \cap N) = 0
  BY <1>3, FS_EmptySet
<1>7. Cardinality(A \cup N) = Cardinality(A) + (to - a)
  BY <1>1, <1>2, <1>5, <1>6
<1> QED
  BY <1>4, <1>7 DEF HowMany

(* Two adjoining stretches of the line.                                    *)
LEMMA SplitAmong ==
  ASSUME NEW B, NEW from \in Int, NEW mid \in Int, NEW to \in Int,
         from <= mid, mid <= to
  PROVE  HowMany(B, from, to) = HowMany(B, from, mid) + HowMany(B, mid, to)
<1> DEFINE L == Among(B, from, mid)
           R == Among(B, mid, to)
<1>1. Among(B, from, to) = L \cup R /\ L \cap R = {}
  BY DEF Among
<1>2. /\ IsFiniteSet(L) /\ HowMany(B, from, mid) \in Nat
      /\ IsFiniteSet(R) /\ HowMany(B, mid, to) \in Nat
  BY AmongFinite
<1> HIDE DEF L, R
<1>3. Cardinality(L \cup R) = Cardinality(L) + Cardinality(R) - Cardinality(L \cap R)
  BY <1>2, FS_Union
<1>4. Cardinality(L \cap R) = 0
  BY <1>1, FS_EmptySet
<1>5. HowMany(B, from, mid) = Cardinality(L) /\ HowMany(B, mid, to) = Cardinality(R)
  BY DEF HowMany, L, R
<1> QED
  BY <1>1, <1>2, <1>3, <1>4, <1>5 DEF HowMany

(* There are no more of them than places.                                  *)
LEMMA AmongAtMost ==
  ASSUME NEW B, NEW from \in Int, NEW to \in Int, from <= to
  PROVE  HowMany(B, from, to) <= to - from
<1>1. IsFiniteSet(from .. to - 1) /\ Cardinality(from .. to - 1) = to - from
  <2>1. to - 1 \in Int
    OBVIOUS
  <2>2. /\ IsFiniteSet(from .. to - 1)
        /\ Cardinality(from .. to - 1)
             = IF from > to - 1 THEN 0 ELSE (to - 1) - from + 1
    BY <2>1, FS_Interval
  <2>3. (IF from > to - 1 THEN 0 ELSE (to - 1) - from + 1) = to - from
    OBVIOUS
  <2> QED
    BY <2>2, <2>3
<1>2. Among(B, from, to) \in SUBSET (from .. to - 1)
  BY DEF Among
<1> QED
  BY <1>1, <1>2, FS_Subset DEF HowMany

(* If they are counted there is one.                                       *)
LEMMA AmongSome ==
  ASSUME NEW B, NEW from \in Int, NEW to \in Int, HowMany(B, from, to) # 0
  PROVE  \E b \in B : b \in from .. to - 1
BY AmongEmpty DEF Among

-----------------------------------------------------------------------------
(***************************************************************************)
(* Places in a ring, and addresses: byte i of block b has address b * z +  *)
(* i.                                                                      *)
(***************************************************************************)

(* Any N successive blocks have different places in a ring of N.           *)
LEMMA OwnPlaceAmong ==
  ASSUME NEW N \in Nat \ {0}, NEW a \in Int,
         NEW b \in a .. a + N - 1, NEW c \in a .. a + N - 1, b % N = c % N
  PROVE  b = c
<1>1. b \in Int /\ c \in Int /\ b < c + N /\ c < b + N
  OBVIOUS
<1>2. CASE b <= c
  BY <1>1, <1>2, ModDistinct
<1>3. CASE c <= b
  BY <1>1, <1>3, ModDistinct
<1> QED
  BY <1>1, <1>2, <1>3

(* The bytes of a block come before those of a later one.                  *)
LEMMA AddressOrder ==
  ASSUME NEW z \in Nat \ {0}, NEW b \in Int, NEW c \in Int, b < c
  PROVE  /\ b * z \in Int /\ c * z \in Int
         /\ b * z + z <= c * z
         /\ b * z < c * z
<1>1. (c - b) * z = c * z - b * z
  OBVIOUS
<1>2. (c - b) * z >= z
  OBVIOUS
<1>3. b * z \in Int /\ c * z \in Int
  OBVIOUS
<1> QED
  BY <1>1, <1>2, <1>3

(* An address names one byte of one block.                                 *)
LEMMA AddressUnique ==
  ASSUME NEW z \in Nat \ {0}, NEW b \in Int, NEW c \in Int,
         NEW i \in 0 .. z - 1, NEW j \in 0 .. z - 1, b * z + i = c * z + j
  PROVE  b = c /\ i = j
<1>1. b * z \in Int /\ c * z \in Int
  OBVIOUS
<1>2. ~(b < c)
  <2> SUFFICES ASSUME b < c PROVE FALSE
    OBVIOUS
  <2>1. b * z + z <= c * z
    BY AddressOrder
  <2> QED
    BY <1>1, <2>1
<1>3. ~(c < b)
  <2> SUFFICES ASSUME c < b PROVE FALSE
    OBVIOUS
  <2>1. c * z + z <= b * z
    BY AddressOrder
  <2> QED
    BY <1>1, <2>1
<1>4. b = c
  BY <1>2, <1>3
<1> QED
  BY <1>1, <1>4

(* Every address is that of a byte of a block.                             *)
LEMMA AddressSplit ==
  ASSUME NEW z \in Nat \ {0}, NEW a \in Int
  PROVE  \E b \in Int, i \in 0 .. z - 1 : a = b * z + i
<1> DEFINE b == a \div z
           i == a % z
<1>1. b \in Int /\ a = z * b + i /\ i \in 0 .. z - 1
  BY ModQuotient, ModRange
<1> HIDE DEF b, i
<1>2. z * b = b * z
  BY <1>1
<1>3. a = b * z + i
  BY <1>1, <1>2
<1> QED
  BY <1>1, <1>3

(* A byte of a block lies before the start of a block if its block does.   *)
LEMMA AddressBefore ==
  ASSUME NEW z \in Nat \ {0}, NEW b \in Int, NEW c \in Int, NEW i \in 0 .. z - 1
  PROVE  b * z + i < c * z <=> b < c
<1>1. b * z \in Int /\ c * z \in Int
  OBVIOUS
<1>2. CASE b < c
  <2>1. b * z + z <= c * z
    BY <1>2, AddressOrder
  <2> QED
    BY <1>1, <1>2, <2>1
<1>3. CASE c < b
  <2>1. c * z + z <= b * z
    BY <1>3, AddressOrder
  <2> QED
    BY <1>1, <1>3, <2>1
<1>4. CASE b = c
  BY <1>1, <1>4
<1> QED
  BY <1>2, <1>3, <1>4

-----------------------------------------------------------------------------
(***************************************************************************)
(* What the functions of ipcbuf do to the fields.                          *)
(***************************************************************************)
SameHandle(d, e) ==
  /\ e.rdwrt = d.rdwrt /\ e.bytes = d.bytes /\ e.curbuf = d.curbuf
  /\ e.marked_filled = d.marked_filled /\ e.buf_ptrs = d.buf_ptrs
  /\ e.sod_pending = d.sod_pending /\ e.sod_buf = d.sod_buf
  /\ e.sod_byte = d.sod_byte /\ e.err = d.err

SameRing(d, e) ==
  /\ e.xfers = d.xfers /\ e.w_xfer = d.w_xfer /\ e.soclock_buf = d.soclock_buf
  /\ e.w_buf_curr = d.w_buf_curr /\ e.w_buf_next = d.w_buf_next
  /\ e.count = d.count /\ e.FULL = d.FULL /\ e.CLEAR = d.CLEAR

(* Start of data in block b, at byte y.                                    *)
SodRaised(d, e, b, y) ==
  /\ Len(e.xfers) = Len(d.xfers) + 1
  /\ \A k \in 1 .. Len(d.xfers) : e.xfers[k] = d.xfers[k]
  /\ e.xfers[Len(d.xfers) + 1] = [s_buf |-> b, s_byte |-> y,
                                  eod |-> d.w_buf_curr # 0,
                                  e_buf |-> 0, e_byte |-> 0]
  /\ \A k \in Ring :
       e.count[k] = d.count[k]
         + Cardinality({j \in b .. d.w_buf_curr - 1 : j % NBufs = k})
  /\ e.FULL = d.FULL + d.w_buf_curr - b
  /\ e.w_xfer = d.w_xfer /\ e.soclock_buf = d.soclock_buf
  /\ e.w_buf_curr = d.w_buf_curr /\ e.w_buf_next = d.w_buf_next
  /\ e.CLEAR = d.CLEAR

(* The next block is taken.                                                *)
BlockTaken(d, e) ==
  /\ e.CLEAR = d.CLEAR - d.count[d.w_buf_next % NBufs]
  /\ \A k \in Ring :
       e.count[k] = IF k = d.w_buf_next % NBufs THEN 0 ELSE d.count[k]
  /\ e.w_buf_next = d.w_buf_next + 1
  /\ e.xfers = d.xfers /\ e.w_xfer = d.w_xfer /\ e.soclock_buf = d.soclock_buf
  /\ e.w_buf_curr = d.w_buf_curr /\ e.FULL = d.FULL

(* A block outside of any transfer is filled.                              *)
BlockClocked(d, e) ==
  /\ e.w_buf_curr = d.w_buf_curr + 1
  /\ e.xfers = d.xfers /\ e.w_xfer = d.w_xfer /\ e.soclock_buf = d.soclock_buf
  /\ e.w_buf_next = d.w_buf_next
  /\ e.count = d.count /\ e.FULL = d.FULL /\ e.CLEAR = d.CLEAR

(* m blocks of a transfer are filled.                                      *)
Handed(d, e, m) ==
  /\ e.w_buf_curr = d.w_buf_curr + m
  /\ \A k \in Ring :
       e.count[k] = d.count[k]
         + (IF \E j \in 0 .. m - 1 : k = (d.w_buf_curr + j) % NBufs THEN 1 ELSE 0)
  /\ e.FULL = d.FULL + m
  /\ e.CLEAR = d.CLEAR /\ e.soclock_buf = d.soclock_buf
  /\ e.w_buf_next = d.w_buf_next

BlocksFilled(d, e, m) ==
  Handed(d, e, m) /\ e.xfers = d.xfers /\ e.w_xfer = d.w_xfer

(* The entry t becomes u when its transfer ends in block b after y bytes.  *)
EntryEnded(t, u, b, y) ==
  /\ u.s_buf = t.s_buf /\ u.s_byte = t.s_byte
  /\ u.eod /\ u.e_buf = b /\ u.e_byte = y

(* A block of a transfer is filled, and the transfer ends after y of its   *)
(* bytes.                                                                  *)
EodRaised(d, e, y) ==
  /\ Handed(d, e, 1)
  /\ e.w_xfer = d.w_xfer + 1
  /\ Len(e.xfers) = Len(d.xfers)
  /\ \A k \in 1 .. d.w_xfer : e.xfers[k] = d.xfers[k]
  /\ EntryEnded(d.xfers[d.w_xfer + 1], e.xfers[d.w_xfer + 1], d.w_buf_curr, y)

(* The places in the ring are the numbers below the number of blocks.      *)
LEMMA RingPlaces ==
  /\ NBufs \in Nat \ {0} /\ BufSz \in Nat \ {0} /\ Ring = 0 .. NBufs - 1
  /\ NoBuf \notin Ring /\ NoBuf = -1
  /\ \A b \in Int : b % NBufs \in Ring
BY IoSizes, ModRange DEF Ring, NoBuf

(* Every block has a place in the ring.                                    *)
LEMMA PlaceInRing ==
  ASSUME NEW b \in Int
  PROVE  b % NBufs \in Ring
BY RingPlaces

(* The number of blocks that lie in place k of the ring.                   *)
LEMMA CountBlocks ==
  ASSUME NEW from \in Int, NEW to \in Int, NEW k
  PROVE  Cardinality({j \in from .. to : j % NBufs = k}) \in Nat
<1>1. IsFiniteSet(from .. to)
  BY FS_Interval
<1>2. {j \in from .. to : j % NBufs = k} \subseteq from .. to
  OBVIOUS
<1> QED
  BY <1>1, <1>2, FS_Subset, FS_CardinalityType

(* ipcbuf_enable_sod at a block from the minimum on raises start of data.  *)
LEMMA SodEffect ==
  ASSUME NEW d \in IoRec, NEW b \in Nat, NEW y \in 0 .. BufSz,
         d.state \in {"WRITER", "WCHANGE"},
         b <= d.w_buf_curr, d.w_buf_curr <= d.w_buf_next,
         b >= ipcbuf_get_sod_minbuf(d)
  PROVE  LET e == ipcbuf_enable_sod(d, b, y) IN
         /\ e \in IoRec
         /\ SodRaised(d, e, b, y) /\ SameHandle(d, e) /\ e.mem = d.mem
         /\ e.state = "WRITING" /\ e.w_state = "WRITING"
<1> DEFINE x == [s_buf |-> b, s_byte |-> y, eod |-> d.w_buf_curr # 0,
                 e_buf |-> 0, e_byte |-> 0]
           c == [k \in Ring |-> d.count[k] +
                   Cardinality({j \in b .. d.w_buf_curr - 1 : j % NBufs = k})]
           e == ipcbuf_enable_sod(d, b, y)
<1>t. /\ d.w_buf_curr \in Nat /\ d.w_buf_next \in Nat /\ d.FULL \in Nat
      /\ d.count \in [Ring -> Nat] /\ d.xfers \in Seq(XferRec)
  BY DEF IoRec
<1>1. b <= d.w_buf_next
  BY <1>t
<1>2. e = [d EXCEPT !.xfers = Append(d.xfers, x), !.count = c,
                    !.FULL = d.FULL + d.w_buf_curr - b,
                    !.state = "WRITING", !.w_state = "WRITING"]
  BY <1>1 DEF ipcbuf_enable_sod, IoRec
<1>3. c \in [Ring -> Nat]
  <2>1. ASSUME NEW k \in Ring
        PROVE  d.count[k] +
                 Cardinality({j \in b .. d.w_buf_curr - 1 : j % NBufs = k}) \in Nat
    <3>1. d.w_buf_curr - 1 \in Int /\ b \in Int /\ d.count[k] \in Nat
      BY <1>t
    <3>2. Cardinality({j \in b .. d.w_buf_curr - 1 : j % NBufs = k}) \in Nat
      BY <3>1, CountBlocks
    <3> QED
      BY <3>1, <3>2
  <2> QED
    BY <2>1
<1>4. x \in XferRec
  BY RingPlaces DEF XferRec
<1>5. \A k \in Ring :
        c[k] = d.count[k]
          + Cardinality({j \in b .. d.w_buf_curr - 1 : j % NBufs = k})
  OBVIOUS
<1>6. d.FULL + d.w_buf_curr - b \in Nat
  BY <1>t
<1> HIDE DEF c, e
<1>7. /\ Append(d.xfers, x) \in Seq(XferRec)
      /\ Len(Append(d.xfers, x)) = Len(d.xfers) + 1
      /\ \A k \in 1 .. Len(d.xfers) : Append(d.xfers, x)[k] = d.xfers[k]
      /\ Append(d.xfers, x)[Len(d.xfers) + 1] = x
  BY <1>t, <1>4
<1>8. e \in IoRec
  BY ZenonT(40), <1>2, <1>3, <1>6, <1>7 DEF IoRec
<1>9. /\ e.xfers = Append(d.xfers, x) /\ e.count = c
      /\ e.FULL = d.FULL + d.w_buf_curr - b
      /\ e.state = "WRITING" /\ e.w_state = "WRITING"
      /\ e.w_xfer = d.w_xfer /\ e.soclock_buf = d.soclock_buf
      /\ e.w_buf_curr = d.w_buf_curr /\ e.w_buf_next = d.w_buf_next
      /\ e.CLEAR = d.CLEAR /\ e.mem = d.mem
      /\ SameHandle(d, e)
  BY <1>2 DEF IoRec, SameHandle
<1>10. SodRaised(d, e, b, y)
  BY <1>5, <1>7, <1>9 DEF SodRaised
<1> QED
  BY <1>8, <1>9, <1>10 DEF e

(* ipcbuf_get_next_write hands out the next block.                         *)
LEMMA GetEffect ==
  ASSUME NEW d \in IoRec, GetReady(d), d.state # "WCHANGE", ~d.err
  PROVE  LET e == ipcbuf_get_next_write(d) IN
         /\ e \in IoRec
         /\ BlockTaken(d, e) /\ SameHandle(d, e) /\ e.mem = d.mem
         /\ e.state = d.state /\ e.w_state = d.w_state
<1> DEFINE b == d.w_buf_next % NBufs
           c == [d.count EXCEPT ![b] = 0]
           e == ipcbuf_get_next_write(d)
<1>t. /\ d.w_buf_next \in Nat /\ d.CLEAR \in Nat /\ d.count \in [Ring -> Nat]
      /\ b \in Ring /\ d.CLEAR >= d.count[b]
  <2>1. d.w_buf_next \in Nat /\ d.CLEAR \in Nat /\ d.count \in [Ring -> Nat]
    BY DEF IoRec
  <2>2. b \in Ring
    BY <2>1, PlaceInRing
  <2> QED
    BY <2>1, <2>2 DEF GetReady
<1> HIDE DEF b
<1>1. e = [d EXCEPT !.CLEAR = d.CLEAR - d.count[b],
                    !.count = c,
                    !.w_buf_next = d.w_buf_next + 1]
  BY DEF ipcbuf_get_next_write, b, IoRec
<1>2. /\ d.CLEAR - d.count[b] \in Nat /\ c \in [Ring -> Nat]
      /\ \A k \in Ring : c[k] = IF k = b THEN 0 ELSE d.count[k]
  BY <1>t
<1> HIDE DEF c, e
<1>3. e \in IoRec
  <2>1. d.w_buf_next + 1 \in Nat
    BY <1>t
  <2> QED
    BY <2>1, <1>1, <1>2 DEF IoRec
<1>4. /\ e.CLEAR = d.CLEAR - d.count[b] /\ e.count = c
      /\ e.w_buf_next = d.w_buf_next + 1
      /\ e.xfers = d.xfers /\ e.w_xfer = d.w_xfer /\ e.soclock_buf = d.soclock_buf
      /\ e.w_buf_curr = d.w_buf_curr /\ e.FULL = d.FULL /\ e.mem = d.mem
      /\ e.state = d.state /\ e.w_state = d.w_state /\ SameHandle(d, e)
  BY <1>1 DEF IoRec, SameHandle
<1> QED
  BY <1>2, <1>3, <1>4 DEF BlockTaken, b, e

(* Before the first block of a transfer, start of data is raised on it.    *)
LEMMA GetStartsXfer ==
  ASSUME NEW d \in IoRec, d.state = "WCHANGE"
  PROVE  LET e == ipcbuf_enable_sod(d, d.w_buf_curr, 0) IN
         ~e.err /\ e.state # "WCHANGE" /\ e.count = d.count /\ e.CLEAR = d.CLEAR
           /\ e.w_buf_next = d.w_buf_next
         => ipcbuf_get_next_write(d) = ipcbuf_get_next_write(e)
BY DEF ipcbuf_get_next_write

(* ipcbuf_mark_filled outside of a transfer,                               *)
LEMMA ClockEffect ==
  ASSUME NEW d \in IoRec, NEW y \in 0 .. BufSz, d.state = "WRITER"
  PROVE  LET e == ipcbuf_mark_filled(d, y) IN
         /\ e \in IoRec
         /\ BlockClocked(d, e) /\ SameHandle(d, e) /\ e.mem = d.mem
         /\ e.state = d.state /\ e.w_state = d.w_state
<1> DEFINE e == ipcbuf_mark_filled(d, y)
<1>1. e = [d EXCEPT !.w_buf_curr = d.w_buf_curr + 1]
  BY DEF ipcbuf_mark_filled
<1> HIDE DEF e
<1>2. d.w_buf_curr + 1 \in Nat
  BY DEF IoRec
<1>3. e \in IoRec
  BY <1>1, <1>2 DEF IoRec
<1>4. BlockClocked(d, e) /\ SameHandle(d, e) /\ e.mem = d.mem
      /\ e.state = d.state /\ e.w_state = d.w_state
  BY <1>1 DEF BlockClocked, SameHandle, IoRec
<1> QED
  BY <1>3, <1>4 DEF e

(* of a full block of a transfer,                                          *)
LEMMA FillEffect ==
  ASSUME NEW d \in IoRec, d.state = "WRITING"
  PROVE  LET e == ipcbuf_mark_filled(d, BufSz) IN
         /\ e \in IoRec
         /\ BlocksFilled(d, e, 1) /\ SameHandle(d, e) /\ e.mem = d.mem
         /\ e.state = d.state /\ e.w_state = d.w_state
<1> DEFINE b == d.w_buf_curr % NBufs
           c == [d.count EXCEPT ![b] = d.count[b] + 1]
           e == ipcbuf_mark_filled(d, BufSz)
<1>t. /\ d.w_buf_curr \in Nat /\ d.FULL \in Nat /\ d.count \in [Ring -> Nat]
      /\ b \in Ring
  <2>1. d.w_buf_curr \in Nat /\ d.FULL \in Nat /\ d.count \in [Ring -> Nat]
    BY DEF IoRec
  <2>2. b \in Ring
    BY <2>1, PlaceInRing
  <2> QED
    BY <2>1, <2>2
<1> HIDE DEF b
<1>1. e = [d EXCEPT !.count = c, !.w_buf_curr = d.w_buf_curr + 1,
                    !.FULL = d.FULL + 1]
  <2>1. ~(BufSz < BufSz)
    BY RingPlaces
  <2> QED
    BY <2>1 DEF ipcbuf_mark_filled, b, IoRec
<1>2. /\ d.w_buf_curr + 1 \in Nat /\ d.FULL + 1 \in Nat /\ c \in [Ring -> Nat]
      /\ \A k \in Ring : c[k] = d.count[k] + (IF k = b THEN 1 ELSE 0)
  BY <1>t
<1> HIDE DEF c, e
<1>3. e \in IoRec
  BY <1>1, <1>2 DEF IoRec
<1>4. /\ e.count = c /\ e.w_buf_curr = d.w_buf_curr + 1 /\ e.FULL = d.FULL + 1
      /\ e.xfers = d.xfers /\ e.w_xfer = d.w_xfer /\ e.soclock_buf = d.soclock_buf
      /\ e.w_buf_next = d.w_buf_next /\ e.CLEAR = d.CLEAR /\ e.mem = d.mem
      /\ e.state = d.state /\ e.w_state = d.w_state /\ SameHandle(d, e)
  BY <1>1 DEF SameHandle, IoRec
<1>5. \A k : (\E j \in 0 .. 1 - 1 : k = (d.w_buf_curr + j) % NBufs) <=> k = b
  <2>1. \A j \in 0 .. 1 - 1 : j = 0
    OBVIOUS
  <2>2. 0 \in 0 .. 1 - 1 /\ d.w_buf_curr + 0 = d.w_buf_curr
    BY <1>t
  <2> QED
    BY <2>1, <2>2 DEF b
<1> QED
  BY <1>2, <1>3, <1>4, <1>5 DEF BlocksFilled, Handed, e

Ending(d, y) ==
  [d EXCEPT !.xfers[d.w_xfer + 1].e_buf = d.w_buf_curr,
            !.xfers[d.w_xfer + 1].e_byte = y,
            !.xfers[d.w_xfer + 1].eod = TRUE,
            !.w_xfer = d.w_xfer + 1,
            !.state = "WRITER",
            !.w_state = "DISCON"]

(* The entry of the transfer is ended where the writer is.                 *)
LEMMA EndingEffect ==
  ASSUME NEW d \in IoRec, NEW y \in 0 .. BufSz, Len(d.xfers) = d.w_xfer + 1
  PROVE  LET e == Ending(d, y) IN
         /\ e \in IoRec
         /\ Len(e.xfers) = Len(d.xfers)
         /\ \A k \in 1 .. d.w_xfer : e.xfers[k] = d.xfers[k]
         /\ EntryEnded(d.xfers[d.w_xfer + 1], e.xfers[d.w_xfer + 1],
                       d.w_buf_curr, y)
         /\ e.w_xfer = d.w_xfer + 1
         /\ e.state = "WRITER" /\ e.w_state = "DISCON"
         /\ e.soclock_buf = d.soclock_buf /\ e.mem = d.mem
         /\ e.w_buf_curr = d.w_buf_curr /\ e.w_buf_next = d.w_buf_next
         /\ e.count = d.count /\ e.FULL = d.FULL /\ e.CLEAR = d.CLEAR
         /\ SameHandle(d, e)
<1> DEFINE x == d.w_xfer + 1
           t == [d.xfers[x] EXCEPT !.e_buf = d.w_buf_curr, !.e_byte = y, !.eod = TRUE]
           xs == [d.xfers EXCEPT ![x].e_buf = d.w_buf_curr, ![x].e_byte = y,
                                 ![x].eod = TRUE]
           e == Ending(d, y)
<1>1. /\ d.w_buf_curr \in Nat /\ x \in Nat /\ d.w_xfer \in Nat
      /\ d.xfers \in Seq(XferRec) /\ x \in 1 .. Len(d.xfers)
      /\ d.xfers[x] \in XferRec
  <2>1. /\ d.w_buf_curr \in Nat /\ d.w_xfer \in Nat /\ d.xfers \in Seq(XferRec)
    BY DEF IoRec
  <2> QED
    BY <2>1
<1>2. t \in XferRec /\ EntryEnded(d.xfers[x], t, d.w_buf_curr, y)
  <2>1. PICK q \in XferRec : q = d.xfers[x]
    BY <1>1
  <2>2. t = [q EXCEPT !.e_buf = d.w_buf_curr, !.e_byte = y, !.eod = TRUE]
    BY <2>1
  <2>3. t \in XferRec
    BY <1>1, <2>2 DEF XferRec
  <2>4. EntryEnded(q, t, d.w_buf_curr, y)
    BY <2>2 DEF XferRec, EntryEnded
  <2> QED
    BY <2>1, <2>3, <2>4
<1>3. xs = [d.xfers EXCEPT ![x] = t]
  BY <1>1
<1>4. e.xfers = xs
  BY DEF IoRec, Ending
<1>5. /\ DOMAIN e = DOMAIN d
      /\ e.w_xfer = x /\ e.state = "WRITER" /\ e.w_state = "DISCON"
      /\ e.soclock_buf = d.soclock_buf /\ e.mem = d.mem
      /\ e.w_buf_curr = d.w_buf_curr /\ e.w_buf_next = d.w_buf_next
      /\ e.count = d.count /\ e.FULL = d.FULL /\ e.CLEAR = d.CLEAR
      /\ SameHandle(d, e)
  BY DEF IoRec, Ending, SameHandle
<1> HIDE DEF xs, t
<1>6. /\ xs \in Seq(XferRec) /\ Len(xs) = Len(d.xfers) /\ xs[x] = t
      /\ \A k \in 1 .. d.w_xfer : xs[k] = d.xfers[k]
  BY <1>1, <1>2, <1>3
<1>7. e \in IoRec
  BY ZenonT(40), <1>1, <1>4, <1>6 DEF IoRec, Ending
<1> QED
  BY <1>2, <1>4, <1>5, <1>6, <1>7

(* ipcbuf_mark_filled of the last block of a transfer: if no byte of it    *)
(* was written, it is taken before it is filled.                           *)
LEMMA EodEffect ==
  ASSUME NEW d \in IoRec, NEW y \in 0 .. BufSz, Len(d.xfers) = d.w_xfer + 1,
         d.state = "WCHANGE" \/ (d.state = "WRITING" /\ y < BufSz),
         ~d.err, y = 0 => GetReady(d)
  PROVE  LET e == ipcbuf_mark_filled(d, y) IN
         /\ e \in IoRec
         /\ SameHandle(d, e) /\ e.mem = d.mem
         /\ e.state = "WRITER" /\ e.w_state = "DISCON"
         /\ \E m \in IoRec :
              /\ IF y = 0 THEN BlockTaken(d, m) ELSE SameRing(d, m)
              /\ m.mem = d.mem
              /\ EodRaised(m, e, y)
<1> DEFINE b == d.w_buf_curr % NBufs
           p == d.w_buf_next % NBufs
           g == Ending(d, y)
           f == IF y = 0 THEN ipcbuf_get_next_write(g) ELSE g
           c == [f.count EXCEPT ![b] = f.count[b] + 1]
           m == [d EXCEPT !.CLEAR = f.CLEAR, !.count = f.count,
                          !.w_buf_next = f.w_buf_next]
           e == ipcbuf_mark_filled(d, y)
<1>t. /\ d.w_buf_curr \in Nat /\ d.FULL \in Nat /\ b \in Ring /\ d.w_xfer \in Nat
      /\ d.w_buf_next \in Nat /\ p \in Ring
  <2>1. d.w_buf_curr \in Nat /\ d.FULL \in Nat /\ d.w_xfer \in Nat /\ d.w_buf_next \in Nat
    BY DEF IoRec
  <2>2. b \in Ring /\ p \in Ring
    BY <2>1, PlaceInRing
  <2> QED
    BY <2>1, <2>2
<1>1. /\ g \in IoRec /\ Len(g.xfers) = Len(d.xfers)
      /\ \A k \in 1 .. d.w_xfer : g.xfers[k] = d.xfers[k]
      /\ EntryEnded(d.xfers[d.w_xfer + 1], g.xfers[d.w_xfer + 1], d.w_buf_curr, y)
      /\ g.w_xfer = d.w_xfer + 1
      /\ g.state = "WRITER" /\ g.w_state = "DISCON"
      /\ g.soclock_buf = d.soclock_buf /\ g.mem = d.mem
      /\ g.w_buf_curr = d.w_buf_curr /\ g.w_buf_next = d.w_buf_next
      /\ g.count = d.count /\ g.FULL = d.FULL /\ g.CLEAR = d.CLEAR
      /\ SameHandle(d, g)
  BY EndingEffect
<1>2. e = [f EXCEPT !.count = c, !.w_buf_curr = f.w_buf_curr + 1, !.FULL = f.FULL + 1]
  <2>1. d.state # "WRITER" /\ (d.state = "WCHANGE" \/ y < BufSz)
    OBVIOUS
  <2>2. CASE y = 0
    <3>1. f = ipcbuf_get_next_write(g)
      BY <2>2
    <3>2. e = [f EXCEPT !.count[b] = @ + 1, !.w_buf_curr = @ + 1, !.FULL = @ + 1]
      BY <2>1, <2>2, <3>1 DEF ipcbuf_mark_filled, Ending
    <3> HIDE DEF e, f, b
    <3> QED
      BY <3>2
  <2>3. CASE y # 0
    <3>1. f = g
      BY <2>3
    <3>2. e = [f EXCEPT !.count[b] = @ + 1, !.w_buf_curr = @ + 1, !.FULL = @ + 1]
      BY <2>1, <2>3, <3>1 DEF ipcbuf_mark_filled, Ending
    <3> HIDE DEF e, f, b
    <3> QED
      BY <3>2
  <2> QED
    BY <2>2, <2>3
<1> HIDE DEF g
<1>3. /\ f \in IoRec /\ f.mem = d.mem /\ f.state = "WRITER" /\ f.w_state = "DISCON"
      /\ SameHandle(d, f) /\ f.xfers = g.xfers /\ f.w_xfer = d.w_xfer + 1
      /\ f.soclock_buf = d.soclock_buf /\ f.w_buf_curr = d.w_buf_curr
      /\ f.FULL = d.FULL
      /\ IF y = 0 THEN BlockTaken(g, f)
                  ELSE f.count = d.count /\ f.CLEAR = d.CLEAR /\ f.w_buf_next = d.w_buf_next
  <2>1. CASE y = 0
    <3>1. GetReady(g) /\ g.state # "WCHANGE" /\ ~g.err
      BY <1>1, <2>1 DEF GetReady, SameHandle
    <3>2. f = ipcbuf_get_next_write(g)
      BY <2>1
    <3> HIDE DEF f
    <3>3. f \in IoRec /\ BlockTaken(g, f) /\ SameHandle(g, f) /\ f.mem = g.mem
          /\ f.state = g.state /\ f.w_state = g.w_state
      BY <1>1, <3>1, <3>2, GetEffect
    <3>4. SameHandle(d, f)
      BY <1>1, <3>3 DEF SameHandle
    <3> QED
      BY <1>1, <2>1, <3>3, <3>4 DEF BlockTaken
  <2>2. CASE y # 0
    <3>1. f = g
      BY <2>2
    <3> HIDE DEF f
    <3> QED
      BY <1>1, <2>2, <3>1
  <2> QED
    BY <2>1, <2>2
<1> HIDE DEF f, b
<1>4. /\ f.count \in [Ring -> Nat] /\ f.CLEAR \in Nat /\ f.w_buf_next \in Nat
      /\ f.FULL \in Nat
  BY <1>3 DEF IoRec
<1>5. /\ c \in [Ring -> Nat] /\ f.w_buf_curr + 1 \in Nat /\ f.FULL + 1 \in Nat
      /\ \A k \in Ring : c[k] = f.count[k] + (IF k = b THEN 1 ELSE 0)
  <2>1. f.w_buf_curr \in Nat /\ b \in Ring
    BY <1>t, <1>3
  <2> QED
    BY <2>1, <1>4
<1> HIDE DEF c, e
<1>6. e \in IoRec
  BY <1>2, <1>3, <1>5 DEF IoRec
<1>7. /\ e.count = c /\ e.w_buf_curr = f.w_buf_curr + 1 /\ e.FULL = f.FULL + 1
      /\ e.xfers = f.xfers /\ e.w_xfer = f.w_xfer /\ e.soclock_buf = f.soclock_buf
      /\ e.w_buf_next = f.w_buf_next /\ e.CLEAR = f.CLEAR /\ e.mem = f.mem
      /\ e.state = f.state /\ e.w_state = f.w_state /\ SameHandle(f, e)
  BY <1>2, <1>3 DEF SameHandle, IoRec
<1>8. SameHandle(d, e)
  BY <1>3, <1>7 DEF SameHandle
<1>9. /\ m \in IoRec /\ m.mem = d.mem /\ m.count = f.count /\ m.CLEAR = f.CLEAR
      /\ m.w_buf_next = f.w_buf_next /\ m.w_buf_curr = d.w_buf_curr
      /\ m.FULL = d.FULL /\ m.xfers = d.xfers /\ m.w_xfer = d.w_xfer
      /\ m.soclock_buf = d.soclock_buf
  BY <1>4 DEF IoRec
<1> HIDE DEF m
<1>10. IF y = 0 THEN BlockTaken(d, m) ELSE SameRing(d, m)
  BY <1>1, <1>3, <1>9 DEF BlockTaken, SameRing
<1>11. EodRaised(m, e, y)
  <2>1. \A k : (\E j \in 0 .. 1 - 1 : k = (d.w_buf_curr + j) % NBufs) <=> k = b
    <3>1. \A j \in 0 .. 1 - 1 : j = 0
      OBVIOUS
    <3>2. 0 \in 0 .. 1 - 1 /\ d.w_buf_curr + 0 = d.w_buf_curr
      BY <1>t
    <3> QED
      BY <3>1, <3>2 DEF b
  <2>2. Handed(m, e, 1)
    BY <1>3, <1>5, <1>7, <1>9, <2>1 DEF Handed
  <2> QED
    BY <1>1, <1>3, <1>7, <1>9, <2>2 DEF EodRaised
<1> QED
  BY <1>3, <1>6, <1>7, <1>8, <1>9, <1>10, <1>11 DEF e

-----------------------------------------------------------------------------
(***************************************************************************)
(* The transfers and the tokens.                                           *)
(***************************************************************************)
LEMMA IoTypes ==
  ASSUME NEW d \in IoRec
  PROVE  /\ d.w_buf_curr \in Nat /\ d.w_buf_next \in Nat /\ d.w_xfer \in Nat
         /\ d.soclock_buf \in Nat /\ d.FULL \in Nat /\ d.CLEAR \in Nat
         /\ d.count \in [Ring -> Nat]
         /\ d.xfers \in Seq(XferRec) /\ Len(d.xfers) \in Nat
         /\ d.bytes \in 0 .. BufSz /\ d.sod_buf \in Nat /\ d.sod_byte \in Nat
         /\ d.buf_ptrs \in Seq(Ring) /\ Len(d.buf_ptrs) \in Nat
         /\ d.mem \in [Ring -> [0 .. BufSz - 1 -> Nat]]
BY DEF IoRec

(* The types of an entry of the transfer table.                            *)
LEMMA XferTypes ==
  ASSUME NEW d \in IoRec, NEW k \in 1 .. Len(d.xfers)
  PROVE  /\ d.xfers[k].s_buf \in Nat /\ d.xfers[k].e_buf \in Nat
         /\ d.xfers[k].s_byte \in 0 .. BufSz /\ d.xfers[k].e_byte \in 0 .. BufSz
         /\ d.xfers[k].eod \in BOOLEAN
<1>1. d.xfers[k] \in XferRec
  BY IoTypes
<1> QED
  BY <1>1 DEF XferRec

(* The blocks before Base(d) are those of the transfers that ended.        *)
LEMMA TableNumbers ==
  ASSUME NEW d \in IoRec, Table(d)
  PROVE  /\ \A k \in 1 .. d.w_xfer : k \in 1 .. Len(d.xfers)
         /\ Base(d) \in Nat /\ Base(d) <= d.w_buf_curr /\ Base(d) <= d.w_buf_next
         /\ \A k \in 1 .. d.w_xfer : d.xfers[k].e_buf < Base(d)
<1>t. d.w_buf_curr \in Nat /\ d.w_buf_next \in Nat /\ d.w_xfer \in Nat /\ Len(d.xfers) \in Nat
  BY IoTypes
<1>1. \A k \in 1 .. d.w_xfer : k \in 1 .. Len(d.xfers)
  BY <1>t DEF Table
<1>2. Base(d) \in Nat /\ Base(d) <= d.w_buf_curr
  <2>1. CASE d.w_xfer = 0
    BY <1>t, <2>1 DEF Base
  <2>2. CASE d.w_xfer # 0
    <3>1. d.w_xfer \in 1 .. d.w_xfer
      BY <1>t, <2>2
    <3>2. d.xfers[d.w_xfer].e_buf \in Nat /\ d.xfers[d.w_xfer].e_buf < d.w_buf_curr
      BY <1>1, <3>1, XferTypes DEF Table
    <3> QED
      BY <1>t, <2>2, <3>2 DEF Base
  <2> QED
    BY <2>1, <2>2
<1>3. d.w_buf_curr <= d.w_buf_next
  BY DEF Table
<1>4. ASSUME NEW k \in 1 .. d.w_xfer PROVE d.xfers[k].e_buf < Base(d)
  <2>1. d.w_xfer \in 1 .. d.w_xfer /\ d.w_xfer # 0
    BY <1>t
  <2>2. /\ d.xfers[k].e_buf \in Nat /\ d.xfers[d.w_xfer].e_buf \in Nat
        /\ d.xfers[d.w_xfer].s_buf \in Nat
    BY <1>1, <2>1, XferTypes
  <2>3. Base(d) = d.xfers[d.w_xfer].e_buf + 1
    BY <2>1 DEF Base
  <2>4. CASE k = d.w_xfer
    BY <2>2, <2>3, <2>4
  <2>5. CASE k # d.w_xfer
    <3>1. k \in 1 .. d.w_xfer - 1
      BY <1>t, <2>5
    <3>2. d.xfers[k].e_buf < d.xfers[d.w_xfer].s_buf
      BY <1>1, <2>1, <3>1 DEF Table
    <3>3. d.xfers[d.w_xfer].s_buf <= d.xfers[d.w_xfer].e_buf
      BY <2>1 DEF Table
    <3> QED
      BY <2>2, <2>3, <3>2, <3>3
  <2> QED
    BY <2>4, <2>5
<1> QED
  BY <1>t, <1>1, <1>2, <1>3, <1>4

(* A later transfer lies behind an earlier one.                            *)
LEMMA XferOrder ==
  ASSUME NEW d \in IoRec, Table(d), NEW k \in 1 .. Len(d.xfers),
         NEW j \in 1 .. d.w_xfer, j < k
  PROVE  d.xfers[j].e_buf < d.xfers[k].s_buf
<1>1. j \in 1 .. k - 1
  BY IoTypes
<1> QED
  BY <1>1 DEF Table

(* Used blocks come before the one that is filled next.                    *)
LEMMA UsedNumbers ==
  ASSUME NEW d \in IoRec, Table(d)
  PROVE  /\ \A b \in UsedBlocks(d) : b \in Nat /\ b < d.w_buf_curr
         /\ Len(d.xfers) = d.w_xfer => \A b \in UsedBlocks(d) : b < Base(d)
<1>t. d.w_buf_curr \in Nat /\ d.w_xfer \in Nat
  BY IoTypes
<1>1. \A b \in UsedBlocks(d) : b \in Nat /\ b < d.w_buf_curr
  BY <1>t DEF UsedBlocks
<1>2. ASSUME Len(d.xfers) = d.w_xfer, NEW b \in UsedBlocks(d)
      PROVE  b < Base(d)
  <2>1. PICK k \in 1 .. Len(d.xfers) : InTransfer(d, k, b)
    BY DEF UsedBlocks
  <2>2. k \in 1 .. d.w_xfer /\ k <= d.w_xfer
    BY <1>t, <1>2, <2>1
  <2>3. b <= d.xfers[k].e_buf
    BY <2>1, <2>2 DEF InTransfer
  <2>4. d.xfers[k].e_buf < Base(d) /\ Base(d) \in Nat /\ d.xfers[k].e_buf \in Nat
    BY <2>2, TableNumbers, XferTypes
  <2> QED
    BY <1>1, <2>3, <2>4
<1> QED
  BY <1>1, <1>2

(* The types of the fields of the reader's handle.                         *)
LEMMA ReaderTypes ==
  ASSUME NEW r \in ReaderRec
  PROVE  /\ r.r_buf \in Nat /\ r.r_xfer \in Nat /\ r.bytes \in Nat
         /\ r.start \in 0 .. BufSz /\ r.curbufsz \in 0 .. BufSz
         /\ r.curbuf \in Ring \cup {NoBuf}
         /\ r.state \in {"READER", "READING", "RSTOP"}
BY DEF ReaderRec

(* The first block the reader has not cleared is one the writer has yet to *)
(* fill or the reader has yet to read.                                     *)
LEMMA DueNumbers ==
  ASSUME NEW d \in IoRec, NEW r \in ReaderRec, Table(d), Place(r, d)
  PROVE  /\ Due(r, d) \in Nat /\ Due(r, d) <= d.w_buf_curr
         /\ r.state # "READING" => Due(r, d) <= Base(d)
         /\ Len(d.xfers) = d.w_xfer => Due(r, d) <= Base(d)
<1>t. /\ d.w_buf_curr \in Nat /\ d.w_xfer \in Nat /\ r.r_xfer \in Nat /\ r.r_buf \in Nat
      /\ Len(d.xfers) \in Nat
      /\ Base(d) \in Nat /\ Base(d) <= d.w_buf_curr
  BY IoTypes, ReaderTypes, TableNumbers
<1>1. CASE r.state = "READING"
  <2>1. Due(r, d) = r.r_buf /\ r.r_buf <= d.w_buf_curr
    BY <1>1 DEF Due, Place
  <2>2. ASSUME Len(d.xfers) = d.w_xfer PROVE r.r_buf <= Base(d)
    <3>1. /\ r.r_xfer + 1 <= d.w_xfer /\ InTransfer(d, r.r_xfer + 1, r.r_buf)
      BY <1>1, <2>2 DEF Place
    <3>2. r.r_buf <= d.xfers[r.r_xfer + 1].e_buf
      BY <3>1 DEF InTransfer
    <3>3. r.r_xfer + 1 \in 1 .. d.w_xfer
      BY <1>t, <3>1
    <3>4. d.xfers[r.r_xfer + 1].e_buf < Base(d) /\ d.xfers[r.r_xfer + 1].e_buf \in Nat
      BY <3>3, TableNumbers, XferTypes
    <3> QED
      BY <1>t, <3>2, <3>4
  <2> QED
    BY <1>t, <1>1, <2>1, <2>2
<1>2. CASE r.state # "READING" /\ r.r_xfer = 0
  BY <1>t, <1>2 DEF Due
<1>3. CASE r.state # "READING" /\ r.r_xfer # 0
  <2>1. r.r_xfer \in 1 .. d.w_xfer
    BY <1>t, <1>3 DEF Place
  <2> DEFINE b == d.xfers[r.r_xfer].e_buf
  <2>2. b < Base(d) /\ b \in Nat
    BY <2>1, TableNumbers, XferTypes
  <2>3. Due(r, d) = b + 1
    BY <1>3 DEF Due
  <2> HIDE DEF b
  <2>4. b + 1 \in Nat /\ b + 1 <= Base(d) /\ b + 1 <= d.w_buf_curr
    BY <1>t, <2>2
  <2> QED
    BY <1>3, <2>3, <2>4
<1> QED
  BY <1>1, <1>2, <1>3

(* Base(d) is what the entries of the ended transfers say.                 *)
LEMMA SameBase ==
  ASSUME NEW d, NEW e, e.w_xfer = d.w_xfer,
         d.w_xfer = 0 \/ e.xfers[d.w_xfer] = d.xfers[d.w_xfer]
  PROVE  Base(e) = Base(d)
BY DEF Base

(* Start of data is raised in block b, which is still in the ring.         *)
LEMMA RingSod ==
  ASSUME NEW r \in ReaderRec, NEW d \in IoRec, NEW e \in IoRec,
         NEW b \in Nat, NEW y \in 0 .. BufSz,
         RingOK(r, d), SodRaised(d, e, b, y), Len(d.xfers) = d.w_xfer,
         y < BufSz, b >= Base(d), b > d.w_buf_next - NBufs, b <= d.w_buf_curr,
         d.w_buf_curr = 0 \/ b > 0, b = d.w_buf_curr => y = 0
  PROVE  RingOK(r, e)
<1> DEFINE C == d.w_buf_curr
           N == d.w_buf_next
           L == Len(d.xfers)
           U == UsedBlocks(d)
           D == Due(r, d)
<1>r. Table(d) /\ Place(r, d) /\ Tokens(r, d)
  BY DEF RingOK
<1>t. /\ C \in Nat /\ N \in Nat /\ L \in Nat /\ d.w_xfer = L /\ C <= N
      /\ Base(d) \in Nat /\ Base(d) <= C /\ NBufs \in Nat \ {0}
      /\ \A k \in 1 .. L : k \in 1 .. Len(e.xfers)
      /\ Len(e.xfers) = L + 1 /\ L + 1 \in 1 .. Len(e.xfers)
      /\ \A k \in 1 .. Len(e.xfers) : k = L + 1 \/ k \in 1 .. L
  <2>1. /\ C \in Nat /\ N \in Nat /\ L \in Nat /\ d.w_xfer = L
        /\ Base(d) \in Nat /\ Base(d) <= C /\ NBufs \in Nat \ {0}
    BY <1>r, IoTypes, TableNumbers, RingPlaces
  <2>2. C <= N
    BY <1>r DEF Table
  <2>3. Len(e.xfers) = L + 1
    BY DEF SodRaised
  <2> QED
    BY <2>1, <2>2, <2>3
<1>d. D \in Nat /\ D <= Base(d) /\ D <= b /\ D <= C
  <2>1. D \in Nat /\ D <= Base(d)
    BY <1>r, DueNumbers
  <2> QED
    BY <1>t, <2>1
<1>x. /\ \A k \in 1 .. L : e.xfers[k] = d.xfers[k]
      /\ e.xfers[L + 1].s_buf = b /\ e.xfers[L + 1].s_byte = y
      /\ e.xfers[L + 1].eod = (C # 0) /\ e.xfers[L + 1].e_buf = 0
      /\ e.w_buf_curr = C /\ e.w_buf_next = N /\ e.w_xfer = L
  BY <1>t DEF SodRaised
<1>b. Base(e) = Base(d)
  <2>1. e.w_xfer = d.w_xfer /\ (d.w_xfer = 0 \/ d.w_xfer \in 1 .. L)
    BY <1>t, <1>x
  <2> QED
    BY <1>x, <2>1, SameBase
<1>1. Table(e)
  <2>1. Len(e.xfers) \in {e.w_xfer, e.w_xfer + 1}
    BY <1>t, <1>x
  <2>2. ASSUME NEW k \in 1 .. Len(e.xfers)
        PROVE  /\ e.xfers[k].s_byte < BufSz
               /\ e.xfers[k].s_buf <= e.w_buf_curr
               /\ \A j \in 1 .. k - 1 : e.xfers[j].e_buf < e.xfers[k].s_buf
    <3>1. CASE k \in 1 .. L
      <4>1. \A j \in 1 .. k - 1 : j \in 1 .. L
        BY <1>t, <3>1
      <4> QED
        BY <1>r, <1>x, <3>1, <4>1 DEF Table
    <3>2. CASE k = L + 1
      <4>1. ASSUME NEW j \in 1 .. k - 1 PROVE e.xfers[j].e_buf < b
        <5>1. j \in 1 .. d.w_xfer
          BY <1>t, <3>2
        <5>2. d.xfers[j].e_buf < Base(d) /\ d.xfers[j].e_buf \in Nat
          BY <1>r, <1>t, <5>1, TableNumbers, XferTypes
        <5>3. e.xfers[j] = d.xfers[j]
          BY <1>t, <1>x, <5>1
        <5> QED
          BY <1>t, <5>2, <5>3
      <4> QED
        BY <1>t, <1>x, <3>2, <4>1
    <3> QED
      BY <1>t, <3>1, <3>2
  <2>3. ASSUME NEW k \in 1 .. e.w_xfer
        PROVE  /\ e.xfers[k].eod
               /\ e.xfers[k].s_buf <= e.xfers[k].e_buf
               /\ e.xfers[k].e_buf < e.w_buf_curr
               /\ e.xfers[k].s_buf = e.xfers[k].e_buf
                    => e.xfers[k].s_byte < e.xfers[k].e_byte
    BY <1>r, <1>t, <1>x DEF Table
  <2>4. ASSUME NEW k \in e.w_xfer + 1 .. Len(e.xfers)
        PROVE  /\ e.xfers[k].eod => e.xfers[k].e_buf = 0 /\ e.xfers[k].s_buf > 0
               /\ e.xfers[k].s_buf = e.w_buf_curr => e.xfers[k].s_byte = 0
    <3>1. k = L + 1
      BY <1>t, <1>x
    <3> QED
      BY <1>x, <3>1
  <2>5. /\ e.soclock_buf <= Base(e) /\ e.w_buf_curr <= e.w_buf_next
        /\ e.w_buf_next - e.w_buf_curr < NBufs
    BY <1>r, <1>b DEF Table, SodRaised
  <2> QED
    BY <2>1, <2>2, <2>3, <2>4, <2>5 DEF Table
<1>i. \A k \in 1 .. L : \A c : InTransfer(e, k, c) <=> InTransfer(d, k, c)
  BY <1>t, <1>x DEF InTransfer
<1>2. Place(r, e) /\ Due(r, e) = D
  <2>1. r.state = "READING" => r.r_xfer + 1 \in 1 .. L
    <3>1. r.r_xfer \in Nat
      BY ReaderTypes
    <3>2. r.state = "READING" => r.r_xfer + 1 <= L
      BY <1>r DEF Place
    <3> QED
      BY SMTT(30), <1>t, <3>1, <3>2
  <2>2. r.state # "READING" => r.r_xfer = 0 \/ r.r_xfer \in 1 .. L
    BY <1>r, <1>t, ReaderTypes DEF Place
  <2>3. r.curbuf # NoBuf => r.state = "READING"
    BY <1>r DEF Place
  <2>4. Due(r, e) = D
    BY <1>x, <2>2 DEF Due
  <2>5. r.state = "READING" =>
          r.r_xfer + 1 <= Len(e.xfers) /\ InTransfer(e, r.r_xfer + 1, r.r_buf)
    BY <1>r, <1>t, <1>i, <2>1 DEF Place
  <2>6. r.state = "READING" => e.xfers[r.r_xfer + 1] = d.xfers[r.r_xfer + 1]
    BY <1>x, <2>1
  <2> QED
    BY <1>r, <1>t, <1>x, <2>3, <2>4, <2>5, <2>6 DEF Place
<1>3. UsedBlocks(e) = U \cup (b .. C - 1)
  <2>1. ASSUME NEW c \in UsedBlocks(e) PROVE c \in U \cup (b .. C - 1)
    <3>1. c \in 0 .. C - 1
      BY <1>x DEF UsedBlocks
    <3>2. PICK k \in 1 .. Len(e.xfers) : InTransfer(e, k, c)
      BY DEF UsedBlocks
    <3>3. CASE k = L + 1
      BY <1>t, <1>x, <3>1, <3>2, <3>3 DEF InTransfer
    <3>4. CASE k \in 1 .. L
      BY <1>i, <3>1, <3>2, <3>4 DEF UsedBlocks
    <3> QED
      BY <1>t, <3>3, <3>4
  <2>2. ASSUME NEW c \in U PROVE c \in UsedBlocks(e)
    <3>1. PICK k \in 1 .. L : InTransfer(d, k, c)
      BY DEF UsedBlocks
    <3>2. c \in 0 .. e.w_buf_curr - 1
      BY <1>x DEF UsedBlocks
    <3> QED
      BY <1>t, <1>i, <3>1, <3>2 DEF UsedBlocks
  <2>3. ASSUME NEW c \in b .. C - 1 PROVE c \in UsedBlocks(e)
    <3>1. InTransfer(e, L + 1, c)
      BY <1>t, <1>x, <2>3 DEF InTransfer
    <3>2. c \in 0 .. e.w_buf_curr - 1
      BY <1>t, <1>x
    <3> QED
      BY <1>t, <3>1, <3>2 DEF UsedBlocks
  <2> QED
    BY <2>1, <2>2, <2>3
<1>u. \A c \in U : c \in Nat /\ c < Base(d) /\ c < b
  <2>1. \A c \in U : c \in Nat /\ c < Base(d)
    BY <1>r, UsedNumbers
  <2> QED
    BY <1>t, <2>1
<1> DEFINE V == UsedBlocks(e)
<1>4. e.FULL + (IF r.curbuf = NoBuf THEN 0 ELSE 1) = HowMany(V, D, C)
  <2>1. HowMany(V, D, C) = HowMany(U, D, C) + (C - b)
    <3>0. D \in Int /\ b \in Int /\ C \in Int /\ D <= b /\ b <= C
          /\ \A c \in U : c \in Int /\ c < b
      BY <1>t, <1>d, <1>u
    <3> HIDE DEF V, U, D, C
    <3>1. HowMany(U \cup (b .. C - 1), D, C) = HowMany(U, D, C) + (C - b)
      BY <3>0, AddedRun
    <3> QED
      BY <1>3, <3>1 DEF V, U, C
  <2>2. d.FULL + (IF r.curbuf = NoBuf THEN 0 ELSE 1) = HowMany(U, D, C)
    BY <1>r DEF Tokens
  <2>3. e.FULL = d.FULL + C - b /\ d.FULL \in Nat
    BY IoTypes DEF SodRaised
  <2>4. HowMany(U, D, C) \in Nat
    BY <1>t, <1>d, AmongFinite
  <2> HIDE DEF V, U, D
  <2> QED
    BY SMTT(30), <1>t, <2>1, <2>2, <2>3, <2>4
<1>5. PICK from \in N - NBufs .. N : TakenBack(r, d, from)
  BY <1>r DEF Tokens
<1>6. TakenBack(r, e, from)
  <2>1. from \in Int /\ N - NBufs \in Int /\ N - NBufs < b
        /\ (from = N - NBufs \/ from <= Base(d)) /\ N - NBufs <= from
    BY <1>t, <1>5 DEF TakenBack
  <2>2. from <= b
    BY <1>t, <2>1
  <2>3. e.CLEAR = HowMany(V, from, D)
    <3>1. Among(V, from, D) = Among(U, from, D)
      <4>1. \A c \in V : c \in U \/ (c \in Int /\ c >= D)
        BY <1>t, <1>d, <1>3
      <4>2. U \subseteq V
        BY <1>3
      <4> HIDE DEF U, V, D
      <4> QED
        BY <1>d, <2>1, <4>1, <4>2, AddedBeyond
    <3>2. e.CLEAR = d.CLEAR /\ d.CLEAR = HowMany(U, from, D)
      BY <1>5 DEF SodRaised, TakenBack
    <3> QED
      BY <3>1, <3>2 DEF HowMany
  <2>4. Among(V, D, from) = {}
    <3>1. Among(U, D, from) = {}
      BY <1>5 DEF TakenBack
    <3>2. \A c \in b .. C - 1 : ~(c < from)
      BY <1>t, <2>1, <2>2
    <3>3. ASSUME NEW c \in Among(V, D, from) PROVE FALSE
      <4>1. c \in V /\ c \in D .. from - 1
        BY DEF Among
      <4>2. c < from
        BY <1>d, <2>1, <4>1
      <4>3. c \in U
        BY <1>3, <3>2, <4>1, <4>2
      <4> QED
        BY <3>1, <4>1, <4>3 DEF Among
    <3> QED
      BY <3>3
  <2>5. ASSUME NEW c \in N - NBufs .. N - 1
        PROVE  e.count[c % NBufs] = IF c >= from /\ c \in V THEN 1 ELSE 0
    <3> DEFINE p == c % NBufs
               F == {j \in b .. C - 1 : j % NBufs = p}
    <3>0. c \in Int
      BY <1>t
    <3>1. p \in Ring
      BY <3>0, PlaceInRing
    <3>2. e.count[p] = d.count[p] + Cardinality(F)
      BY <3>1 DEF SodRaised
    <3>3. d.count[p] = IF c >= from /\ c \in U THEN 1 ELSE 0
      BY <1>5, <2>5 DEF TakenBack
    <3>4. ASSUME NEW j \in F PROVE j = c
      <4>1. j % NBufs = c % NBufs /\ j \in b .. C - 1
        OBVIOUS
      <4>0. j \in b .. C - 1
        BY <4>1
      <4> HIDE DEF F, p
      <4>4. j \in Int /\ N - NBufs <= j /\ j <= N - 1
        <5>1. /\ N - NBufs < b /\ b \in Int /\ C \in Int /\ N \in Int /\ NBufs \in Int
              /\ C <= N
          BY <1>t, <2>1
        <5> HIDE DEF N, C
        <5>2. j \in Int /\ b <= j /\ j <= C - 1
          BY <4>0, <5>1
        <5> QED
          BY <5>1, <5>2
      <4>2. j \in N - NBufs .. (N - NBufs) + NBufs - 1
            /\ c \in N - NBufs .. (N - NBufs) + NBufs - 1
        BY <1>t, <4>4
      <4>3. N - NBufs \in Int /\ NBufs \in Nat \ {0}
        BY <1>t
      <4> HIDE DEF F, p, N, C
      <4> QED
        BY <4>1, <4>2, <4>3, OwnPlaceAmong
    <3>5. CASE c \in b .. C - 1
      <4>1. F = {c}
        BY <3>4, <3>5
      <4>2. Cardinality(F) = 1
        BY <4>1, FS_Singleton
      <4>3. c \notin U /\ c \in V /\ c >= from
        BY SMTT(30), <1>t, <1>3, <1>u, <2>1, <2>2, <3>5
      <4>4. Cardinality(F) \in Nat
        BY <4>2
      <4> HIDE DEF F, U, V
      <4> QED
        BY <3>2, <3>3, <4>2, <4>3
    <3>6. CASE c \notin b .. C - 1
      <4>1. F = {}
        BY <3>4, <3>6
      <4>2. Cardinality(F) = 0
        BY <4>1, FS_EmptySet
      <4>3. c \in V <=> c \in U
        BY <1>3, <3>6
      <4> HIDE DEF F, U, V
      <4> QED
        BY <3>2, <3>3, <4>2, <4>3
    <3> QED
      BY <3>5, <3>6
  <2> QED
    BY <1>2, <1>b, <1>x, <2>1, <2>3, <2>4, <2>5 DEF TakenBack
<1>7. Tokens(r, e)
  BY <1>2, <1>4, <1>5, <1>6, <1>x DEF Tokens
<1> QED
  BY <1>1, <1>2, <1>7 DEF RingOK

(* The table stays and more blocks are filled.                             *)
LEMMA PlaceKept ==
  ASSUME NEW r \in ReaderRec, NEW d \in IoRec, NEW e \in IoRec, Place(r, d),
         e.xfers = d.xfers, e.w_xfer = d.w_xfer, d.w_buf_curr <= e.w_buf_curr
  PROVE  /\ Place(r, e) /\ Due(r, e) = Due(r, d) /\ Base(e) = Base(d)
         /\ \A k, b : InTransfer(e, k, b) <=> InTransfer(d, k, b)
<1>1. Due(r, e) = Due(r, d) /\ Base(e) = Base(d)
  BY DEF Due, Base
<1>2. \A k, b : InTransfer(e, k, b) <=> InTransfer(d, k, b)
  BY DEF InTransfer
<1>3. Place(r, e)
  <2>1. d.w_buf_curr \in Nat /\ e.w_buf_curr \in Nat /\ r.r_buf \in Nat
    BY IoTypes, ReaderTypes
  <2> QED
    BY <1>2, <2>1 DEF Place
<1> QED
  BY <1>1, <1>2, <1>3

(* The next block is taken: its token goes with it, if it has one.         *)
LEMMA RingGet ==
  ASSUME NEW r \in ReaderRec, NEW d \in IoRec, NEW e \in IoRec,
         RingOK(r, d), BlockTaken(d, e), GetReady(d),
         d.w_buf_next - d.w_buf_curr < NBufs - 1
  PROVE  RingOK(r, e)
<1> DEFINE C == d.w_buf_curr
           N == d.w_buf_next
           U == UsedBlocks(d)
           D == Due(r, d)
           o == N - NBufs
<1>r. Table(d) /\ Place(r, d) /\ Tokens(r, d)
  BY DEF RingOK
<1>t. /\ C \in Nat /\ N \in Nat /\ C <= N /\ NBufs \in Nat \ {0}
      /\ d.CLEAR \in Nat /\ e.CLEAR \in Nat
      /\ Base(d) \in Nat /\ Base(d) <= C
      /\ D \in Nat /\ D <= C /\ N - C < NBufs - 1 /\ o \in Int
      /\ \A b \in U : b \in Nat /\ b < C
  <2>1. C <= N
    BY <1>r DEF Table
  <2>2. /\ C \in Nat /\ N \in Nat /\ NBufs \in Nat \ {0}
        /\ d.CLEAR \in Nat /\ e.CLEAR \in Nat
    BY IoTypes, RingPlaces
  <2>3. Base(d) \in Nat /\ Base(d) <= C /\ D \in Nat /\ D <= C
    BY <1>r, TableNumbers, DueNumbers
  <2>4. \A b \in U : b \in Nat /\ b < C
    BY <1>r, UsedNumbers
  <2> QED
    BY <2>1, <2>2, <2>3, <2>4
<1>x. /\ e.xfers = d.xfers /\ e.w_xfer = d.w_xfer /\ e.soclock_buf = d.soclock_buf
      /\ e.w_buf_curr = C /\ e.w_buf_next = N + 1 /\ e.FULL = d.FULL
      /\ e.CLEAR = d.CLEAR - d.count[N % NBufs]
      /\ \A k \in Ring : e.count[k] = IF k = N % NBufs THEN 0 ELSE d.count[k]
  BY DEF BlockTaken
<1>1. /\ Place(r, e) /\ Due(r, e) = D /\ Base(e) = Base(d)
      /\ \A k, b : InTransfer(e, k, b) <=> InTransfer(d, k, b)
  <2>1. d.w_buf_curr <= e.w_buf_curr
    BY <1>t, <1>x
  <2> QED
    BY <1>r, <1>x, <2>1, PlaceKept
<1>2. UsedBlocks(e) = U
  BY <1>1, <1>x DEF UsedBlocks
<1>3. Table(e)
  <2>1. e.w_buf_curr <= e.w_buf_next /\ e.w_buf_next - e.w_buf_curr < NBufs
    BY <1>t, <1>x
  <2> QED
    BY <1>1, <1>r, <1>x, <2>1 DEF Table
<1>4. PICK from \in o .. N : TakenBack(r, d, from)
  BY <1>r DEF Tokens
<1>f. /\ from \in Int /\ o <= from /\ (from = o \/ from <= Base(d))
      /\ d.CLEAR = HowMany(U, from, D) /\ Among(U, D, from) = {}
      /\ \A b \in o .. N - 1 : d.count[b % NBufs] = IF b >= from /\ b \in U THEN 1 ELSE 0
  BY <1>t, <1>4 DEF TakenBack
<1>5. /\ N % NBufs = o % NBufs /\ N % NBufs \in Ring
      /\ d.count[N % NBufs] = IF o >= from /\ o \in U THEN 1 ELSE 0
  <2>1. N % NBufs = o % NBufs
    <3>1. o = N - NBufs /\ o \in Int /\ N \in Int
      BY <1>t
    <3> HIDE DEF N, o
    <3> QED
      BY <1>t, <3>1, ModShift
  <2>2. N % NBufs \in Ring
    BY <1>t, PlaceInRing
  <2>3. o \in o .. N - 1
    BY <1>t
  <2> QED
    BY <1>f, <2>1, <2>2, <2>3
<1> DEFINE to == IF from = o THEN o + 1 ELSE from
<1>6. to \in Int /\ to \in o + 1 .. N + 1 /\ from <= to
  BY <1>t, <1>f
<1>7. e.CLEAR = HowMany(U, to, D) /\ Among(U, D, to) = {}
  <2>1. CASE from # o
    <3>1. ~(o >= from)
      BY <1>t, <1>f, <2>1
    <3> QED
      BY <1>t, <1>f, <1>5, <1>x, <2>1, <3>1
  <2>2. CASE from = o /\ o \in U
    <3>1. d.count[N % NBufs] = 1 /\ d.CLEAR >= 1
      <4>1. d.count[N % NBufs] = 1
        BY <1>t, <1>5, <2>2
      <4> QED
        BY <1>t, <4>1 DEF GetReady
    <3>2. o < D
      <4>1. HowMany(U, o, D) # 0
        BY <1>f, <2>2, <3>1, <1>t
      <4> HIDE DEF U, D, o
      <4>2. \E b \in U : b \in o .. D - 1
        BY <1>t, <4>1, AmongSome
      <4> QED
        BY <1>t, <4>2
    <3>3. HowMany(U, o, D) = HowMany(U, o + 1, D) + 1
      <4> HIDE DEF U, D, o
      <4> QED
        BY <1>t, <2>2, <3>2, FirstAmong
    <3>4. HowMany(U, o + 1, D) \in Nat
      BY <1>t, AmongFinite
    <3>5. Among(U, D, o + 1) = {}
      BY <1>t, <3>2 DEF Among
    <3> HIDE DEF U, D, o
    <3> QED
      BY <1>t, <1>f, <1>x, <2>2, <3>1, <3>3, <3>4, <3>5
  <2>3. CASE from = o /\ o \notin U
    <3>1. d.count[N % NBufs] = 0
      BY <1>t, <1>5, <2>3
    <3>2. Among(U, o, D) = Among(U, o + 1, D)
      <4>1. CASE o < D
        <5> HIDE DEF U, D, o
        <5> QED
          BY <1>t, <2>3, <4>1, FirstAmong
      <4>2. CASE ~(o < D)
        BY <1>t, <4>2 DEF Among
      <4> QED
        BY <4>1, <4>2
    <3>3. Among(U, D, o + 1) = {}
      <4>1. ASSUME NEW b \in Among(U, D, o + 1) PROVE FALSE
        <5>1. b \in U /\ b \in D .. o
          BY <1>t DEF Among
        <5>2. b # o
          BY <2>3, <5>1
        <5>3. b \in D .. o - 1
          BY <1>t, <5>1, <5>2
        <5>4. b \in Among(U, D, o)
          BY <5>1, <5>3 DEF Among
        <5> QED
          BY <1>f, <2>3, <5>4
      <4> QED
        BY <4>1
    <3> HIDE DEF U, D, o
    <3> QED
      BY <1>t, <1>f, <1>x, <2>3, <3>1, <3>2, <3>3 DEF HowMany
  <2> QED
    BY <2>1, <2>2, <2>3
<1>8. ASSUME NEW b \in o + 1 .. N
      PROVE  e.count[b % NBufs] = IF b >= to /\ b \in U THEN 1 ELSE 0
  <2>0. b \in Int
    BY <1>t
  <2>1. CASE b = N
    <3>1. b \notin U
      BY <1>t, <2>1
    <3> QED
      BY <1>5, <1>x, <2>1, <3>1
  <2>2. CASE b # N
    <3>1. b \in o .. N - 1 /\ b # o
      BY <1>t, <2>0, <2>2
    <3>2. b % NBufs # N % NBufs
      <4>1. o \in o .. o + NBufs - 1 /\ b \in o .. o + NBufs - 1
        BY <1>t, <3>1
      <4> HIDE DEF o, N
      <4> QED
        BY <1>t, <1>5, <3>1, <4>1, OwnPlaceAmong
    <3>3. e.count[b % NBufs] = d.count[b % NBufs]
      BY <1>x, <2>0, <3>2, PlaceInRing
    <3>4. b >= to <=> b >= from
      BY <1>t, <1>f, <3>1
    <3> QED
      BY <1>f, <3>1, <3>3, <3>4
  <2> QED
    BY <2>1, <2>2
<1>9. Tokens(r, e)
  <2>1. e.w_buf_next - NBufs = o + 1 /\ e.w_buf_next - 1 = N
    BY <1>t, <1>x
  <2>2. to = o + 1 \/ to <= Base(d)
    BY <1>f
  <2>3. TakenBack(r, e, to)
    <3> HIDE DEF o, N, D, U, C, to
    <3> QED
      BY <1>1, <1>2, <1>6, <1>7, <1>8, <1>t, <2>1, <2>2 DEF TakenBack
  <2>4. to \in e.w_buf_next - NBufs .. e.w_buf_next
    BY <1>6, <1>x, <2>1
  <2> QED
    BY <1>1, <1>2, <1>r, <1>x, <2>3, <2>4 DEF Tokens
<1> QED
  BY <1>1, <1>3, <1>9 DEF RingOK

(* The tokens of m blocks that were filled in a transfer.                  *)
LEMMA TokensHanded ==
  ASSUME NEW r \in ReaderRec, NEW d \in IoRec, NEW e \in IoRec, NEW m \in Nat,
         RingOK(r, d), Handed(d, e, m), m <= d.w_buf_next - d.w_buf_curr,
         UsedBlocks(e) = UsedBlocks(d) \cup (d.w_buf_curr .. d.w_buf_curr + m - 1),
         Due(r, e) = Due(r, d), Base(e) \in Nat, Base(d) <= Base(e)
  PROVE  Tokens(r, e)
<1> DEFINE C == d.w_buf_curr
           N == d.w_buf_next
           U == UsedBlocks(d)
           V == UsedBlocks(e)
           D == Due(r, d)
           o == N - NBufs
<1>r. Table(d) /\ Place(r, d) /\ Tokens(r, d)
  BY DEF RingOK
<1>t. /\ C \in Nat /\ N \in Nat /\ C <= N /\ NBufs \in Nat \ {0}
      /\ Base(d) \in Nat /\ Base(d) <= C
      /\ D \in Nat /\ D <= C /\ N - C < NBufs /\ o \in Int /\ o < C
      /\ \A b \in U : b \in Nat /\ b < C
      /\ V = U \cup (C .. (C + m) - 1) /\ C + m \in Nat /\ C + m <= N
      /\ d.FULL \in Nat
  <2>1. C <= N /\ N - C < NBufs
    BY <1>r DEF Table
  <2>2. C \in Nat /\ N \in Nat /\ NBufs \in Nat \ {0} /\ d.FULL \in Nat
    BY IoTypes, RingPlaces
  <2>3. Base(d) \in Nat /\ Base(d) <= C /\ D \in Nat /\ D <= C
    BY <1>r, TableNumbers, DueNumbers
  <2>4. \A b \in U : b \in Nat /\ b < C
    BY <1>r, UsedNumbers
  <2> QED
    BY <2>1, <2>2, <2>3, <2>4
<1>x. /\ e.w_buf_curr = C + m /\ e.FULL = d.FULL + m /\ e.CLEAR = d.CLEAR
      /\ e.w_buf_next = N
      /\ \A k \in Ring :
           e.count[k] = d.count[k]
             + (IF \E j \in 0 .. m - 1 : k = (C + j) % NBufs THEN 1 ELSE 0)
  BY DEF Handed
<1>1. e.FULL + (IF r.curbuf = NoBuf THEN 0 ELSE 1) = HowMany(V, D, C + m)
  <2>1. d.FULL + (IF r.curbuf = NoBuf THEN 0 ELSE 1) = HowMany(U, D, C)
    BY <1>r DEF Tokens
  <2>2. Among(U, D, C + m) = Among(U, D, C)
    BY <1>t DEF Among
  <2> HIDE DEF C, N, U, V, D, o
  <2>3. HowMany(U, D, C + m) = HowMany(U, D, C) /\ HowMany(U, D, C) \in Nat
    BY <1>t, <2>2, AmongFinite DEF HowMany
  <2>4. HowMany(U \cup (C .. (C + m) - 1), D, C + m)
          = HowMany(U, D, C + m) + ((C + m) - C)
    BY <1>t, AddedRun
  <2> QED
    BY <1>t, <1>x, <2>1, <2>3, <2>4
<1>2. PICK from \in o .. N : TakenBack(r, d, from)
  BY <1>r DEF Tokens
<1>f. /\ from \in Int /\ o <= from /\ (from = o \/ from <= Base(d)) /\ from <= C
      /\ d.CLEAR = HowMany(U, from, D) /\ Among(U, D, from) = {}
      /\ \A b \in o .. N - 1 : d.count[b % NBufs] = IF b >= from /\ b \in U THEN 1 ELSE 0
  <2>1. /\ o <= from /\ (from = o \/ from <= Base(d))
        /\ d.CLEAR = HowMany(U, from, D) /\ Among(U, D, from) = {}
        /\ \A b \in o .. N - 1 : d.count[b % NBufs] = IF b >= from /\ b \in U THEN 1 ELSE 0
    BY <1>2 DEF TakenBack
  <2>2. from \in Int
    BY <1>t, <1>2
  <2> QED
    BY <1>t, <2>1, <2>2
<1>3. Among(V, from, D) = Among(U, from, D) /\ Among(V, D, from) = {}
  <2>1. \A b \in V : b \in U \/ (b \in Int /\ b >= C)
    BY <1>t
  <2>2. U \subseteq V
    BY <1>t
  <2>3. Among(V, from, D) = Among(U, from, D)
    BY <1>t, <1>f, <2>1, <2>2 DEF Among
  <2>4. Among(V, D, from) = Among(U, D, from)
    BY <1>t, <1>f, <2>1, <2>2 DEF Among
  <2> QED
    BY <1>f, <2>3, <2>4
<1>4. ASSUME NEW b \in o .. N - 1
      PROVE  e.count[b % NBufs] = IF b >= from /\ b \in V THEN 1 ELSE 0
  <2> DEFINE q == b % NBufs
  <2>1. b \in Int /\ q \in Ring /\ b % NBufs = q
    <3>1. b \in Int
      BY <1>t
    <3> QED
      BY <3>1, PlaceInRing
  <2>2. d.count[q] = IF b >= from /\ b \in U THEN 1 ELSE 0
    BY <1>f
  <2>3. (\E j \in 0 .. m - 1 : q = (C + j) % NBufs) <=> b \in C .. (C + m) - 1
    <3>1. ASSUME NEW j \in 0 .. m - 1, q = (C + j) % NBufs PROVE b = C + j
      <4>1. b \in o .. o + NBufs - 1 /\ C + j \in o .. o + NBufs - 1
        BY <1>t, <2>1
      <4> HIDE DEF o, N, C, q
      <4> QED
        BY <1>t, <2>1, <3>1, <4>1, OwnPlaceAmong
    <3>2. ASSUME NEW j \in 0 .. m - 1, b = C + j PROVE b \in C .. (C + m) - 1
      BY <1>t, <3>2
    <3>3. ASSUME b \in C .. (C + m) - 1
          PROVE  \E j \in 0 .. m - 1 : q = (C + j) % NBufs
      <4>1. b - C \in 0 .. m - 1 /\ C + (b - C) = b
        BY <1>t, <2>1, <3>3
      <4> QED
        BY <2>1, <4>1
    <3> QED
      BY <3>1, <3>2, <3>3
  <2> HIDE DEF q
  <2>4. CASE b \in C .. (C + m) - 1
    <3>1. b \notin U /\ b \in V /\ b >= from
      <4>1. b >= C /\ C \in Int
        <5>1. C \in Int /\ m \in Int
          BY <1>t
        <5> HIDE DEF C, U, V, N, D, o
        <5> QED
          BY <2>4, <5>1
      <4>2. b \in V
        <5>1. V = U \cup (C .. (C + m) - 1)
          BY <1>t
        <5> HIDE DEF U, V, C
        <5> QED
          BY <2>4, <5>1
      <4>3. b \notin U
        <5> HIDE DEF U, C
        <5> QED
          BY <1>t, <2>1, <4>1
      <4>4. b >= from
        <5>1. from <= C /\ from \in Int
          BY <1>f
        <5> HIDE DEF C
        <5> QED
          BY <2>1, <4>1, <5>1
      <4> QED
        BY <4>2, <4>3, <4>4
    <3> QED
      BY <1>x, <2>1, <2>2, <2>3, <2>4, <3>1
  <2>5. CASE b \notin C .. (C + m) - 1
    <3>1. b \in V <=> b \in U
      BY <1>t, <2>5
    <3> HIDE DEF U, V
    <3> QED
      BY <1>x, <2>1, <2>2, <2>3, <2>5, <3>1
  <2> QED
    BY <2>4, <2>5
<1>5. TakenBack(r, e, from)
  <2>1. from = o \/ from <= Base(e)
    BY <1>f, <1>t
  <2> QED
    BY <1>3, <1>4, <1>f, <1>x, <2>1 DEF TakenBack, HowMany
<1> QED
  BY <1>1, <1>2, <1>5, <1>x DEF Tokens

(* m blocks of a transfer are filled.                                      *)
LEMMA RingFill ==
  ASSUME NEW r \in ReaderRec, NEW d \in IoRec, NEW e \in IoRec, NEW m \in Nat,
         RingOK(r, d), BlocksFilled(d, e, m), Len(d.xfers) = d.w_xfer + 1,
         m <= d.w_buf_next - d.w_buf_curr
  PROVE  RingOK(r, e)
<1> DEFINE C == d.w_buf_curr
           x == d.w_xfer + 1
<1>r. Table(d) /\ Place(r, d) /\ Tokens(r, d)
  BY DEF RingOK
<1>t. C \in Nat /\ d.w_buf_next \in Nat /\ x \in 1 .. Len(d.xfers) /\ d.w_xfer \in Nat
  BY IoTypes
<1>x. /\ e.xfers = d.xfers /\ e.w_xfer = d.w_xfer /\ e.soclock_buf = d.soclock_buf
      /\ e.w_buf_curr = C + m /\ e.w_buf_next = d.w_buf_next /\ Handed(d, e, m)
  BY DEF BlocksFilled, Handed
<1>1. /\ Place(r, e) /\ Due(r, e) = Due(r, d) /\ Base(e) = Base(d)
      /\ \A k, b : InTransfer(e, k, b) <=> InTransfer(d, k, b)
  <2>1. d.w_buf_curr <= e.w_buf_curr
    BY <1>t, <1>x
  <2> QED
    BY <1>r, <1>x, <2>1, PlaceKept
<1>2. Base(d) \in Nat
  BY <1>r, TableNumbers
<1>3. UsedBlocks(e) = UsedBlocks(d) \cup (C .. C + m - 1)
  <2>1. d.xfers[x].s_buf <= C /\ d.xfers[x].s_buf \in Nat
    BY <1>r, <1>t, XferTypes DEF Table
  <2>2. \A b \in C .. C + m - 1 : InTransfer(d, x, b) /\ b \in 0 .. C + m - 1
    BY SMTT(30), <1>t, <2>1 DEF InTransfer
  <2>3. UsedBlocks(e) = {b \in 0 .. C + m - 1 : \E k \in 1 .. Len(d.xfers) : InTransfer(d, k, b)}
    <3>1. e.w_buf_curr - 1 = C + m - 1
      BY SMTT(30), <1>t, <1>x
    <3> HIDE DEF C
    <3> QED
      BY <1>1, <1>x, <3>1 DEF UsedBlocks
  <2>4. \A b : b \in 0 .. C + m - 1 <=> b \in 0 .. C - 1 \/ b \in C .. C + m - 1
    BY <1>t
  <2> QED
    BY <1>t, <2>2, <2>3, <2>4 DEF UsedBlocks
<1>4. Tokens(r, e)
  <2>1. Base(e) \in Nat /\ Base(d) <= Base(e)
    BY <1>1, <1>2
  <2> QED
    BY <1>1, <1>3, <1>x, <2>1, TokensHanded
<1>5. Table(e)
  <2>1. ASSUME NEW k \in 1 .. Len(e.xfers)
        PROVE  /\ e.xfers[k].s_buf <= e.w_buf_curr
               /\ e.xfers[k].s_buf \in Nat /\ e.xfers[k].e_buf \in Nat
               /\ e.xfers[k].s_buf = e.w_buf_curr => e.xfers[k].s_buf = d.w_buf_curr
    <3>1. d.xfers[k].s_buf <= C /\ d.xfers[k].s_buf \in Nat /\ d.xfers[k].e_buf \in Nat
      BY <1>r, <1>x, XferTypes DEF Table
    <3> QED
      BY <1>t, <1>x, <3>1
  <2>2. ASSUME NEW k \in 1 .. e.w_xfer PROVE e.xfers[k].e_buf < e.w_buf_curr
    <3>1. d.xfers[k].e_buf < C /\ d.xfers[k].e_buf \in Nat
      BY <1>r, <1>t, <1>x, XferTypes DEF Table
    <3> QED
      BY <1>t, <1>x, <3>1
  <2>3. e.w_buf_curr <= e.w_buf_next /\ e.w_buf_next - e.w_buf_curr < NBufs
    <3>1. d.w_buf_next - C < NBufs
      BY <1>r DEF Table
    <3>2. NBufs \in Nat
      BY RingPlaces
    <3> QED
      BY <1>t, <1>x, <3>1, <3>2
  <2>4. \A k \in d.w_xfer + 1 .. Len(d.xfers) : k \in 1 .. Len(e.xfers)
    BY <1>t, <1>x
  <2> QED
    BY <1>r, <1>1, <1>x, <2>1, <2>2, <2>3, <2>4 DEF Table
<1> QED
  BY <1>1, <1>4, <1>5 DEF RingOK

(* A block is filled outside of any transfer.                              *)
LEMMA RingClock ==
  ASSUME NEW r \in ReaderRec, NEW d \in IoRec, NEW e \in IoRec,
         RingOK(r, d), BlockClocked(d, e), Len(d.xfers) = d.w_xfer,
         d.w_buf_curr < d.w_buf_next
  PROVE  RingOK(r, e)
<1> DEFINE C == d.w_buf_curr
           U == UsedBlocks(d)
           D == Due(r, d)
<1>r. Table(d) /\ Place(r, d) /\ Tokens(r, d)
  BY DEF RingOK
<1>t. /\ C \in Nat /\ d.w_buf_next \in Nat /\ d.w_xfer \in Nat
      /\ Base(d) \in Nat /\ Base(d) <= C /\ D \in Nat /\ D <= C
      /\ \A b \in U : b \in Nat /\ b < Base(d)
  <2>1. C \in Nat /\ d.w_buf_next \in Nat /\ d.w_xfer \in Nat
    BY IoTypes
  <2>2. Base(d) \in Nat /\ Base(d) <= C /\ D \in Nat /\ D <= C
    BY <1>r, TableNumbers, DueNumbers
  <2>3. \A b \in U : b \in Nat /\ b < Base(d)
    BY <1>r, UsedNumbers
  <2> QED
    BY <2>1, <2>2, <2>3
<1>x. /\ e.xfers = d.xfers /\ e.w_xfer = d.w_xfer /\ e.soclock_buf = d.soclock_buf
      /\ e.w_buf_curr = C + 1 /\ e.w_buf_next = d.w_buf_next
      /\ e.count = d.count /\ e.FULL = d.FULL /\ e.CLEAR = d.CLEAR
  BY DEF BlockClocked
<1>1. /\ Place(r, e) /\ Due(r, e) = D /\ Base(e) = Base(d)
      /\ \A k, b : InTransfer(e, k, b) <=> InTransfer(d, k, b)
  <2>1. d.w_buf_curr <= e.w_buf_curr
    BY <1>t, <1>x
  <2> QED
    BY <1>r, <1>x, <2>1, PlaceKept
<1>2. Table(e)
  <2>1. ASSUME NEW k \in 1 .. Len(e.xfers) PROVE e.xfers[k].s_buf <= e.w_buf_curr
    <3>1. d.xfers[k].s_buf <= C /\ d.xfers[k].s_buf \in Nat
      BY <1>r, <1>x, XferTypes DEF Table
    <3> QED
      BY <1>t, <1>x, <3>1
  <2>2. ASSUME NEW k \in 1 .. e.w_xfer PROVE e.xfers[k].e_buf < e.w_buf_curr
    <3>0. k \in 1 .. Len(d.xfers)
      BY <1>x
    <3>1. d.xfers[k].e_buf < C /\ d.xfers[k].e_buf \in Nat
      BY <1>r, <1>x, <3>0, XferTypes DEF Table
    <3> QED
      BY <1>t, <1>x, <3>1
  <2>3. e.w_buf_curr <= e.w_buf_next /\ e.w_buf_next - e.w_buf_curr < NBufs
    <3>1. d.w_buf_next - C < NBufs
      BY <1>r DEF Table
    <3>2. NBufs \in Nat
      BY RingPlaces
    <3> QED
      BY <1>t, <1>x, <3>1, <3>2
  <2>4. \A k : k \notin d.w_xfer + 1 .. Len(d.xfers)
    BY <1>t
  <2> QED
    BY <1>r, <1>1, <1>x, <2>1, <2>2, <2>3, <2>4 DEF Table
<1>3. UsedBlocks(e) = U
  <2>1. ASSUME NEW b \in 0 .. C, NEW k \in 1 .. Len(d.xfers), InTransfer(d, k, b)
        PROVE  b \in 0 .. C - 1
    <3>1. k \in 1 .. d.w_xfer /\ k <= d.w_xfer /\ d.xfers[k].e_buf \in Nat
      BY <1>t, XferTypes
    <3>2. b <= d.xfers[k].e_buf /\ d.xfers[k].e_buf < Base(d)
      BY <1>r, <2>1, <3>1, TableNumbers DEF InTransfer
    <3> QED
      BY <1>t, <3>1, <3>2
  <2>2. UsedBlocks(e) = {b \in 0 .. C : \E k \in 1 .. Len(d.xfers) : InTransfer(d, k, b)}
    <3>1. e.w_buf_curr - 1 = C
      BY <1>t, <1>x
    <3> QED
      BY <1>1, <1>x, <3>1 DEF UsedBlocks
  <2>3. \A b \in 0 .. C - 1 : b \in 0 .. C
    BY <1>t
  <2> QED
    BY <2>1, <2>2, <2>3 DEF UsedBlocks
<1>4. HowMany(U, D, C + 1) = HowMany(U, D, C)
  <2>1. Among(U, D, C + 1) = Among(U, D, C)
    BY <1>t DEF Among
  <2> QED
    BY <2>1 DEF HowMany
<1>5. PICK from \in d.w_buf_next - NBufs .. d.w_buf_next : TakenBack(r, d, from)
  BY <1>r DEF Tokens
<1>6. TakenBack(r, e, from)
  BY <1>1, <1>3, <1>5, <1>x DEF TakenBack
<1>7. Tokens(r, e)
  BY <1>1, <1>3, <1>4, <1>5, <1>6, <1>r, <1>x DEF Tokens
<1> QED
  BY <1>1, <1>2, <1>7 DEF RingOK

(* A transfer ends after y bytes of the block that is filled.              *)
LEMMA RingEnd ==
  ASSUME NEW r \in ReaderRec, NEW d \in IoRec, NEW e \in IoRec, NEW y \in 0 .. BufSz,
         RingOK(r, d), EodRaised(d, e, y), Len(d.xfers) = d.w_xfer + 1,
         d.w_buf_curr < d.w_buf_next,
         d.xfers[d.w_xfer + 1].s_buf = d.w_buf_curr
           => d.xfers[d.w_xfer + 1].s_byte < y
  PROVE  RingOK(r, e) /\ Base(e) = d.w_buf_curr + 1
<1> DEFINE C == d.w_buf_curr
           L == d.w_xfer
           x == L + 1
<1>r. Table(d) /\ Place(r, d) /\ Tokens(r, d)
  BY DEF RingOK
<1>t. /\ C \in Nat /\ d.w_buf_next \in Nat /\ L \in Nat /\ Len(d.xfers) = x
      /\ x \in 1 .. Len(d.xfers)
      /\ Base(d) \in Nat /\ Base(d) <= C
      /\ d.xfers[x].s_buf \in Nat /\ d.xfers[x].s_buf <= C
  <2>1. C \in Nat /\ d.w_buf_next \in Nat /\ L \in Nat
    BY IoTypes
  <2>2. x \in 1 .. Len(d.xfers)
    BY <2>1
  <2>3. Base(d) \in Nat /\ Base(d) <= C
    BY <1>r, TableNumbers
  <2>4. d.xfers[x].s_buf \in Nat /\ d.xfers[x].s_buf <= C
    BY <1>r, <2>2, XferTypes DEF Table
  <2> QED
    BY <2>1, <2>2, <2>3, <2>4
<1>x. /\ e.w_xfer = x /\ Len(e.xfers) = x
      /\ \A k \in 1 .. L : e.xfers[k] = d.xfers[k]
      /\ e.xfers[x].s_buf = d.xfers[x].s_buf /\ e.xfers[x].s_byte = d.xfers[x].s_byte
      /\ e.xfers[x].eod /\ e.xfers[x].e_buf = C /\ e.xfers[x].e_byte = y
      /\ e.w_buf_curr = C + 1 /\ e.soclock_buf = d.soclock_buf
      /\ e.w_buf_next = d.w_buf_next /\ Handed(d, e, 1)
  BY <1>t DEF EodRaised, EntryEnded, Handed
<1>b. Base(e) = C + 1
  BY <1>t, <1>x DEF Base
<1>k. \A k \in 1 .. x : k = x \/ k \in 1 .. L
  BY <1>t
<1>1. Table(e)
  <2>1. Len(e.xfers) \in {e.w_xfer, e.w_xfer + 1}
    BY <1>x
  <2>2. ASSUME NEW k \in 1 .. Len(e.xfers)
        PROVE  /\ e.xfers[k].s_byte < BufSz
               /\ e.xfers[k].s_buf <= e.w_buf_curr
               /\ \A j \in 1 .. k - 1 : e.xfers[j].e_buf < e.xfers[k].s_buf
    <3>1. k \in 1 .. Len(d.xfers) /\ e.xfers[k].s_buf = d.xfers[k].s_buf
          /\ e.xfers[k].s_byte = d.xfers[k].s_byte
      BY <1>k, <1>t, <1>x
    <3>2. \A j \in 1 .. k - 1 : j \in 1 .. L
      BY <1>t, <1>x
    <3>3. d.xfers[k].s_buf <= C /\ d.xfers[k].s_buf \in Nat
      BY <1>r, <3>1, XferTypes DEF Table
    <3>4. e.xfers[k].s_buf <= e.w_buf_curr
      BY SMTT(30), <1>t, <1>x, <3>1, <3>3
    <3> QED
      BY <1>r, <1>x, <3>1, <3>2, <3>4 DEF Table
  <2>3. ASSUME NEW k \in 1 .. e.w_xfer
        PROVE  /\ e.xfers[k].eod
               /\ e.xfers[k].s_buf <= e.xfers[k].e_buf
               /\ e.xfers[k].e_buf < e.w_buf_curr
               /\ e.xfers[k].s_buf = e.xfers[k].e_buf
                    => e.xfers[k].s_byte < e.xfers[k].e_byte
    <3>1. CASE k = x
      BY <1>t, <1>x, <3>1
    <3>2. CASE k \in 1 .. L
      <4>1. d.xfers[k].e_buf \in Nat /\ d.xfers[k].e_buf < C
        BY <1>r, <1>t, <3>2, XferTypes DEF Table
      <4>2. /\ d.xfers[k].eod /\ d.xfers[k].s_buf <= d.xfers[k].e_buf
            /\ d.xfers[k].s_buf = d.xfers[k].e_buf
                 => d.xfers[k].s_byte < d.xfers[k].e_byte
        BY <1>r, <3>2 DEF Table
      <4>3. d.xfers[k].e_buf < C + 1
        BY <1>t, <4>1
      <4> QED
        BY <1>x, <3>2, <4>2, <4>3
    <3> QED
      BY <1>k, <1>x, <3>1, <3>2
  <2>4. \A k : k \notin e.w_xfer + 1 .. Len(e.xfers)
    BY <1>t, <1>x
  <2>5. /\ e.soclock_buf <= Base(e) /\ e.w_buf_curr <= e.w_buf_next
        /\ e.w_buf_next - e.w_buf_curr < NBufs
    <3>1. d.soclock_buf <= Base(d) /\ d.w_buf_next - C < NBufs
      BY <1>r DEF Table
    <3>2. d.soclock_buf \in Nat /\ NBufs \in Nat
      BY IoTypes, RingPlaces
    <3> QED
      BY SMTT(30), <1>b, <1>t, <1>x, <3>1, <3>2
  <2> QED
    BY <2>1, <2>2, <2>3, <2>4, <2>5 DEF Table
<1>i. \A k \in 1 .. x : \A b \in Nat : b <= C => (InTransfer(e, k, b) <=> InTransfer(d, k, b))
  <2>1. ASSUME NEW k \in 1 .. x, NEW b \in Nat, b <= C
        PROVE  InTransfer(e, k, b) <=> InTransfer(d, k, b)
    <3>1. CASE k = x
      <4>1. ~(x <= d.w_xfer) /\ x <= e.w_xfer
        BY <1>t, <1>x
      <4> QED
        BY <1>t, <1>x, <2>1, <3>1, <4>1 DEF InTransfer
    <3>2. CASE k \in 1 .. L
      <4>1. k <= d.w_xfer /\ k <= e.w_xfer
        BY <1>t, <1>x, <3>2
      <4> QED
        BY <1>t, <1>x, <3>2, <4>1 DEF InTransfer
    <3> QED
      BY <1>k, <3>1, <3>2
  <2> QED
    BY <2>1
<1>2. Place(r, e) /\ Due(r, e) = Due(r, d)
  <2> DEFINE k == r.r_xfer + 1
  <2>t. r.r_xfer \in Nat /\ r.r_buf \in Nat
    BY ReaderTypes
  <2>1. r.r_xfer <= L
    BY <1>r DEF Place
  <2>2. Due(r, e) = Due(r, d)
    <3>1. r.r_xfer # 0 => r.r_xfer \in 1 .. L
      BY <1>t, <2>1, <2>t
    <3> QED
      BY <1>x, <3>1 DEF Due
  <2>3. k \in 1 .. x
    BY <1>t, <2>1, <2>t
  <2>4. e.xfers[k].s_buf = d.xfers[k].s_buf /\ e.xfers[k].s_byte = d.xfers[k].s_byte
    BY <1>k, <1>x, <2>3
  <2>5. r.r_xfer <= e.w_xfer /\ (r.state = "RSTOP" => r.r_xfer > 0)
    BY <1>r, <1>t, <1>x, <2>1, <2>t DEF Place
  <2>6. r.state = "READING" =>
          /\ k <= Len(e.xfers)
          /\ InTransfer(e, k, r.r_buf)
          /\ IF r.curbuf = NoBuf THEN e.xfers[k].s_buf < r.r_buf
                                 ELSE r.r_buf < e.w_buf_curr
          /\ r.r_buf <= e.w_buf_curr
    <3>1. r.state = "READING" =>
            /\ InTransfer(d, k, r.r_buf)
            /\ IF r.curbuf = NoBuf THEN d.xfers[k].s_buf < r.r_buf
                                   ELSE r.r_buf < C
            /\ r.r_buf <= C
      BY <1>r DEF Place
    <3>2. r.state = "READING" => InTransfer(e, k, r.r_buf)
      BY <1>i, <2>3, <2>t, <3>1
    <3> HIDE DEF k
    <3> QED
      BY <1>t, <1>x, <2>3, <2>4, <2>t, <3>1, <3>2
  <2>7. r.curbuf = NoBuf => r.bytes = 0
    BY <1>r DEF Place
  <2>8. r.curbuf # NoBuf =>
          /\ r.state = "READING"
          /\ r.curbuf = r.r_buf % NBufs
          /\ r.start = IF r.r_buf = e.xfers[k].s_buf THEN e.xfers[k].s_byte ELSE 0
          /\ r.start + r.curbufsz = IF k <= e.w_xfer /\ r.r_buf = e.xfers[k].e_buf
                                    THEN e.xfers[k].e_byte ELSE BufSz
          /\ r.bytes <= r.curbufsz
    <3> SUFFICES ASSUME r.curbuf # NoBuf
                 PROVE  r.start + r.curbufsz = IF k <= e.w_xfer /\ r.r_buf = e.xfers[k].e_buf
                                    THEN e.xfers[k].e_byte ELSE BufSz
      BY <1>r, <2>4 DEF Place
    <3>1. /\ r.start + r.curbufsz = IF k <= d.w_xfer /\ r.r_buf = d.xfers[k].e_buf
                                    THEN d.xfers[k].e_byte ELSE BufSz
          /\ r.r_buf < C
      BY <1>r DEF Place
    <3>2. CASE k = x
      BY <1>t, <1>x, <2>t, <3>1, <3>2
    <3>3. CASE k \in 1 .. L
      <4>1. k <= d.w_xfer /\ k <= e.w_xfer
        BY <1>t, <1>x, <3>3
      <4> QED
        BY <1>x, <3>1, <3>3, <4>1
    <3> QED
      BY <1>k, <2>3, <3>2, <3>3
  <2> QED
    BY <2>2, <2>5, <2>6, <2>7, <2>8 DEF Place
<1>3. UsedBlocks(e) = UsedBlocks(d) \cup (C .. C + 1 - 1)
  <2>1. \A b : b \in 0 .. e.w_buf_curr - 1 <=> b \in 0 .. C - 1 \/ b = C
    BY <1>t, <1>x
  <2>2. \A b : b \in C .. C + 1 - 1 <=> b = C
    BY <1>t
  <2>3. InTransfer(e, x, C)
    BY <1>t, <1>x DEF InTransfer
  <2>4. \A b \in 0 .. C - 1 : b \in Nat /\ b <= C
    BY <1>t
  <2>5. Len(d.xfers) = x /\ x \in 1 .. Len(e.xfers) /\ Len(e.xfers) = x
    BY <1>t, <1>x
  <2>6. \A b \in 0 .. C - 1 : b \in UsedBlocks(e) <=> b \in UsedBlocks(d)
    BY <1>i, <2>1, <2>4, <2>5 DEF UsedBlocks
  <2>7. C \in UsedBlocks(e)
    BY <2>1, <2>3, <2>5 DEF UsedBlocks
  <2>8. \A b \in UsedBlocks(e) : b \in 0 .. C - 1 \/ b = C
    BY <2>1 DEF UsedBlocks
  <2>9. \A b \in UsedBlocks(d) : b \in 0 .. C - 1
    BY DEF UsedBlocks
  <2> QED
    BY <2>2, <2>6, <2>7, <2>8, <2>9
<1>4. Tokens(r, e)
  <2>1. Base(e) \in Nat /\ Base(d) <= Base(e) /\ 1 \in Nat /\ 1 <= d.w_buf_next - C
    BY <1>b, <1>t
  <2> QED
    BY <1>2, <1>3, <1>x, <2>1, TokensHanded
<1> QED
  BY <1>1, <1>2, <1>4, <1>b DEF RingOK

(* The blocks after the last end of data are given back.                   *)
GivenBackTo(d, e) ==
  /\ e.w_buf_curr = Base(d) /\ e.w_buf_next = Base(d)
  /\ e.xfers = d.xfers /\ e.w_xfer = d.w_xfer /\ e.soclock_buf = d.soclock_buf
  /\ e.count = d.count /\ e.FULL = d.FULL /\ e.CLEAR = d.CLEAR

(* Giving blocks back when the writer closes keeps the ring.               *)
LEMMA RingClose ==
  ASSUME NEW r \in ReaderRec, NEW d \in IoRec, NEW e \in IoRec,
         RingOK(r, d), GivenBackTo(d, e), Len(d.xfers) = d.w_xfer
  PROVE  RingOK(r, e)
<1> DEFINE C == d.w_buf_curr
           N == d.w_buf_next
           K == Base(d)
           U == UsedBlocks(d)
           D == Due(r, d)
           o == N - NBufs
<1>r. Table(d) /\ Place(r, d) /\ Tokens(r, d)
  BY DEF RingOK
<1>t. /\ C \in Nat /\ N \in Nat /\ d.w_xfer \in Nat /\ C <= N /\ N - C < NBufs
      /\ K \in Nat /\ K <= C /\ D \in Nat /\ D <= K /\ D <= C
      /\ NBufs \in Nat \ {0} /\ o \in Int
      /\ \A b \in U : b \in Nat /\ b < K
  <2>1. C \in Nat /\ N \in Nat /\ d.w_xfer \in Nat /\ NBufs \in Nat \ {0}
    BY IoTypes, RingPlaces
  <2>2. C <= N /\ N - C < NBufs
    BY <1>r DEF Table
  <2>3. K \in Nat /\ K <= C /\ D \in Nat /\ D <= K /\ D <= C
    BY <1>r, TableNumbers, DueNumbers
  <2>4. \A b \in U : b \in Nat /\ b < K
    BY <1>r, UsedNumbers
  <2> QED
    BY <2>1, <2>2, <2>3, <2>4
<1>x. /\ e.w_buf_curr = K /\ e.w_buf_next = K
      /\ e.xfers = d.xfers /\ e.w_xfer = d.w_xfer /\ e.soclock_buf = d.soclock_buf
      /\ e.count = d.count /\ e.FULL = d.FULL /\ e.CLEAR = d.CLEAR
  BY DEF GivenBackTo
<1>1. /\ Due(r, e) = D /\ Base(e) = K
      /\ \A k, b : InTransfer(e, k, b) <=> InTransfer(d, k, b)
  BY <1>x DEF Due, Base, InTransfer
<1>k. \A k \in 1 .. Len(d.xfers) :
        /\ k \in 1 .. d.w_xfer /\ k <= d.w_xfer
        /\ d.xfers[k].s_buf \in Nat /\ d.xfers[k].e_buf \in Nat
        /\ d.xfers[k].s_buf <= d.xfers[k].e_buf /\ d.xfers[k].e_buf < K
  <2>1. ASSUME NEW k \in 1 .. Len(d.xfers) PROVE k \in 1 .. d.w_xfer /\ k <= d.w_xfer
    BY <1>t
  <2> QED
    BY <1>r, <2>1, XferTypes, TableNumbers DEF Table
<1>2. Table(e)
  <2>1. \A k \in 1 .. Len(e.xfers) : e.xfers[k].s_buf <= e.w_buf_curr
    <3>1. ASSUME NEW k \in 1 .. Len(d.xfers) PROVE d.xfers[k].s_buf <= K
      <4>1. /\ d.xfers[k].s_buf \in Nat /\ d.xfers[k].e_buf \in Nat
            /\ d.xfers[k].s_buf <= d.xfers[k].e_buf /\ d.xfers[k].e_buf < K
        BY <1>k
      <4> QED
        BY <1>t, <4>1
    <3> QED
      BY <1>x, <3>1
  <2>2. \A k \in 1 .. e.w_xfer : e.xfers[k].e_buf < e.w_buf_curr
    BY <1>k, <1>t, <1>x
  <2>3. e.w_buf_curr <= e.w_buf_next /\ e.w_buf_next - e.w_buf_curr < NBufs
    BY <1>t, <1>x
  <2>4. \A k : k \notin d.w_xfer + 1 .. Len(d.xfers)
    BY <1>t
  <2> QED
    BY <1>r, <1>1, <1>x, <2>1, <2>2, <2>3, <2>4 DEF Table
<1>3. Place(r, e)
  <2>1. r.state = "READING" => r.r_buf < K
    <3>1. ASSUME r.state = "READING" PROVE r.r_buf < K
      <4>1. r.r_xfer + 1 \in 1 .. Len(d.xfers) /\ InTransfer(d, r.r_xfer + 1, r.r_buf)
        <5>1. r.r_xfer + 1 <= Len(d.xfers) /\ r.r_xfer \in Nat
          BY <1>r, <3>1, ReaderTypes DEF Place
        <5> QED
          BY <1>r, <3>1, <5>1 DEF Place
      <4>2. r.r_buf <= d.xfers[r.r_xfer + 1].e_buf
        BY <1>k, <4>1 DEF InTransfer
      <4> QED
        <5>1. r.r_buf \in Nat
          BY ReaderTypes
        <5>2. /\ d.xfers[r.r_xfer + 1].e_buf \in Nat
              /\ d.xfers[r.r_xfer + 1].e_buf < K
          BY <1>k, <4>1
        <5> QED
          BY SMTT(30), <1>t, <4>2, <5>1, <5>2
    <3> QED
      BY <3>1
  <2>2. r.state = "READING" => r.r_buf < e.w_buf_curr /\ r.r_buf <= e.w_buf_curr
    BY <1>t, <1>x, <2>1, ReaderTypes
  <2> QED
    BY <1>r, <1>1, <1>x, <2>2 DEF Place
<1>4. UsedBlocks(e) = U
  <2>1. UsedBlocks(e) = {b \in 0 .. K - 1 : \E k \in 1 .. Len(d.xfers) : InTransfer(d, k, b)}
    BY <1>1, <1>x DEF UsedBlocks
  <2>2. \A b \in 0 .. K - 1 : b \in 0 .. C - 1
    BY <1>t
  <2>3. \A b \in U : b \in 0 .. K - 1
    BY <1>t
  <2> QED
    BY <2>1, <2>2, <2>3 DEF UsedBlocks
<1>5. HowMany(U, D, K) = HowMany(U, D, C)
  <2>1. Among(U, D, K) = Among(U, D, C)
    BY <1>t DEF Among
  <2> QED
    BY <2>1 DEF HowMany
<1>6. PICK from \in o .. N : TakenBack(r, d, from)
  BY <1>r DEF Tokens
<1>f. /\ from \in Int /\ o <= from /\ (from = o \/ from <= K)
      /\ d.CLEAR = HowMany(U, from, D) /\ Among(U, D, from) = {}
      /\ \A b \in o .. N - 1 : d.count[b % NBufs] = IF b >= from /\ b \in U THEN 1 ELSE 0
  <2>1. from \in Int
    BY <1>t, <1>6
  <2> QED
    BY <2>1, <1>6 DEF TakenBack
<1> DEFINE to == IF from <= K THEN from ELSE K
<1>7. to \in Int /\ to <= K /\ K - NBufs <= to /\ to <= from
  BY <1>t, <1>f
<1>8. d.CLEAR = HowMany(U, to, D) /\ Among(U, D, to) = {}
  <2>1. CASE from <= K
    BY <1>f, <2>1
  <2>2. CASE ~(from <= K)
    <3>1. Among(U, from, D) = {} /\ Among(U, K, D) = {}
      BY <1>t, <1>f, <2>2 DEF Among
    <3>2. Among(U, D, K) = {}
      <4>1. \A b \in D .. K - 1 : b \in D .. from - 1
        BY <1>t, <1>f, <2>2
      <4> QED
        BY <1>f, <4>1 DEF Among
    <3> QED
      BY <1>f, <2>2, <3>1, <3>2 DEF HowMany
  <2> QED
    BY <2>1, <2>2
<1>9. ASSUME NEW b \in K - NBufs .. K - 1
      PROVE  d.count[b % NBufs] = IF b >= to /\ b \in U THEN 1 ELSE 0
  <2>0. b \in Int /\ b < K /\ K - NBufs <= b
    BY <1>t
  <2>1. PICK c \in o .. o + NBufs - 1 : c % NBufs = b % NBufs
    <3>1. b % NBufs \in 0 .. NBufs - 1
      BY <2>0, <1>t, ModRange
    <3> HIDE DEF o
    <3> QED
      BY <1>t, <3>1, PlaceTaken
  <2>2. c \in Int /\ c \in o .. N - 1 /\ o <= c
    <3>1. o + NBufs - 1 = N - 1
      BY SMTT(30), <1>t
    <3> HIDE DEF o
    <3> QED
      BY <1>t, <3>1
  <2>3. d.count[b % NBufs] = IF c >= from /\ c \in U THEN 1 ELSE 0
    BY <1>f, <2>1, <2>2
  <2>4. CASE c <= K - 1
    <3>1. c = b
      <4>1. c \in (K - NBufs) .. (K - NBufs) + NBufs - 1
            /\ b \in (K - NBufs) .. (K - NBufs) + NBufs - 1
        <5>1. K - NBufs <= c /\ K - NBufs + NBufs - 1 = K - 1
          <6>1. o = N - NBufs /\ o <= c /\ c \in Int /\ K <= N
            BY SMTT(30), <1>t, <2>2
          <6>2. K - NBufs + NBufs - 1 = K - 1
            BY <1>t
          <6> HIDE DEF K, o, N, C
          <6> QED
            BY <1>t, <6>1, <6>2
        <5>2. (K - NBufs) + NBufs - 1 \in Int /\ K - NBufs \in Int
          BY SMTT(30), <1>t
        <5> HIDE DEF K, o
        <5> QED
          BY <2>0, <2>2, <2>4, <5>1, <5>2
      <4>2. K - NBufs \in Int
        BY <1>t
      <4> HIDE DEF K
      <4> QED
        BY <1>t, <2>1, <4>1, <4>2, OwnPlaceAmong
    <3>2. b >= from <=> b >= to
      BY SMTT(30), <1>t, <1>f, <2>0
    <3> QED
      BY <2>3, <3>1, <3>2
  <2>5. CASE ~(c <= K - 1)
    <3>1. c \notin U
      BY <1>t, <2>2, <2>5
    <3>2. ~(b >= to /\ b \in U)
      <4>1. CASE b < o
        BY <1>t, <1>f, <2>0, <4>1
      <4>2. CASE o <= b
        <5>1. b \in o .. o + NBufs - 1
          BY SMTT(30), <1>t, <2>0, <4>2
        <5>2. b = c
          <6> HIDE DEF o
          <6> QED
            BY <1>t, <2>1, <5>1, OwnPlaceAmong
        <5> QED
          BY <3>1, <5>2
      <4> QED
        BY <1>t, <2>0, <4>1, <4>2
    <3> QED
      BY <2>3, <3>1, <3>2
  <2> QED
    BY <1>t, <2>2, <2>4, <2>5
<1>10. Tokens(r, e)
  <2>1. to = K - NBufs \/ to <= K
    BY <1>7
  <2>2. TakenBack(r, e, to)
    <3> HIDE DEF K, U, D, to
    <3> QED
      BY <1>1, <1>4, <1>7, <1>8, <1>9, <1>x, <2>1 DEF TakenBack
  <2>3. to \in K - NBufs .. K
    BY <1>7, <1>t
  <2> QED
    BY <1>1, <1>4, <1>5, <1>r, <1>x, <2>2, <2>3 DEF Tokens
<1> QED
  BY <1>2, <1>3, <1>10 DEF RingOK

(* The block that ipcbuf_get_next_read returns: the first of the transfer, *)
(* or the one after the last that was read.                                *)
NextBlock(r, d) ==
  IF r.state = "READER" THEN d.xfers[r.r_xfer + 1].s_buf ELSE r.r_buf

(* When FULL is not zero that block is filled, and the first the reader    *)
(* has not cleared.                                                        *)
LEMMA BlockToRead ==
  ASSUME NEW r \in ReaderRec, NEW d \in IoRec, RingOK(r, d), ReadReady(r, d)
  PROVE  LET b == NextBlock(r, d)
             k == r.r_xfer + 1
         IN /\ k \in 1 .. Len(d.xfers) /\ b \in Nat
            /\ InTransfer(d, k, b) /\ b < d.w_buf_curr
            /\ b \in UsedBlocks(d) /\ Due(r, d) <= b
            /\ Among(UsedBlocks(d), Due(r, d), b) = {}
            /\ d.xfers[k].s_buf <= b
            /\ r.state = "READER" <=> b = d.xfers[k].s_buf
<1> DEFINE C == d.w_buf_curr
           U == UsedBlocks(d)
           D == Due(r, d)
           k == r.r_xfer + 1
           b == NextBlock(r, d)
<1> SUFFICES /\ k \in 1 .. Len(d.xfers) /\ b \in Nat
             /\ InTransfer(d, k, b) /\ b < C /\ b \in U /\ D <= b
             /\ Among(U, D, b) = {} /\ d.xfers[k].s_buf <= b
             /\ r.state = "READER" <=> b = d.xfers[k].s_buf
  OBVIOUS
<1>r. Table(d) /\ Place(r, d) /\ Tokens(r, d)
  BY DEF RingOK
<1>t. /\ C \in Nat /\ D \in Nat /\ D <= C /\ d.w_xfer \in Nat /\ d.FULL \in Nat
      /\ r.r_xfer \in Nat /\ r.r_buf \in Nat /\ Len(d.xfers) \in Nat
      /\ r.r_xfer <= d.w_xfer
  <2>1. D \in Nat /\ D <= C
    BY <1>r, DueNumbers
  <2>2. r.r_xfer <= d.w_xfer
    BY <1>r DEF Place
  <2> QED
    BY <2>1, <2>2, IoTypes, ReaderTypes
<1>1. PICK c \in U : c \in D .. C - 1
  <2>1. d.FULL = HowMany(U, D, C)
    BY <1>r, <1>t DEF ReadReady, Tokens
  <2>2. HowMany(U, D, C) # 0
    BY <1>t, <2>1 DEF ReadReady
  <2> HIDE DEF U, D, C
  <2> QED
    BY <1>t, <2>2, AmongSome
<1>2. c \in Nat /\ c < C /\ D <= c
  BY <1>t, <1>1
<1>3. CASE r.state = "READER"
  <2>1. D = IF r.r_xfer = 0 THEN 0 ELSE d.xfers[r.r_xfer].e_buf + 1
    BY <1>3 DEF Due
  <2>2. ASSUME NEW a \in Nat, NEW j \in 1 .. Len(d.xfers), InTransfer(d, j, a), D <= a
        PROVE  k <= j
    <3>0. j \in Nat
      BY <1>t
    <3>1. SUFFICES ASSUME ~(k <= j) PROVE FALSE
      OBVIOUS
    <3>2. j <= r.r_xfer /\ r.r_xfer # 0 /\ j \in 1 .. d.w_xfer /\ j <= d.w_xfer
          /\ r.r_xfer \in 1 .. d.w_xfer
      BY <1>t, <3>0, <3>1
    <3>3. a <= d.xfers[j].e_buf
      BY <2>2, <3>2 DEF InTransfer
    <3>4. /\ d.xfers[j].e_buf \in Nat /\ d.xfers[r.r_xfer].e_buf \in Nat
          /\ d.xfers[r.r_xfer].s_buf \in Nat
          /\ d.xfers[r.r_xfer].s_buf <= d.xfers[r.r_xfer].e_buf
      BY <1>r, <3>2, TableNumbers, XferTypes DEF Table
    <3>5. d.xfers[j].e_buf <= d.xfers[r.r_xfer].e_buf
      <4>1. CASE j = r.r_xfer
        BY <3>4, <4>1
      <4>2. CASE j # r.r_xfer
        <5>1. j < r.r_xfer /\ r.r_xfer \in 1 .. Len(d.xfers)
          BY <1>r, <1>t, <3>0, <3>2, <4>2, TableNumbers
        <5>2. d.xfers[j].e_buf < d.xfers[r.r_xfer].s_buf
          BY <1>r, <3>2, <5>1, XferOrder
        <5> QED
          BY <3>4, <5>2
      <4> QED
        BY <4>1, <4>2
    <3> QED
      BY SMTT(30), <1>t, <2>1, <2>2, <3>2, <3>3, <3>4, <3>5
  <2>3. PICK j \in 1 .. Len(d.xfers) : InTransfer(d, j, c)
    BY DEF UsedBlocks
  <2>4. k \in 1 .. Len(d.xfers)
    <3>1. k <= j
      BY <1>2, <2>2, <2>3
    <3> QED
      BY <1>t, <3>1
  <2>5. b = d.xfers[k].s_buf /\ b \in Nat
    BY <1>3, <2>4, XferTypes DEF NextBlock
  <2>6. ASSUME NEW a \in Nat, NEW i \in 1 .. Len(d.xfers), InTransfer(d, i, a), D <= a
        PROVE  b <= a
    <3>0. i \in Nat /\ d.xfers[i].s_buf <= a /\ d.xfers[i].s_buf \in Nat
      BY <1>t, <2>6, XferTypes DEF InTransfer
    <3>1. k <= i
      BY <2>2, <2>6
    <3>2. CASE k = i
      BY <2>5, <3>0, <3>2
    <3>3. CASE k # i
      <4>1. k \in 1 .. d.w_xfer /\ k < i
        <5>1. Len(d.xfers) \in {d.w_xfer, d.w_xfer + 1}
          BY <1>r DEF Table
        <5>2. k \in Nat /\ 1 <= k /\ k < i /\ i <= Len(d.xfers)
          BY SMTT(30), <1>t, <3>0, <3>1, <3>3
        <5>3. Len(d.xfers) <= d.w_xfer + 1
          BY <1>t, <5>1
        <5> QED
          BY <1>t, <3>0, <5>2, <5>3
      <4>2. d.xfers[k].e_buf < d.xfers[i].s_buf
        BY <1>r, <4>1, XferOrder
      <4>3. d.xfers[k].s_buf <= d.xfers[k].e_buf /\ d.xfers[k].e_buf \in Nat
        BY <1>r, <2>4, <4>1, XferTypes DEF Table
      <4> QED
        BY SMTT(30), <2>5, <3>0, <4>2, <4>3
    <3> QED
      BY <3>2, <3>3
  <2>7. b < C
    <3>1. b <= c
      BY <1>2, <2>3, <2>6
    <3> QED
      BY <1>t, <1>2, <2>5, <3>1
  <2>8. InTransfer(d, k, b)
    <3>1. k <= d.w_xfer => d.xfers[k].s_buf <= d.xfers[k].e_buf
      <4>1. k <= d.w_xfer => k \in 1 .. d.w_xfer
        BY <1>t
      <4> QED
        BY <1>r, <4>1 DEF Table
    <3> QED
      BY <2>5, <3>1 DEF InTransfer
  <2>9. b \in U
    <3>1. b \in 0 .. C - 1
      BY <1>t, <2>5, <2>7
    <3> QED
      BY <2>4, <2>8, <3>1 DEF UsedBlocks
  <2>10. D <= b
    <3>1. CASE r.r_xfer = 0
      BY <1>t, <2>1, <2>5, <3>1
    <3>2. CASE r.r_xfer # 0
      <4>1. r.r_xfer \in 1 .. d.w_xfer /\ r.r_xfer < k
        BY <1>t, <3>2
      <4>2. d.xfers[r.r_xfer].e_buf < d.xfers[k].s_buf
        BY <1>r, <2>4, <4>1, XferOrder
      <4>3. d.xfers[r.r_xfer].e_buf \in Nat
        BY <1>r, <4>1, TableNumbers, XferTypes
      <4> QED
        BY <2>1, <2>5, <3>2, <4>2, <4>3
    <3> QED
      BY <3>1, <3>2
  <2>11. Among(U, D, b) = {}
    <3>1. ASSUME NEW a \in Among(U, D, b) PROVE FALSE
      <4>1. a \in U /\ a \in D .. b - 1
        BY DEF Among
      <4>2. a \in Nat /\ D <= a /\ a < b
        BY <1>t, <2>5, <4>1
      <4>3. PICK i \in 1 .. Len(d.xfers) : InTransfer(d, i, a)
        BY <4>1 DEF UsedBlocks
      <4>4. b <= a
        BY <2>6, <4>2, <4>3
      <4> QED
        BY <2>5, <4>2, <4>4
    <3> QED
      BY <3>1
  <2> QED
    <3>1. d.xfers[k].s_buf <= b
      BY <2>5
    <3> HIDE DEF b, U, D
    <3> QED
      BY <1>3, <2>4, <2>5, <2>7, <2>8, <2>9, <2>10, <2>11, <3>1
<1>4. CASE r.state # "READER"
  <2>1. r.state = "READING" /\ r.curbuf = NoBuf
    BY <1>4, ReaderTypes DEF ReadReady
  <2>2. b = r.r_buf /\ D = r.r_buf
    BY <1>4, <2>1 DEF NextBlock, Due
  <2>3. k <= Len(d.xfers) /\ InTransfer(d, k, b) /\ d.xfers[k].s_buf < b
    BY <1>r, <2>1, <2>2 DEF Place
  <2>4. k \in 1 .. Len(d.xfers)
    BY <1>t, <2>3
  <2>5. b \in Nat /\ b < C /\ D <= b /\ d.xfers[k].s_buf \in Nat
    BY <1>t, <1>2, <2>2, <2>4, XferTypes
  <2>6. b \in U
    <3>1. b \in 0 .. C - 1
      BY <1>t, <2>5
    <3> QED
      BY <2>3, <2>4, <3>1 DEF UsedBlocks
  <2>7. Among(U, D, b) = {}
    BY <1>t, <2>2 DEF Among
  <2>8. d.xfers[k].s_buf <= b /\ b # d.xfers[k].s_buf
    BY <2>3, <2>5
  <2> HIDE DEF b, U, D
  <2> QED
    BY <1>4, <2>3, <2>4, <2>5, <2>6, <2>7, <2>8
<1> QED
  BY <1>3, <1>4

(* ipcbuf_get_next_read: the token of a block goes to the reader.          *)
LEMMA RingTake ==
  ASSUME NEW r \in ReaderRec, NEW d \in IoRec, RingOK(r, d), ReadReady(r, d)
  PROVE  LET q == ipcbuf_get_next_read(r, d)
             e == Taken(d)
         IN /\ q \in ReaderRec /\ e \in IoRec
            /\ RingOK(q, e)
            /\ q.r_xfer = r.r_xfer /\ q.state = "READING" /\ q.curbuf # NoBuf
            /\ q.bytes = 0
            /\ Due(r, d) <= Due(q, e)
<1> DEFINE C == d.w_buf_curr
           U == UsedBlocks(d)
           D == Due(r, d)
           k == r.r_xfer + 1
           x == d.xfers[k]
           b == NextBlock(r, d)
           q == ipcbuf_get_next_read(r, d)
           e == Taken(d)
<1>r. Table(d) /\ Place(r, d) /\ Tokens(r, d)
  BY DEF RingOK
<1>1. /\ k \in 1 .. Len(d.xfers) /\ b \in Nat
      /\ InTransfer(d, k, b) /\ b < C /\ b \in U /\ D <= b
      /\ Among(U, D, b) = {}
      /\ x.s_buf <= b
      /\ r.state = "READER" <=> b = x.s_buf
  BY BlockToRead
<1>t. /\ C \in Nat /\ D \in Nat /\ r.r_xfer \in Nat /\ d.FULL \in Nat /\ d.w_xfer \in Nat
      /\ x.s_buf \in Nat /\ x.s_byte \in 0 .. BufSz /\ x.s_byte < BufSz
      /\ x.e_buf \in Nat /\ x.e_byte \in 0 .. BufSz /\ BufSz \in Nat
  <2>1. D \in Nat
    BY <1>r, DueNumbers
  <2>2. x.s_byte < BufSz
    BY <1>1, <1>r DEF Table
  <2> QED
    BY <1>1, <2>1, <2>2, IoTypes, ReaderTypes, XferTypes, RingPlaces
<1> DEFINE s == IF b = x.s_buf THEN x.s_byte ELSE 0
           end == IF k <= d.w_xfer /\ b = x.e_buf THEN x.e_byte ELSE BufSz
<1>2. x.eod /\ b = x.e_buf <=> k <= d.w_xfer /\ b = x.e_buf
  <2>1. CASE k <= d.w_xfer
    <3>1. k \in 1 .. d.w_xfer
      BY <1>1, <2>1
    <3> QED
      BY <1>r, <2>1, <3>1 DEF Table
  <2>2. CASE ~(k <= d.w_xfer)
    <3>1. k \in d.w_xfer + 1 .. Len(d.xfers)
      BY <1>1, <1>t, <2>2, IoTypes
    <3>2. x.eod => x.e_buf = 0 /\ x.s_buf > 0
      BY <1>r, <3>1 DEF Table
    <3> QED
      BY <1>1, <1>t, <2>2, <3>2
  <2> QED
    BY <2>1, <2>2
<1>3. s \in 0 .. BufSz /\ end - s \in 0 .. BufSz /\ end \in 0 .. BufSz
  <2>1. s \in 0 .. BufSz /\ end \in 0 .. BufSz
    BY <1>t
  <2>2. s <= end
    <3>1. CASE b = x.s_buf /\ k <= d.w_xfer /\ b = x.e_buf
      <4>1. k \in 1 .. d.w_xfer
        BY <1>1, <3>1
      <4>2. x.s_byte < x.e_byte
        BY <1>r, <3>1, <4>1 DEF Table
      <4> QED
        BY <1>t, <3>1, <4>2
    <3>2. CASE b # x.s_buf
      BY <1>t, <3>2
    <3>3. CASE ~(k <= d.w_xfer /\ b = x.e_buf)
      BY <1>t, <3>3
    <3> QED
      BY <3>1, <3>2, <3>3
  <2> HIDE DEF s, end
  <2> QED
    BY <1>t, <2>1, <2>2
<1>4. q = [r EXCEPT !.state = "READING", !.r_buf = b, !.start = s, !.bytes = 0,
                    !.curbuf = b % NBufs, !.curbufsz = end - s]
  <2>1. Xfer(r, d) = x
    <3>1. r.r_xfer < Len(d.xfers)
      BY <1>1, <1>t, IoTypes
    <3> QED
      BY <3>1 DEF Xfer
  <2> DEFINE first == r.state = "READER"
             g == [r EXCEPT !.state = "READING",
                            !.r_buf = IF first THEN Xfer(r, d).s_buf ELSE @,
                            !.start = IF first THEN Xfer(r, d).s_byte ELSE 0,
                            !.bytes = 0]
             g2 == [r EXCEPT !.state = "READING", !.r_buf = b, !.start = s, !.bytes = 0]
  <2>2. q = [g EXCEPT !.curbuf = g.r_buf % NBufs,
                      !.curbufsz = (IF AtEod(g, d) THEN Xfer(g, d).e_byte
                                                   ELSE BufSz)
                                   - (IF first THEN Xfer(r, d).s_byte ELSE 0)]
    BY DEF ipcbuf_get_next_read
  <2>3. g = g2
    <3>1. b = IF first THEN x.s_buf ELSE r.r_buf
      BY DEF NextBlock
    <3>2. s = IF first THEN x.s_byte ELSE 0
      BY <1>1
    <3> HIDE DEF b, s, x
    <3> QED
      BY <2>1, <3>1, <3>2
  <2>4. g2.r_buf = b /\ g2.r_xfer = r.r_xfer
    BY DEF ReaderRec
  <2> HIDE DEF g, g2
  <2>5. Xfer(g2, d) = x
    BY <2>1, <2>4 DEF Xfer
  <2>6. (IF AtEod(g, d) THEN Xfer(g, d).e_byte ELSE BufSz) = end
    BY <1>2, <2>3, <2>4, <2>5 DEF AtEod
  <2>7. (IF first THEN Xfer(r, d).s_byte ELSE 0) = s
    BY <1>1, <2>1
  <2>8. q = [g2 EXCEPT !.curbuf = b % NBufs, !.curbufsz = end - s]
    BY <2>2, <2>3, <2>4, <2>6, <2>7
  <2> HIDE DEF b, s, end, q
  <2> QED
    BY <2>8 DEF g2
<1> HIDE DEF q
<1>5. q \in ReaderRec
  <2>1. b % NBufs \in Ring
    BY <1>1, PlaceInRing
  <2> HIDE DEF b, s, end
  <2> QED
    BY <1>1, <1>3, <1>4, <2>1 DEF ReaderRec
<1>6. /\ q.state = "READING" /\ q.r_buf = b /\ q.start = s /\ q.bytes = 0
      /\ q.curbuf = b % NBufs /\ q.curbufsz = end - s /\ q.r_xfer = r.r_xfer
  BY <1>4 DEF ReaderRec
<1>7. q.curbuf # NoBuf
  BY <1>1, <1>6, PlaceInRing, RingPlaces
<1>8. e \in IoRec /\ e.FULL = d.FULL - 1 /\ e.CLEAR = d.CLEAR
      /\ e.xfers = d.xfers /\ e.w_xfer = d.w_xfer /\ e.soclock_buf = d.soclock_buf
      /\ e.w_buf_curr = C /\ e.w_buf_next = d.w_buf_next /\ e.count = d.count
  <2>1. d.FULL - 1 \in Nat
    BY <1>t DEF ReadReady
  <2>2. e = [d EXCEPT !.FULL = d.FULL - 1]
    BY DEF Taken
  <2> HIDE DEF e
  <2> QED
    BY <2>1, <2>2 DEF IoRec
<1> HIDE DEF e
<1>9. /\ Base(e) = Base(d) /\ Due(q, e) = b /\ UsedBlocks(e) = U
      /\ \A j, c : InTransfer(e, j, c) <=> InTransfer(d, j, c)
  <2>1. \A j, c : InTransfer(e, j, c) <=> InTransfer(d, j, c)
    BY <1>8 DEF InTransfer
  <2> QED
    BY <1>6, <1>8, <2>1 DEF Base, Due, UsedBlocks
<1>10. Table(e)
  BY <1>r, <1>8, <1>9 DEF Table
<1>11. Place(q, e)
  <2>1. r.r_xfer <= d.w_xfer
    BY <1>r DEF Place
  <2>2. q.start + q.curbufsz = end
    <3> HIDE DEF s, end
    <3> QED
      BY <1>3, <1>6
  <2>3. q.bytes <= q.curbufsz
    <3> HIDE DEF s, end
    <3> QED
      BY <1>3, <1>6
  <2>4. q.r_xfer + 1 <= Len(d.xfers) /\ b <= C
    BY <1>1, <1>6, <1>t, IoTypes
  <2> HIDE DEF b
  <2> QED
    BY <1>1, <1>6, <1>7, <1>8, <1>9, <2>1, <2>2, <2>3, <2>4 DEF Place
<1>12. Tokens(q, e)
  <2>1. e.FULL + 1 = HowMany(U, b, C)
    <3>1. d.FULL + 0 = HowMany(U, D, C)
      BY <1>r DEF Tokens, ReadReady
    <3>2. Among(U, D, C) = Among(U, b, C)
      <4> HIDE DEF U, D, C, b
      <4> QED
        BY <1>1, <1>t, SkipNone
    <3> QED
      BY <1>t, <1>8, <3>1, <3>2 DEF HowMany
  <2>2. PICK from \in d.w_buf_next - NBufs .. d.w_buf_next : TakenBack(r, d, from)
    BY <1>r DEF Tokens
  <2>3. from \in Int /\ d.CLEAR = HowMany(U, from, D) /\ Among(U, D, from) = {}
    <3>1. from \in Int
      BY <2>2, IoTypes, RingPlaces
    <3> QED
      BY <2>2, <3>1 DEF TakenBack
  <2>4. HowMany(U, from, D) = HowMany(U, from, b)
    <3>1. CASE from <= D
      <4>1. HowMany(U, from, b) = HowMany(U, from, D) + HowMany(U, D, b)
        <5> HIDE DEF U, D, b
        <5> QED
          BY <1>1, <1>t, <2>3, <3>1, SplitAmong
      <4>2. HowMany(U, D, b) = 0
        <5> HIDE DEF U, D, b
        <5> QED
          BY <1>1, <1>t, AmongEmpty
      <4>3. HowMany(U, from, D) \in Nat
        BY <1>t, <2>3, AmongFinite
      <4> QED
        BY <4>1, <4>2, <4>3
    <3>2. CASE ~(from <= D)
      <4>1. Among(U, from, D) = {}
        BY <1>t, <2>3, <3>2 DEF Among
      <4>2. Among(U, from, b) \subseteq Among(U, D, b)
        <5> HIDE DEF U, D, b
        <5> QED
          BY <1>1, <1>t, <2>3, <3>2 DEF Among
      <4>3. Among(U, from, b) = {}
        BY <1>1, <4>2
      <4> QED
        BY <4>1, <4>3 DEF HowMany
    <3> QED
      BY <3>1, <3>2
  <2>5. Among(U, b, from) = {}
    <3>1. Among(U, b, from) \subseteq Among(U, D, from)
      <4> HIDE DEF U, D, b
      <4> QED
        BY <1>1, <1>t, <2>3 DEF Among
    <3> QED
      BY <2>3, <3>1
  <2>6. TakenBack(q, e, from)
    <3> HIDE DEF U, D, b
    <3> QED
      BY <1>8, <1>9, <2>2, <2>3, <2>4, <2>5 DEF TakenBack, U
  <2> QED
    BY <1>7, <1>8, <1>9, <2>1, <2>2, <2>6 DEF Tokens
<1>13. D <= Due(q, e)
  BY <1>1, <1>9
<1> QED
  BY <1>5, <1>6, <1>7, <1>8, <1>10, <1>11, <1>12, <1>13 DEF RingOK, q, e

(* The reader's place in its block changes.                                *)
LEMMA RingBytes ==
  ASSUME NEW r \in ReaderRec, NEW d \in IoRec, RingOK(r, d), r.curbuf # NoBuf,
         NEW m \in Nat, m <= r.curbufsz
  PROVE  LET q == [r EXCEPT !.bytes = m] IN
         /\ q \in ReaderRec /\ RingOK(q, d) /\ Due(q, d) = Due(r, d)
         /\ q.state = r.state /\ q.r_buf = r.r_buf /\ q.r_xfer = r.r_xfer
         /\ q.curbuf = r.curbuf /\ q.start = r.start /\ q.bytes = m
         /\ q.curbufsz = r.curbufsz
<1> DEFINE q == [r EXCEPT !.bytes = m]
<1>1. /\ q \in ReaderRec
      /\ q.state = r.state /\ q.r_buf = r.r_buf /\ q.r_xfer = r.r_xfer
      /\ q.curbuf = r.curbuf /\ q.start = r.start /\ q.bytes = m
      /\ q.curbufsz = r.curbufsz
  BY DEF ReaderRec
<1> HIDE DEF q
<1>2. Due(q, d) = Due(r, d)
  BY <1>1 DEF Due
<1>3. Place(q, d)
  BY <1>1 DEF RingOK, Place
<1>4. \A from : TakenBack(q, d, from) <=> TakenBack(r, d, from)
  BY <1>2 DEF TakenBack
<1>5. Tokens(q, d)
  BY <1>1, <1>2, <1>4 DEF RingOK, Tokens
<1> QED
  BY <1>1, <1>2, <1>3, <1>5 DEF RingOK, q

(* ipcbuf_reset.                                                           *)
LEMMA RingReset ==
  ASSUME NEW r \in ReaderRec, NEW d \in IoRec, RingOK(r, d), r.state = "RSTOP"
  PROVE  LET q == ipcbuf_reset(r) IN
         q \in ReaderRec /\ RingOK(q, d) /\ Due(q, d) = Due(r, d)
           /\ q.state = "READER"
<1> DEFINE q == ipcbuf_reset(r)
<1>1. /\ q \in ReaderRec
      /\ q.state = "READER" /\ q.r_buf = r.r_buf /\ q.r_xfer = r.r_xfer
      /\ q.curbuf = r.curbuf /\ q.start = r.start /\ q.bytes = r.bytes
      /\ q.curbufsz = r.curbufsz
  BY DEF ReaderRec, ipcbuf_reset
<1> HIDE DEF q
<1>2. Due(q, d) = Due(r, d)
  BY <1>1 DEF Due
<1>3. Place(q, d)
  BY <1>1 DEF RingOK, Place
<1>4. \A from : TakenBack(q, d, from) <=> TakenBack(r, d, from)
  BY <1>2 DEF TakenBack
<1>5. Tokens(q, d)
  BY <1>1, <1>2, <1>4 DEF RingOK, Tokens
<1> QED
  BY <1>1, <1>2, <1>3, <1>5 DEF RingOK, q

(* The block the reader holds is used, and the first it has not cleared;   *)
(* end of data is found when it is the last of an ended transfer.          *)
LEMMA BlockHeld ==
  ASSUME NEW r \in ReaderRec, NEW d \in IoRec, RingOK(r, d), r.curbuf # NoBuf
  PROVE  LET k == r.r_xfer + 1 IN
         /\ r.state = "READING" /\ k \in 1 .. Len(d.xfers)
         /\ InTransfer(d, k, r.r_buf) /\ r.r_buf < d.w_buf_curr
         /\ d.xfers[k].s_buf <= r.r_buf
         /\ Due(r, d) = r.r_buf /\ r.r_buf \in UsedBlocks(d)
         /\ Xfer(r, d) = d.xfers[k]
         /\ AtEod(r, d) <=> k <= d.w_xfer /\ r.r_buf = d.xfers[k].e_buf
<1> DEFINE k == r.r_xfer + 1
           x == d.xfers[k]
<1>r. Table(d) /\ Place(r, d)
  BY DEF RingOK
<1>1. /\ r.state = "READING" /\ k <= Len(d.xfers) /\ InTransfer(d, k, r.r_buf)
      /\ r.r_buf < d.w_buf_curr
  BY <1>r DEF Place
<1>t. /\ d.w_buf_curr \in Nat /\ r.r_buf \in Nat /\ r.r_xfer \in Nat /\ Len(d.xfers) \in Nat
      /\ d.w_xfer \in Nat
  BY IoTypes, ReaderTypes
<1>2. k \in 1 .. Len(d.xfers) /\ r.r_xfer < Len(d.xfers)
  BY <1>1, <1>t
<1>3. Due(r, d) = r.r_buf
  BY <1>1 DEF Due
<1>4. r.r_buf \in UsedBlocks(d)
  <2>1. r.r_buf \in 0 .. d.w_buf_curr - 1
    BY <1>1, <1>t
  <2> QED
    BY <1>1, <1>2, <2>1 DEF UsedBlocks
<1>5. Xfer(r, d) = x
  BY <1>2 DEF Xfer
<1>6. x.eod /\ r.r_buf = x.e_buf <=> k <= d.w_xfer /\ r.r_buf = x.e_buf
  <2>1. CASE k <= d.w_xfer
    <3>1. k \in 1 .. d.w_xfer
      BY <1>2, <2>1
    <3> QED
      BY <1>r, <2>1, <3>1 DEF Table
  <2>2. CASE ~(k <= d.w_xfer)
    <3>1. k \in d.w_xfer + 1 .. Len(d.xfers)
      BY <1>2, <1>t, <2>2
    <3>2. x.eod => x.e_buf = 0 /\ x.s_buf > 0
      BY <1>r, <3>1 DEF Table
    <3>3. x.s_buf <= r.r_buf /\ x.s_buf \in Nat
      BY <1>1, <1>2, XferTypes DEF InTransfer
    <3> QED
      BY <1>t, <2>2, <3>2, <3>3
  <2> QED
    BY <2>1, <2>2
<1>7. AtEod(r, d) <=> k <= d.w_xfer /\ r.r_buf = x.e_buf
  BY <1>5, <1>6 DEF AtEod
<1>8. x.s_buf <= r.r_buf
  BY <1>1 DEF InTransfer
<1> QED
  BY <1>1, <1>2, <1>3, <1>4, <1>5, <1>7, <1>8

(* ipcbuf_mark_cleared: the reader gives the block back.                   *)
LEMMA RingClear ==
  ASSUME NEW r \in ReaderRec, NEW d \in IoRec, RingOK(r, d), r.curbuf # NoBuf
  PROVE  LET q == ipcbuf_mark_cleared(r, d)
             e == Cleared(d)
         IN /\ q \in ReaderRec /\ e \in IoRec /\ RingOK(q, e)
            /\ Due(q, e) = Due(r, d) + 1
            /\ q.curbuf = NoBuf /\ q.bytes = 0
            /\ IF AtEod(r, d) THEN q.state = "RSTOP" /\ q.r_xfer = r.r_xfer + 1
                              ELSE q.state = "READING" /\ q.r_xfer = r.r_xfer
<1> DEFINE C == d.w_buf_curr
           U == UsedBlocks(d)
           D == Due(r, d)
           k == r.r_xfer + 1
           x == d.xfers[k]
           q == ipcbuf_mark_cleared(r, d)
           e == Cleared(d)
           end == AtEod(r, d)
<1>r. Table(d) /\ Place(r, d) /\ Tokens(r, d)
  BY DEF RingOK
<1>1. /\ r.state = "READING" /\ k \in 1 .. Len(d.xfers)
      /\ InTransfer(d, k, r.r_buf) /\ r.r_buf < C
      /\ x.s_buf <= r.r_buf
      /\ D = r.r_buf /\ D \in U
      /\ end <=> k <= d.w_xfer /\ r.r_buf = x.e_buf
  BY BlockHeld
<1>t. /\ C \in Nat /\ r.r_buf \in Nat /\ r.r_xfer \in Nat /\ D \in Nat /\ d.w_xfer \in Nat
      /\ d.CLEAR \in Nat /\ d.FULL \in Nat /\ x.s_buf \in Nat /\ x.e_buf \in Nat
      /\ Len(d.xfers) \in Nat
  BY <1>1, IoTypes, ReaderTypes, XferTypes
<1> HIDE DEF end, q
<1>2. /\ q \in ReaderRec /\ q.curbuf = NoBuf /\ q.bytes = 0
      /\ end => q.state = "RSTOP" /\ q.r_xfer = k
      /\ ~end => q.state = "READING" /\ q.r_xfer = r.r_xfer /\ q.r_buf = r.r_buf + 1
  <2>1. CASE end
    <3>1. q = [r EXCEPT !.curbuf = NoBuf, !.bytes = 0, !.state = "RSTOP",
                        !.r_xfer = r.r_xfer + 1]
      BY <2>1 DEF ipcbuf_mark_cleared, end, ReaderRec, q
    <3>2. r.r_xfer + 1 \in Nat /\ NoBuf \in Ring \cup {NoBuf}
      BY <1>t
    <3> QED
      BY <2>1, <3>1, <3>2 DEF ReaderRec
  <2>2. CASE ~end
    <3>1. q = [r EXCEPT !.curbuf = NoBuf, !.bytes = 0, !.r_buf = r.r_buf + 1]
      BY <2>2 DEF ipcbuf_mark_cleared, end, ReaderRec, q
    <3>2. r.r_buf + 1 \in Nat /\ NoBuf \in Ring \cup {NoBuf} /\ r.state = "READING"
      BY <1>1, <1>t
    <3> QED
      BY <2>2, <3>1, <3>2 DEF ReaderRec
  <2> QED
    BY <2>1, <2>2
<1>8. e \in IoRec /\ e.CLEAR = d.CLEAR + 1 /\ e.FULL = d.FULL
      /\ e.xfers = d.xfers /\ e.w_xfer = d.w_xfer /\ e.soclock_buf = d.soclock_buf
      /\ e.w_buf_curr = C /\ e.w_buf_next = d.w_buf_next /\ e.count = d.count
  <2>1. d.CLEAR + 1 \in Nat
    BY <1>t
  <2>2. e = [d EXCEPT !.CLEAR = d.CLEAR + 1]
    BY DEF Cleared
  <2> HIDE DEF e
  <2> QED
    BY <2>1, <2>2 DEF IoRec
<1> HIDE DEF e
<1>9. /\ Base(e) = Base(d) /\ UsedBlocks(e) = U
      /\ \A j, c : InTransfer(e, j, c) <=> InTransfer(d, j, c)
  <2>1. \A j, c : InTransfer(e, j, c) <=> InTransfer(d, j, c)
    BY <1>8 DEF InTransfer
  <2> QED
    BY <1>8, <2>1 DEF Base, UsedBlocks
<1>10. Due(q, e) = D + 1
  <2>1. CASE end
    <3>1. k # 0
      BY <1>t
    <3> QED
      BY <1>1, <1>2, <1>8, <2>1, <3>1 DEF Due
  <2>2. CASE ~end
    BY <1>1, <1>2, <2>2 DEF Due
  <2> QED
    BY <2>1, <2>2
<1>11. Table(e)
  BY <1>r, <1>8, <1>9 DEF Table
<1>12. Place(q, e)
  <2>0. r.r_xfer <= d.w_xfer
    BY <1>r DEF Place
  <2>1. CASE end
    <3>1. k <= d.w_xfer /\ k > 0
      BY <1>1, <1>t, <2>1
    <3> QED
      BY <1>2, <1>8, <2>1, <3>1 DEF Place
  <2>2. CASE ~end
    <3>1. InTransfer(d, k, r.r_buf + 1)
      <4>1. x.s_buf <= r.r_buf + 1
        BY <1>1, <1>t
      <4>2. k <= d.w_xfer => r.r_buf + 1 <= x.e_buf
        BY SMTT(30), <1>1, <1>t, <2>2 DEF InTransfer
      <4> QED
        BY <4>1, <4>2 DEF InTransfer
    <3>2. r.r_buf + 1 <= C /\ x.s_buf < r.r_buf + 1 /\ k <= Len(d.xfers)
      BY <1>1, <1>t
    <3> QED
      BY <1>2, <1>8, <1>9, <2>0, <2>2, <3>1, <3>2 DEF Place
  <2> QED
    BY <2>1, <2>2
<1>13. Tokens(q, e)
  <2>1. e.FULL + 0 = HowMany(U, D + 1, C)
    <3>1. d.FULL + 1 = HowMany(U, D, C)
      BY <1>r DEF Tokens
    <3>2. HowMany(U, D, C) = HowMany(U, D + 1, C) + 1
      <4>1. D < C /\ D \in U /\ D \in Int /\ C \in Int
        BY <1>1, <1>t
      <4> HIDE DEF U, D, C
      <4> QED
        BY <4>1, FirstAmong
    <3>3. HowMany(U, D + 1, C) \in Nat
      BY <1>t, AmongFinite
    <3> QED
      BY SMTT(30), <1>t, <1>8, <3>1, <3>2, <3>3
  <2>2. PICK from \in d.w_buf_next - NBufs .. d.w_buf_next : TakenBack(r, d, from)
    BY <1>r DEF Tokens
  <2>3. from \in Int /\ d.CLEAR = HowMany(U, from, D) /\ Among(U, D, from) = {}
    <3>1. from \in Int
      BY <2>2, IoTypes, RingPlaces
    <3> QED
      BY <2>2, <3>1 DEF TakenBack
  <2>4. from <= D
    <3>1. D \notin D .. from - 1
      BY <1>1, <2>3 DEF Among
    <3> QED
      BY <1>t, <2>3, <3>1
  <2>5. HowMany(U, from, D + 1) = HowMany(U, from, D) + 1
    <3>1. D \in U
      BY <1>1
    <3> HIDE DEF U, D
    <3> QED
      BY <1>t, <2>3, <2>4, <3>1, LastAmong
  <2>6. Among(U, D + 1, from) = {}
    BY <1>t, <2>3, <2>4 DEF Among
  <2>7. TakenBack(q, e, from)
    <3> HIDE DEF U, D
    <3> QED
      BY <1>8, <1>9, <1>10, <2>2, <2>3, <2>5, <2>6 DEF TakenBack, U
  <2> QED
    BY <1>2, <1>8, <1>9, <1>10, <2>1, <2>2, <2>7 DEF Tokens
<1> QED
  BY <1>2, <1>8, <1>10, <1>11, <1>12, <1>13 DEF RingOK, q, e, end

(* A step that leaves the ring alone keeps all that is said of it.         *)
LEMMA RingStay ==
  ASSUME NEW r \in ReaderRec, NEW d \in IoRec, NEW e \in IoRec,
         SameRing(d, e), RingOK(r, d)
  PROVE  RingOK(r, e) /\ Base(e) = Base(d) /\ Due(r, e) = Due(r, d)
<1>x. /\ e.xfers = d.xfers /\ e.w_xfer = d.w_xfer /\ e.soclock_buf = d.soclock_buf
      /\ e.w_buf_curr = d.w_buf_curr /\ e.w_buf_next = d.w_buf_next
      /\ e.count = d.count /\ e.FULL = d.FULL /\ e.CLEAR = d.CLEAR
  BY DEF SameRing
<1>1. /\ Base(e) = Base(d) /\ Due(r, e) = Due(r, d)
      /\ \A j, c : InTransfer(e, j, c) <=> InTransfer(d, j, c)
  BY <1>x DEF InTransfer, Due, Base
<1>2. UsedBlocks(e) = UsedBlocks(d)
  BY <1>x, <1>1 DEF UsedBlocks
<1>3. Table(e)
  BY <1>x, <1>1 DEF RingOK, Table
<1>4. Place(r, e)
  BY <1>x, <1>1 DEF RingOK, Place
<1>5. \A from : TakenBack(r, e, from) <=> TakenBack(r, d, from)
  BY <1>x, <1>1, <1>2 DEF TakenBack
<1>6. Tokens(r, e)
  BY <1>x, <1>1, <1>2, <1>5 DEF RingOK, Tokens
<1> QED
  BY <1>1, <1>3, <1>4, <1>6 DEF RingOK

-----------------------------------------------------------------------------
(***************************************************************************)
(* The bytes.                                                              *)
(***************************************************************************)
AddrSeq == Seq(Nat \cup {GivenBack})

(* The addresses of bytes.                                                 *)
LEMMA AddressType ==
  ASSUME NEW b \in Int, NEW i \in Int
  PROVE  /\ Address(b, i) \in Int /\ Address(b, 0) \in Int
         /\ Address(b, i) = Address(b, 0) + i
         /\ Address(b, 0) = b * BufSz
<1>1. BufSz \in Nat \ {0}
  BY RingPlaces
<1> DEFINE p == b * BufSz
<1>2. p \in Int
  BY <1>1
<1>3. Address(b, i) = p + i /\ Address(b, 0) = p + 0
  BY DEF Address
<1> HIDE DEF p
<1>4. Address(b, i) \in Int /\ Address(b, 0) = p /\ Address(b, i) = Address(b, 0) + i
  BY <1>2, <1>3
<1> QED
  BY <1>2, <1>4 DEF p

(* The next block begins where this one ends.                              *)
LEMMA AddressNext ==
  ASSUME NEW b \in Int
  PROVE  Address(b + 1, 0) = Address(b, 0) + BufSz
<1>1. BufSz \in Nat \ {0}
  BY RingPlaces
<1>2. (b + 1) * BufSz = b * BufSz + BufSz
  BY <1>1
<1>3. b + 1 \in Int
  OBVIOUS
<1> QED
  BY <1>2, <1>3, AddressType

(* Blocks begin in the order of their numbers.                             *)
LEMMA AddressRises ==
  ASSUME NEW b \in Int, NEW c \in Int, b <= c
  PROVE  Address(b, 0) <= Address(c, 0)
<1>1. BufSz \in Nat \ {0}
  BY RingPlaces
<1>2. CASE b = c
  BY <1>2, AddressType
<1>3. CASE b < c
  <2>1. b * BufSz \in Int /\ c * BufSz \in Int /\ b * BufSz < c * BufSz
    BY <1>1, <1>3, AddressOrder
  <2>2. Address(b, 0) = b * BufSz /\ Address(c, 0) = c * BufSz
    BY AddressType
  <2> QED
    BY <2>1, <2>2
<1> QED
  BY <1>2, <1>3

(* An address belongs to one byte of one block.                            *)
LEMMA SameAddress ==
  ASSUME NEW b \in Int, NEW c \in Int, NEW i \in 0 .. BufSz - 1,
         NEW j \in 0 .. BufSz - 1, Address(b, i) = Address(c, j)
  PROVE  b = c /\ i = j
<1>1. BufSz \in Nat \ {0}
  BY RingPlaces
<1>2. b * BufSz + i = c * BufSz + j
  BY DEF Address
<1> QED
  BY <1>1, <1>2, AddressUnique

(* A byte comes before a block exactly if its own block does.              *)
LEMMA InBlock ==
  ASSUME NEW b \in Int, NEW c \in Int, NEW i \in 0 .. BufSz - 1
  PROVE  Address(b, i) < Address(c, 0) <=> b < c
<1>1. BufSz \in Nat \ {0}
  BY RingPlaces
<1>2. Address(b, i) = b * BufSz + i
  BY DEF Address
<1>3. Address(c, 0) = c * BufSz
  BY AddressType
<1> QED
  BY <1>1, <1>2, <1>3, AddressBefore

(* Nothing is stored, no block obtained, no transfer started or ended.     *)
LEMMA DataStay ==
  ASSUME NEW r, NEW q, NEW d \in IoRec, NEW e \in IoRec, NEW ad \in AddrSeq, NEW st, NEW z \in Int,
         Data(r, d, ad, st, z),
         e.xfers = d.xfers, e.w_xfer = d.w_xfer, e.w_buf_next = d.w_buf_next,
         e.mem = d.mem,
         Due(r, d) \in Nat, Due(q, e) \in Nat, Due(r, d) <= Due(q, e)
  PROVE  Data(q, e, ad, st, z)
<1>1. /\ Base(e) = Base(d)
      /\ \A j, c : InTransfer(e, j, c) <=> InTransfer(d, j, c)
  BY DEF InTransfer, Base
<1>2. Promised(e, ad, st)
  BY DEF Promised, Data
<1>3. Contents(q, e, ad)
  <2>1. ASSUME NEW v \in 1 .. Len(ad), NEW b \in e.w_buf_next - NBufs .. e.w_buf_next - 1,
               NEW j \in 0 .. BufSz - 1,
               ad[v] # GivenBack, ad[v] = Address(b, j),
               \/ b >= Base(e)
               \/ b >= Due(q, e) /\ \E k \in 1 .. Len(e.xfers) : InTransfer(e, k, b)
        PROVE  e.mem[b % NBufs][j] = v
    <3>1. b \in Int
      BY IoTypes, RingPlaces
    <3>2. \/ b >= Base(d)
          \/ b >= Due(r, d) /\ \E k \in 1 .. Len(d.xfers) : InTransfer(d, k, b)
      BY <1>1, <2>1, <3>1
    <3> QED
      BY <2>1, <3>2 DEF Data, Contents
  <2> QED
    BY <2>1 DEF Contents
<1> QED
  BY <1>1, <1>2, <1>3 DEF Data

(* Start of data is raised where it was asked for.                         *)
LEMMA DataSod ==
  ASSUME NEW r \in ReaderRec, NEW d \in IoRec, NEW e \in IoRec,
         NEW b \in Nat, NEW y \in 0 .. BufSz,
         NEW ad \in AddrSeq, NEW st \in Seq(SentRec), NEW z \in Int,
         RingOK(r, d), Data(r, d, ad, st, z), SodRaised(d, e, b, y), e.mem = d.mem,
         Len(d.xfers) = d.w_xfer, b >= Base(d),
         Len(d.xfers) < Len(st), st[Len(d.xfers) + 1].at = Address(b, y)
  PROVE  Data(r, e, ad, st, z) /\ Base(e) = Base(d)
<1> DEFINE L == Len(d.xfers)
<1>r. Table(d) /\ Place(r, d)
  BY DEF RingOK
<1>t. L \in Nat /\ d.w_xfer = L /\ r.r_xfer \in Nat /\ r.r_xfer <= L /\ Len(st) \in Nat
  BY <1>r, IoTypes, ReaderTypes DEF Place
<1>x. /\ Len(e.xfers) = L + 1 /\ e.w_xfer = L
      /\ \A k \in 1 .. L : e.xfers[k] = d.xfers[k]
      /\ e.xfers[L + 1].s_buf = b /\ e.xfers[L + 1].s_byte = y
      /\ e.w_buf_next = d.w_buf_next
  BY SMTT(30) DEF SodRaised
<1>1. Base(e) = Base(d)
  <2>1. e.w_xfer = d.w_xfer /\ (d.w_xfer = 0 \/ d.w_xfer \in 1 .. L)
    BY <1>t, <1>x
  <2> QED
    BY <1>x, <2>1, SameBase
<1>2. Due(r, e) = Due(r, d)
  <2>1. r.r_xfer = 0 \/ r.r_xfer \in 1 .. L
    BY <1>t
  <2> QED
    BY <1>x, <2>1 DEF Due
<1>3. Promised(e, ad, st)
  <2>1. Len(e.xfers) <= Len(st)
    BY <1>t, <1>x
  <2>2. ASSUME NEW k \in 1 .. Len(e.xfers) PROVE st[k].at = StartAddr(e.xfers[k])
    <3>1. CASE k = L + 1
      BY <1>x, <3>1 DEF StartAddr
    <3>2. CASE k # L + 1
      <4>1. k \in 1 .. L
        BY <1>t, <1>x, <3>2
      <4> QED
        BY <1>x, <4>1 DEF Data, Promised
    <3> QED
      BY <3>1, <3>2
  <2>3. ASSUME NEW k \in 1 .. Len(st), k <= e.w_xfer PROVE k \in 1 .. L
    BY <1>t, <1>x, <2>3
  <2> QED
    BY <1>t, <1>x, <2>1, <2>2, <2>3 DEF Data, Promised
<1>4. Contents(r, e, ad)
  <2>1. ASSUME NEW v \in 1 .. Len(ad), NEW c \in e.w_buf_next - NBufs .. e.w_buf_next - 1,
               NEW j \in 0 .. BufSz - 1,
               ad[v] # GivenBack, ad[v] = Address(c, j),
               \/ c >= Base(e)
               \/ c >= Due(r, e) /\ \E k \in 1 .. Len(e.xfers) : InTransfer(e, k, c)
        PROVE  e.mem[c % NBufs][j] = v
    <3>1. c \in Int /\ Base(d) \in Nat
      BY <1>r, IoTypes, RingPlaces, TableNumbers
    <3>2. ASSUME NEW k \in 1 .. Len(e.xfers), InTransfer(e, k, c), c >= Due(r, e)
          PROVE  \/ c >= Base(d)
                 \/ c >= Due(r, d) /\ \E i \in 1 .. Len(d.xfers) : InTransfer(d, i, c)
      <4>1. CASE k = L + 1
        <5>1. b <= c
          BY <1>x, <3>2, <4>1 DEF InTransfer
        <5> QED
          BY <3>1, <5>1
      <4>2. CASE k # L + 1
        <5>1. k \in 1 .. L
          BY SMTT(30), <1>t, <1>x, <4>2
        <5>2. InTransfer(d, k, c)
          BY <1>x, <3>2, <5>1, <1>t DEF InTransfer
        <5> QED
          BY <1>2, <3>2, <5>1, <5>2
      <4> QED
        BY <4>1, <4>2
    <3>3. \/ c >= Base(d)
          \/ c >= Due(r, d) /\ \E k \in 1 .. Len(d.xfers) : InTransfer(d, k, c)
      BY <1>1, <2>1, <3>2
    <3> QED
      BY SMTT(30), <1>x, <2>1, <3>3 DEF Data, Contents
  <2> QED
    BY SMTT(30), <2>1 DEF Contents
<1> QED
  BY <1>1, <1>3, <1>4 DEF Data

(* The next block is taken: no byte was written there yet.                 *)
LEMMA DataGet ==
  ASSUME NEW r, NEW d \in IoRec, NEW e \in IoRec, NEW ad \in AddrSeq, NEW st, NEW z \in Int,
         Data(r, d, ad, st, z), BlockTaken(d, e), e.mem = d.mem,
         z <= Address(d.w_buf_next, 0)
  PROVE  Data(r, e, ad, st, z) /\ Base(e) = Base(d)
<1>x. /\ e.xfers = d.xfers /\ e.w_xfer = d.w_xfer /\ e.w_buf_next = d.w_buf_next + 1
  BY DEF BlockTaken
<1>1. /\ Base(e) = Base(d) /\ Due(r, e) = Due(r, d)
      /\ \A j, c : InTransfer(e, j, c) <=> InTransfer(d, j, c)
  BY <1>x DEF InTransfer, Base, Due
<1>2. Promised(e, ad, st)
  BY <1>x DEF Promised, Data
<1>3. Contents(r, e, ad)
  <2>1. ASSUME NEW v \in 1 .. Len(ad), NEW b \in e.w_buf_next - NBufs .. e.w_buf_next - 1,
               NEW j \in 0 .. BufSz - 1,
               ad[v] # GivenBack, ad[v] = Address(b, j),
               \/ b >= Base(e)
               \/ b >= Due(r, e) /\ \E k \in 1 .. Len(e.xfers) : InTransfer(e, k, b)
        PROVE  e.mem[b % NBufs][j] = v
    <3>t. b \in Int /\ d.w_buf_next \in Nat /\ BufSz \in Nat \ {0} /\ NBufs \in Nat
      BY IoTypes, RingPlaces
    <3>1. b # d.w_buf_next
      <4>1. ad[v] < z
        BY <2>1 DEF Data, Increasing
      <4>2. Address(b, j) = Address(b, 0) + j /\ Address(b, 0) \in Int /\ j \in Nat
        <5>1. j \in Int /\ j \in Nat
          BY <3>t
        <5> QED
          BY <3>t, <5>1, AddressType
      <4> HIDE DEF GivenBack
      <4> QED
        BY <2>1, <4>1, <4>2
    <3>2. b \in d.w_buf_next - NBufs .. d.w_buf_next - 1
      BY <1>x, <3>t, <3>1
    <3> QED
      BY <1>1, <1>x, <2>1, <3>2 DEF Data, Contents
  <2> QED
    BY <2>1 DEF Contents
<1> QED
  BY <1>1, <1>2, <1>3 DEF Data

(* A transfer ends with the last byte that was written.                    *)
LEMMA DataEnd ==
  ASSUME NEW r \in ReaderRec, NEW d \in IoRec, NEW e \in IoRec, NEW y \in 0 .. BufSz,
         NEW ad \in AddrSeq, NEW st \in Seq(SentRec), NEW z \in Int,
         RingOK(r, d), Data(r, d, ad, st, z), EodRaised(d, e, y), e.mem = d.mem,
         Len(d.xfers) = d.w_xfer + 1, Len(st) = Len(d.xfers),
         z = Address(d.w_buf_curr, y),
         StartAddr(d.xfers[d.w_xfer + 1]) < z
  PROVE  /\ Data(r, e, ad, [st EXCEPT ![Len(st)].to = Len(ad)], z)
         /\ [st EXCEPT ![Len(st)].to = Len(ad)] \in Seq(SentRec)
<1> DEFINE L == d.w_xfer
           x == L + 1
           C == d.w_buf_curr
           K == Base(d)
           n0 == Len(ad)
           tt == [st EXCEPT ![Len(st)].to = n0]
<1>r. Table(d) /\ Place(r, d)
  BY DEF RingOK
<1>t. /\ L \in Nat /\ C \in Nat /\ n0 \in Nat /\ x \in 1 .. x /\ Len(d.xfers) = x
      /\ Len(st) = x /\ BufSz \in Nat \ {0} /\ K \in Nat /\ K <= C
      /\ r.r_xfer \in Nat /\ r.r_xfer <= L
      /\ d.xfers[x].s_buf \in Nat /\ d.xfers[x].s_byte \in 0 .. BufSz
  <2>1. L \in Nat /\ C \in Nat /\ BufSz \in Nat \ {0} /\ n0 \in Nat /\ r.r_xfer \in Nat
    BY IoTypes, RingPlaces, ReaderTypes
  <2>2. x \in 1 .. Len(d.xfers)
    BY <2>1
  <2>3. K \in Nat /\ K <= C /\ r.r_xfer <= L
    BY <1>r, TableNumbers DEF Place
  <2>4. d.xfers[x].s_buf \in Nat /\ d.xfers[x].s_byte \in 0 .. BufSz
    BY <2>2, XferTypes
  <2> QED
    BY <2>1, <2>2, <2>3, <2>4
<1>x. /\ e.w_xfer = x /\ Len(e.xfers) = x
      /\ \A k \in 1 .. L : e.xfers[k] = d.xfers[k]
      /\ e.xfers[x].s_buf = d.xfers[x].s_buf /\ e.xfers[x].s_byte = d.xfers[x].s_byte
      /\ e.xfers[x].e_buf = C /\ e.xfers[x].e_byte = y
      /\ e.w_buf_next = d.w_buf_next
  BY <1>t DEF EodRaised, EntryEnded, Handed
<1>k. \A k \in 1 .. x : k = x \/ (k \in 1 .. L /\ k <= L)
  BY <1>t
<1>b. Base(e) = C + 1
  BY <1>t, <1>x DEF Base
<1>s. /\ tt \in Seq(SentRec) /\ Len(tt) = x
      /\ \A k \in 1 .. x : tt[k].at = st[k].at
      /\ \A k \in 1 .. L : tt[k].to = st[k].to
      /\ tt[x].to = n0
  <2>1. \A k \in 1 .. x : st[k] \in SentRec
    BY <1>t
  <2>2. st[x] \in SentRec /\ n0 \in Nat \cup {Open}
    BY <1>t
  <2> DEFINE w == [st[x] EXCEPT !.to = n0]
  <2>3. w \in SentRec /\ w.at = st[x].at /\ w.to = n0
    BY <2>2 DEF SentRec
  <2>4. tt = [st EXCEPT ![x] = w]
    BY <1>t
  <2> HIDE DEF w, tt
  <2>5. tt \in Seq(SentRec) /\ Len(tt) = x /\ tt[x] = w
        /\ \A k \in 1 .. x : k # x => tt[k] = st[k]
    BY <1>t, <2>3, <2>4
  <2>6. \A k \in 1 .. L : k \in 1 .. x /\ k # x
    BY SMTT(30), <1>t
  <2> QED
    BY <2>3, <2>5, <2>6
<1> HIDE DEF tt, n0
<1> DEFINE B == d.xfers[x].s_buf
<1>n. /\ y \in Nat /\ B \in Int
      /\ Address(K, 0) \in Int /\ Address(B, 0) \in Int
      /\ z <= Address(C + 1, 0) /\ Address(C + 1, 0) \in Int
      /\ Address(K, 0) <= Address(B, 0)
  <2>1. K <= B
    <3>1. CASE L = 0
      BY <1>t, <3>1 DEF Base
    <3>2. CASE L # 0
      <4>1. L \in 1 .. d.w_xfer /\ L < x /\ x \in 1 .. Len(d.xfers)
        BY <1>t, <3>2
      <4>2. d.xfers[L].e_buf < B /\ d.xfers[L].e_buf \in Nat
        BY <1>r, <4>1, XferOrder, TableNumbers, XferTypes
      <4>3. K = d.xfers[L].e_buf + 1
        BY <3>2 DEF Base
      <4> QED
        <5>1. B \in Nat
          BY <1>t
        <5> DEFINE E == d.xfers[L].e_buf
        <5>2. E < B /\ E \in Nat /\ K = E + 1
          BY <4>2, <4>3
        <5> HIDE DEF B, E, K
        <5> QED
          BY <5>1, <5>2
    <3> QED
      BY <3>1, <3>2
  <2>2. K \in Int /\ B \in Int /\ C \in Int /\ C + 1 \in Int
    BY <1>t
  <2>3. Address(K, 0) <= Address(B, 0)
    BY <2>1, <2>2, AddressRises
  <2>4. y \in Nat /\ y <= BufSz /\ BufSz \in Nat
    BY <1>t
  <2>5. /\ z = Address(C, 0) + y /\ Address(C + 1, 0) = Address(C, 0) + BufSz
        /\ Address(C, 0) \in Int /\ Address(K, 0) \in Int /\ Address(B, 0) \in Int
    <3>1. y \in Int
      BY <2>4
    <3> HIDE DEF B, C, K
    <3> QED
      BY <2>2, <3>1, AddressType, AddressNext DEF C
  <2> QED
    BY SMTT(30), <2>2, <2>3, <2>4, <2>5
<1>1. Run(ad, Address(Base(e), 0), z - 1, n0)
  <2>1. \A c \in Address(Base(e), 0) .. z - 1 : FALSE
    BY <1>b, <1>n
  <2> QED
    BY <2>1 DEF Run
<1>2. Promised(e, ad, tt)
  <2>1. \A k \in 1 .. x : tt[k].at = StartAddr(e.xfers[k])
    <3>1. \A k \in 1 .. x : st[k].at = StartAddr(d.xfers[k])
      BY <1>t DEF Data, Promised
    <3> QED
      BY <1>k, <1>s, <1>x, <3>1 DEF StartAddr
  <2>2. tt[x].to \in 1 .. n0 /\ Run(ad, tt[x].at, EndAddr(e.xfers[x]) - 1, tt[x].to)
    <3> DEFINE a == StartAddr(d.xfers[x])
    <3>1. a \in Int /\ Address(K, 0) <= a /\ a < z
      <4>1. a = Address(B, 0) + d.xfers[x].s_byte /\ d.xfers[x].s_byte \in Nat
        <5>1. d.xfers[x].s_byte \in Int /\ d.xfers[x].s_byte \in Nat
          BY <1>t
        <5> QED
          BY <1>n, <5>1, AddressType DEF StartAddr
      <4>2. a < z
        OBVIOUS
      <4> HIDE DEF a
      <4> QED
        BY SMTT(30), <1>n, <4>1, <4>2
    <3>2. tt[x].at = a /\ EndAddr(e.xfers[x]) = z
      BY <1>x, <1>t, <2>1 DEF EndAddr, StartAddr
    <3>3. Run(ad, Address(K, 0), z - 1, n0)
      BY DEF Data, n0
    <3> HIDE DEF a
    <3>4. /\ a \in Address(K, 0) .. z - 1
          /\ \A c \in a .. z - 1 : c \in Address(K, 0) .. z - 1
      BY <1>n, <3>1
    <3>5. n0 - (z - 1 - a) >= 1
      BY <3>3, <3>4 DEF Run
    <3>6. n0 \in 1 .. n0
      BY <1>t, <3>1, <3>5
    <3>7. Run(ad, a, z - 1, n0)
      BY <3>3, <3>4 DEF Run
    <3> QED
      BY <1>s, <3>2, <3>6, <3>7
  <2>3. ASSUME NEW k \in 1 .. L
        PROVE  tt[k].to \in 1 .. n0 /\ Run(ad, tt[k].at, EndAddr(e.xfers[k]) - 1, tt[k].to)
    <3>1. k \in 1 .. Len(st) /\ k <= d.w_xfer /\ k \in 1 .. x
      BY <1>t
    <3>2. st[k].to \in 1 .. n0 /\ Run(ad, st[k].at, EndAddr(d.xfers[k]) - 1, st[k].to)
      BY <3>1 DEF Data, Promised, n0
    <3> QED
      BY <1>s, <1>x, <3>1, <3>2
  <2>4. \A k \in 1 .. x : k <= x
    BY <1>t
  <2>5. Len(e.xfers) <= Len(tt)
    BY <1>s, <1>t, <1>x
  <2> QED
    BY <1>k, <1>s, <1>x, <2>1, <2>2, <2>3, <2>4, <2>5 DEF Promised, n0
<1>3. Due(r, e) = Due(r, d)
  <2>1. r.r_xfer = 0 \/ r.r_xfer \in 1 .. L
    BY <1>t
  <2> QED
    BY <1>x, <2>1 DEF Due
<1>4. Contents(r, e, ad)
  <2>1. ASSUME NEW v \in 1 .. Len(ad), NEW c \in e.w_buf_next - NBufs .. e.w_buf_next - 1,
               NEW j \in 0 .. BufSz - 1,
               ad[v] # GivenBack, ad[v] = Address(c, j),
               \/ c >= Base(e)
               \/ c >= Due(r, e) /\ \E k \in 1 .. Len(e.xfers) : InTransfer(e, k, c)
        PROVE  e.mem[c % NBufs][j] = v
    <3>1. c \in Int
      BY IoTypes, RingPlaces
    <3>2. ASSUME NEW k \in 1 .. Len(e.xfers), InTransfer(e, k, c)
          PROVE  k \in 1 .. Len(d.xfers) /\ InTransfer(d, k, c)
      <4>1. k \in 1 .. x
        BY <1>x
      <4>2. k = x => ~(k <= d.w_xfer)
        BY <1>t
      <4>3. k \in 1 .. L => k <= x
        BY <1>t
      <4> QED
        BY <1>k, <1>t, <1>x, <3>2, <4>1, <4>2, <4>3 DEF InTransfer
    <3>3. c >= Base(e) => c >= K
      BY <1>b, <1>t, <3>1
    <3>4. \/ c >= Base(d)
          \/ c >= Due(r, d) /\ \E k \in 1 .. Len(d.xfers) : InTransfer(d, k, c)
      BY <1>3, <2>1, <3>2, <3>3
    <3> QED
      BY <1>x, <2>1, <3>4 DEF Data, Contents
  <2> QED
    BY <2>1 DEF Contents
<1> QED
  BY <1>1, <1>2, <1>4, <1>s DEF Data, tt, n0

(* m more bytes are stored at the addresses from z on.                     *)
Stores(d, e, v, z, m) ==
  \A b \in d.w_buf_next - NBufs .. d.w_buf_next - 1, j \in 0 .. BufSz - 1 :
    /\ Address(b, j) \in z .. z + m - 1 =>
         e.mem[b % NBufs][j] = v + 1 + (Address(b, j) - z)
    /\ Address(b, j) < z => e.mem[b % NBufs][j] = d.mem[b % NBufs][j]

(* Storing the next bytes keeps what is known of the bytes.                *)
LEMMA DataStore ==
  ASSUME NEW r, NEW d \in IoRec, NEW e \in IoRec, NEW m \in Nat,
         NEW ad \in AddrSeq, NEW st, NEW z \in Nat, NEW s,
         Table(d), Data(r, d, ad, st, z),
         e.xfers = d.xfers, e.w_xfer = d.w_xfer, e.w_buf_next = d.w_buf_next,
         Stores(d, e, Len(ad), z, m),
         s \in Seq(Int), Len(s) = m, \A i \in 1 .. m : s[i] = z + i - 1
  PROVE  /\ ad \o s \in AddrSeq /\ Len(ad \o s) = Len(ad) + m
         /\ Data(r, e, ad \o s, st, z + m)
<1> DEFINE n0 == Len(ad)
           bd == ad \o s
           K == Address(Base(d), 0)
<1>1. /\ n0 \in Nat /\ Len(bd) = n0 + m
      /\ \A v \in 1 .. n0 : bd[v] = ad[v]
      /\ \A v \in n0 + 1 .. n0 + m : bd[v] = z + (v - n0) - 1
      /\ bd \in AddrSeq
  <2>1. n0 \in Nat
    BY DEF AddrSeq
  <2>2. \A i \in 1 .. m : s[i] \in Nat
    OBVIOUS
  <2>3. s \in AddrSeq
    BY <2>2 DEF AddrSeq
  <2>4. bd \in AddrSeq /\ Len(bd) = n0 + m
    <3>1. ad \in Seq(Nat \cup {GivenBack}) /\ s \in Seq(Nat \cup {GivenBack})
      BY <2>3 DEF AddrSeq
    <3>2. bd \in Seq(Nat \cup {GivenBack}) /\ Len(bd) = Len(ad) + Len(s)
      BY <3>1
    <3> QED
      BY <3>2 DEF AddrSeq
  <2>5. \A v \in 1 .. n0 : bd[v] = ad[v]
    BY <2>3 DEF AddrSeq
  <2>6. ASSUME NEW v \in n0 + 1 .. n0 + m PROVE bd[v] = z + (v - n0) - 1
    <3>1. v - n0 \in 1 .. m
      BY <2>1
    <3>2. bd[v] = s[v - n0]
      BY <2>1, <2>3 DEF AddrSeq
    <3> QED
      BY <3>1, <3>2
  <2> QED
    BY <2>1, <2>4, <2>5, <2>6
<1> HIDE DEF bd, n0
<1>2. /\ Base(e) = Base(d) /\ Due(r, e) = Due(r, d)
      /\ \A j, c : InTransfer(e, j, c) <=> InTransfer(d, j, c)
  BY DEF InTransfer, Base, Due
<1>o. \A v \in 1 .. Len(bd) : v \in 1 .. n0 \/ v \in n0 + 1 .. n0 + m
  BY <1>1
<1>3. Increasing(bd, z + m)
  <2>1. ASSUME NEW v \in 1 .. Len(bd), bd[v] # GivenBack
        PROVE  bd[v] >= 0 /\ bd[v] < z + m /\ \A u \in 1 .. v - 1 : bd[u] < bd[v]
    <3>1. CASE v \in 1 .. n0
      <4>1. ad[v] >= 0 /\ ad[v] < z /\ \A u \in 1 .. v - 1 : ad[u] < ad[v]
        BY <1>1, <2>1, <3>1 DEF Data, Increasing, n0
      <4>2. \A u \in 1 .. v - 1 : u \in 1 .. n0
        BY <1>1, <3>1
      <4>3. ad[v] \in Nat \cup {GivenBack}
        BY <3>1 DEF AddrSeq, n0
      <4>4. ad[v] \in Int
        BY <4>3 DEF GivenBack
      <4> QED
        BY <1>1, <3>1, <4>1, <4>2, <4>4
    <3>2. CASE v \in n0 + 1 .. n0 + m
      <4>1. bd[v] = z + (v - n0) - 1 /\ v \in Int
        BY <1>1, <3>2
      <4>2. bd[v] >= z /\ bd[v] < z + m /\ bd[v] \in Int
        BY <1>1, <3>2, <4>1
      <4>3. ASSUME NEW u \in 1 .. v - 1 PROVE bd[u] < bd[v]
        <5>1. CASE u \in 1 .. n0
          <6>1. ad[u] \in Nat \cup {GivenBack}
            BY <5>1 DEF AddrSeq, n0
          <6>2. ad[u] = GivenBack \/ ad[u] < z
            BY <5>1 DEF Data, Increasing, n0
          <6>3. ad[u] \in Int /\ ad[u] < z
            BY <6>1, <6>2 DEF GivenBack
          <6> QED
            BY <1>1, <4>2, <5>1, <6>3
        <5>2. CASE u \notin 1 .. n0
          <6>1. u \in n0 + 1 .. n0 + m /\ u \in Int /\ u < v
            BY <1>1, <3>2, <4>1, <5>2
          <6>2. bd[u] = z + (u - n0) - 1
            BY <1>1, <6>1
          <6> QED
            BY <1>1, <4>1, <6>1, <6>2
        <5> QED
          BY <5>1, <5>2
      <4> QED
        BY <4>2, <4>3
    <3> QED
      BY <1>o, <3>1, <3>2
  <2> QED
    BY <2>1 DEF Increasing
<1>4. Run(bd, Address(Base(e), 0), (z + m) - 1, Len(bd))
  <2>t. K \in Int
    <3>1. Base(d) \in Int
      BY TableNumbers
    <3> QED
      BY <3>1, AddressType
  <2>1. ASSUME NEW c \in K .. (z + m) - 1
        PROVE  /\ Len(bd) - ((z + m) - 1 - c) >= 1
               /\ bd[Len(bd) - ((z + m) - 1 - c)] = c
    <3>0. c \in Int
      BY <2>t
    <3>1. Len(bd) - ((z + m) - 1 - c) = n0 - (z - 1 - c)
      BY <1>1, <3>0
    <3>2. CASE c < z
      <4>1. c \in K .. z - 1
        BY <2>t, <3>0, <3>2
      <4>2. n0 - (z - 1 - c) >= 1 /\ ad[n0 - (z - 1 - c)] = c
        <5>1. Run(ad, K, z - 1, n0)
          BY DEF Data, n0
        <5> QED
          BY <4>1, <5>1 DEF Run
      <4>3. n0 - (z - 1 - c) \in 1 .. n0
        BY <1>1, <3>0, <3>2, <4>2
      <4> QED
        BY <1>1, <3>1, <4>2, <4>3
    <3>3. CASE ~(c < z)
      <4>1. n0 - (z - 1 - c) \in n0 + 1 .. n0 + m
        BY <1>1, <2>t, <3>0, <3>3
      <4>2. bd[n0 - (z - 1 - c)] = z + ((n0 - (z - 1 - c)) - n0) - 1
        BY <1>1, <4>1
      <4>3. z + ((n0 - (z - 1 - c)) - n0) - 1 = c /\ n0 - (z - 1 - c) >= 1
        BY <1>1, <3>0, <4>1
      <4> QED
        BY <3>1, <4>2, <4>3
    <3> QED
      BY <3>2, <3>3
  <2> QED
    BY <1>2, <2>1 DEF Run
<1>5. Promised(e, bd, st)
  <2>1. ASSUME NEW k \in 1 .. Len(st), k <= d.w_xfer
        PROVE  /\ st[k].to \in 1 .. Len(bd)
               /\ Run(bd, st[k].at, EndAddr(e.xfers[k]) - 1, st[k].to)
    <3> DEFINE v == st[k].to
               a == st[k].at
               y == EndAddr(d.xfers[k]) - 1
    <3>1. v \in 1 .. n0 /\ Run(ad, a, y, v)
      BY <2>1 DEF Data, Promised, n0
    <3>2. v \in 1 .. Len(bd)
      BY <1>1, <3>1
    <3>3. ASSUME NEW c \in a .. y PROVE v - (y - c) >= 1 /\ bd[v - (y - c)] = c
      <4>1. v - (y - c) >= 1 /\ ad[v - (y - c)] = c
        BY <3>1 DEF Run
      <4>2. c \in Int /\ y - c >= 0 /\ y - c \in Int
        <5> HIDE DEF y
        <5>1. c \in Int /\ c <= y
          OBVIOUS
        <5>2. y \in Int
          <6>0. d.w_xfer \in Nat /\ Len(d.xfers) \in Nat
            BY IoTypes
          <6>k. k \in 1 .. d.w_xfer
            BY <2>1, <6>0
          <6>1. d.xfers[k].e_buf \in Int /\ d.xfers[k].e_byte \in Int
            BY <6>k, TableNumbers, XferTypes
          <6> QED
            <7>1. Address(d.xfers[k].e_buf, d.xfers[k].e_byte) \in Int
              BY <6>1, AddressType
            <7> QED
              BY <7>1 DEF EndAddr, y
        <5> QED
          BY <5>1, <5>2
      <4> HIDE DEF v, y
      <4>3. v - (y - c) \in 1 .. n0
        BY <1>1, <3>1, <4>1, <4>2
      <4> QED
        BY <1>1, <4>1, <4>3
    <3>4. Run(bd, a, y, v)
      BY <3>3 DEF Run
    <3> QED
      BY <3>2, <3>4
  <2> QED
    BY <2>1 DEF Data, Promised
<1>6. Contents(r, e, bd)
  <2>1. ASSUME NEW v \in 1 .. Len(bd), NEW b \in e.w_buf_next - NBufs .. e.w_buf_next - 1,
               NEW j \in 0 .. BufSz - 1,
               bd[v] # GivenBack, bd[v] = Address(b, j),
               \/ b >= Base(e)
               \/ b >= Due(r, e) /\ \E k \in 1 .. Len(e.xfers) : InTransfer(e, k, b)
        PROVE  e.mem[b % NBufs][j] = v
    <3>1. CASE v \in 1 .. n0
      <4>1. ad[v] # GivenBack /\ ad[v] = Address(b, j)
        BY <1>1, <2>1, <3>1
      <4>a. \/ b >= Base(d)
            \/ b >= Due(r, d) /\ \E k \in 1 .. Len(d.xfers) : InTransfer(d, k, b)
        BY <1>2, <2>1
      <4>b. b \in d.w_buf_next - NBufs .. d.w_buf_next - 1
        BY <2>1
      <4>2. d.mem[b % NBufs][j] = v
        <5>1. Contents(r, d, ad) /\ v \in 1 .. Len(ad)
          BY <3>1 DEF Data, n0
        <5> QED
          BY <4>1, <4>a, <4>b, <5>1 DEF Contents
      <4>3. Address(b, j) < z
        BY <3>1, <4>1 DEF Data, Increasing, n0
      <4> QED
        BY <4>2, <4>3 DEF Stores
    <3>2. CASE v \in n0 + 1 .. n0 + m
      <4>1. Address(b, j) = z + (v - n0) - 1 /\ v \in Int
        BY <1>1, <2>1, <3>2
      <4>2. Address(b, j) \in z .. z + m - 1
        <5> DEFINE a == Address(b, j)
        <5>1. a = z + (v - n0) - 1
          BY <4>1
        <5> HIDE DEF a
        <5>2. a \in z .. z + m - 1
          BY <1>1, <3>2, <4>1, <5>1
        <5> QED
          BY <5>2 DEF a
      <4>3. e.mem[b % NBufs][j] = n0 + 1 + (Address(b, j) - z)
        BY <4>2 DEF Stores, n0
      <4>4. n0 + 1 + ((z + (v - n0) - 1) - z) = v
        BY <1>1, <4>1
      <4> QED
        BY <4>1, <4>3, <4>4
    <3> QED
      BY <1>o, <3>1, <3>2
  <2> QED
    BY <2>1 DEF Contents
<1> QED
  BY <1>1, <1>3, <1>4, <1>5, <1>6 DEF Data, bd, n0

(* The address of the byte written next moves up to the block after the    *)
(* last end of data.                                                       *)
LEMMA DataLater ==
  ASSUME NEW r, NEW d, NEW ad \in AddrSeq, NEW st, NEW z \in Int, NEW y \in Int,
         Data(r, d, ad, st, z), z <= y, y <= Address(Base(d), 0), Base(d) \in Int
  PROVE  Data(r, d, ad, st, y)
<1>1. Increasing(ad, y)
  <2>1. ASSUME NEW v \in 1 .. Len(ad), ad[v] # GivenBack PROVE ad[v] < y
    <3>1. ad[v] < z
      BY <2>1 DEF Data, Increasing
    <3>2. ad[v] \in Nat \cup {GivenBack}
      BY DEF AddrSeq
    <3>3. ad[v] \in Int
      BY <3>2 DEF GivenBack
    <3> QED
      BY <3>1, <3>3
  <2> QED
    BY <2>1 DEF Data, Increasing
<1>2. Run(ad, Address(Base(d), 0), y - 1, Len(ad))
  <2>1. Address(Base(d), 0) \in Int
    BY AddressType
  <2>2. \A c \in Address(Base(d), 0) .. y - 1 : FALSE
    BY <2>1
  <2> QED
    BY <2>2 DEF Run
<1> QED
  BY <1>1, <1>2 DEF Data

(* The bytes of an ended transfer lie before the block after it.           *)
LEMMA EndsBefore ==
  ASSUME NEW d \in IoRec, Table(d), NEW k \in 1 .. d.w_xfer
  PROVE  EndAddr(d.xfers[k]) \in Int /\ EndAddr(d.xfers[k]) <= Address(Base(d), 0)
<1> DEFINE b == d.xfers[k].e_buf
           i == d.xfers[k].e_byte
           K == Base(d)
<1>1. k \in 1 .. Len(d.xfers)
  BY TableNumbers
<1>2. b \in Int /\ i \in 0 .. BufSz /\ K \in Int /\ b + 1 <= K
  <2>1. b \in Nat /\ i \in 0 .. BufSz /\ b < K /\ K \in Nat
    BY <1>1, XferTypes, TableNumbers
  <2> HIDE DEF b, K
  <2> QED
    BY <2>1
<1>3. EndAddr(d.xfers[k]) = Address(b, i)
  BY DEF EndAddr
<1> HIDE DEF b, i, K
<1>4. BufSz \in Nat /\ i \in Int /\ i <= BufSz /\ b + 1 \in Int
  BY <1>2, RingPlaces
<1>5. Address(b, i) = Address(b, 0) + i /\ Address(b, 0) \in Int /\ Address(K, 0) \in Int
  BY <1>2, <1>4, AddressType
<1>6. Address(b + 1, 0) = Address(b, 0) + BufSz
  BY <1>2, AddressNext
<1>7. Address(b + 1, 0) <= Address(K, 0)
  BY <1>2, <1>4, AddressRises
<1>8. Address(b, i) \in Int /\ Address(b, i) <= Address(K, 0)
  BY <1>4, <1>5, <1>6, <1>7
<1> QED
  BY <1>3, <1>8 DEF K

(* The blocks after the last end of data are given back, with what they    *)
(* hold.                                                                   *)
LEMMA DataClose ==
  ASSUME NEW r \in ReaderRec, NEW d \in IoRec, NEW e \in IoRec,
         NEW ad \in AddrSeq, NEW bd, NEW st, NEW z \in Int,
         RingOK(r, d), Data(r, d, ad, st, z), GivenBackTo(d, e), e.mem = d.mem,
         bd = [v \in 1 .. Len(ad) |->
                IF ad[v] >= Address(Base(d), 0) THEN GivenBack ELSE ad[v]]
  PROVE  /\ bd \in AddrSeq /\ Len(bd) = Len(ad)
         /\ Data(r, e, bd, st, Address(Base(e), 0))
         /\ Base(e) = Base(d)
<1> DEFINE K == Base(d)
           A == Address(K, 0)
           D == Due(r, d)
<1>r. Table(d) /\ Place(r, d) /\ Tokens(r, d)
  BY DEF RingOK
<1>t. K \in Nat /\ K <= d.w_buf_curr /\ K <= d.w_buf_next /\ D \in Nat
      /\ Len(ad) \in Nat
  BY <1>r, TableNumbers, DueNumbers DEF AddrSeq
<1>a. A \in Int
  <2>1. K \in Int
    BY <1>t
  <2> QED
    BY <2>1, AddressType
<1>x. /\ e.w_buf_next = K /\ e.xfers = d.xfers /\ e.w_xfer = d.w_xfer
      /\ Base(e) = K /\ Due(r, e) = D
      /\ \A j, c : InTransfer(e, j, c) <=> InTransfer(d, j, c)
  BY DEF GivenBackTo, Base, Due, InTransfer
<1>e. \A v \in 1 .. Len(ad) : ad[v] \in Int /\ (ad[v] = GivenBack \/ ad[v] \in Nat)
  <2>1. \A v \in 1 .. Len(ad) : ad[v] \in Nat \cup {GivenBack}
    BY DEF AddrSeq
  <2> QED
    BY <2>1 DEF GivenBack
<1>b. /\ bd \in AddrSeq /\ Len(bd) = Len(ad)
      /\ \A v \in 1 .. Len(ad) : bd[v] = IF ad[v] >= A THEN GivenBack ELSE ad[v]
  <2> HIDE DEF A
  <2>1. bd \in [1 .. Len(ad) -> Nat \cup {GivenBack}]
    BY <1>e DEF A
  <2>2. bd \in Seq(Nat \cup {GivenBack}) /\ Len(bd) = Len(ad)
    BY <1>t, <2>1
  <2>3. \A v \in 1 .. Len(ad) : bd[v] = IF ad[v] >= A THEN GivenBack ELSE ad[v]
    BY DEF A
  <2> QED
    BY <2>2, <2>3 DEF AddrSeq
<1> HIDE DEF A, K, D
<1>k. \A v \in 1 .. Len(ad) : bd[v] # GivenBack =>
        bd[v] = ad[v] /\ ad[v] # GivenBack /\ ad[v] < A
  BY <1>a, <1>b, <1>e
<1>1. Increasing(bd, A)
  <2>1. ASSUME NEW v \in 1 .. Len(bd), bd[v] # GivenBack
        PROVE  bd[v] >= 0 /\ bd[v] < A /\ \A u \in 1 .. v - 1 : bd[u] < bd[v]
    <3>1. v \in 1 .. Len(ad) /\ bd[v] = ad[v] /\ ad[v] # GivenBack /\ ad[v] < A
      BY <1>b, <1>k, <2>1
    <3>2. ad[v] \in Nat /\ \A u \in 1 .. v - 1 : ad[u] < ad[v]
      BY <1>e, <3>1 DEF Data, Increasing
    <3>3. ASSUME NEW u \in 1 .. v - 1 PROVE bd[u] < bd[v]
      <4>1. u \in 1 .. Len(ad)
        BY <1>t, <3>1
      <4>2. bd[u] = GivenBack \/ bd[u] = ad[u]
        BY <1>k, <4>1
      <4> QED
        BY <3>1, <3>2, <4>2 DEF GivenBack
    <3>4. ad[v] >= 0
      BY <3>2
    <3>5. bd[v] >= 0 /\ bd[v] < A
      BY <3>1, <3>4
    <3> QED
      BY <3>3, <3>5
  <2> QED
    BY <2>1 DEF Increasing
<1>2. Run(bd, Address(Base(e), 0), A - 1, Len(bd))
  <2>1. Address(Base(e), 0) = A
    BY <1>x DEF A
  <2>2. \A c \in A .. A - 1 : FALSE
    BY <1>a
  <2> QED
    BY <2>1, <2>2 DEF Run
<1>3. Promised(e, bd, st)
  <2>1. ASSUME NEW k \in 1 .. Len(st), k <= d.w_xfer
        PROVE  /\ st[k].to \in 1 .. Len(bd)
               /\ Run(bd, st[k].at, EndAddr(e.xfers[k]) - 1, st[k].to)
    <3> DEFINE y == EndAddr(d.xfers[k])
               v == st[k].to
    <3>1. v \in 1 .. Len(ad) /\ Run(ad, st[k].at, y - 1, v)
      BY <2>1 DEF Data, Promised
    <3>2. y \in Int /\ y <= A
      <4>1. d.w_xfer \in Nat
        BY IoTypes
      <4>2. k \in 1 .. d.w_xfer
        BY <2>1, <4>1
      <4> QED
        BY <1>r, <4>2, EndsBefore DEF A, K
    <3> HIDE DEF y, v
    <3>3. ASSUME NEW c \in st[k].at .. y - 1
          PROVE  v - (y - 1 - c) >= 1 /\ bd[v - (y - 1 - c)] = c
      <4>1. v - (y - 1 - c) >= 1 /\ ad[v - (y - 1 - c)] = c
        BY <3>1 DEF Run
      <4>2. c \in Int /\ c < y
        BY <3>2
      <4>3. v - (y - 1 - c) \in 1 .. Len(ad)
        BY <1>t, <3>1, <3>2, <4>1, <4>2
      <4>4. ~(c >= A)
        BY <1>a, <3>2, <4>2
      <4> QED
        BY <1>b, <4>1, <4>3, <4>4
    <3>4. Run(bd, st[k].at, y - 1, v)
      BY <3>3 DEF Run
    <3> QED
      BY <1>b, <1>x, <3>1, <3>4 DEF y, v
  <2> QED
    BY <1>x, <2>1 DEF Data, Promised
<1>4. Contents(r, e, bd)
  <2>1. ASSUME NEW v \in 1 .. Len(bd), NEW b \in e.w_buf_next - NBufs .. e.w_buf_next - 1,
               NEW j \in 0 .. BufSz - 1,
               bd[v] # GivenBack, bd[v] = Address(b, j),
               \/ b >= Base(e)
               \/ b >= Due(r, e) /\ \E k \in 1 .. Len(e.xfers) : InTransfer(e, k, b)
        PROVE  e.mem[b % NBufs][j] = v
    <3>t. /\ b \in Int /\ NBufs \in Nat \ {0} /\ d.w_buf_next \in Nat
          /\ d.w_buf_curr \in Nat
      BY <1>t, <1>x, IoTypes, RingPlaces
    <3>1. b < K
      BY <1>t, <1>x, <3>t
    <3>2. b >= D /\ \E k \in 1 .. Len(d.xfers) : InTransfer(d, k, b)
      BY <1>t, <1>x, <2>1, <3>t, <3>1
    <3>3. b \in UsedBlocks(d)
      <4>1. b \in 0 .. d.w_buf_curr - 1
        BY <1>t, <3>t, <3>1, <3>2
      <4> QED
        BY <3>2, <4>1 DEF UsedBlocks
    <3>4. PICK from \in d.w_buf_next - NBufs .. d.w_buf_next : TakenBack(r, d, from)
      BY <1>r DEF Tokens
    <3>5. Among(UsedBlocks(d), D, from) = {}
      BY <3>4 DEF TakenBack, D
    <3>6. ~(b < from)
      <4>1. b >= D /\ b < from => b \in Among(UsedBlocks(d), D, from)
        BY <3>3 DEF Among
      <4> QED
        BY <3>2, <3>5, <4>1
    <3>7. b \in d.w_buf_next - NBufs .. d.w_buf_next - 1
      BY <1>t, <3>t, <3>1, <3>6
    <3>8. v \in 1 .. Len(ad) /\ ad[v] # GivenBack /\ ad[v] = Address(b, j)
      BY <1>b, <1>k, <2>1
    <3>9. d.mem[b % NBufs][j] = v
      BY <3>2, <3>7, <3>8 DEF Data, Contents, D
    <3> QED
      BY <3>9
  <2> QED
    BY <2>1 DEF Contents
<1>5. Address(Base(e), 0) = A
  BY <1>x DEF A
<1> QED
  BY <1>1, <1>2, <1>3, <1>4, <1>5, <1>b, <1>x DEF Data, K
=============================================================================
