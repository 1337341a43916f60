-------------------------- MODULE IpcIoWriteProofs --------------------------
(***************************************************************************)
(* The writer's calls of ipcio keep the invariant of IpcIoRing: one lemma  *)
(* per action of the writer, and under it one for each function it calls.  *)
(***************************************************************************)
EXTENDS IpcIoRingProofs

(* Records of the handle and the ring are the same when their fields are.  *)
LEMMA SameRecord ==
  ASSUME NEW d \in IoRec, NEW e \in IoRec,
         e.rdwrt = d.rdwrt, e.bytes = d.bytes, e.curbuf = d.curbuf,
         e.marked_filled = d.marked_filled, e.sod_pending = d.sod_pending,
         e.sod_buf = d.sod_buf, e.sod_byte = d.sod_byte, e.buf_ptrs = d.buf_ptrs,
         e.state = d.state, e.soclock_buf = d.soclock_buf, e.w_state = d.w_state,
         e.w_buf_curr = d.w_buf_curr, e.w_buf_next = d.w_buf_next,
         e.w_xfer = d.w_xfer, e.xfers = d.xfers, e.count = d.count,
         e.FULL = d.FULL, e.CLEAR = d.CLEAR, e.mem = d.mem, e.err = d.err
  PROVE  e = d
<1> DEFINE S == {"rdwrt", "bytes", "curbuf", "marked_filled", "sod_pending",
           "sod_buf", "sod_byte", "buf_ptrs", "state", "soclock_buf",
           "w_state", "w_buf_curr", "w_buf_next", "w_xfer", "xfers", "count",
           "FULL", "CLEAR", "mem", "err"}
<1>1. /\ d = [x \in S |-> d[x]] /\ e = [x \in S |-> e[x]]
  BY DEF IoRec
<1>2. \A x \in S : d[x] = e[x]
  OBVIOUS
<1> HIDE DEF S
<1> QED
  BY <1>1, <1>2

(* The greatest of finitely many numbers is one of them.                   *)
LEMMA GreatestMember ==
  ASSUME NEW m \in Nat, NEW T, T \subseteq 1 .. m, T # {}
  PROVE  Max(T) \in T
<1> DEFINE R == {m - x : x \in T}
<1>1. R \subseteq Nat /\ R # {}
  <2>1. \A x \in T : x \in Int /\ m - x \in Nat
    OBVIOUS
  <2> QED
    BY <2>1
<1>2. PICK y \in R : \A x \in R : y <= x
  <2> HIDE DEF R
  <2> QED
    BY <1>1, LeastMember
<1>3. PICK t \in T : y = m - t
  OBVIOUS
<1>4. \A x \in T : t >= x
  <2>1. ASSUME NEW x \in T PROVE t >= x
    <3>1. m - x \in R /\ x \in Int /\ t \in Int
      OBVIOUS
    <3>2. y <= m - x
      BY <1>2, <3>1
    <3> QED
      BY <1>3, <3>1, <3>2
  <2> QED
    BY <2>1
<1> QED
  BY <1>3, <1>4 DEF Max

(* ipcio_close_block_write of a full block of a transfer.                  *)
CanClose(d) ==
  /\ d.rdwrt = "W" /\ d.state = "WRITING" /\ d.bytes = 0 /\ ~d.marked_filled
  /\ ~d.err /\ ~d.sod_pending /\ d.buf_ptrs # <<>> /\ d.curbuf # NoBuf

(* The first j blocks held open are closed.                                *)
Closing(d, j) ==
  [d EXCEPT !.count = [k \in Ring |-> d.count[k] +
              (IF \E i \in 0 .. j - 1 : k = (d.w_buf_curr + i) % NBufs
               THEN 1 ELSE 0)],
            !.w_buf_curr = d.w_buf_curr + j,
            !.FULL = d.FULL + j,
            !.buf_ptrs = SubSeq(d.buf_ptrs, j + 1, Len(d.buf_ptrs)),
            !.curbuf = IF j = 0 THEN d.curbuf
                       ELSE IF j = Len(d.buf_ptrs) THEN NoBuf ELSE d.buf_ptrs[j + 1],
            !.marked_filled = IF j = 0 THEN d.marked_filled ELSE j = Len(d.buf_ptrs)]

(* What the handle holds once j of its open blocks were closed as full.    *)
LEMMA ClosingFields ==
  ASSUME NEW d \in IoRec, NEW j \in 0 .. Len(d.buf_ptrs)
  PROVE  LET e == Closing(d, j) IN
         /\ e \in IoRec
         /\ e.count = [k \in Ring |-> d.count[k] +
              (IF \E i \in 0 .. j - 1 : k = (d.w_buf_curr + i) % NBufs THEN 1 ELSE 0)]
         /\ e.w_buf_curr = d.w_buf_curr + j /\ e.FULL = d.FULL + j
         /\ e.buf_ptrs = SubSeq(d.buf_ptrs, j + 1, Len(d.buf_ptrs))
         /\ e.curbuf = (IF j = 0 THEN d.curbuf
                        ELSE IF j = Len(d.buf_ptrs) THEN NoBuf ELSE d.buf_ptrs[j + 1])
         /\ e.marked_filled = (IF j = 0 THEN d.marked_filled ELSE j = Len(d.buf_ptrs))
         /\ e.rdwrt = d.rdwrt /\ e.bytes = d.bytes /\ e.sod_pending = d.sod_pending
         /\ e.sod_buf = d.sod_buf /\ e.sod_byte = d.sod_byte
         /\ e.state = d.state /\ e.w_state = d.w_state /\ e.soclock_buf = d.soclock_buf
         /\ e.w_buf_next = d.w_buf_next /\ e.w_xfer = d.w_xfer /\ e.xfers = d.xfers
         /\ e.CLEAR = d.CLEAR /\ e.mem = d.mem /\ e.err = d.err
<1> DEFINE c == [k \in Ring |-> d.count[k] +
              (IF \E i \in 0 .. j - 1 : k = (d.w_buf_curr + i) % NBufs THEN 1 ELSE 0)]
           s == SubSeq(d.buf_ptrs, j + 1, Len(d.buf_ptrs))
           u == IF j = 0 THEN d.curbuf
                ELSE IF j = Len(d.buf_ptrs) THEN NoBuf ELSE d.buf_ptrs[j + 1]
           w == d.w_buf_curr + j
           f == d.FULL + j
           m == IF j = 0 THEN d.marked_filled ELSE j = Len(d.buf_ptrs)
<1>t. /\ d.count \in [Ring -> Nat] /\ d.buf_ptrs \in Seq(Ring) /\ d.FULL \in Nat
      /\ d.w_buf_curr \in Nat /\ j \in Nat /\ Len(d.buf_ptrs) \in Nat
      /\ d.curbuf \in Ring \cup {NoBuf} /\ d.marked_filled \in BOOLEAN
  <2>1. d.curbuf \in Ring \cup {NoBuf} /\ d.marked_filled \in BOOLEAN
    BY DEF IoRec
  <2> QED
    BY <2>1, IoTypes
<1>1. c \in [Ring -> Nat]
  BY <1>t
<1>2. s \in Seq(Ring)
  BY <1>t
<1>3. u \in Ring \cup {NoBuf}
  <2>1. j # 0 /\ j # Len(d.buf_ptrs) => j + 1 \in 1 .. Len(d.buf_ptrs)
    BY <1>t
  <2> QED
    BY <1>t, <2>1
<1>4. w \in Nat /\ f \in Nat /\ m \in BOOLEAN
  <2>1. w \in Nat /\ f \in Nat
    BY <1>t
  <2>2. (j = Len(d.buf_ptrs)) \in BOOLEAN
    OBVIOUS
  <2>3. m \in BOOLEAN
    BY <1>t, <2>2, Zenon
  <2> QED
    BY <2>1, <2>3
<1>5. Closing(d, j) = [d EXCEPT !.count = c, !.w_buf_curr = w, !.FULL = f, !.buf_ptrs = s,
                                !.curbuf = u, !.marked_filled = m]
  BY DEF Closing
<1> HIDE DEF c, s, u, w, f, m
<1>6. LET e == [d EXCEPT !.count = c, !.w_buf_curr = w, !.FULL = f, !.buf_ptrs = s,
                         !.curbuf = u, !.marked_filled = m] IN
      /\ e \in IoRec
      /\ e.count = c /\ e.w_buf_curr = w /\ e.FULL = f /\ e.buf_ptrs = s
      /\ e.curbuf = u /\ e.marked_filled = m
      /\ e.rdwrt = d.rdwrt /\ e.bytes = d.bytes /\ e.sod_pending = d.sod_pending
      /\ e.sod_buf = d.sod_buf /\ e.sod_byte = d.sod_byte
      /\ e.state = d.state /\ e.w_state = d.w_state /\ e.soclock_buf = d.soclock_buf
      /\ e.w_buf_next = d.w_buf_next /\ e.w_xfer = d.w_xfer /\ e.xfers = d.xfers
      /\ e.CLEAR = d.CLEAR /\ e.mem = d.mem /\ e.err = d.err
  BY <1>1, <1>2, <1>3, <1>4 DEF IoRec
<1> QED
  BY <1>5, <1>6 DEF c, s, u, w, f, m

(* The record on which ipcio_close_block_write(m) calls                    *)
(* ipcbuf_mark_filled.                                                     *)
Updated(d, m) == [d EXCEPT !.bytes = m]

(* What the client said of the block it is about to close.                 *)
LEMMA UpdatedFields ==
  ASSUME NEW d \in IoRec, NEW m \in 0 .. BufSz
  PROVE  LET u == Updated(d, m) IN
         /\ u \in IoRec /\ SameRing(d, u) /\ u.mem = d.mem
         /\ u.rdwrt = d.rdwrt /\ u.bytes = m /\ u.curbuf = d.curbuf
         /\ u.marked_filled = d.marked_filled /\ u.buf_ptrs = d.buf_ptrs
         /\ u.sod_pending = d.sod_pending /\ u.sod_buf = d.sod_buf
         /\ u.sod_byte = d.sod_byte /\ u.err = d.err
         /\ u.state = d.state /\ u.w_state = d.w_state
BY DEF IoRec, Updated, SameRing

(* The block p held is closed and the next becomes current.                *)
NextHeld(p, e) ==
  /\ SameRing(p, e) /\ e.mem = p.mem /\ e.rdwrt = p.rdwrt /\ e.bytes = 0
  /\ e.buf_ptrs = Tail(p.buf_ptrs)
  /\ e.curbuf = IF Tail(p.buf_ptrs) = <<>> THEN NoBuf ELSE Head(Tail(p.buf_ptrs))
  /\ e.marked_filled = (Tail(p.buf_ptrs) = <<>>)
  /\ e.sod_pending = p.sod_pending /\ e.sod_buf = p.sod_buf
  /\ e.sod_byte = p.sod_byte /\ e.err = p.err
  /\ e.state = p.state /\ e.w_state = p.w_state

(* Changing what the handle holds leaves it a handle.                      *)
LEMMA HeldRecord ==
  ASSUME NEW p \in IoRec, NEW t \in Seq(Ring), NEW h \in Ring \cup {NoBuf}
  PROVE  \A w \in BOOLEAN, y \in 0 .. BufSz :
           [p EXCEPT !.buf_ptrs = t, !.curbuf = h, !.marked_filled = w,
                     !.bytes = y] \in IoRec
<1> SUFFICES ASSUME NEW w \in BOOLEAN, NEW y \in 0 .. BufSz
             PROVE  [p EXCEPT !.buf_ptrs = t, !.curbuf = h, !.marked_filled = w,
                              !.bytes = y] \in IoRec
  OBVIOUS
<1> DEFINE q == [p EXCEPT !.buf_ptrs = t, !.curbuf = h, !.marked_filled = w]
<1>1. q \in IoRec
  BY DEF IoRec
<1>2. [p EXCEPT !.buf_ptrs = t, !.curbuf = h, !.marked_filled = w, !.bytes = y]
        = [q EXCEPT !.bytes = y]
  OBVIOUS
<1> HIDE DEF q
<1>3. [q EXCEPT !.bytes = y] \in IoRec
  BY <1>1, UpdatedFields DEF Updated
<1> QED
  BY <1>2, <1>3

(* ipcio_close_block_write of a block that is not the last held.           *)
LEMMA CloseBlockIs ==
  ASSUME NEW d \in IoRec, NEW m \in 0 .. BufSz,
         d.bytes = 0, d.curbuf # NoBuf, d.rdwrt = "W", ~d.marked_filled, ~d.err,
         ipcio_check_pending_sod(ipcbuf_mark_filled(Updated(d, m), m)) \in IoRec,
         ~ipcio_check_pending_sod(ipcbuf_mark_filled(Updated(d, m), m)).err,
         ipcio_check_pending_sod(ipcbuf_mark_filled(Updated(d, m), m)).buf_ptrs # <<>>
  PROVE  LET e == ipcio_close_block_write(d, m) IN
         /\ e \in IoRec
         /\ NextHeld(ipcio_check_pending_sod(ipcbuf_mark_filled(Updated(d, m), m)), e)
<1> DEFINE p == ipcio_check_pending_sod(ipcbuf_mark_filled(Updated(d, m), m))
           t == Tail(p.buf_ptrs)
           h == IF t = <<>> THEN NoBuf ELSE Head(t)
           e == [p EXCEPT !.buf_ptrs = t, !.curbuf = h, !.marked_filled = t = <<>>,
                          !.bytes = 0]
<1>1. ipcio_update_block_write(d, m) = Updated(d, m)
  BY RingPlaces DEF ipcio_update_block_write, Updated
<1>2. /\ ~Updated(d, m).err /\ ~Updated(d, m).marked_filled
      /\ Updated(d, m).bytes = m
  BY UpdatedFields
<1>3. p \in IoRec /\ ~p.err /\ p.buf_ptrs # <<>>
  OBVIOUS
<1>4. ipcio_close_block_write(d, m) = e
  <2> HIDE DEF p
  <2>1. ipcio_check_pending_sod(ipcbuf_mark_filled(Updated(d, m), Updated(d, m).bytes)) = p
    BY <1>2 DEF p
  <2> QED
    BY <1>1, <1>2, <1>3, <2>1 DEF ipcio_close_block_write
<1> HIDE DEF p
<1>5. t \in Seq(Ring) /\ h \in Ring \cup {NoBuf} /\ 0 \in 0 .. BufSz
  <2>1. p.buf_ptrs \in Seq(Ring) /\ p.buf_ptrs # <<>>
    BY <1>3, IoTypes
  <2>2. t \in Seq(Ring)
    BY <2>1
  <2> HIDE DEF t
  <2>3. t # <<>> => Head(t) \in Ring
    BY <2>2
  <2>4. h \in Ring \cup {NoBuf}
    BY <2>3
  <2>5. 0 \in 0 .. BufSz
    BY RingPlaces
  <2> QED
    BY <2>2, <2>4, <2>5
<1> HIDE DEF t, h
<1>6. /\ e \in IoRec
      /\ SameRing(p, e) /\ e.mem = p.mem /\ e.rdwrt = p.rdwrt /\ e.bytes = 0
      /\ e.buf_ptrs = t /\ e.curbuf = h /\ e.marked_filled = (t = <<>>)
      /\ e.sod_pending = p.sod_pending /\ e.sod_buf = p.sod_buf
      /\ e.sod_byte = p.sod_byte /\ e.err = p.err
      /\ e.state = p.state /\ e.w_state = p.w_state
  <2> DEFINE b == t = <<>>
  <2>1. b \in BOOLEAN
    OBVIOUS
  <2> HIDE DEF b
  <2>2. e = [p EXCEPT !.buf_ptrs = t, !.curbuf = h, !.marked_filled = b, !.bytes = 0]
    BY DEF b
  <2> HIDE DEF e
  <2>3. e \in IoRec
    <3>1. \A w \in BOOLEAN, y \in 0 .. BufSz :
            [p EXCEPT !.buf_ptrs = t, !.curbuf = h, !.marked_filled = w,
                      !.bytes = y] \in IoRec
      BY <1>3, <1>5, HeldRecord
    <3> QED
      BY <1>5, <2>1, <2>2, <3>1
  <2>4. SameRing(p, e)
    BY <1>3, <2>2 DEF IoRec, SameRing
  <2>5. /\ e.mem = p.mem /\ e.rdwrt = p.rdwrt /\ e.bytes = 0
        /\ e.buf_ptrs = t /\ e.curbuf = h /\ e.marked_filled = b
        /\ e.sod_pending = p.sod_pending /\ e.sod_buf = p.sod_buf
        /\ e.sod_byte = p.sod_byte /\ e.err = p.err
        /\ e.state = p.state /\ e.w_state = p.w_state
    BY <1>3, <2>2 DEF IoRec
  <2> QED
    BY <2>3, <2>4, <2>5 DEF b
<1>7. NextHeld(p, e)
  BY <1>6 DEF NextHeld, t, h
<1> QED
  BY <1>4, <1>6, <1>7 DEF p

(* ipcio_close_block_write of a full block.                                *)
LEMMA CloseFull ==
  ASSUME NEW d \in IoRec, CanClose(d)
  PROVE  LET e == ipcio_close_block_write(d, BufSz) IN
         /\ e \in IoRec /\ BlocksFilled(d, e, 1) /\ e.mem = d.mem
         /\ e.rdwrt = d.rdwrt /\ e.bytes = 0
         /\ e.buf_ptrs = Tail(d.buf_ptrs)
         /\ e.curbuf = (IF Tail(d.buf_ptrs) = <<>> THEN NoBuf ELSE Head(Tail(d.buf_ptrs)))
         /\ e.marked_filled = (Tail(d.buf_ptrs) = <<>>)
         /\ e.sod_pending = d.sod_pending /\ e.sod_buf = d.sod_buf
         /\ e.sod_byte = d.sod_byte /\ e.err = d.err
         /\ e.state = d.state /\ e.w_state = d.w_state
<1> DEFINE u == Updated(d, BufSz)
           p == ipcbuf_mark_filled(u, BufSz)
           e == ipcio_close_block_write(d, BufSz)
<1>1. BufSz \in 0 .. BufSz
  BY RingPlaces
<1>2. /\ u \in IoRec /\ SameRing(d, u) /\ u.mem = d.mem
      /\ u.rdwrt = d.rdwrt /\ u.curbuf = d.curbuf
      /\ u.marked_filled = d.marked_filled /\ u.buf_ptrs = d.buf_ptrs
      /\ u.sod_pending = d.sod_pending /\ u.sod_buf = d.sod_buf
      /\ u.sod_byte = d.sod_byte /\ u.err = d.err
      /\ u.state = d.state /\ u.w_state = d.w_state
  BY <1>1, UpdatedFields
<1>3. /\ p \in IoRec
      /\ BlocksFilled(u, p, 1) /\ SameHandle(u, p) /\ p.mem = u.mem
      /\ p.state = u.state /\ p.w_state = u.w_state
  <2> HIDE DEF u
  <2>1. u \in IoRec /\ u.state = "WRITING"
    BY <1>2 DEF CanClose
  <2> QED
    BY <2>1, FillEffect
<1>4. ~p.sod_pending /\ ~p.err /\ p.buf_ptrs # <<>>
  BY <1>2, <1>3 DEF CanClose, SameHandle
<1>5. ipcio_check_pending_sod(p) = p
  <2> HIDE DEF p
  <2> QED
    BY <1>4 DEF ipcio_check_pending_sod
<1>6. e \in IoRec /\ NextHeld(p, e)
  <2>1. ipcio_check_pending_sod(ipcbuf_mark_filled(Updated(d, BufSz), BufSz)) = p
    BY <1>5
  <2> HIDE DEF p, u
  <2>2. d.bytes = 0 /\ d.curbuf # NoBuf /\ d.rdwrt = "W" /\ ~d.marked_filled /\ ~d.err
    BY DEF CanClose
  <2> QED
    BY <1>1, <1>3, <1>4, <2>1, <2>2, CloseBlockIs
<1> HIDE DEF u, p, e
<1>7. BlocksFilled(d, e, 1)
  BY <1>2, <1>3, <1>6 DEF NextHeld, SameRing, BlocksFilled, Handed
<1>8. /\ e.mem = d.mem /\ e.rdwrt = d.rdwrt /\ e.bytes = 0
      /\ e.buf_ptrs = Tail(d.buf_ptrs)
      /\ e.curbuf = (IF Tail(d.buf_ptrs) = <<>> THEN NoBuf ELSE Head(Tail(d.buf_ptrs)))
      /\ e.marked_filled = (Tail(d.buf_ptrs) = <<>>)
      /\ e.sod_pending = d.sod_pending /\ e.sod_buf = d.sod_buf
      /\ e.sod_byte = d.sod_byte /\ e.err = d.err
      /\ e.state = d.state /\ e.w_state = d.w_state
  BY <1>2, <1>3, <1>6 DEF NextHeld, SameHandle
<1> QED
  BY <1>6, <1>7, <1>8 DEF e

(* A handle of a transfer that holds blocks open.                          *)
HoldsBlocks(d) ==
  /\ d.rdwrt = "W" /\ d.state = "WRITING"
  /\ ~d.err /\ ~d.sod_pending /\ Len(d.buf_ptrs) <= NBufs
  /\ d.buf_ptrs # <<>> => ~d.marked_filled /\ d.curbuf # NoBuf /\ d.bytes = 0

(* The rest of a sequence after one more member.                           *)
LEMMA RestOf ==
  ASSUME NEW T, NEW q \in Seq(T), NEW j \in Nat, j < Len(q)
  PROVE  LET s == SubSeq(q, j + 1, Len(q))
             t == SubSeq(q, (j + 1) + 1, Len(q))
         IN /\ s \in Seq(T) /\ t \in Seq(T) /\ Tail(s) = t
            /\ t = <<>> <=> j + 1 = Len(q)
            /\ t # <<>> => Head(t) = q[(j + 1) + 1]
<1> DEFINE m == Len(q)
           s == SubSeq(q, j + 1, m)
           t == SubSeq(q, (j + 1) + 1, m)
<1>1. m \in Nat /\ j < m
  OBVIOUS
<1>2. s \in Seq(T) /\ Len(s) = m - j /\ \A i \in 1 .. m - j : s[i] = q[j + i]
  OBVIOUS
<1>3. t \in Seq(T) /\ Len(t) = m - (j + 1) /\ \A i \in 1 .. m - (j + 1) : t[i] = q[j + 1 + i]
  OBVIOUS
<1> HIDE DEF m, s, t
<1>4. Tail(s) \in Seq(T) /\ Len(Tail(s)) = m - (j + 1)
      /\ \A i \in 1 .. m - (j + 1) : Tail(s)[i] = s[i + 1]
  BY <1>1, <1>2
<1>5. \A i \in 1 .. m - (j + 1) : Tail(s)[i] = t[i]
  <2>1. ASSUME NEW i \in 1 .. m - (j + 1) PROVE Tail(s)[i] = t[i]
    <3>1. i + 1 \in 1 .. m - j /\ j + (i + 1) = j + 1 + i
      BY <1>1
    <3> QED
      BY <1>2, <1>3, <1>4, <3>1
  <2> QED
    BY <2>1
<1>6. Tail(s) = t
  BY <1>3, <1>4, <1>5
<1>7. t = <<>> <=> j + 1 = m
  BY <1>1, <1>3
<1>8. t # <<>> => Head(t) = q[(j + 1) + 1]
  BY <1>1, <1>3, <1>7
<1> QED
  BY <1>2, <1>3, <1>6, <1>7, <1>8 DEF s, t, m

(* As long as a block is held it can be closed.                            *)
LEMMA ClosingCan ==
  ASSUME NEW d \in IoRec, HoldsBlocks(d), NEW j \in 0 .. Len(d.buf_ptrs) - 1
  PROVE  CanClose(Closing(d, j)) /\ Closing(d, j) \in IoRec
<1> DEFINE e == Closing(d, j)
           n0 == Len(d.buf_ptrs)
<1>0. n0 \in Nat /\ d.buf_ptrs \in Seq(Ring)
  BY IoTypes
<1> HIDE DEF n0
<1>1. j \in 0 .. n0 /\ j \in Nat /\ j < n0
  BY <1>0 DEF n0
<1>2. /\ e \in IoRec
      /\ e.buf_ptrs = SubSeq(d.buf_ptrs, j + 1, n0)
      /\ e.curbuf = (IF j = 0 THEN d.curbuf
                     ELSE IF j = n0 THEN NoBuf ELSE d.buf_ptrs[j + 1])
      /\ e.marked_filled = (IF j = 0 THEN d.marked_filled ELSE j = n0)
      /\ e.rdwrt = d.rdwrt /\ e.bytes = d.bytes /\ e.sod_pending = d.sod_pending
      /\ e.state = d.state /\ e.err = d.err
  BY <1>1, ClosingFields DEF n0
<1> HIDE DEF e
<1>3. e.buf_ptrs # <<>>
  <2>1. Len(SubSeq(d.buf_ptrs, j + 1, n0)) = n0 - j
    BY <1>0, <1>1 DEF n0
  <2>2. n0 - j # 0
    BY <1>0, <1>1
  <2>3. Len(e.buf_ptrs) # 0
    BY <1>2, <2>1, <2>2
  <2> QED
    BY <2>3
<1>4. d.buf_ptrs # <<>>
  BY <1>0, <1>1 DEF n0
<1>5. e.curbuf # NoBuf
  <2>1. d.buf_ptrs[j + 1] \in Ring
    BY <1>0, <1>1 DEF n0
  <2>2. j # n0
    BY <1>0, <1>1
  <2> QED
    BY <1>2, <1>4, <2>1, <2>2, RingPlaces DEF HoldsBlocks
<1>6. ~e.marked_filled
  <2>1. j # n0
    BY <1>0, <1>1
  <2> QED
    BY <1>2, <1>4, <2>1 DEF HoldsBlocks
<1> QED
  BY <1>2, <1>3, <1>4, <1>5, <1>6 DEF HoldsBlocks, CanClose, e

(* One call of ipcio_close_block_write closes one more block.              *)
LEMMA ClosingStep ==
  ASSUME NEW d \in IoRec, HoldsBlocks(d), NEW j \in 0 .. Len(d.buf_ptrs) - 1
  PROVE  ipcio_close_block_write(Closing(d, j), BufSz) = Closing(d, j + 1)
<1> DEFINE n0 == Len(d.buf_ptrs)
           C == d.w_buf_curr
           g == Closing(d, j)
           e == ipcio_close_block_write(g, BufSz)
           f == Closing(d, j + 1)
<1>0. /\ n0 \in Nat /\ d.buf_ptrs \in Seq(Ring) /\ C \in Nat /\ NBufs \in Nat \ {0}
      /\ d.count \in [Ring -> Nat] /\ d.FULL \in Nat
  BY IoTypes, RingPlaces
<1>00. n0 <= NBufs
  BY DEF HoldsBlocks
<1> HIDE DEF n0, C
<1>01. j \in 0 .. n0 - 1
  BY DEF n0
<1>1. /\ j \in 0 .. n0 /\ j + 1 \in 0 .. n0 /\ n0 \in Nat /\ j \in Nat /\ j < n0
      /\ d.buf_ptrs \in Seq(Ring) /\ C \in Nat /\ NBufs \in Nat \ {0} /\ n0 <= NBufs
      /\ d.count \in [Ring -> Nat] /\ d.FULL \in Nat
  BY <1>0, <1>00, <1>01
<1>g. g \in IoRec /\ CanClose(g)
  BY ClosingCan
<1>2. /\ g.count = [k \in Ring |-> d.count[k] +
              (IF \E i \in 0 .. j - 1 : k = (C + i) % NBufs THEN 1 ELSE 0)]
      /\ g.w_buf_curr = C + j /\ g.FULL = d.FULL + j
      /\ g.buf_ptrs = SubSeq(d.buf_ptrs, j + 1, n0)
      /\ g.rdwrt = d.rdwrt /\ g.bytes = d.bytes /\ g.sod_pending = d.sod_pending
      /\ g.sod_buf = d.sod_buf /\ g.sod_byte = d.sod_byte
      /\ g.state = d.state /\ g.w_state = d.w_state /\ g.soclock_buf = d.soclock_buf
      /\ g.w_buf_next = d.w_buf_next /\ g.w_xfer = d.w_xfer /\ g.xfers = d.xfers
      /\ g.CLEAR = d.CLEAR /\ g.mem = d.mem /\ g.err = d.err
  BY ZenonT(40), <1>1, ClosingFields DEF n0, C
<1>3. /\ f \in IoRec
      /\ f.count = [k \in Ring |-> d.count[k] +
              (IF \E i \in 0 .. (j + 1) - 1 : k = (C + i) % NBufs THEN 1 ELSE 0)]
      /\ f.w_buf_curr = C + (j + 1) /\ f.FULL = d.FULL + (j + 1)
      /\ f.buf_ptrs = SubSeq(d.buf_ptrs, (j + 1) + 1, n0)
      /\ f.curbuf = (IF (j + 1) = 0 THEN d.curbuf
                     ELSE IF (j + 1) = n0 THEN NoBuf ELSE d.buf_ptrs[(j + 1) + 1])
      /\ f.marked_filled = (IF (j + 1) = 0 THEN d.marked_filled ELSE (j + 1) = n0)
      /\ f.rdwrt = d.rdwrt /\ f.bytes = d.bytes /\ f.sod_pending = d.sod_pending
      /\ f.sod_buf = d.sod_buf /\ f.sod_byte = d.sod_byte
      /\ f.state = d.state /\ f.w_state = d.w_state /\ f.soclock_buf = d.soclock_buf
      /\ f.w_buf_next = d.w_buf_next /\ f.w_xfer = d.w_xfer /\ f.xfers = d.xfers
      /\ f.CLEAR = d.CLEAR /\ f.mem = d.mem /\ f.err = d.err
  BY <1>1, ClosingFields DEF n0, C
<1> HIDE DEF g, f
<1>4. /\ e \in IoRec /\ BlocksFilled(g, e, 1) /\ e.mem = g.mem
      /\ e.rdwrt = g.rdwrt /\ e.bytes = 0
      /\ e.buf_ptrs = Tail(g.buf_ptrs)
      /\ e.curbuf = (IF Tail(g.buf_ptrs) = <<>> THEN NoBuf ELSE Head(Tail(g.buf_ptrs)))
      /\ e.marked_filled = (Tail(g.buf_ptrs) = <<>>)
      /\ e.sod_pending = g.sod_pending /\ e.sod_buf = g.sod_buf
      /\ e.sod_byte = g.sod_byte /\ e.err = g.err
      /\ e.state = g.state /\ e.w_state = g.w_state
  BY <1>g, CloseFull
<1> HIDE DEF e
<1>5. /\ e.w_buf_curr = f.w_buf_curr /\ e.FULL = f.FULL /\ e.CLEAR = f.CLEAR
      /\ e.soclock_buf = f.soclock_buf /\ e.w_buf_next = f.w_buf_next
      /\ e.xfers = f.xfers /\ e.w_xfer = f.w_xfer
  <2>1. /\ e.w_buf_curr = g.w_buf_curr + 1 /\ e.FULL = g.FULL + 1
        /\ e.CLEAR = g.CLEAR /\ e.soclock_buf = g.soclock_buf
        /\ e.w_buf_next = g.w_buf_next
        /\ e.xfers = g.xfers /\ e.w_xfer = g.w_xfer
    BY <1>4 DEF BlocksFilled, Handed
  <2>2. (C + j) + 1 = C + (j + 1) /\ (d.FULL + j) + 1 = d.FULL + (j + 1)
    BY SMTT(30), <1>1
  <2> QED
    BY <1>2, <1>3, <2>1, <2>2
<1>6. e.count = f.count
  <2>1. e.count \in [Ring -> Nat] /\ f.count \in [Ring -> Nat]
    BY <1>3, <1>4, IoTypes
  <2>2. ASSUME NEW k \in Ring PROVE e.count[k] = f.count[k]
    <3> DEFINE In(i) == k = (C + i) % NBufs
    <3>1. e.count[k] = g.count[k] + (IF In(j) THEN 1 ELSE 0)
      <4>1. e.count[k] = g.count[k]
              + (IF \E i \in 0 .. 1 - 1 : k = (g.w_buf_curr + i) % NBufs THEN 1 ELSE 0)
        BY <1>4 DEF BlocksFilled, Handed
      <4>2. (\E i \in 0 .. 1 - 1 : k = (g.w_buf_curr + i) % NBufs)
              <=> k = (g.w_buf_curr + 0) % NBufs
        OBVIOUS
      <4>3. g.w_buf_curr + 0 = C + j
        BY <1>1, <1>2
      <4> QED
        BY <4>1, <4>2, <4>3
    <3>2. g.count[k] = d.count[k] + (IF \E i \in 0 .. j - 1 : In(i) THEN 1 ELSE 0)
      BY <1>2
    <3>3. f.count[k] = d.count[k] + (IF \E i \in 0 .. (j + 1) - 1 : In(i) THEN 1 ELSE 0)
      BY <1>3
    <3>4. ASSUME NEW i \in 0 .. j - 1, In(i), In(j) PROVE FALSE
      <4>0. i \in Int /\ 0 <= i /\ i < j
        BY <1>1
      <4>1. C + i \in Int /\ C + j \in Int /\ C + i < C + j /\ C + j < (C + i) + NBufs
        BY <1>1, <4>0
      <4>2. (C + i) % NBufs = (C + j) % NBufs
        BY <3>4
      <4> DEFINE x == C + i
                 y == C + j
      <4>3. x \in Int /\ y \in Int /\ x < y /\ y < x + NBufs /\ x % NBufs = y % NBufs
        BY <4>1, <4>2
      <4> HIDE DEF x, y
      <4>4. x <= y /\ x # y
        BY <4>3
      <4>5. x = y
        BY <1>1, <4>3, <4>4, ModDistinct
      <4> QED
        BY <4>4, <4>5
    <3> HIDE DEF In
    <3>5. (\E i \in 0 .. (j + 1) - 1 : In(i)) <=> (\E i \in 0 .. j - 1 : In(i)) \/ In(j)
      <4>1. \A i \in 0 .. (j + 1) - 1 : i \in 0 .. j - 1 \/ i = j
        BY <1>1
      <4>2. j \in 0 .. (j + 1) - 1 /\ \A i \in 0 .. j - 1 : i \in 0 .. (j + 1) - 1
        BY <1>1
      <4> QED
        BY <4>1, <4>2
    <3>6. d.count[k] \in Nat
      BY <1>1
    <3> QED
      BY <3>1, <3>2, <3>3, <3>4, <3>5, <3>6
  <2> QED
    BY <2>1, <2>2
<1>7. /\ e.buf_ptrs = f.buf_ptrs /\ e.curbuf = f.curbuf
      /\ e.marked_filled = f.marked_filled
  <2> DEFINE s == SubSeq(d.buf_ptrs, j + 1, n0)
             t == SubSeq(d.buf_ptrs, (j + 1) + 1, n0)
  <2>1. /\ s \in Seq(Ring) /\ t \in Seq(Ring) /\ Tail(s) = t
        /\ t = <<>> <=> j + 1 = n0
        /\ t # <<>> => Head(t) = d.buf_ptrs[(j + 1) + 1]
    BY <1>1, RestOf DEF n0
  <2>2. Tail(s) = t
    BY <2>1
  <2>3. t = <<>> <=> j + 1 = n0
    BY <2>1
  <2>4. t # <<>> => Head(t) = d.buf_ptrs[(j + 1) + 1]
    BY <2>1
  <2> HIDE DEF s, t
  <2>5. j + 1 # 0
    BY <1>1
  <2>6. g.buf_ptrs = s /\ f.buf_ptrs = t
    BY <1>2, <1>3 DEF s, t
  <2>7. e.buf_ptrs = t /\ e.marked_filled = (t = <<>>)
        /\ e.curbuf = (IF t = <<>> THEN NoBuf ELSE Head(t))
    BY <1>4, <2>2, <2>6
  <2>8. f.marked_filled = (t = <<>>)
    BY <1>3, <2>3, <2>5
  <2>9. f.curbuf = (IF t = <<>> THEN NoBuf ELSE Head(t))
    BY <1>3, <2>3, <2>4, <2>5
  <2> QED
    BY <2>6, <2>7, <2>8, <2>9
<1>8. e.bytes = f.bytes
  <2>1. d.buf_ptrs # <<>>
    BY <1>1 DEF n0
  <2> QED
    BY <1>3, <1>4, <2>1 DEF HoldsBlocks
<1>9. /\ e.rdwrt = f.rdwrt /\ e.sod_pending = f.sod_pending /\ e.sod_buf = f.sod_buf
      /\ e.sod_byte = f.sod_byte /\ e.state = f.state /\ e.w_state = f.w_state
      /\ e.mem = f.mem /\ e.err = f.err
  BY <1>2, <1>3, <1>4
<1>10. e = f
  BY <1>3, <1>4, <1>5, <1>6, <1>7, <1>8, <1>9, SameRecord
<1> QED
  BY <1>10 DEF e, f, g

(* ipcio_stop_close closes the blocks held open, one after the other.  The *)
(* fold by which CloseBlocks is defined is CHOSEN to satisfy its           *)
(* recursion: closing as many blocks as the set has members does, and      *)
(* whichever solution CHOOSE picks agrees with it, by the smallest set on  *)
(* which it would not.                                                     *)
LEMMA CloseBlocksIs ==
  ASSUME NEW d \in IoRec, HoldsBlocks(d)
  PROVE  CloseBlocks(d) = Closing(d, Len(d.buf_ptrs))
<1> DEFINE n0 == Len(d.buf_ptrs)
           S == 1 .. n0
           step(g, s) == IF s = {} THEN d
                         ELSE ipcio_close_block_write(g[s \ {Max(s)}], BufSz)
           iter == CHOOSE g : g = [s \in SUBSET S |-> step(g, s)]
           total == [s \in SUBSET S |-> Closing(d, Cardinality(s))]
<1>0. n0 \in Nat /\ DOMAIN d.buf_ptrs = S /\ d.buf_ptrs \in Seq(Ring)
  BY IoTypes
<1>1. CloseBlocks(d) = iter[S]
  BY <1>0 DEF CloseBlocks, FoldLeft, MapThenFoldSet
<1> HIDE DEF n0
<1>2. /\ IsFiniteSet(S) /\ Cardinality(S) = n0
      /\ \A s \in SUBSET S : IsFiniteSet(s) /\ Cardinality(s) \in 0 .. n0
  <2>1. IsFiniteSet(S) /\ Cardinality(S) = n0
    BY <1>0, FS_Interval
  <2>2. ASSUME NEW s \in SUBSET S PROVE IsFiniteSet(s) /\ Cardinality(s) \in 0 .. n0
    <3>1. IsFiniteSet(s) /\ Cardinality(s) \in Nat /\ Cardinality(s) <= Cardinality(S)
      BY <2>1, FS_Subset, FS_CardinalityType
    <3> QED
      BY <1>0, <2>1, <3>1
  <2> QED
    BY <2>1, <2>2
<1>3. ASSUME NEW s \in SUBSET S, s # {}
      PROVE  /\ Max(s) \in s /\ s \ {Max(s)} \in SUBSET S
             /\ Cardinality(s \ {Max(s)}) = Cardinality(s) - 1
             /\ Cardinality(s \ {Max(s)}) \in 0 .. n0 - 1
             /\ Cardinality(s) \in Nat
  <2>1. Max(s) \in s
    BY <1>0, <1>3, GreatestMember
  <2>2. Cardinality(s \ {Max(s)}) = Cardinality(s) - 1
    BY <1>2, <2>1, FS_RemoveElement
  <2>3. Cardinality(s) \in 0 .. n0 /\ Cardinality(s \ {Max(s)}) \in 0 .. n0
    BY <1>2
  <2> DEFINE a == Cardinality(s)
             b == Cardinality(s \ {Max(s)})
  <2> HIDE DEF a, b
  <2>4. b = a - 1 /\ a \in 0 .. n0 /\ b \in 0 .. n0
    BY <2>2, <2>3 DEF a, b
  <2>5. b \in 0 .. n0 - 1 /\ a \in Nat
    BY <1>0, <2>4
  <2>6. s \ {Max(s)} \in SUBSET S
    OBVIOUS
  <2> QED
    BY <2>1, <2>2, <2>5, <2>6 DEF a, b
<1>4. Closing(d, 0) = d
  <2>1. 0 \in 0 .. Len(d.buf_ptrs)
    BY <1>0 DEF n0
  <2> DEFINE e == Closing(d, 0)
  <2>2. /\ e \in IoRec
        /\ e.count = [k \in Ring |-> d.count[k] +
              (IF \E i \in 0 .. 0 - 1 : k = (d.w_buf_curr + i) % NBufs THEN 1 ELSE 0)]
        /\ e.w_buf_curr = d.w_buf_curr + 0 /\ e.FULL = d.FULL + 0
        /\ e.buf_ptrs = SubSeq(d.buf_ptrs, 0 + 1, Len(d.buf_ptrs))
        /\ e.curbuf = d.curbuf
        /\ e.marked_filled = d.marked_filled
        /\ e.rdwrt = d.rdwrt /\ e.bytes = d.bytes /\ e.sod_pending = d.sod_pending
        /\ e.sod_buf = d.sod_buf /\ e.sod_byte = d.sod_byte
        /\ e.state = d.state /\ e.w_state = d.w_state /\ e.soclock_buf = d.soclock_buf
        /\ e.w_buf_next = d.w_buf_next /\ e.w_xfer = d.w_xfer /\ e.xfers = d.xfers
        /\ e.CLEAR = d.CLEAR /\ e.mem = d.mem /\ e.err = d.err
    BY <2>1, ClosingFields
  <2> HIDE DEF e
  <2>3. e.count = d.count
    <3>1. d.count \in [Ring -> Nat]
      BY IoTypes
    <3>2. \A k \in Ring : d.count[k] \in Nat
      BY <3>1
    <3>3. \A k \in Ring : d.count[k] +
              (IF \E i \in 0 .. 0 - 1 : k = (d.w_buf_curr + i) % NBufs THEN 1 ELSE 0)
                = d.count[k]
      BY <3>2
    <3>4. e.count = [k \in Ring |-> d.count[k]]
      BY <2>2, <3>3
    <3> QED
      BY <3>1, <3>4
  <2>4. e.w_buf_curr = d.w_buf_curr /\ e.FULL = d.FULL
    BY <2>2, IoTypes
  <2>5. e.buf_ptrs = d.buf_ptrs
    <3>1. SubSeq(d.buf_ptrs, 1, Len(d.buf_ptrs)) = d.buf_ptrs
      BY <1>0
    <3> QED
      BY <2>2, <3>1
  <2> QED
    BY <2>2, <2>3, <2>4, <2>5, SameRecord DEF e
<1>5. total = [s \in SUBSET S |-> step(total, s)]
  <2>1. ASSUME NEW s \in SUBSET S PROVE Closing(d, Cardinality(s)) = step(total, s)
    <3>1. CASE s = {}
      BY <1>4, <3>1, FS_EmptySet
    <3>2. CASE s # {}
      <4> DEFINE j == Cardinality(s \ {Max(s)})
      <4>1. total[s \ {Max(s)}] = Closing(d, j)
        BY <1>3, <3>2
      <4>2. step(total, s) = ipcio_close_block_write(total[s \ {Max(s)}], BufSz)
        BY <3>2
      <4>3. j \in 0 .. Len(d.buf_ptrs) - 1 /\ j + 1 = Cardinality(s)
        <5>1. j = Cardinality(s) - 1 /\ Cardinality(s) \in Nat /\ j \in 0 .. n0 - 1
          BY <1>3, <3>2
        <5> HIDE DEF j
        <5> QED
          BY <5>1 DEF n0
      <4> HIDE DEF j, total
      <4>4. ipcio_close_block_write(Closing(d, j), BufSz) = Closing(d, j + 1)
        BY <4>3, ClosingStep
      <4> QED
        BY <4>1, <4>2, <4>3, <4>4
    <3> QED
      BY <3>1, <3>2
  <2> HIDE DEF step
  <2> QED
    BY <2>1
<1>6. iter = [s \in SUBSET S |-> step(iter, s)]
  BY <1>5
<1>7. \A s \in SUBSET S : iter[s] = Closing(d, Cardinality(s))
  <2> DEFINE Bad == {m \in Nat : \E s \in SUBSET S :
                       Cardinality(s) = m /\ iter[s] # Closing(d, Cardinality(s))}
  <2> SUFFICES Bad = {}
    <3>1. \A s \in SUBSET S : Cardinality(s) \in Nat
      BY <1>0, <1>2
    <3> QED
      BY <3>1
  <2> SUFFICES ASSUME Bad # {} PROVE FALSE
    OBVIOUS
  <2>1. PICK m \in Bad : \A k \in Bad : m <= k
    BY LeastMember
  <2>2. PICK s \in SUBSET S : Cardinality(s) = m /\ iter[s] # Closing(d, Cardinality(s))
    OBVIOUS
  <2> HIDE DEF iter
  <2>3. iter[s] = step(iter, s)
    BY <1>6
  <2>4. s # {}
    BY <1>4, <2>2, <2>3, FS_EmptySet
  <2> DEFINE u == s \ {Max(s)}
             j == Cardinality(u)
  <2>5. iter[s] = ipcio_close_block_write(iter[u], BufSz)
    BY <2>3, <2>4
  <2>6. j = m - 1 /\ j \in Nat /\ u \in SUBSET S /\ j \in 0 .. Len(d.buf_ptrs) - 1
    <3>1. j = Cardinality(s) - 1 /\ u \in SUBSET S /\ j \in 0 .. n0 - 1
      BY <1>3, <2>4
    <3> HIDE DEF j, u
    <3> QED
      BY <1>0, <2>2, <3>1 DEF n0
  <2>7. iter[u] = Closing(d, j)
    <3>1. j \notin Bad
      <4>1. m \in Nat
        OBVIOUS
      <4> HIDE DEF j, Bad
      <4> QED
        BY <2>1, <2>6, <4>1
    <3> QED
      BY <2>6, <3>1
  <2>8. ipcio_close_block_write(Closing(d, j), BufSz) = Closing(d, j + 1)
    BY <2>6, ClosingStep
  <2>9. j + 1 = Cardinality(s)
    BY <2>2, <2>6
  <2> QED
    BY <2>2, <2>5, <2>7, <2>8, <2>9
<1> QED
  BY <1>1, <1>2, <1>7 DEF n0

-----------------------------------------------------------------------------
(***************************************************************************)
(* The functions of ipcio.                                                 *)
(***************************************************************************)
AskedAt(d, st) ==
  /\ d.state = "WRITER" /\ Len(d.xfers) = d.w_xfer
  /\ d.sod_buf >= Base(d) /\ d.sod_buf > 0 /\ d.sod_byte < BufSz
  /\ d.sod_buf > d.w_buf_next - NBufs
  /\ Len(d.xfers) < Len(st)
  /\ st[Len(d.xfers) + 1].at = Address(d.sod_buf, d.sod_byte)

SameFrame(d, e) ==
  /\ e.rdwrt = d.rdwrt /\ e.bytes = d.bytes /\ e.curbuf = d.curbuf
  /\ e.marked_filled = d.marked_filled /\ e.buf_ptrs = d.buf_ptrs
  /\ e.sod_buf = d.sod_buf /\ e.sod_byte = d.sod_byte /\ e.err = d.err
  /\ e.w_buf_curr = d.w_buf_curr /\ e.w_buf_next = d.w_buf_next
  /\ e.w_xfer = d.w_xfer /\ e.mem = d.mem

RaisedAt(d, e) ==
  /\ e.state = "WRITING" /\ e.w_state = "WRITING" /\ ~e.sod_pending
  /\ Len(e.xfers) = Len(d.xfers) + 1
  /\ \A k \in 1 .. Len(d.xfers) : e.xfers[k] = d.xfers[k]

(* The table is never ahead of the block that is opened next, so the minimum *)
(* of ipcbuf_get_sod_minbuf is computed without leaving the naturals.        *)
LEMMA SodMinbufIs ==
  ASSUME NEW d \in IoRec, Table(d)
  PROVE  ipcbuf_get_sod_minbuf(d) =
           IF d.w_buf_next - d.soclock_buf < NBufs THEN d.soclock_buf
                                                  ELSE d.w_buf_next - NBufs + 1
<1>1. d.soclock_buf \in Nat /\ d.w_buf_next \in Nat /\ NBufs \in Nat \ {0}
  BY IoTypes, IoSizes
<1>2. Base(d) \in Nat /\ Base(d) <= d.w_buf_next /\ d.soclock_buf <= Base(d)
  BY TableNumbers DEF Table
<1>3. d.w_buf_next - d.soclock_buf >= 0
  BY <1>1, <1>2
<1>4. Unsigned(d.w_buf_next - d.soclock_buf) = d.w_buf_next - d.soclock_buf
  BY <1>3 DEF Unsigned
<1>5. CASE d.w_buf_next - d.soclock_buf < NBufs
  BY <1>4, <1>5 DEF ipcbuf_get_sod_minbuf
<1>6. CASE ~(d.w_buf_next - d.soclock_buf < NBufs)
  <2>1. d.w_buf_next - NBufs + 1 >= 0
    BY <1>1, <1>6
  <2>2. Unsigned(d.w_buf_next - NBufs + 1) = d.w_buf_next - NBufs + 1
    BY <2>1 DEF Unsigned
  <2> QED
    BY <1>4, <1>6, <2>2 DEF ipcbuf_get_sod_minbuf
<1> QED
  BY <1>5, <1>6

(* ipcio_check_pending_sod raises start of data where it was asked for.    *)
LEMMA PendingEffect ==
  ASSUME NEW r \in ReaderRec, NEW d \in IoRec, NEW ad \in AddrSeq,
         NEW st \in Seq(SentRec), NEW z \in Int,
         RingOK(r, d), Data(r, d, ad, st, z), ~d.err,
         d.sod_pending => AskedAt(d, st)
  PROVE  LET e == ipcio_check_pending_sod(d) IN
         /\ e \in IoRec /\ RingOK(r, e) /\ Data(r, e, ad, st, z)
         /\ Base(e) = Base(d) /\ SameFrame(d, e)
         /\ IF d.sod_pending /\ d.w_buf_curr > d.sod_buf THEN RaisedAt(d, e) ELSE e = d
<1> DEFINE b == d.sod_buf
           y == d.sod_byte
           g == ipcbuf_enable_sod(d, b, y)
           e == ipcio_check_pending_sod(d)
<1>1. CASE ~(d.sod_pending /\ d.w_buf_curr > d.sod_buf)
  <2>1. e = d
    BY <1>1 DEF ipcio_check_pending_sod, PendingFilled
  <2>2. SameFrame(d, d)
    BY DEF SameFrame
  <2> HIDE DEF e
  <2>3. RingOK(r, e) /\ Data(r, e, ad, st, z) /\ SameFrame(d, e) /\ e \in IoRec
    BY <2>1, <2>2
  <2> QED
    BY <1>1, <2>1, <2>3 DEF e
<1>2. CASE d.sod_pending /\ d.w_buf_curr > d.sod_buf
  <2>1. /\ b \in Nat /\ y \in Nat /\ d.w_buf_curr \in Nat /\ d.w_buf_next \in Nat
        /\ d.soclock_buf \in Nat /\ NBufs \in Nat \ {0} /\ BufSz \in Nat \ {0}
        /\ d.w_xfer \in Nat /\ Len(d.xfers) \in Nat
    BY IoTypes, RingPlaces
  <2>2. AskedAt(d, st)
    BY <1>2
  <2>3. /\ d.state = "WRITER" /\ Len(d.xfers) = d.w_xfer
        /\ b >= Base(d) /\ b > 0 /\ y < BufSz /\ b > d.w_buf_next - NBufs
        /\ Len(d.xfers) < Len(st)
        /\ st[Len(d.xfers) + 1].at = Address(b, y)
    BY <2>2 DEF AskedAt
  <2>4. Table(d) /\ Base(d) \in Nat /\ d.soclock_buf <= Base(d) /\ d.w_buf_curr <= d.w_buf_next
    <3>1. Table(d)
      BY DEF RingOK
    <3> QED
      BY <3>1, TableNumbers DEF Table
  <2> HIDE DEF b, y
  <2>5. y \in 0 .. BufSz /\ b < d.w_buf_curr
    <3>1. b < d.w_buf_curr
      BY <1>2, <2>1 DEF b
    <3> QED
      BY <2>1, <2>3, <3>1
  <2>6. b >= ipcbuf_get_sod_minbuf(d)
    <3>1. CASE d.w_buf_next - d.soclock_buf < NBufs
      <4>1. ipcbuf_get_sod_minbuf(d) = d.soclock_buf
        BY <2>4, <3>1, SodMinbufIs
      <4> QED
        BY <2>1, <2>3, <2>4, <4>1
    <3>2. CASE ~(d.w_buf_next - d.soclock_buf < NBufs)
      <4>1. ipcbuf_get_sod_minbuf(d) = d.w_buf_next - NBufs + 1
        BY <2>4, <3>2, SodMinbufIs
      <4> QED
        BY <2>1, <2>3, <4>1
    <3> QED
      BY <3>1, <3>2
  <2>7. b <= d.w_buf_curr /\ d.state \in {"WRITER", "WCHANGE"} /\ b # d.w_buf_curr
    BY <2>1, <2>3, <2>5
  <2>8. /\ g \in IoRec
        /\ SodRaised(d, g, b, y) /\ SameHandle(d, g) /\ g.mem = d.mem
        /\ g.state = "WRITING" /\ g.w_state = "WRITING"
    BY <2>1, <2>4, <2>5, <2>6, <2>7, SodEffect
  <2> HIDE DEF g
  <2>9. RingOK(r, g)
    BY <2>1, <2>3, <2>5, <2>7, <2>8, RingSod
  <2>10. Data(r, g, ad, st, z) /\ Base(g) = Base(d)
    BY <2>1, <2>3, <2>5, <2>8, DataSod
  <2>11. ~g.err
    BY <2>8 DEF SameHandle
  <2> DEFINE f == [g EXCEPT !.sod_pending = FALSE]
  <2>12. e = f
    BY <1>2, <2>11 DEF ipcio_check_pending_sod, PendingFilled, g, b, y
  <2>13. /\ f \in IoRec
         /\ f.state = g.state /\ f.w_state = g.w_state /\ ~f.sod_pending
         /\ SameRing(g, f) /\ f.mem = g.mem
         /\ f.rdwrt = g.rdwrt /\ f.bytes = g.bytes /\ f.curbuf = g.curbuf
         /\ f.marked_filled = g.marked_filled /\ f.buf_ptrs = g.buf_ptrs
         /\ f.sod_buf = g.sod_buf /\ f.sod_byte = g.sod_byte /\ f.err = g.err
    BY <2>8 DEF IoRec, SameRing
  <2> HIDE DEF f, e
  <2>14. RingOK(r, f) /\ Base(f) = Base(g) /\ Due(r, f) = Due(r, g)
    BY <2>8, <2>9, <2>13, RingStay
  <2>15. Data(r, f, ad, st, z)
    <3>1. Due(r, g) \in Nat /\ Due(r, f) \in Nat /\ Due(r, g) <= Due(r, f)
      <4>1. Table(g) /\ Place(r, g)
        BY <2>9 DEF RingOK
      <4>2. Due(r, g) \in Nat
        BY <2>8, <4>1, DueNumbers
      <4> QED
        BY <2>14, <4>2
    <3>2. /\ f.xfers = g.xfers /\ f.w_xfer = g.w_xfer /\ f.w_buf_next = g.w_buf_next
          /\ f.mem = g.mem
      BY <2>13 DEF SameRing
    <3> QED
      BY <2>8, <2>10, <2>13, <3>1, <3>2, DataStay
  <2>16. SameFrame(d, f)
    BY <2>8, <2>13 DEF SameFrame, SameHandle, SodRaised, SameRing
  <2>17. RaisedAt(d, f)
    BY <2>8, <2>13 DEF RaisedAt, SodRaised, SameRing
  <2> QED
    BY <1>2, <2>10, <2>12, <2>13, <2>14, <2>15, <2>16, <2>17 DEF e
<1> QED
  BY <1>1, <1>2

(* A transfer is open exactly while the state is WRITING.                  *)
LEMMA StateOfTable ==
  ASSUME NEW d \in IoRec, Table(d), Modes(d)
  PROVE  /\ d.state = "WRITING" => Len(d.xfers) = d.w_xfer + 1
         /\ d.state # "WRITING" => Len(d.xfers) = d.w_xfer
BY DEF Table, Modes

(* A full block is handed over, or clocked.                                *)
LEMMA FullBlock ==
  ASSUME NEW r \in ReaderRec, NEW d \in IoRec, NEW ad \in AddrSeq,
         NEW st \in Seq(SentRec), NEW z \in Int,
         RingOK(r, d), Data(r, d, ad, st, z), Modes(d), Asked(d, st),
         d.state \in {"WRITER", "WRITING"}, d.w_buf_curr < d.w_buf_next
  PROVE  LET e == ipcio_check_pending_sod(ipcbuf_mark_filled(d, BufSz)) IN
         /\ e \in IoRec /\ RingOK(r, e) /\ Data(r, e, ad, st, z)
         /\ Modes(e) /\ Asked(e, st) /\ Base(e) = Base(d)
         /\ e.rdwrt = d.rdwrt /\ e.bytes = d.bytes /\ e.curbuf = d.curbuf
         /\ e.marked_filled = d.marked_filled /\ e.buf_ptrs = d.buf_ptrs
         /\ e.w_buf_curr = d.w_buf_curr + 1 /\ e.w_buf_next = d.w_buf_next
         /\ e.w_xfer = d.w_xfer /\ e.mem = d.mem
         /\ e.state \in {"WRITER", "WRITING"}
         /\ d.state = "WRITING" => e.state = "WRITING"
         /\ Len(e.xfers) >= Len(d.xfers)
         /\ \A k \in 1 .. Len(d.xfers) : e.xfers[k] = d.xfers[k]
         /\ e.state = "WRITING" =>
              StartAddr(e.xfers[Len(e.xfers)]) < Address(e.w_buf_curr, 0)
<1> DEFINE f == ipcbuf_mark_filled(d, BufSz)
           e == ipcio_check_pending_sod(f)
<1>t. /\ d.w_buf_curr \in Nat /\ d.w_buf_next \in Nat /\ d.w_xfer \in Nat
      /\ Len(d.xfers) \in Nat /\ d.sod_buf \in Nat /\ NBufs \in Nat \ {0}
      /\ BufSz \in Nat \ {0} /\ BufSz \in 0 .. BufSz
      /\ d.xfers \in Seq(XferRec)
  BY IoTypes, RingPlaces
<1>r. Table(d) /\ d.w_buf_next - d.w_buf_curr < NBufs /\ d.w_buf_curr <= d.w_buf_next
      /\ Base(d) \in Nat /\ Base(d) <= d.w_buf_curr
  <2>1. Table(d)
    BY DEF RingOK
  <2> QED
    BY <2>1, TableNumbers DEF Table
<1>s. /\ d.state = "WRITING" => Len(d.xfers) = d.w_xfer + 1
      /\ d.state # "WRITING" => Len(d.xfers) = d.w_xfer
  BY <1>r, StateOfTable
<1>1. /\ f \in IoRec /\ SameHandle(d, f) /\ f.mem = d.mem
      /\ f.state = d.state /\ f.w_state = d.w_state
      /\ RingOK(r, f)
      /\ f.w_buf_curr = d.w_buf_curr + 1 /\ f.w_buf_next = d.w_buf_next
      /\ f.xfers = d.xfers /\ f.w_xfer = d.w_xfer
  <2>1. CASE d.state = "WRITING"
    <3>1. /\ f \in IoRec
          /\ BlocksFilled(d, f, 1) /\ SameHandle(d, f) /\ f.mem = d.mem
          /\ f.state = d.state /\ f.w_state = d.w_state
      BY <2>1, FillEffect
    <3> HIDE DEF f
    <3>2. 1 \in Nat /\ 1 <= d.w_buf_next - d.w_buf_curr
      BY <1>t
    <3>3. RingOK(r, f)
      BY <1>s, <2>1, <3>1, <3>2, RingFill
    <3> QED
      BY <3>1, <3>3 DEF BlocksFilled, Handed
  <2>2. CASE d.state = "WRITER"
    <3>1. /\ f \in IoRec
          /\ BlockClocked(d, f) /\ SameHandle(d, f) /\ f.mem = d.mem
          /\ f.state = d.state /\ f.w_state = d.w_state
      BY <1>t, <2>2, ClockEffect
    <3> HIDE DEF f
    <3>3. RingOK(r, f)
      BY <1>s, <2>2, <3>1, RingClock
    <3> QED
      BY <3>1, <3>3 DEF BlockClocked
  <2> QED
    BY <2>1, <2>2
<1> HIDE DEF f
<1>2. Base(f) = Base(d) /\ Due(r, f) = Due(r, d)
  BY <1>1 DEF Base, Due
<1>3. Data(r, f, ad, st, z)
  <2>1. Due(r, d) \in Nat
    BY <1>r, DueNumbers DEF RingOK
  <2>2. Due(r, f) \in Nat /\ Due(r, d) <= Due(r, f)
    BY <1>2, <2>1
  <2> QED
    BY <1>1, <2>1, <2>2, DataStay
<1>4. ~f.err /\ (f.sod_pending => AskedAt(f, st))
  <2>1. ~f.err
    BY <1>1 DEF SameHandle, Modes
  <2>2. ASSUME f.sod_pending PROVE AskedAt(f, st)
    <3>1. /\ d.sod_pending /\ d.state = "WRITER" /\ d.sod_buf >= d.w_buf_curr
          /\ d.sod_buf >= Base(d) /\ d.sod_buf > 0 /\ d.sod_byte < BufSz
      BY <1>1, <2>2 DEF SameHandle, Modes
    <3>2. Len(d.xfers) = d.w_xfer /\ Len(st) = Len(d.xfers) + 1
          /\ st[Len(st)].at = Address(d.sod_buf, d.sod_byte)
      BY <1>s, <3>1 DEF Asked
    <3>3. d.sod_buf > d.w_buf_next - NBufs
      BY <1>t, <1>r, <3>1
    <3>4. Len(d.xfers) < Len(st)
      BY <1>t, <3>2
    <3> QED
      BY <1>1, <1>2, <3>1, <3>2, <3>3, <3>4 DEF AskedAt, SameHandle
  <2> QED
    BY <2>1, <2>2
<1>5. /\ e \in IoRec /\ RingOK(r, e) /\ Data(r, e, ad, st, z)
      /\ Base(e) = Base(f) /\ SameFrame(f, e)
      /\ IF f.sod_pending /\ f.w_buf_curr > f.sod_buf THEN RaisedAt(f, e) ELSE e = f
  BY <1>1, <1>3, <1>4, PendingEffect
<1> HIDE DEF e
<1>6. /\ e.rdwrt = d.rdwrt /\ e.bytes = d.bytes /\ e.curbuf = d.curbuf
      /\ e.marked_filled = d.marked_filled /\ e.buf_ptrs = d.buf_ptrs
      /\ e.w_buf_curr = d.w_buf_curr + 1 /\ e.w_buf_next = d.w_buf_next
      /\ e.w_xfer = d.w_xfer /\ e.mem = d.mem
      /\ e.sod_buf = d.sod_buf /\ e.sod_byte = d.sod_byte /\ e.err = d.err
  BY <1>1, <1>5 DEF SameFrame, SameHandle
<1>7. CASE f.sod_pending /\ f.w_buf_curr > f.sod_buf
  <2>1. /\ e.state = "WRITING" /\ e.w_state = "WRITING" /\ ~e.sod_pending
        /\ Len(e.xfers) = Len(d.xfers) + 1
        /\ \A k \in 1 .. Len(d.xfers) : e.xfers[k] = d.xfers[k]
    BY <1>1, <1>5, <1>7 DEF RaisedAt
  <2>2. d.sod_pending /\ d.rdwrt = "W" /\ d.state = "WRITER" /\ Len(d.xfers) = d.w_xfer
    BY <1>1, <1>7, <1>s DEF SameHandle, Modes
  <2>3. Modes(e)
    BY <1>6, <2>1, <2>2 DEF Modes
  <2>4. Asked(e, st)
    BY <2>1, <2>2 DEF Asked
  <2>5. StartAddr(e.xfers[Len(e.xfers)]) < Address(d.w_buf_curr + 1, 0)
    <3> DEFINE x == Len(d.xfers) + 1
    <3>1. x \in 1 .. Len(e.xfers) /\ x = Len(e.xfers)
      BY <1>t, <2>1
    <3>2. st[x].at = StartAddr(e.xfers[x])
      BY <1>5, <3>1 DEF Data, Promised
    <3>3. AskedAt(f, st)
      BY <1>4, <1>7
    <3>4. st[x].at = Address(d.sod_buf, d.sod_byte) /\ d.sod_byte < BufSz
      BY <1>1, <3>3 DEF AskedAt, SameHandle
    <3>5. d.sod_buf < d.w_buf_curr + 1
      <4>1. d.w_buf_curr + 1 > d.sod_buf
        BY <1>1, <1>7 DEF SameHandle
      <4> QED
        BY <1>t, <4>1
    <3>6. d.sod_buf \in Int /\ d.w_buf_curr + 1 \in Int /\ d.sod_byte \in 0 .. BufSz - 1
      <4>1. d.sod_byte \in Nat
        BY IoTypes
      <4> QED
        BY <1>t, <3>4, <4>1
    <3>7. Address(d.sod_buf, d.sod_byte) < Address(d.w_buf_curr + 1, 0)
      BY <3>5, <3>6, InBlock
    <3> QED
      BY <3>1, <3>2, <3>4, <3>7
  <2> QED
    BY <1>2, <1>5, <1>6, <1>t, <2>1, <2>2, <2>3, <2>4, <2>5 DEF e, f
<1>8. CASE ~(f.sod_pending /\ f.w_buf_curr > f.sod_buf)
  <2>1. e = f
    BY <1>5, <1>8
  <2>2. Modes(e)
    <3>1. d.sod_pending => d.sod_buf >= d.w_buf_curr + 1
      <4>1. d.sod_pending => ~(d.w_buf_curr + 1 > d.sod_buf)
        BY <1>1, <1>8 DEF SameHandle
      <4> QED
        BY <1>t, <4>1
    <3>2. /\ e.state = d.state /\ e.w_state = d.w_state /\ e.xfers = d.xfers
          /\ e.sod_pending = d.sod_pending /\ e.state # "WCHANGE" /\ Base(e) = Base(d)
      BY <1>1, <1>2, <2>1 DEF SameHandle
    <3> QED
      BY <1>6, <3>1, <3>2 DEF Modes
  <2>3. Asked(e, st)
    BY <1>1, <2>1 DEF Asked, SameHandle
  <2>4. ASSUME e.state = "WRITING"
        PROVE  StartAddr(e.xfers[Len(e.xfers)]) < Address(d.w_buf_curr + 1, 0)
    <3> DEFINE x == Len(d.xfers)
    <3>1. e.xfers = d.xfers /\ x = d.w_xfer + 1
      BY <1>1, <1>s, <2>1, <2>4
    <3>2. x \in 1 .. Len(d.xfers)
      BY <1>t, <3>1
    <3>3. d.xfers[x].s_buf <= d.w_buf_curr /\ d.xfers[x].s_byte < BufSz
      BY <1>r, <3>2 DEF Table
    <3>4. d.xfers[x].s_buf \in Nat /\ d.xfers[x].s_byte \in 0 .. BufSz
      BY <3>2, XferTypes
    <3> DEFINE b == d.xfers[x].s_buf
               i == d.xfers[x].s_byte
    <3> HIDE DEF b, i
    <3>5. b \in Int /\ i \in 0 .. BufSz - 1 /\ b < d.w_buf_curr + 1
          /\ d.w_buf_curr + 1 \in Int
      BY SMTT(30), <1>t, <3>3, <3>4 DEF b, i
    <3>6. Address(b, i) < Address(d.w_buf_curr + 1, 0)
      BY <3>5, InBlock
    <3> QED
      BY <3>1, <3>6 DEF StartAddr, b, i
  <2> QED
    BY <1>1, <1>2, <1>5, <1>6, <1>t, <2>1, <2>2, <2>3, <2>4 DEF e, f
<1> QED
  BY <1>7, <1>8

(* The block in which a transfer ends, after that.                         *)
BlockEnded(d, y, e) ==
  /\ e \in IoRec
  /\ Base(e) = d.w_buf_curr + 1
  /\ SameHandle(d, e) /\ e.mem = d.mem
  /\ e.state = "WRITER" /\ e.w_state = "DISCON"
  /\ e.w_buf_curr = d.w_buf_curr + 1
  /\ e.w_buf_next = (IF y = 0 THEN d.w_buf_next + 1 ELSE d.w_buf_next)
  /\ e.w_xfer = d.w_xfer + 1 /\ Len(e.xfers) = Len(d.xfers)
  /\ \A k \in 1 .. d.w_xfer : e.xfers[k] = d.xfers[k]
  /\ StartAddr(e.xfers[d.w_xfer + 1]) = StartAddr(d.xfers[d.w_xfer + 1])

EndedWith(r, d, y, ad, z, f, uu) ==
  BlockEnded(d, y, f) /\ RingOK(r, f) /\ Data(r, f, ad, uu, z) /\ uu \in Seq(SentRec)

(* End of data is raised after y bytes of the current block; when there    *)
(* are none, the next block is taken for it.                               *)
LEMMA EndBlock ==
  ASSUME NEW r \in ReaderRec, NEW d \in IoRec, NEW ad \in AddrSeq,
         NEW st \in Seq(SentRec), NEW z \in Int, NEW y \in 0 .. BufSz,
         RingOK(r, d), Data(r, d, ad, st, z),
         d.state = "WCHANGE" \/ (d.state = "WRITING" /\ y < BufSz),
         Len(d.xfers) = d.w_xfer + 1, Len(st) = Len(d.xfers),
         ~d.err, ~d.sod_pending,
         z = Address(d.w_buf_curr, y), StartAddr(d.xfers[d.w_xfer + 1]) < z,
         y = 0 => GetReady(d) /\ d.w_buf_next - d.w_buf_curr < NBufs - 1,
         y # 0 => d.w_buf_curr < d.w_buf_next,
         NEW f, f = ipcio_check_pending_sod(ipcbuf_mark_filled(d, y)),
         NEW uu, uu = [st EXCEPT ![Len(st)].to = Len(ad)]
  PROVE  EndedWith(r, d, y, ad, z, f, uu)
<1> DEFINE e == ipcbuf_mark_filled(d, y)
           tt == [st EXCEPT ![Len(st)].to = Len(ad)]
           x == d.w_xfer + 1
           C == d.w_buf_curr
<1>t. /\ C \in Nat /\ d.w_buf_next \in Nat /\ d.w_xfer \in Nat /\ Len(d.xfers) \in Nat
      /\ NBufs \in Nat \ {0} /\ BufSz \in Nat \ {0} /\ y \in Int /\ y \in Nat
  <2>1. /\ C \in Nat /\ d.w_buf_next \in Nat /\ d.w_xfer \in Nat /\ Len(d.xfers) \in Nat
        /\ NBufs \in Nat \ {0} /\ BufSz \in Nat \ {0}
    BY IoTypes, RingPlaces
  <2>2. y \in Int /\ y \in Nat
    BY <2>1
  <2> QED
    BY <2>1, <2>2
<1>r. Table(d) /\ C <= d.w_buf_next /\ x \in 1 .. Len(d.xfers)
  <2>1. Table(d)
    BY DEF RingOK
  <2>2. x \in 1 .. x
    BY <1>t
  <2> QED
    BY <2>1, <2>2 DEF Table
<1>1. /\ e \in IoRec
      /\ SameHandle(d, e) /\ e.mem = d.mem
      /\ e.state = "WRITER" /\ e.w_state = "DISCON"
      /\ \E m \in IoRec :
              /\ IF y = 0 THEN BlockTaken(d, m) ELSE SameRing(d, m)
              /\ m.mem = d.mem
              /\ EodRaised(m, e, y)
  BY EodEffect
<1>2. PICK m \in IoRec :
              /\ IF y = 0 THEN BlockTaken(d, m) ELSE SameRing(d, m)
              /\ m.mem = d.mem
              /\ EodRaised(m, e, y)
  BY <1>1
<1> HIDE DEF e
<1>3. /\ RingOK(r, m) /\ Data(r, m, ad, st, z)
      /\ m.w_buf_curr = C /\ m.xfers = d.xfers /\ m.w_xfer = d.w_xfer
      /\ m.w_buf_next = (IF y = 0 THEN d.w_buf_next + 1 ELSE d.w_buf_next)
      /\ m.w_buf_curr < m.w_buf_next
  <2>1. CASE y = 0
    <3>1. BlockTaken(d, m)
      BY <1>2, <2>1
    <3>2. RingOK(r, m)
      BY <2>1, <3>1, RingGet
    <3>3. z <= Address(d.w_buf_next, 0)
      <4>1. C \in Int /\ d.w_buf_next \in Int
        BY <1>t
      <4> HIDE DEF C
      <4>2. Address(C, 0) <= Address(d.w_buf_next, 0)
        BY <1>r, <4>1, AddressRises
      <4>3. z = Address(C, 0)
        BY <2>1 DEF C
      <4> QED
        BY <4>2, <4>3
    <3>4. Data(r, m, ad, st, z)
      BY <1>2, <3>1, <3>3, DataGet
    <3>5. m.w_buf_curr = C /\ m.xfers = d.xfers /\ m.w_xfer = d.w_xfer
          /\ m.w_buf_next = d.w_buf_next + 1
      BY <3>1 DEF BlockTaken
    <3>6. C < d.w_buf_next + 1
      BY <1>t, <1>r
    <3> QED
      BY <2>1, <3>2, <3>4, <3>5, <3>6
  <2>2. CASE y # 0
    <3>1. SameRing(d, m)
      BY <1>2, <2>2
    <3>2. RingOK(r, m) /\ Due(r, m) = Due(r, d)
      BY <3>1, RingStay
    <3>3. Due(r, d) \in Nat
      BY <1>r, DueNumbers DEF RingOK
    <3>4. m.w_buf_curr = C /\ m.xfers = d.xfers /\ m.w_xfer = d.w_xfer
          /\ m.w_buf_next = d.w_buf_next
      BY <3>1 DEF SameRing
    <3>5. Due(r, d) <= Due(r, m) /\ Due(r, m) \in Nat
      BY <3>2, <3>3
    <3>6. Data(r, m, ad, st, z)
      BY <1>2, <3>3, <3>4, <3>5, DataStay
    <3> QED
      BY <2>2, <3>2, <3>4, <3>6
  <2> QED
    BY <2>1, <2>2
<1>4. /\ m.xfers[m.w_xfer + 1].s_buf = m.w_buf_curr
           => m.xfers[m.w_xfer + 1].s_byte < y
  <2>1. SUFFICES ASSUME d.xfers[x].s_buf = C PROVE d.xfers[x].s_byte < y
    BY <1>3
  <2>2. d.xfers[x].s_byte \in 0 .. BufSz
    BY <1>r, XferTypes
  <2> DEFINE i == d.xfers[x].s_byte
  <2>3. StartAddr(d.xfers[x]) = Address(C, i)
    BY <2>1 DEF StartAddr
  <2>4. i \in Int /\ C \in Int
    BY <1>t, <2>2
  <2> HIDE DEF i, C
  <2>5. Address(C, i) = Address(C, 0) + i /\ Address(C, y) = Address(C, 0) + y
        /\ Address(C, 0) \in Int
    BY <1>t, <2>4, AddressType
  <2>6. Address(C, i) < Address(C, y)
    BY <2>3 DEF C
  <2>7. i < y
    BY <1>t, <2>4, <2>5, <2>6
  <2> QED
    BY <2>7 DEF i
<1>5. RingOK(r, e) /\ Base(e) = C + 1
  <2>1. Len(m.xfers) = m.w_xfer + 1 /\ EodRaised(m, e, y)
    BY <1>2, <1>3
  <2>2. RingOK(r, e) /\ Base(e) = m.w_buf_curr + 1
    BY <1>1, <1>3, <1>4, <2>1, RingEnd
  <2> QED
    BY <1>3, <2>2
<1>6. Data(r, e, ad, tt, z) /\ tt \in Seq(SentRec)
  <2>1. /\ Len(m.xfers) = m.w_xfer + 1 /\ EodRaised(m, e, y) /\ e.mem = m.mem
        /\ Len(st) = Len(m.xfers) /\ z = Address(m.w_buf_curr, y)
        /\ StartAddr(m.xfers[m.w_xfer + 1]) < z
    BY <1>1, <1>2, <1>3
  <2> QED
    BY <1>1, <1>3, <2>1, DataEnd
<1>7. /\ e.w_buf_curr = C + 1
      /\ e.w_buf_next = (IF y = 0 THEN d.w_buf_next + 1 ELSE d.w_buf_next)
      /\ e.w_xfer = x /\ Len(e.xfers) = Len(d.xfers)
      /\ \A k \in 1 .. d.w_xfer : e.xfers[k] = d.xfers[k]
      /\ StartAddr(e.xfers[x]) = StartAddr(d.xfers[x])
  <2>1. /\ e.w_buf_curr = m.w_buf_curr + 1 /\ e.w_buf_next = m.w_buf_next
        /\ e.w_xfer = m.w_xfer + 1
        /\ Len(e.xfers) = Len(m.xfers)
        /\ \A k \in 1 .. m.w_xfer : e.xfers[k] = m.xfers[k]
        /\ e.xfers[m.w_xfer + 1].s_buf = m.xfers[m.w_xfer + 1].s_buf
        /\ e.xfers[m.w_xfer + 1].s_byte = m.xfers[m.w_xfer + 1].s_byte
    BY <1>2 DEF EodRaised, Handed, EntryEnded
  <2>2. StartAddr(e.xfers[x]) = StartAddr(d.xfers[x])
    BY <1>3, <2>1 DEF StartAddr
  <2> QED
    BY <1>3, <2>1, <2>2
<1>8. ipcio_check_pending_sod(e) = e
  <2>1. ~e.sod_pending
    BY <1>1 DEF SameHandle
  <2> QED
    BY <2>1 DEF ipcio_check_pending_sod
<1>9. f = e /\ uu = tt
  BY <1>8 DEF e
<1> HIDE DEF tt
<1>10. BlockEnded(d, y, e)
  BY <1>1, <1>5, <1>7 DEF BlockEnded
<1> QED
  BY <1>5, <1>6, <1>9, <1>10 DEF EndedWith

(* The first block of a transfer that was opened: start of data is raised. *)
LEMMA OpenedXfer ==
  ASSUME NEW r \in ReaderRec, NEW d \in IoRec, NEW ad \in AddrSeq,
         NEW st \in Seq(SentRec), NEW z \in Int,
         RingOK(r, d), Data(r, d, ad, st, z), Modes(d), Asked(d, st),
         d.state = "WCHANGE"
  PROVE  LET f == ipcbuf_enable_sod(d, d.w_buf_curr, 0) IN
         /\ f \in IoRec /\ RingOK(r, f) /\ Data(r, f, ad, st, z)
         /\ Modes(f) /\ Asked(f, st) /\ Base(f) = Base(d)
         /\ SameHandle(d, f) /\ f.mem = d.mem
         /\ f.state = "WRITING" /\ f.w_buf_curr = d.w_buf_curr
         /\ f.w_buf_next = d.w_buf_next /\ f.w_xfer = d.w_xfer
         /\ f.count = d.count /\ f.CLEAR = d.CLEAR
         /\ Len(f.xfers) = Len(d.xfers) + 1
         /\ \A k \in 1 .. Len(d.xfers) : f.xfers[k] = d.xfers[k]
<1> DEFINE C == d.w_buf_curr
           f == ipcbuf_enable_sod(d, C, 0)
<1>t. /\ C \in Nat /\ d.w_buf_next \in Nat /\ d.soclock_buf \in Nat
      /\ NBufs \in Nat \ {0} /\ BufSz \in Nat \ {0}
      /\ Len(d.xfers) \in Nat /\ d.count \in [Ring -> Nat]
  BY IoTypes, RingPlaces
<1>r. /\ Table(d) /\ d.soclock_buf <= Base(d) /\ Base(d) \in Nat /\ Base(d) <= C
      /\ d.w_buf_next - C < NBufs
  <2>1. Table(d)
    BY DEF RingOK
  <2> QED
    BY <2>1, TableNumbers DEF Table
<1>m. /\ Len(d.xfers) = d.w_xfer /\ C = d.w_buf_next /\ ~d.sod_pending /\ d.rdwrt = "W"
      /\ ~d.err
  BY <1>r, StateOfTable DEF Modes, IoRec
<1>y. 0 \in 0 .. BufSz /\ 0 < BufSz
  BY <1>t
<1> HIDE DEF C
<1>1. C <= C /\ C <= d.w_buf_next /\ C >= ipcbuf_get_sod_minbuf(d)
  <2>1. CASE d.w_buf_next - d.soclock_buf < NBufs
    <3>1. ipcbuf_get_sod_minbuf(d) = d.soclock_buf
      BY <1>r, <2>1, SodMinbufIs
    <3> QED
      BY <1>t, <1>r, <1>m, <3>1
  <2>2. CASE ~(d.w_buf_next - d.soclock_buf < NBufs)
    <3>1. ipcbuf_get_sod_minbuf(d) = d.w_buf_next - NBufs + 1
      BY <1>r, <2>2, SodMinbufIs
    <3> QED
      BY <1>t, <1>r, <1>m, <3>1
  <2> QED
    BY <2>1, <2>2
<1>2. /\ f \in IoRec
      /\ SodRaised(d, f, C, 0) /\ SameHandle(d, f) /\ f.mem = d.mem
      /\ f.state = "WRITING" /\ f.w_state = "WRITING"
  BY <1>t, <1>y, <1>1, SodEffect DEF C
<1> HIDE DEF f
<1>3. RingOK(r, f)
  <2>1. C > d.w_buf_next - NBufs /\ C >= Base(d) /\ (C = 0 \/ C > 0)
    BY <1>t, <1>r, <1>m
  <2> QED
    BY <1>t, <1>m, <1>y, <1>1, <1>2, <2>1, RingSod DEF C
<1>4. Len(st) = Len(d.xfers) + 1 /\ st[Len(st)].at = Address(C, 0)
  BY DEF Asked, C
<1>5. Data(r, f, ad, st, z) /\ Base(f) = Base(d)
  <2>1. C >= Base(d) /\ Len(d.xfers) < Len(st)
    BY <1>t, <1>r, <1>4
  <2> QED
    BY <1>t, <1>m, <1>y, <1>2, <1>4, <2>1, DataSod
<1>6. /\ f.w_buf_curr = C /\ f.w_buf_next = d.w_buf_next /\ f.w_xfer = d.w_xfer
      /\ f.CLEAR = d.CLEAR /\ Len(f.xfers) = Len(d.xfers) + 1
      /\ \A k \in 1 .. Len(d.xfers) : f.xfers[k] = d.xfers[k]
  BY <1>2 DEF SodRaised, C
<1>7. f.count = d.count
  <2>1. ASSUME NEW k \in Ring PROVE f.count[k] = d.count[k]
    <3>1. f.count[k] = d.count[k] + Cardinality({j \in C .. C - 1 : j % NBufs = k})
      BY <1>2 DEF SodRaised, C
    <3>2. {j \in C .. C - 1 : j % NBufs = k} = {}
      BY <1>t
    <3>3. d.count[k] \in Nat
      BY <1>t
    <3>4. Cardinality({j \in C .. C - 1 : j % NBufs = k}) = 0
      BY <3>2, FS_EmptySet
    <3>5. f.count[k] = d.count[k] + 0
      BY <3>1, <3>4
    <3> HIDE DEF f
    <3> QED
      BY <3>3, <3>5
  <2>2. f.count \in [Ring -> Nat]
    BY <1>2, IoTypes
  <2> QED
    BY <1>t, <2>1, <2>2
<1>8. Modes(f)
  BY <1>2, <1>6, <1>m DEF Modes, SameHandle
<1>9. Asked(f, st)
  BY <1>2, <1>4, <1>6, <1>m DEF Asked, SameHandle
<1> QED
  BY <1>2, <1>3, <1>5, <1>6, <1>7, <1>8, <1>9 DEF f, C

(* ipcbuf_get_next_write keeps the ring, the bytes and what was asked.     *)
LEMMA NextTaken ==
  ASSUME NEW r \in ReaderRec, NEW d \in IoRec, NEW ad \in AddrSeq,
         NEW st \in Seq(SentRec), NEW z \in Int,
         RingOK(r, d), Data(r, d, ad, st, z), Modes(d), Asked(d, st),
         GetReady(d), d.w_buf_next - d.w_buf_curr < NBufs - 1,
         z <= Address(d.w_buf_next, 0)
  PROVE  LET e == ipcbuf_get_next_write(d) IN
         /\ e \in IoRec /\ RingOK(r, e) /\ Data(r, e, ad, st, z)
         /\ Modes(e) /\ Asked(e, st) /\ Base(e) = Base(d)
         /\ SameHandle(d, e) /\ e.mem = d.mem
         /\ e.state = (IF d.state = "WCHANGE" THEN "WRITING" ELSE d.state)
         /\ e.w_buf_curr = d.w_buf_curr
         /\ e.w_buf_next = d.w_buf_next + 1 /\ e.w_xfer = d.w_xfer
         /\ Len(e.xfers) >= Len(d.xfers)
         /\ \A k \in 1 .. Len(d.xfers) : e.xfers[k] = d.xfers[k]
<1> DEFINE e == ipcbuf_get_next_write(d)
           f == IF d.state = "WCHANGE" THEN ipcbuf_enable_sod(d, d.w_buf_curr, 0) ELSE d
<1>t. /\ d.w_buf_curr \in Nat /\ d.w_buf_next \in Nat /\ Len(d.xfers) \in Nat
  BY IoTypes
<1>1. /\ f \in IoRec /\ RingOK(r, f) /\ Data(r, f, ad, st, z)
      /\ Modes(f) /\ Asked(f, st) /\ Base(f) = Base(d)
      /\ SameHandle(d, f) /\ f.mem = d.mem
      /\ f.state = (IF d.state = "WCHANGE" THEN "WRITING" ELSE d.state)
      /\ f.w_buf_curr = d.w_buf_curr
      /\ f.w_buf_next = d.w_buf_next /\ f.w_xfer = d.w_xfer
      /\ f.count = d.count /\ f.CLEAR = d.CLEAR
      /\ Len(f.xfers) >= Len(d.xfers)
      /\ \A k \in 1 .. Len(d.xfers) : f.xfers[k] = d.xfers[k]
  <2>1. CASE d.state = "WCHANGE"
    <3> DEFINE g == ipcbuf_enable_sod(d, d.w_buf_curr, 0)
    <3>1. /\ g \in IoRec /\ RingOK(r, g) /\ Data(r, g, ad, st, z)
          /\ Modes(g) /\ Asked(g, st) /\ Base(g) = Base(d)
          /\ SameHandle(d, g) /\ g.mem = d.mem
          /\ g.state = "WRITING" /\ g.w_buf_curr = d.w_buf_curr
          /\ g.w_buf_next = d.w_buf_next /\ g.w_xfer = d.w_xfer
          /\ g.count = d.count /\ g.CLEAR = d.CLEAR
          /\ Len(g.xfers) = Len(d.xfers) + 1
          /\ \A k \in 1 .. Len(d.xfers) : g.xfers[k] = d.xfers[k]
      BY <2>1, OpenedXfer
    <3>2. f = g
      BY <2>1
    <3> HIDE DEF g, f
    <3>3. Len(d.xfers) + 1 >= Len(d.xfers)
      BY <1>t
    <3> QED
      BY <2>1, <3>1, <3>2, <3>3
  <2>2. CASE d.state # "WCHANGE"
    <3>1. f = d
      BY <2>2
    <3>2. SameHandle(d, d)
      BY DEF SameHandle
    <3> HIDE DEF f
    <3> QED
      BY <1>t, <2>2, <3>1, <3>2
  <2> QED
    BY <2>1, <2>2
<1>2. f.state # "WCHANGE" /\ ~f.err
  BY <1>1 DEF Modes
<1>3. ipcbuf_get_next_write(d) = ipcbuf_get_next_write(f)
  <2>1. CASE d.state = "WCHANGE"
    BY <1>1, <1>2, <2>1, GetStartsXfer
  <2>2. CASE d.state # "WCHANGE"
    BY <2>2
  <2> QED
    BY <2>1, <2>2
<1>4. GetReady(f)
  BY <1>1 DEF GetReady
<1> HIDE DEF f
<1> DEFINE g == ipcbuf_get_next_write(f)
<1>5. /\ g \in IoRec
      /\ BlockTaken(f, g) /\ SameHandle(f, g) /\ g.mem = f.mem
      /\ g.state = f.state /\ g.w_state = f.w_state
  BY <1>1, <1>2, <1>4, GetEffect
<1> HIDE DEF g
<1>6. RingOK(r, g)
  BY <1>1, <1>4, <1>5, RingGet
<1>7. Data(r, g, ad, st, z) /\ Base(g) = Base(f)
  BY <1>1, <1>5, DataGet
<1>8. /\ g.w_buf_curr = d.w_buf_curr /\ g.w_buf_next = d.w_buf_next + 1
      /\ g.w_xfer = f.w_xfer /\ g.xfers = f.xfers
  BY <1>1, <1>5 DEF BlockTaken
<1>9. Modes(g) /\ Asked(g, st)
  BY <1>1, <1>2, <1>5, <1>7, <1>8 DEF Modes, Asked, SameHandle
<1>10. SameHandle(d, g)
  BY <1>1, <1>5 DEF SameHandle
<1> QED
  BY <1>1, <1>3, <1>5, <1>6, <1>7, <1>8, <1>9, <1>10 DEF g

-----------------------------------------------------------------------------
(***************************************************************************)
(* The steps of the writer.                                                *)
(***************************************************************************)
LEMMA TypesNow ==
  ASSUME Types
  PROVE  /\ io \in IoRec /\ rd \in ReaderRec /\ todo \in Seq(Nat)
         /\ addr \in AddrSeq /\ sent \in Seq(SentRec)
         /\ want \in Nat \cup {None} /\ n \in Nat /\ n = Len(addr)
         /\ last.xfer \in Nat /\ last.pos \in Nat /\ last.vals \in Seq(Nat)
         /\ Len(last.vals) \in Nat
<1>1. /\ io \in IoRec /\ rd \in ReaderRec /\ todo \in Seq(Nat)
      /\ addr \in Seq(Nat \cup {GivenBack}) /\ sent \in Seq(SentRec)
      /\ want \in Nat \cup {None}
      /\ last \in [xfer : Nat, pos : Nat, vals : Seq(Nat)]
  BY DEF Types
<1>2. /\ last.xfer \in Nat /\ last.pos \in Nat /\ last.vals \in Seq(Nat)
      /\ Len(last.vals) \in Nat
  BY <1>1
<1>3. n \in Nat /\ n = Len(addr)
  BY <1>1 DEF n
<1> QED
  BY <1>1, <1>2, <1>3 DEF AddrSeq

(* What was read and promised remains: transfers, their first bytes and    *)
(* the bytes written stay, and an open transfer may end.                   *)
Follows ==
  /\ Len(io.xfers) <= Len(io'.xfers)
  /\ \A k \in 1 .. Len(io.xfers) : StartAddr(io'.xfers[k]) = StartAddr(io.xfers[k])
  /\ \A k \in 1 .. io.w_xfer : io'.xfers[k] = io.xfers[k]
  /\ n <= Len(addr')
  /\ \A k \in 1 .. Len(io.xfers) :
       /\ sent'[k].at = sent[k].at
       /\ \/ sent'[k].to = sent[k].to
          \/ sent[k].to = Open /\ sent'[k].to \in Nat /\ n <= sent'[k].to
  /\ \A v \in 1 .. n, k \in 1 .. Len(io.xfers) :
       addr[v] = sent[k].at => addr'[v] = addr[v]

(* What the writer does leaves what was last read true.                    *)
LEMMA LastReadKept ==
  ASSUME IoInv, Follows, UNCHANGED <<rd, last>>, addr' \in AddrSeq, io' \in IoRec
  PROVE  LastRead'
<1> USE DEF IoInv
<1>t. /\ n \in Nat /\ Len(addr') \in Nat /\ n' = Len(addr')
      /\ last' = last /\ rd' = rd /\ rd \in ReaderRec /\ io \in IoRec
      /\ last.xfer \in Nat /\ last.pos \in Nat /\ Len(last.vals) \in Nat
      /\ Len(io.xfers) \in Nat /\ Len(io'.xfers) \in Nat
  <2>1. n \in Nat /\ rd \in ReaderRec /\ io \in IoRec
        /\ last.xfer \in Nat /\ last.pos \in Nat /\ Len(last.vals) \in Nat
    BY TypesNow
  <2>2. Len(addr') \in Nat
    BY DEF AddrSeq
  <2>3. Len(io.xfers) \in Nat /\ Len(io'.xfers) \in Nat
    BY <2>1, IoTypes
  <2> QED
    BY <2>1, <2>2, <2>3 DEF n
<1>1. ASSUME last.vals # <<>>
      PROVE  /\ last.xfer \in 1 .. Len(io'.xfers)
             /\ \E v \in 1 .. Len(addr') :
                  /\ addr'[v] = sent'[last.xfer].at
                  /\ \A i \in 1 .. Len(last.vals) : last.vals[i] = v + last.pos + i - 1
                  /\ v + last.pos + Len(last.vals) - 1 <=
                       IF sent'[last.xfer].to = Open THEN Len(addr')
                                                     ELSE sent'[last.xfer].to
  <2> DEFINE k == last.xfer
             m == last.pos + Len(last.vals)
  <2>1. PICK v \in 1 .. n :
            /\ addr[v] = sent[k].at
            /\ \A i \in 1 .. Len(last.vals) : last.vals[i] = v + last.pos + i - 1
            /\ v + last.pos + Len(last.vals) - 1 <=
                 IF sent[k].to = Open THEN n ELSE sent[k].to
    BY <1>1 DEF LastRead
  <2>2. k \in 1 .. Len(io.xfers)
    BY <1>1 DEF LastRead
  <2>3. k \in 1 .. Len(io'.xfers) /\ v \in 1 .. Len(addr')
    BY <1>t, <2>2 DEF Follows
  <2>4. addr'[v] = sent'[k].at
    BY <2>1, <2>2 DEF Follows
  <2>5. v + last.pos + Len(last.vals) - 1 <=
          IF sent'[k].to = Open THEN Len(addr') ELSE sent'[k].to
    <3> DEFINE a == v + last.pos + Len(last.vals) - 1
    <3>1. a \in Int
      BY <1>t
    <3>2. a <= IF sent[k].to = Open THEN n ELSE sent[k].to
      BY <2>1
    <3> HIDE DEF a
    <3>0. n <= Len(addr')
      BY DEF Follows
    <3>3. CASE sent'[k].to = sent[k].to
      <4>1. CASE sent[k].to = Open
        <5>1. a <= n
          BY <3>2, <4>1
        <5>2. a <= Len(addr')
          BY <1>t, <3>0, <3>1, <5>1
        <5> QED
          BY <3>3, <4>1, <5>2 DEF a
      <4>2. CASE sent[k].to # Open
        BY <3>2, <3>3, <4>2 DEF a
      <4> QED
        BY <4>1, <4>2
    <3>4. CASE sent[k].to = Open /\ sent'[k].to \in Nat /\ n <= sent'[k].to
      <4>1. sent'[k].to # Open
        BY <3>4 DEF Open
      <4>2. a <= n
        BY <3>2, <3>4
      <4> DEFINE w == sent'[k].to
      <4>3. w \in Nat /\ n <= w
        BY <3>4
      <4> HIDE DEF w
      <4>4. a <= w
        BY <1>t, <3>1, <4>2, <4>3
      <4> QED
        BY <4>1, <4>4 DEF a, w
    <3>5. \/ sent'[k].to = sent[k].to
          \/ sent[k].to = Open /\ sent'[k].to \in Nat /\ n <= sent'[k].to
      BY <2>2 DEF Follows
    <3> QED
      BY <3>3, <3>4, <3>5 DEF a
  <2> QED
    BY <2>1, <2>3, <2>4, <2>5
<1>2. ASSUME rd.state = "RSTOP"
      PROVE  LET x == io'.xfers[rd.r_xfer] IN
             last.pos + Len(last.vals) = EndAddr(x) - StartAddr(x)
  <2>1. rd.r_xfer \in 1 .. io.w_xfer
    <3>1. rd.r_xfer > 0 /\ rd.r_xfer <= io.w_xfer
      BY <1>2 DEF RingOK, Place
    <3>2. rd.r_xfer \in Nat /\ io.w_xfer \in Nat
      BY <1>t, IoTypes, ReaderTypes
    <3> QED
      BY <3>1, <3>2
  <2>2. io'.xfers[rd.r_xfer] = io.xfers[rd.r_xfer]
    BY <2>1 DEF Follows
  <2> QED
    BY <1>2, <2>2 DEF LastRead
<1> QED
  BY <1>t, <1>1, <1>2 DEF LastRead

(* A step of the writer keeps the invariant if it keeps the writer's       *)
(* parts.                                                                  *)
LEMMA WriterKeeps ==
  ASSUME IoInv, WriterOnly, Follows,
         io' \in IoRec, todo' \in Seq(Nat), addr' \in AddrSeq, sent' \in Seq(SentRec),
         RingOK(rd, io'), HandleOK(io'),
         Data(rd, io', addr', sent', NextAddr(io')), Asked(io', sent'), Calls'
  PROVE  IoInv'
<1>1. UNCHANGED <<rd, last, want>>
  BY DEF WriterOnly
<1>2. Types'
  BY <1>1 DEF IoInv, Types, AddrSeq
<1>3. LastRead'
  BY <1>1, LastReadKept
<1> QED
  BY <1>1, <1>2, <1>3 DEF IoInv

(* One more transfer is asked for.                                         *)
LEMMA DataBegin ==
  ASSUME NEW r, NEW d \in IoRec, NEW ad, NEW st \in Seq(SentRec), NEW z, NEW a \in Nat,
         Data(r, d, ad, st, z), Table(d)
  PROVE  LET tt == Append(st, [at |-> a, to |-> Open]) IN
         /\ tt \in Seq(SentRec) /\ Len(tt) = Len(st) + 1
         /\ tt[Len(tt)].at = a
         /\ \A k \in 1 .. Len(st) : tt[k] = st[k]
         /\ Data(r, d, ad, tt, z)
<1> DEFINE x == [at |-> a, to |-> Open]
           tt == Append(st, x)
           L == Len(st)
<1>1. x \in SentRec /\ x.at = a /\ x.to = Open
  BY DEF SentRec
<1> HIDE DEF x
<1>2. /\ tt \in Seq(SentRec) /\ Len(tt) = L + 1 /\ L \in Nat
      /\ tt[L + 1] = x /\ \A k \in 1 .. L : tt[k] = st[k]
  BY <1>1
<1>t. d.w_xfer \in Nat /\ Len(d.xfers) \in Nat /\ Len(d.xfers) <= L /\ d.w_xfer <= Len(d.xfers)
  <2>1. d.w_xfer \in Nat /\ Len(d.xfers) \in Nat
    BY IoTypes
  <2>2. Len(d.xfers) <= L
    BY DEF Data, Promised
  <2>3. Len(d.xfers) \in {d.w_xfer, d.w_xfer + 1}
    BY DEF Table
  <2> QED
    BY <2>1, <2>2, <2>3
<1> HIDE DEF tt, L
<1>3. Promised(d, ad, tt)
  <2>1. Len(d.xfers) <= Len(tt)
    BY <1>2, <1>t
  <2>2. ASSUME NEW k \in 1 .. Len(d.xfers) PROVE tt[k].at = StartAddr(d.xfers[k])
    <3>1. k \in 1 .. L
      BY <1>2, <1>t
    <3> QED
      BY <1>2, <3>1 DEF Data, Promised
  <2>3. ASSUME NEW k \in 1 .. Len(tt)
        PROVE  IF k <= d.w_xfer
               THEN /\ tt[k].to \in 1 .. Len(ad)
                    /\ Run(ad, tt[k].at, EndAddr(d.xfers[k]) - 1, tt[k].to)
               ELSE tt[k].to = Open
    <3>1. CASE k \in 1 .. L
      BY <1>2, <3>1 DEF Data, Promised, L
    <3>2. CASE k \notin 1 .. L
      <4>1. k = L + 1
        BY <1>2, <3>2
      <4>2. ~(k <= d.w_xfer)
        BY <1>2, <1>t, <4>1
      <4> QED
        BY <1>1, <1>2, <4>1, <4>2
    <3> QED
      BY <3>1, <3>2
  <2> QED
    BY <2>1, <2>2, <2>3 DEF Promised
<1>4. Data(r, d, ad, tt, z)
  BY <1>3 DEF Data
<1> QED
  BY <1>1, <1>2, <1>4 DEF tt, x, L

(* Nothing is promised differently when the table stays.                   *)
LEMMA FollowsKept ==
  ASSUME IoInv, io'.xfers = io.xfers, addr' = addr,
         \A k \in 1 .. Len(io.xfers) : sent'[k] = sent[k]
  PROVE  Follows
<1>1. /\ Len(io.xfers) \in Nat /\ io.w_xfer \in Nat /\ n \in Nat /\ n = Len(addr)
  BY TypesNow, IoTypes DEF IoInv
<1> QED
  BY <1>1 DEF Follows

(* The address of the first byte of a block.                               *)
LEMMA AddressZero ==
  ASSUME NEW b \in Int
  PROVE  Address(b, 0) = b * BufSz
<1>1. 0 \in Int
  OBVIOUS
<1> QED
  BY <1>1, AddressType

(* Addresses are natural numbers.                                          *)
LEMMA AddressNat ==
  ASSUME NEW b \in Nat, NEW i \in Nat
  PROVE  Address(b, i) \in Nat
<1>1. BufSz \in Nat
  BY RingPlaces
<1>2. b * BufSz \in Nat
  BY <1>1
<1> DEFINE p == b * BufSz
<1>3. p + i \in Nat
  BY <1>2
<1> QED
  BY <1>3 DEF Address

(* ipcio_open                                                              *)
LEMMA OpenWriteStep ==
  ASSUME IoInv, StreamClients, NEW mode \in {"w", "W"}, OpenWrite(mode)
  PROVE  IoInv'
<1>i. /\ RingOK(rd, io) /\ HandleOK(io) /\ Data(rd, io, addr, sent, NextAddr(io))
      /\ Asked(io, sent) /\ Calls
  BY DEF IoInv
<1>t. /\ io \in IoRec /\ rd \in ReaderRec /\ addr \in AddrSeq /\ sent \in Seq(SentRec)
      /\ todo \in Seq(Nat) /\ io.w_buf_curr \in Nat /\ BufSz \in Nat
      /\ Len(io.xfers) \in Nat
  BY TypesNow, IoTypes, RingPlaces DEF IoInv
<1>1. /\ io.rdwrt = "0" /\ todo = <<>> /\ todo' = <<>> /\ addr' = addr
      /\ WriterOnly /\ io' = ipcio_open(io, mode)
      /\ sent' = IF mode = "W" THEN Begins(io.w_buf_curr * BufSz) ELSE sent
  BY DEF OpenWrite, Idle
<1>2. /\ io.state = "VIEWER" /\ io.w_state = "DISCON" /\ ~io.sod_pending /\ ~io.err
      /\ Len(io.xfers) # io.w_xfer + 1
  BY <1>i, <1>1 DEF HandleOK, Modes
<1>3. io.buf_ptrs = <<>> /\ io.w_buf_next = io.w_buf_curr
  BY <1>i, <1>1 DEF HandleOK, Filling, HoldsOpen
<1> DEFINE s == IF mode = "w" THEN "WRITER" ELSE "WCHANGE"
<1>4. io' = [io EXCEPT !.bytes = 0, !.curbuf = NoBuf, !.state = s, !.rdwrt = mode]
  BY <1>1, <1>2 DEF ipcio_open
<1>s. s \in {"WRITER", "WCHANGE"}
  OBVIOUS
<1>5. io' \in IoRec
  <2>1. 0 \in 0 .. BufSz
    BY <1>t
  <2> HIDE DEF s
  <2> QED
    BY <1>t, <1>4, <1>s, <2>1 DEF IoRec
<1>6. /\ io'.bytes = 0 /\ io'.curbuf = NoBuf /\ io'.state = s /\ io'.rdwrt = mode
      /\ SameRing(io, io') /\ io'.mem = io.mem /\ io'.buf_ptrs = <<>>
      /\ io'.w_state = "DISCON" /\ ~io'.sod_pending /\ ~io'.err
  BY <1>t, <1>2, <1>3, <1>4 DEF IoRec, SameRing
<1>7. RingOK(rd, io') /\ Base(io') = Base(io) /\ Due(rd, io') = Due(rd, io)
  BY <1>t, <1>i, <1>5, <1>6, RingStay
<1>8. /\ io'.xfers = io.xfers /\ io'.w_xfer = io.w_xfer
      /\ io'.w_buf_curr = io.w_buf_curr /\ io'.w_buf_next = io.w_buf_next
  BY <1>6 DEF SameRing
<1>n. NextAddr(io) = Address(io.w_buf_curr, 0) /\ NextAddr(io') = Address(io.w_buf_curr, 0)
      /\ Address(io.w_buf_curr, 0) \in Nat
  <2>1. NextAddr(io) = Address(io.w_buf_curr, 0)
    BY <1>1 DEF NextAddr
  <2>2. NextAddr(io') = Address(io.w_buf_curr, 0)
    BY <1>6, <1>8 DEF NextAddr
  <2>3. Address(io.w_buf_curr, 0) \in Nat
    BY <1>t, AddressNat
  <2> QED
    BY <2>1, <2>2, <2>3
<1>9. HandleOK(io')
  <2>1. Modes(io')
    BY <1>2, <1>3, <1>6, <1>8 DEF Modes
  <2>2. Filling(io')
    BY <1>3, <1>6, <1>8 DEF Filling, FillsOne
  <2> QED
    BY <2>1, <2>2 DEF HandleOK
<1>10. /\ sent' \in Seq(SentRec) /\ Data(rd, io, addr, sent', NextAddr(io))
       /\ Len(sent') = (IF mode = "W" THEN Len(sent) + 1 ELSE Len(sent))
       /\ mode = "W" => sent'[Len(sent')].at = Address(io.w_buf_curr, 0)
       /\ \A k \in 1 .. Len(sent) : sent'[k] = sent[k]
  <2>1. CASE mode = "W"
    <3>1. Table(io)
      BY <1>i DEF RingOK
    <3>2. sent' = Append(sent, [at |-> Address(io.w_buf_curr, 0), to |-> Open])
      <4>1. Address(io.w_buf_curr, 0) = io.w_buf_curr * BufSz
        <5>1. io.w_buf_curr \in Int
          BY <1>t
        <5> QED
          BY <5>1, AddressZero
      <4>2. sent' = Begins(io.w_buf_curr * BufSz)
        BY <1>1, <2>1
      <4> QED
        BY <4>1, <4>2 DEF Begins
    <3> QED
      BY <1>i, <1>n, <1>t, <2>1, <3>1, <3>2, DataBegin
  <2>2. CASE mode = "w"
    BY <1>1, <1>i, <1>t, <2>2
  <2> QED
    BY <2>1, <2>2
<1>11. Data(rd, io', addr', sent', NextAddr(io'))
  <2>1. Due(rd, io) \in Nat /\ NextAddr(io) \in Int
    <3>1. Table(io) /\ Place(rd, io)
      BY <1>i DEF RingOK
    <3> QED
      BY <1>n, <1>t, <3>1, DueNumbers
  <2>2. Due(rd, io') \in Nat /\ Due(rd, io) <= Due(rd, io')
    BY <1>7, <2>1
  <2>3. Data(rd, io', addr, sent', NextAddr(io))
    BY <1>t, <1>5, <1>6, <1>8, <1>10, <2>1, <2>2, DataStay
  <2> QED
    BY <1>1, <1>n, <2>3
<1>12. Asked(io', sent')
  <2>1. Len(sent) = Len(io.xfers)
    BY <1>i, <1>2 DEF Asked
  <2> QED
    BY <1>6, <1>8, <1>10, <2>1 DEF Asked
<1>13. Calls'
  BY <1>1, <1>6, <1>s DEF Calls
<1>14. Follows
  <2>1. \A k \in 1 .. Len(io.xfers) : k \in 1 .. Len(sent)
    <3>1. Len(sent) = Len(io.xfers)
      BY <1>i, <1>2 DEF Asked
    <3> QED
      BY <3>1
  <2> QED
    BY <1>1, <1>8, <1>10, <2>1, FollowsKept
<1> HIDE DEF s
<1> QED
  BY <1>1, <1>5, <1>7, <1>9, <1>10, <1>11, <1>12, <1>13, <1>14, <1>t, WriterKeeps

(* What the invariant says of the state as it is.                          *)
LEMMA NowInv ==
  ASSUME IoInv
  PROVE  /\ RingOK(rd, io) /\ HandleOK(io) /\ Data(rd, io, addr, sent, NextAddr(io))
         /\ Asked(io, sent) /\ Calls /\ Modes(io) /\ Filling(io)
         /\ Table(io) /\ Place(rd, io) /\ Due(rd, io) \in Nat
         /\ Base(io) \in Nat /\ Base(io) <= io.w_buf_curr
         /\ io.w_buf_curr <= io.w_buf_next
         /\ io.w_buf_next - io.w_buf_curr < NBufs
         /\ Len(io.xfers) <= Len(sent)
<1>1. /\ RingOK(rd, io) /\ HandleOK(io) /\ Data(rd, io, addr, sent, NextAddr(io))
      /\ Asked(io, sent) /\ Calls /\ Modes(io) /\ Filling(io)
      /\ Table(io) /\ Place(rd, io)
  BY DEF IoInv, RingOK, HandleOK
<1>2. io \in IoRec /\ rd \in ReaderRec
  BY TypesNow DEF IoInv
<1>3. Due(rd, io) \in Nat /\ Base(io) \in Nat /\ Base(io) <= io.w_buf_curr
  BY <1>1, <1>2, DueNumbers, TableNumbers
<1>4. io.w_buf_curr <= io.w_buf_next /\ io.w_buf_next - io.w_buf_curr < NBufs
  BY <1>1 DEF Table
<1>5. Len(io.xfers) <= Len(sent)
  BY <1>1 DEF Data, Promised
<1> QED
  BY <1>1, <1>3, <1>4, <1>5

(* The types of the state as it is.                                        *)
LEMMA NowTypes ==
  ASSUME IoInv
  PROVE  /\ io \in IoRec /\ rd \in ReaderRec /\ addr \in AddrSeq /\ sent \in Seq(SentRec)
         /\ todo \in Seq(Nat) /\ n \in Nat /\ n = Len(addr)
         /\ io.w_buf_curr \in Nat /\ io.w_buf_next \in Nat /\ io.w_xfer \in Nat
         /\ Len(io.xfers) \in Nat /\ Len(sent) \in Nat
         /\ io.bytes \in 0 .. BufSz /\ io.bytes \in Nat /\ io.bytes <= BufSz
         /\ BufSz \in Nat \ {0} /\ NBufs \in Nat \ {0}
         /\ io.curbuf \in Ring \cup {NoBuf}
<1>1. /\ io \in IoRec /\ rd \in ReaderRec /\ addr \in AddrSeq /\ sent \in Seq(SentRec)
      /\ todo \in Seq(Nat) /\ n \in Nat /\ n = Len(addr)
  BY TypesNow DEF IoInv
<1>2. /\ io.w_buf_curr \in Nat /\ io.w_buf_next \in Nat /\ io.w_xfer \in Nat
      /\ Len(io.xfers) \in Nat /\ io.bytes \in 0 .. BufSz
  BY <1>1, IoTypes
<1>3. io.bytes \in Nat /\ io.bytes <= BufSz /\ BufSz \in Nat \ {0} /\ NBufs \in Nat \ {0}
  BY <1>2, RingPlaces
<1>4. io.curbuf \in Ring \cup {NoBuf}
  BY <1>1 DEF IoRec
<1>5. Len(sent) \in Nat
  BY <1>1
<1> QED
  BY <1>1, <1>2, <1>3, <1>4, <1>5

(* The address of the next byte is a number.                               *)
LEMMA NextAddrType ==
  ASSUME IoInv
  PROVE  NextAddr(io) \in Int
<1>1. /\ io.w_buf_curr \in Int /\ io.w_buf_curr - 1 \in Int /\ io.bytes \in Int
      /\ 0 \in Int
  BY NowTypes
<1> QED
  BY <1>1, AddressType DEF NextAddr

(* ipcbuf_set_soclock_buf                                                  *)
LEMMA RingSoclock ==
  ASSUME NEW r, NEW d \in IoRec, NEW k \in Nat, RingOK(r, d), k <= Base(d)
  PROVE  LET e == [d EXCEPT !.soclock_buf = k] IN
         /\ e \in IoRec /\ RingOK(r, e) /\ Base(e) = Base(d) /\ Due(r, e) = Due(r, d)
         /\ SameHandle(d, e) /\ e.mem = d.mem /\ e.state = d.state
         /\ e.w_state = d.w_state /\ e.xfers = d.xfers /\ e.w_xfer = d.w_xfer
         /\ e.w_buf_curr = d.w_buf_curr /\ e.w_buf_next = d.w_buf_next
<1> DEFINE e == [d EXCEPT !.soclock_buf = k]
<1>1. /\ e \in IoRec /\ e.soclock_buf = k
      /\ SameHandle(d, e) /\ e.mem = d.mem /\ e.state = d.state
      /\ e.w_state = d.w_state /\ e.xfers = d.xfers /\ e.w_xfer = d.w_xfer
      /\ e.w_buf_curr = d.w_buf_curr /\ e.w_buf_next = d.w_buf_next
      /\ e.count = d.count /\ e.FULL = d.FULL /\ e.CLEAR = d.CLEAR
  BY DEF IoRec, SameHandle
<1> HIDE DEF e
<1>2. /\ Base(e) = Base(d) /\ Due(r, e) = Due(r, d)
      /\ \A j, c : InTransfer(e, j, c) <=> InTransfer(d, j, c)
  BY <1>1 DEF InTransfer, Due, Base
<1>3. UsedBlocks(e) = UsedBlocks(d)
  BY <1>1, <1>2 DEF UsedBlocks
<1>4. Table(e)
  BY <1>1, <1>2 DEF RingOK, Table
<1>5. Place(r, e)
  BY <1>1, <1>2 DEF RingOK, Place
<1>6. \A from : TakenBack(r, e, from) <=> TakenBack(r, d, from)
  BY <1>1, <1>2, <1>3 DEF TakenBack
<1>7. Tokens(r, e)
  BY <1>1, <1>2, <1>3, <1>6 DEF RingOK, Tokens
<1> QED
  BY <1>1, <1>2, <1>4, <1>5, <1>7 DEF RingOK, e

(* ipcbuf_set_soclock_buf                                                  *)
LEMMA SetSoclockStep ==
  ASSUME IoInv, StreamClients, SetSoclock
  PROVE  IoInv'
<1>1. /\ io.rdwrt = "w" /\ todo = <<>> /\ UNCHANGED <<todo, addr, sent>>
      /\ WriterOnly /\ io' = ipcbuf_set_soclock_buf(io)
  BY DEF SetSoclock, Idle
<1>2. /\ RingOK(rd, io) /\ HandleOK(io) /\ Data(rd, io, addr, sent, NextAddr(io))
      /\ Asked(io, sent) /\ Calls /\ Modes(io) /\ Filling(io) /\ Due(rd, io) \in Nat
      /\ Base(io) \in Nat
  BY NowInv
<1>3. /\ io \in IoRec /\ rd \in ReaderRec /\ addr \in AddrSeq /\ sent \in Seq(SentRec)
      /\ todo \in Seq(Nat)
  BY NowTypes
<1>4. io' = [io EXCEPT !.soclock_buf = Base(io)]
  <2>1. io.w_xfer \in Nat
    BY NowTypes
  <2>2. (IF io.w_xfer > 0 THEN io.xfers[io.w_xfer].e_buf + 1 ELSE 0) = Base(io)
    BY <2>1 DEF Base
  <2> QED
    BY <1>1, <2>2 DEF ipcbuf_set_soclock_buf
<1>5. /\ io' \in IoRec /\ RingOK(rd, io') /\ Base(io') = Base(io)
      /\ Due(rd, io') = Due(rd, io)
      /\ SameHandle(io, io') /\ io'.mem = io.mem /\ io'.state = io.state
      /\ io'.w_state = io.w_state /\ io'.xfers = io.xfers /\ io'.w_xfer = io.w_xfer
      /\ io'.w_buf_curr = io.w_buf_curr /\ io'.w_buf_next = io.w_buf_next
  <2>1. Base(io) <= Base(io)
    BY <1>2
  <2> QED
    BY <1>2, <1>3, <1>4, <2>1, RingSoclock
<1>6. HandleOK(io') /\ NextAddr(io') = NextAddr(io) /\ Asked(io', sent')
  <2>1. Modes(io')
    BY <1>2, <1>5 DEF Modes, SameHandle
  <2>2. Filling(io')
    BY <1>2, <1>5 DEF Filling, FillsOne, HoldsOpen, SameHandle
  <2>3. NextAddr(io') = NextAddr(io)
    BY <1>5 DEF NextAddr, SameHandle
  <2>4. Asked(io', sent')
    BY <1>1, <1>2, <1>5 DEF Asked, SameHandle
  <2> QED
    BY <2>1, <2>2, <2>3, <2>4 DEF HandleOK
<1>7. NextAddr(io) \in Int
  BY NextAddrType
<1>8. Data(rd, io', addr', sent', NextAddr(io'))
  <2>1. Due(rd, io) <= Due(rd, io') /\ Due(rd, io') \in Nat
    BY <1>2, <1>5
  <2>2. Data(rd, io', addr, sent, NextAddr(io))
    BY <1>2, <1>3, <1>5, <1>7, <2>1, DataStay
  <2> QED
    BY <1>1, <1>6, <2>2
<1>9. Calls'
  BY <1>1, <1>2, <1>5, <1>6 DEF Calls, SameHandle
<1>10. Follows
  BY <1>1, <1>5, FollowsKept
<1> QED
  BY <1>1, <1>3, <1>5, <1>6, <1>8, <1>9, <1>10, WriterKeeps

(* The block and byte in which the transfer that is asked for starts.      *)
LEMMA StartPlace ==
  ASSUME IoInv, StreamClients, NEW byte \in Nat, Start(byte)
  PROVE  LET b == byte \div BufSz
             y == byte % BufSz
         IN /\ b \in Nat /\ y \in 0 .. BufSz - 1 /\ byte = Address(b, y)
            /\ b >= Base(io) /\ b > 0 /\ b > io.w_buf_next - NBufs
<1> DEFINE b == byte \div BufSz
           y == byte % BufSz
<1>t. /\ io \in IoRec /\ io.w_buf_next \in Int /\ BufSz \in Nat \ {0} /\ NBufs \in Nat \ {0}
      /\ Base(io) \in Nat /\ io.soclock_buf \in Nat /\ io.w_xfer \in Nat
  BY NowTypes, NowInv, IoTypes
<1>1. b \in Int /\ byte = BufSz * b + y /\ y \in 0 .. BufSz - 1
  BY <1>t, ModQuotient, ModRange
<1>n. b \in Nat
  BY <1>t
<1> HIDE DEF b, y
<1>2. byte = Address(b, y)
  <2>1. BufSz * b = b * BufSz
    BY <1>1, <1>t
  <2> QED
    BY <1>1, <2>1 DEF Address
<1>3. ASSUME NEW c \in Int, byte >= c * BufSz
      PROVE  b >= c
  <2>1. Address(c, 0) = c * BufSz
    BY AddressZero
  <2>2. Address(c, 0) \in Int /\ Address(b, y) \in Int
    <3>1. y \in Int
      BY <1>1
    <3> QED
      BY <1>1, <3>1, AddressType
  <2>3. ~(Address(b, y) < Address(c, 0))
    BY <1>2, <1>3, <2>1, <2>2
  <2> QED
    BY <1>1, <2>3, InBlock
<1>4. ~Slip("origin") /\ ~Slip("same_block")
  BY DEF StreamClients, Slip
<1>5. b > 0
  <2>1. byte >= 1 * BufSz
    BY <1>4, <1>t DEF Start
  <2> QED
    BY <1>1, <1>3, <2>1
<1>6. b >= Base(io)
  <2>1. CASE io.w_xfer = 0
    BY <1>n, <2>1 DEF Base
  <2>2. CASE io.w_xfer # 0
    <3>1. Base(io) = io.xfers[io.w_xfer].e_buf + 1
      BY <2>2 DEF Base
    <3>2. io.w_xfer > 0
      BY <1>t, <2>2
    <3>3. byte >= Base(io) * BufSz
      BY <1>4, <3>1, <3>2 DEF Start
    <3>4. Base(io) \in Int
      BY <1>t
    <3> QED
      BY <1>3, <3>3, <3>4
  <2> QED
    BY <2>1, <2>2
<1>7. b > io.w_buf_next - NBufs
  <2> DEFINE m == ipcbuf_get_sod_minbuf(io)
  <2>0. Table(io)
    BY NowInv DEF RingOK
  <2>1. m \in Int /\ m > io.w_buf_next - NBufs
    <3>1. CASE io.w_buf_next - io.soclock_buf < NBufs
      <4>1. m = io.soclock_buf
        BY <1>t, <2>0, <3>1, SodMinbufIs
      <4> HIDE DEF m
      <4> QED
        BY <1>t, <3>1, <4>1
    <3>2. CASE ~(io.w_buf_next - io.soclock_buf < NBufs)
      <4>1. m = io.w_buf_next - NBufs + 1
        BY <1>t, <2>0, <3>2, SodMinbufIs
      <4> HIDE DEF m
      <4> QED
        BY <1>t, <4>1
    <3> QED
      BY <3>1, <3>2
  <2>2. byte >= m * BufSz
    BY DEF Start, ipcio_get_start_minimum
  <2> HIDE DEF m
  <2>3. b >= m
    BY <1>3, <2>1, <2>2
  <2> QED
    BY <1>1, <1>t, <2>1, <2>3
<1> QED
  BY <1>1, <1>n, <1>2, <1>5, <1>6, <1>7 DEF b, y

(* The last entry of the table and its start.                              *)
LEMMA LastEntry ==
  ASSUME NEW d \in IoRec, d.xfers # <<>>
  PROVE  Last(d.xfers) = d.xfers[Len(d.xfers)] /\ Len(d.xfers) \in 1 .. Len(d.xfers)
<1>1. d.xfers \in Seq(XferRec) /\ Len(d.xfers) \in Nat
  BY IoTypes
<1>2. Len(d.xfers) # 0
  BY <1>1
<1> QED
  BY <1>1, <1>2 DEF Last

(* While a transfer is open the byte written next comes after its start.   *)
StartsBefore(d) ==
  d.state = "WRITING" => StartAddr(Last(d.xfers)) < NextAddr(d)

(* ipcio_start                                                             *)
LEMMA StartStep ==
  ASSUME IoInv, StreamClients, NEW byte \in Nat, Start(byte)
  PROVE  IoInv'
<1> DEFINE b == byte \div BufSz
           y == byte % BufSz
           d == [io EXCEPT !.sod_buf = b, !.sod_byte = y, !.sod_pending = TRUE,
                           !.rdwrt = "W"]
<1>b. /\ b \in Nat /\ y \in 0 .. BufSz - 1 /\ byte = Address(b, y)
      /\ b >= Base(io) /\ b > 0 /\ b > io.w_buf_next - NBufs
  BY StartPlace
<1>1. /\ io.rdwrt = "w" /\ todo = <<>> /\ todo' = todo /\ addr' = addr /\ WriterOnly
      /\ io' = ipcio_start(io, byte) /\ sent' = Begins(byte)
  BY DEF Start, Idle
<1>2. /\ RingOK(rd, io) /\ Data(rd, io, addr, sent, NextAddr(io))
      /\ Asked(io, sent) /\ Calls /\ Modes(io) /\ Filling(io) /\ Due(rd, io) \in Nat
      /\ Base(io) \in Nat /\ Table(io)
  BY NowInv
<1>3. /\ io \in IoRec /\ rd \in ReaderRec /\ addr \in AddrSeq /\ sent \in Seq(SentRec)
      /\ todo \in Seq(Nat) /\ BufSz \in Nat \ {0} /\ io.w_buf_curr \in Nat
      /\ io.bytes \in Nat /\ io.w_xfer \in Nat
  BY NowTypes
<1>z. NextAddr(io) \in Int
  BY NextAddrType
<1>4. /\ io.state = "WRITER" /\ ~io.sod_pending /\ ~io.err /\ io.w_state = "DISCON"
      /\ Len(io.xfers) = io.w_xfer /\ Len(sent) = Len(io.xfers)
  <2>1. /\ io.state = "WRITER" /\ ~io.sod_pending /\ ~io.err /\ io.w_state = "DISCON"
    BY <1>1, <1>2 DEF Modes
  <2>2. Len(io.xfers) = io.w_xfer
    BY <1>2, <1>3, <2>1, StateOfTable
  <2> QED
    BY <1>2, <2>1, <2>2 DEF Asked
<1>5. io' = ipcio_check_pending_sod(d)
  BY <1>1 DEF ipcio_start
<1> HIDE DEF b, y
<1>6. /\ d \in IoRec /\ SameRing(io, d) /\ d.mem = io.mem
      /\ d.sod_buf = b /\ d.sod_byte = y /\ d.sod_pending /\ d.rdwrt = "W"
      /\ d.state = "WRITER" /\ d.w_state = "DISCON" /\ ~d.err
      /\ d.bytes = io.bytes /\ d.curbuf = io.curbuf
      /\ d.marked_filled = io.marked_filled /\ d.buf_ptrs = io.buf_ptrs
  <2>1. b \in Nat /\ y \in Nat
    BY <1>3, <1>b
  <2>2. d \in IoRec
    BY <1>3, <2>1 DEF IoRec
  <2>3. SameRing(io, d)
    BY <1>3 DEF IoRec, SameRing
  <2> QED
    BY <1>3, <1>4, <2>2, <2>3 DEF IoRec
<1>7. /\ d.xfers = io.xfers /\ d.w_xfer = io.w_xfer
      /\ d.w_buf_curr = io.w_buf_curr /\ d.w_buf_next = io.w_buf_next
  BY <1>6 DEF SameRing
<1> HIDE DEF d
<1>8. RingOK(rd, d) /\ Base(d) = Base(io) /\ Due(rd, d) = Due(rd, io)
  BY <1>2, <1>3, <1>6, RingStay
<1>9. Data(rd, d, addr, sent, NextAddr(io))
  <2>1. Due(rd, d) \in Nat /\ Due(rd, io) <= Due(rd, d)
    BY <1>2, <1>8
  <2> QED
    BY <1>2, <1>3, <1>6, <1>7, <1>z, <2>1, DataStay
<1>10. /\ sent' \in Seq(SentRec) /\ Len(sent') = Len(sent) + 1
       /\ sent'[Len(sent')].at = byte
       /\ \A k \in 1 .. Len(sent) : sent'[k] = sent[k]
       /\ Data(rd, d, addr, sent', NextAddr(io))
  <2>1. sent' = Append(sent, [at |-> byte, to |-> Open]) /\ Table(d)
    BY <1>1, <1>8 DEF Begins, RingOK
  <2> QED
    BY <1>3, <1>6, <1>9, <2>1, DataBegin
<1>11. AskedAt(d, sent')
  <2>1. /\ Len(d.xfers) = d.w_xfer /\ d.sod_byte < BufSz /\ Len(d.xfers) < Len(sent')
        /\ Len(sent') = Len(d.xfers) + 1
    <3>1. Len(sent) \in Nat
      BY NowTypes
    <3>2. y < BufSz
      BY <1>3, <1>b
    <3> QED
      BY <1>4, <1>6, <1>7, <1>10, <3>1, <3>2
  <2>2. sent'[Len(d.xfers) + 1].at = Address(d.sod_buf, d.sod_byte)
    BY <1>6, <1>10, <1>b, <2>1
  <2> QED
    BY <1>6, <1>7, <1>8, <1>b, <2>1, <2>2 DEF AskedAt
<1>12. /\ io' \in IoRec /\ RingOK(rd, io') /\ Data(rd, io', addr, sent', NextAddr(io))
       /\ Base(io') = Base(d) /\ SameFrame(d, io')
       /\ IF d.sod_pending /\ d.w_buf_curr > d.sod_buf THEN RaisedAt(d, io') ELSE io' = d
  BY <1>3, <1>5, <1>6, <1>8, <1>10, <1>11, <1>z, PendingEffect
<1>13. /\ io'.rdwrt = "W" /\ io'.bytes = io.bytes /\ io'.curbuf = io.curbuf
       /\ io'.marked_filled = io.marked_filled /\ io'.buf_ptrs = io.buf_ptrs
       /\ io'.sod_buf = b /\ io'.sod_byte = y /\ ~io'.err
       /\ io'.w_buf_curr = io.w_buf_curr /\ io'.w_buf_next = io.w_buf_next
       /\ io'.w_xfer = io.w_xfer /\ Base(io') = Base(io)
  BY <1>6, <1>7, <1>8, <1>12 DEF SameFrame
<1>14. NextAddr(io') = NextAddr(io)
  BY <1>1, <1>13 DEF NextAddr
<1>15. CASE io.w_buf_curr > b
  <2>1. RaisedAt(d, io')
    BY <1>6, <1>7, <1>12, <1>15
  <2>2. /\ io'.state = "WRITING" /\ io'.w_state = "WRITING" /\ ~io'.sod_pending
        /\ Len(io'.xfers) = Len(io.xfers) + 1
        /\ \A k \in 1 .. Len(io.xfers) : io'.xfers[k] = io.xfers[k]
    BY <1>7, <2>1 DEF RaisedAt
  <2>3. Modes(io')
    BY <1>4, <1>13, <2>2 DEF Modes
  <2>4. Filling(io') /\ io.buf_ptrs = <<>> /\ ~(io.marked_filled /\ io.bytes > 0)
    <3>1. io.buf_ptrs = <<>> /\ FillsOne(io)
      BY <1>1, <1>2 DEF Filling, HoldsOpen
    <3>2. ~(io.marked_filled /\ io.bytes > 0)
      <4>1. Base(io) # io.w_buf_curr
        BY <1>15, <1>2, <1>3, <1>b
      <4> QED
        BY <3>1, <4>1 DEF FillsOne
    <3> QED
      BY <1>13, <3>1, <3>2 DEF Filling, FillsOne
  <2>5. Asked(io', sent')
    BY <1>4, <1>10, <2>2 DEF Asked
  <2>6. StartsBefore(io')
    <3>1. Len(io'.xfers) \in Nat /\ io'.xfers # <<>> /\ Len(io'.xfers) = Len(sent')
      <4>1. Len(io.xfers) \in Nat
        BY <1>3, IoTypes
      <4> QED
        BY <1>4, <1>10, <2>2, <4>1
    <3>2. Last(io'.xfers) = io'.xfers[Len(io'.xfers)] /\ Len(io'.xfers) \in 1 .. Len(io'.xfers)
      BY <1>12, <3>1, LastEntry
    <3>3. StartAddr(Last(io'.xfers)) = Address(b, y)
      <4>1. sent'[Len(io'.xfers)].at = StartAddr(io'.xfers[Len(io'.xfers)])
        BY <1>12, <3>2 DEF Data, Promised
      <4> QED
        BY <1>10, <1>b, <3>1, <3>2, <4>1
    <3>4. Address(b, y) < Address(io.w_buf_curr, 0)
      BY <1>15, <1>3, <1>b, InBlock
    <3>5. NextAddr(io') = Address(io.w_buf_curr, io.bytes)
      BY <1>13, <2>4 DEF NextAddr
    <3>6. /\ Address(io.w_buf_curr, io.bytes) = Address(io.w_buf_curr, 0) + io.bytes
          /\ Address(io.w_buf_curr, 0) \in Int /\ Address(b, y) \in Int
      <4>1. y \in Int /\ b \in Int /\ io.w_buf_curr \in Int /\ io.bytes \in Int
        BY <1>3, <1>b
      <4> QED
        BY <4>1, AddressType
    <3>7. Address(b, y) < NextAddr(io')
      BY <1>3, <3>4, <3>5, <3>6
    <3> QED
      BY <3>3, <3>7 DEF StartsBefore
  <2>7. Calls'
    BY <1>1, <1>2, <1>13, <2>4, <2>6 DEF Calls, StartsBefore
  <2>8. Follows
    <3>1. /\ Len(io.xfers) \in Nat /\ n \in Nat /\ n = Len(addr)
      BY <1>3, IoTypes, NowTypes
    <3>2. \A k \in 1 .. io.w_xfer : k \in 1 .. Len(io.xfers)
      BY <1>4
    <3> QED
      BY <1>1, <1>4, <1>10, <2>2, <3>1, <3>2 DEF Follows
  <2> QED
    BY <1>1, <1>3, <1>10, <1>12, <1>14, <2>3, <2>4, <2>5, <2>7, <2>8, WriterKeeps
       DEF HandleOK
<1>16. CASE ~(io.w_buf_curr > b)
  <2>1. io' = d
    BY <1>6, <1>7, <1>12, <1>16
  <2>2. /\ io'.state = "WRITER" /\ io'.w_state = "DISCON" /\ io'.sod_pending
        /\ io'.xfers = io.xfers
    BY <1>6, <1>7, <2>1
  <2>3. Modes(io')
    <3>1. b >= io'.w_buf_curr /\ y < BufSz /\ b >= Base(io')
      BY <1>3, <1>13, <1>16, <1>b
    <3>2. Len(io'.xfers) # io'.w_xfer + 1
      BY <1>3, <1>4, <1>13, <2>2
    <3> QED
      BY <1>13, <1>b, <2>2, <3>1, <3>2 DEF Modes
  <2>4. Filling(io') /\ io.buf_ptrs = <<>>
    <3>1. io.buf_ptrs = <<>> /\ FillsOne(io)
      BY <1>1, <1>2 DEF Filling, HoldsOpen
    <3> QED
      BY <1>13, <2>2, <3>1 DEF Filling, FillsOne
  <2>5. Asked(io', sent')
    BY <1>4, <1>10, <1>13, <1>b, <2>2 DEF Asked
  <2>6. Calls'
    BY <1>1, <1>2, <1>13, <2>2, <2>4 DEF Calls
  <2>7. Follows
    <3>1. \A k \in 1 .. Len(io.xfers) : sent'[k] = sent[k]
      BY <1>4, <1>10
    <3> QED
      BY <1>1, <2>2, <3>1, FollowsKept
  <2> QED
    BY <1>1, <1>3, <1>10, <1>12, <1>14, <2>3, <2>4, <2>5, <2>6, <2>7, WriterKeeps
       DEF HandleOK
<1> QED
  BY <1>15, <1>16, <1>3, <1>b

(* A change of the handle alone.                                           *)
LEMMA RingDataStay ==
  ASSUME NEW r \in ReaderRec, NEW d \in IoRec, NEW e \in IoRec, NEW ad \in AddrSeq,
         NEW st, NEW z \in Int,
         RingOK(r, d), Data(r, d, ad, st, z), SameRing(d, e), e.mem = d.mem
  PROVE  /\ RingOK(r, e) /\ Data(r, e, ad, st, z)
         /\ Base(e) = Base(d) /\ Due(r, e) = Due(r, d)
<1>1. RingOK(r, e) /\ Base(e) = Base(d) /\ Due(r, e) = Due(r, d)
  BY RingStay
<1>2. Due(r, d) \in Nat
  BY DueNumbers DEF RingOK
<1>3. Due(r, e) \in Nat /\ Due(r, d) <= Due(r, e)
  BY <1>1, <1>2
<1>4. e.xfers = d.xfers /\ e.w_xfer = d.w_xfer /\ e.w_buf_next = d.w_buf_next
  BY DEF SameRing
<1> QED
  BY <1>1, <1>2, <1>3, <1>4, DataStay

(* The part of the handle that says where the next byte goes.              *)
WritesAt(d, e) ==
  /\ SameRing(d, e) /\ e.mem = d.mem
  /\ e.rdwrt = d.rdwrt /\ e.buf_ptrs = d.buf_ptrs
  /\ e.sod_pending = d.sod_pending /\ e.sod_buf = d.sod_buf
  /\ e.sod_byte = d.sod_byte /\ e.err = d.err
  /\ e.state = d.state /\ e.w_state = d.w_state

(* The full block was marked filled; the block h was obtained.             *)
MarkedOn(d) == [d EXCEPT !.curbuf = NoBuf, !.bytes = 0, !.marked_filled = TRUE]

TakenOn(d, h) == [d EXCEPT !.curbuf = h, !.marked_filled = FALSE, !.bytes = 0]

(* The handle once its full block was marked filled.                       *)
LEMMA MarkedOnIs ==
  ASSUME NEW d \in IoRec
  PROVE  LET e == MarkedOn(d) IN
         /\ e \in IoRec /\ WritesAt(d, e)
         /\ e.curbuf = NoBuf /\ e.bytes = 0 /\ e.marked_filled
<1> DEFINE e == MarkedOn(d)
<1>0. 0 \in 0 .. BufSz
  BY RingPlaces
<1>1. e \in IoRec
  BY <1>0 DEF IoRec, MarkedOn
<1>2. WritesAt(d, e)
  BY DEF IoRec, WritesAt, SameRing, MarkedOn
<1>3. e.curbuf = NoBuf /\ e.bytes = 0 /\ e.marked_filled
  BY DEF IoRec, MarkedOn
<1> QED
  BY <1>1, <1>2, <1>3

(* The handle once it holds a new block.                                   *)
LEMMA TakenOnIs ==
  ASSUME NEW d \in IoRec, NEW h \in Ring
  PROVE  LET e == TakenOn(d, h) IN
         /\ e \in IoRec /\ WritesAt(d, e)
         /\ e.curbuf = h /\ e.bytes = 0 /\ ~e.marked_filled
<1> DEFINE e == TakenOn(d, h)
<1>0. 0 \in 0 .. BufSz
  BY RingPlaces
<1>1. e \in IoRec
  BY <1>0 DEF IoRec, TakenOn
<1>2. WritesAt(d, e)
  BY DEF IoRec, WritesAt, SameRing, TakenOn
<1>3. e.curbuf = h /\ e.bytes = 0 /\ ~e.marked_filled
  BY DEF IoRec, TakenOn
<1> QED
  BY <1>1, <1>2, <1>3

(* What was asked stays when only the place in the block changes.          *)
LEMMA AskedStays ==
  ASSUME NEW d, NEW e, NEW st, WritesAt(d, e), Asked(d, st), Modes(d),
         d.state # "WCHANGE"
  PROVE  Modes(e) /\ Asked(e, st)
<1>1. /\ e.rdwrt = d.rdwrt /\ e.state = d.state /\ e.w_state = d.w_state
      /\ e.sod_pending = d.sod_pending /\ e.sod_buf = d.sod_buf
      /\ e.sod_byte = d.sod_byte /\ e.err = d.err
      /\ e.w_buf_curr = d.w_buf_curr /\ e.w_buf_next = d.w_buf_next
      /\ e.xfers = d.xfers /\ e.w_xfer = d.w_xfer
  BY DEF WritesAt, SameRing
<1>2. Base(e) = Base(d)
  BY <1>1 DEF Base
<1> QED
  BY <1>1, <1>2 DEF Modes, Asked

(* ipcio_write is called.                                                  *)
LEMMA WriteStep ==
  ASSUME IoInv, StreamClients, NEW m \in WriteSizes, Write(m)
  PROVE  IoInv'
<1>1. /\ todo' = [i \in 1 .. m |-> n + i] /\ UNCHANGED <<io, addr, sent>> /\ WriterOnly
      /\ io.rdwrt \in {"w", "W"} /\ io.buf_ptrs = <<>>
  BY DEF Write
<1>2. m \in Nat \ {0} /\ n \in Nat
  BY StreamSizes, NowTypes
<1>3. todo' \in Seq(Nat) /\ Len(todo') = m /\ todo' # <<>>
  BY <1>1, <1>2
<1>4. n' = n
  BY <1>1 DEF n
<1>5. Calls'
  BY <1>1, <1>3, <1>4 DEF Calls
<1>6. Follows
  BY <1>1, FollowsKept
<1>7. /\ io \in IoRec /\ addr \in AddrSeq /\ sent \in Seq(SentRec)
      /\ RingOK(rd, io) /\ HandleOK(io) /\ Data(rd, io, addr, sent, NextAddr(io))
      /\ Asked(io, sent)
  BY NowTypes, NowInv
<1> QED
  BY <1>1, <1>3, <1>5, <1>6, <1>7, WriterKeeps

(* The block being filled, while ipcio_write is at work.                   *)
LEMMA Writing ==
  ASSUME IoInv, todo # <<>>
  PROVE  /\ io.rdwrt \in {"w", "W"} /\ io.buf_ptrs = <<>> /\ FillsOne(io) /\ ~io.err
         /\ io.state \in {"WRITER", "WCHANGE", "WRITING"}
         /\ Len(todo) \in Nat \ {0} /\ todo = [i \in 1 .. Len(todo) |-> n + i]
<1>1. /\ io.rdwrt # "0" /\ io.buf_ptrs = <<>>
      /\ todo = [i \in 1 .. Len(todo) |-> n + i]
  BY NowInv DEF Calls
<1>2. io.rdwrt \in {"w", "W"}
  BY <1>1, NowTypes DEF IoRec
<1>3. FillsOne(io)
  BY <1>1, NowInv DEF Filling
<1>4. ~io.err /\ io.state \in {"WRITER", "WCHANGE", "WRITING"}
  BY <1>2, NowInv DEF Modes
<1>5. Len(todo) \in Nat \ {0}
  BY NowTypes
<1> QED
  BY <1>1, <1>2, <1>3, <1>4, <1>5

(* Transfers and bytes may be added to those there are.                    *)
LEMMA FollowsGrown ==
  ASSUME IoInv, Len(io.xfers) <= Len(io'.xfers),
         \A k \in 1 .. Len(io.xfers) : io'.xfers[k] = io.xfers[k],
         n <= Len(addr'), \A v \in 1 .. n : addr'[v] = addr[v],
         \A k \in 1 .. Len(io.xfers) : sent'[k] = sent[k]
  PROVE  Follows
<1>1. /\ Len(io.xfers) \in Nat /\ io.w_xfer \in Nat /\ n \in Nat /\ n = Len(addr)
      /\ Table(io)
  BY NowTypes, NowInv
<1>2. \A k \in 1 .. io.w_xfer : k \in 1 .. Len(io.xfers)
  BY <1>1, NowTypes, TableNumbers
<1> QED
  BY <1>1, <1>2 DEF Follows

(* ipcio_write marks a full block filled.                                  *)
LEMMA DoWriteFullStep ==
  ASSUME IoInv, StreamClients, DoWriteFull
  PROVE  IoInv'
<1>1. /\ todo # <<>> /\ io.bytes = BufSz /\ io' = WriteFull(io)
      /\ todo' = todo /\ addr' = addr /\ sent' = sent /\ WriterOnly
  BY DEF DoWriteFull
<1>2. /\ RingOK(rd, io) /\ Data(rd, io, addr, sent, NextAddr(io))
      /\ Asked(io, sent) /\ Calls /\ Modes(io)
  BY NowInv
<1>3. /\ io \in IoRec /\ rd \in ReaderRec /\ addr \in AddrSeq /\ sent \in Seq(SentRec)
      /\ todo \in Seq(Nat) /\ BufSz \in Nat \ {0} /\ io.w_buf_curr \in Nat
      /\ io.w_buf_next \in Nat /\ NBufs \in Nat \ {0} /\ Len(io.xfers) \in Nat
  BY NowTypes
<1>4. /\ io.rdwrt \in {"w", "W"} /\ io.buf_ptrs = <<>> /\ FillsOne(io) /\ ~io.err
      /\ io.state \in {"WRITER", "WCHANGE", "WRITING"}
  BY <1>1, Writing
<1>5. io.state \in {"WRITER", "WRITING"}
  BY <1>1, <1>2, <1>3, <1>4 DEF Modes
<1>z. NextAddr(io) \in Int
  BY NextAddrType
<1> DEFINE g == IF io.marked_filled THEN io
                ELSE ipcio_check_pending_sod(ipcbuf_mark_filled(io, BufSz))
<1>6. /\ g \in IoRec /\ RingOK(rd, g) /\ Data(rd, g, addr, sent, NextAddr(io))
      /\ Modes(g) /\ Asked(g, sent) /\ Base(g) = Base(io)
      /\ g.rdwrt = io.rdwrt /\ g.buf_ptrs = <<>>
      /\ NextAddr(io) = Address(g.w_buf_curr, 0)
      /\ g.w_buf_next = g.w_buf_curr /\ g.state \in {"WRITER", "WRITING"}
      /\ Len(io.xfers) <= Len(g.xfers)
      /\ \A k \in 1 .. Len(io.xfers) : g.xfers[k] = io.xfers[k]
  <2>1. CASE io.marked_filled
    <3>1. g = io
      BY <2>1
    <3>2. NextAddr(io) = Address(io.w_buf_curr - 1, BufSz)
      BY <1>1, <1>3, <1>4, <2>1 DEF NextAddr
    <3>3. Address(io.w_buf_curr - 1, BufSz) = Address(io.w_buf_curr, 0)
      <4>1. io.w_buf_curr - 1 \in Int /\ BufSz \in Int
        BY <1>3
      <4>2. (io.w_buf_curr - 1) + 1 = io.w_buf_curr
        BY <1>3
      <4> QED
        BY <4>1, <4>2, AddressNext, AddressType
    <3>4. io.w_buf_next = io.w_buf_curr
      BY <1>4, <2>1 DEF FillsOne
    <3>5. Len(io.xfers) <= Len(io.xfers)
      BY <1>3
    <3> HIDE DEF g
    <3> QED
      BY <1>2, <1>3, <1>4, <1>5, <3>1, <3>2, <3>3, <3>4, <3>5
  <2>2. CASE ~io.marked_filled
    <3>1. g = ipcio_check_pending_sod(ipcbuf_mark_filled(io, BufSz))
      BY <2>2
    <3>2. io.curbuf # NoBuf
      BY <1>1, <1>3, <1>4, <2>2 DEF FillsOne
    <3>3. io.w_buf_next = io.w_buf_curr + 1
      BY <1>4, <2>2, <3>2 DEF FillsOne
    <3>4. io.w_buf_curr < io.w_buf_next
      BY <1>3, <3>3
    <3> HIDE DEF g
    <3>5. /\ g \in IoRec /\ RingOK(rd, g) /\ Data(rd, g, addr, sent, NextAddr(io))
          /\ Modes(g) /\ Asked(g, sent) /\ Base(g) = Base(io)
          /\ g.rdwrt = io.rdwrt /\ g.buf_ptrs = io.buf_ptrs
          /\ g.w_buf_curr = io.w_buf_curr + 1 /\ g.w_buf_next = io.w_buf_next
          /\ g.state \in {"WRITER", "WRITING"}
          /\ Len(g.xfers) >= Len(io.xfers)
          /\ \A k \in 1 .. Len(io.xfers) : g.xfers[k] = io.xfers[k]
      BY <1>2, <1>3, <1>5, <1>z, <3>1, <3>4, FullBlock
    <3>6. NextAddr(io) = Address(g.w_buf_curr, 0)
      <4>1. NextAddr(io) = Address(io.w_buf_curr, BufSz)
        BY <1>1, <1>4, <2>2 DEF NextAddr
      <4>2. Address(io.w_buf_curr, BufSz) = Address(io.w_buf_curr + 1, 0)
        <5>1. io.w_buf_curr \in Int /\ BufSz \in Int
          BY <1>3
        <5> QED
          BY <5>1, AddressNext, AddressType
      <4> QED
        BY <3>5, <4>1, <4>2
    <3>7. Len(io.xfers) <= Len(g.xfers)
      <4>1. Len(g.xfers) \in Nat
        BY <3>5, IoTypes
      <4> QED
        BY <1>3, <3>5, <4>1
    <3> QED
      BY <1>4, <3>3, <3>5, <3>6, <3>7
  <2> QED
    BY <2>1, <2>2
<1>7. io' = MarkedOn(g)
  <2>1. ~g.err
    BY <1>6 DEF Modes
  <2> QED
    BY <1>1, <2>1 DEF WriteFull, MarkedOn
<1> HIDE DEF g
<1>8. /\ io' \in IoRec /\ WritesAt(g, io')
      /\ io'.curbuf = NoBuf /\ io'.bytes = 0 /\ io'.marked_filled
  BY <1>6, <1>7, MarkedOnIs
<1>9. /\ SameRing(g, io') /\ io'.mem = g.mem /\ io'.rdwrt = io.rdwrt
      /\ io'.buf_ptrs = <<>> /\ io'.state = g.state
      /\ io'.w_buf_curr = g.w_buf_curr /\ io'.w_buf_next = g.w_buf_curr
      /\ io'.xfers = g.xfers
  BY <1>6, <1>8 DEF WritesAt, SameRing
<1>10. Modes(io') /\ Asked(io', sent)
  BY <1>6, <1>8, AskedStays
<1>11. NextAddr(io') = NextAddr(io)
  BY <1>4, <1>6, <1>8, <1>9 DEF NextAddr
<1>12. RingOK(rd, io') /\ Data(rd, io', addr, sent, NextAddr(io))
  BY <1>3, <1>6, <1>8, <1>9, <1>z, RingDataStay
<1>13. HandleOK(io')
  <2>1. FillsOne(io')
    BY <1>8, <1>9 DEF FillsOne
  <2>2. Filling(io')
    BY <1>4, <1>9, <2>1 DEF Filling
  <2> QED
    BY <1>10, <2>2 DEF HandleOK
<1>14. Calls'
  <2>1. n' = n
    BY <1>1 DEF n
  <2> QED
    BY <1>1, <1>2, <1>4, <1>9, <2>1 DEF Calls
<1>15. Follows
  <2>1. n <= Len(addr') /\ \A v \in 1 .. n : addr'[v] = addr[v]
    BY <1>1, NowTypes
  <2> QED
    BY <1>1, <1>6, <1>9, <2>1, FollowsGrown
<1> QED
  BY <1>1, <1>3, <1>8, <1>10, <1>11, <1>12, <1>13, <1>14, <1>15, WriterKeeps

(* ipcio_write obtains a block.                                            *)
LEMMA DoWriteGetStep ==
  ASSUME IoInv, StreamClients, DoWriteGet
  PROVE  IoInv'
<1>1. /\ todo # <<>> /\ io.bytes # BufSz /\ io.curbuf = NoBuf /\ GetReady(io)
      /\ io' = WriteGet(io)
      /\ todo' = todo /\ addr' = addr /\ sent' = sent /\ WriterOnly
  BY DEF DoWriteGet
<1>2. /\ RingOK(rd, io) /\ Data(rd, io, addr, sent, NextAddr(io))
      /\ Asked(io, sent) /\ Calls /\ Modes(io)
  BY NowInv
<1>3. /\ io \in IoRec /\ rd \in ReaderRec /\ addr \in AddrSeq /\ sent \in Seq(SentRec)
      /\ todo \in Seq(Nat) /\ BufSz \in Nat \ {0} /\ io.w_buf_curr \in Nat
      /\ io.w_buf_next \in Nat /\ NBufs \in Nat \ {0} /\ Len(io.xfers) \in Nat
  BY NowTypes
<1>4. /\ io.rdwrt \in {"w", "W"} /\ io.buf_ptrs = <<>> /\ FillsOne(io) /\ ~io.err
      /\ io.state \in {"WRITER", "WCHANGE", "WRITING"}
  BY <1>1, Writing
<1>5. io.w_buf_next = io.w_buf_curr /\ io.bytes = 0
  BY <1>1, <1>4 DEF FillsOne
<1>6. NextAddr(io) = Address(io.w_buf_next, 0) /\ NextAddr(io) \in Int
  <2>1. NextAddr(io) = Address(io.w_buf_curr, 0)
    BY <1>4, <1>5 DEF NextAddr
  <2> QED
    BY <1>5, <2>1, NextAddrType
<1> DEFINE g == ipcbuf_get_next_write(io)
           h == io.w_buf_next % NBufs
<1>7. /\ g \in IoRec /\ RingOK(rd, g) /\ Data(rd, g, addr, sent, NextAddr(io))
      /\ Modes(g) /\ Asked(g, sent) /\ Base(g) = Base(io)
      /\ SameHandle(io, g) /\ g.mem = io.mem
      /\ g.state = (IF io.state = "WCHANGE" THEN "WRITING" ELSE io.state)
      /\ g.w_buf_curr = io.w_buf_curr
      /\ g.w_buf_next = io.w_buf_next + 1 /\ g.w_xfer = io.w_xfer
      /\ Len(g.xfers) >= Len(io.xfers)
      /\ \A k \in 1 .. Len(io.xfers) : g.xfers[k] = io.xfers[k]
  <2>1. io.w_buf_next - io.w_buf_curr < NBufs - 1
    BY <1>3, <1>5 DEF StreamClients
  <2>2. NextAddr(io) <= Address(io.w_buf_next, 0)
    BY <1>6
  <2> HIDE DEF g
  <2> QED
    BY <1>1, <1>2, <1>3, <1>6, <2>1, <2>2, NextTaken DEF g
<1> HIDE DEF g, h
<1>8. io' = TakenOn(g, h)
  <2>1. ~g.err
    BY <1>7 DEF Modes
  <2> QED
    BY <1>1, <2>1 DEF WriteGet, TakenOn, g, h
<1>9. h \in Ring /\ h # NoBuf
  <2>1. io.w_buf_next \in Int
    BY <1>3
  <2> QED
    BY <2>1, RingPlaces DEF h
<1>10. /\ io' \in IoRec /\ WritesAt(g, io')
       /\ io'.curbuf = h /\ io'.bytes = 0 /\ ~io'.marked_filled
  BY <1>7, <1>8, <1>9, TakenOnIs
<1>11. /\ SameRing(g, io') /\ io'.mem = g.mem /\ io'.rdwrt = io.rdwrt
       /\ io'.buf_ptrs = <<>> /\ io'.state = g.state
       /\ io'.w_buf_curr = io.w_buf_curr /\ io'.w_buf_next = io.w_buf_next + 1
       /\ io'.xfers = g.xfers
  BY <1>4, <1>7, <1>10 DEF WritesAt, SameRing, SameHandle
<1>12. Modes(io') /\ Asked(io', sent)
  BY <1>4, <1>7, <1>10, AskedStays
<1>13. NextAddr(io') = NextAddr(io)
  BY <1>4, <1>5, <1>6, <1>10, <1>11 DEF NextAddr
<1>14. RingOK(rd, io') /\ Data(rd, io', addr, sent, NextAddr(io))
  BY <1>3, <1>6, <1>7, <1>10, <1>11, RingDataStay
<1>15. HandleOK(io')
  <2>1. FillsOne(io')
    <3>1. io'.curbuf = (io'.w_buf_next - 1) % NBufs
      <4>1. io'.w_buf_next - 1 = io.w_buf_next
        BY <1>3, <1>11
      <4> QED
        BY <1>10, <4>1 DEF h
    <3>2. io'.w_buf_next = io'.w_buf_curr + 1
      BY <1>5, <1>11
    <3> QED
      BY <1>9, <1>10, <3>1, <3>2 DEF FillsOne
  <2>2. Filling(io')
    BY <1>4, <1>11, <2>1 DEF Filling
  <2> QED
    BY <1>12, <2>2 DEF HandleOK
<1>16. Calls'
  <2>1. n' = n
    BY <1>1 DEF n
  <2> QED
    BY <1>1, <1>2, <1>4, <1>11, <2>1 DEF Calls
<1>17. Follows
  <2>1. n <= Len(addr') /\ \A v \in 1 .. n : addr'[v] = addr[v]
    BY <1>1, NowTypes
  <2>2. Len(io.xfers) <= Len(io'.xfers)
    <3>1. Len(g.xfers) \in Nat
      BY <1>7, IoTypes
    <3> QED
      BY <1>3, <1>7, <1>11, <3>1
  <2> QED
    BY <1>1, <1>7, <1>11, <2>1, <2>2, FollowsGrown
<1> QED
  BY <1>1, <1>3, <1>10, <1>12, <1>13, <1>14, <1>15, <1>16, <1>17, WriterKeeps

(* An open transfer starts no later than the block after the last full     *)
(* one.                                                                    *)
LEMMA StartsByNow ==
  ASSUME NEW d \in IoRec, Table(d), Len(d.xfers) = d.w_xfer + 1
  PROVE  LET x == d.xfers[d.w_xfer + 1] IN
         /\ Last(d.xfers) = x /\ StartAddr(x) \in Nat
         /\ StartAddr(x) <= Address(d.w_buf_curr, 0)
<1> DEFINE k == d.w_xfer + 1
           x == d.xfers[k]
<1>1. d.w_xfer \in Nat /\ d.w_buf_curr \in Nat /\ k \in 1 .. Len(d.xfers)
      /\ k \in d.w_xfer + 1 .. Len(d.xfers)
  BY IoTypes
<1>2. x.s_buf \in Nat /\ x.s_byte \in 0 .. BufSz /\ BufSz \in Nat \ {0}
  BY <1>1, XferTypes, RingPlaces
<1>3. x.s_byte < BufSz /\ x.s_buf <= d.w_buf_curr
  BY <1>1 DEF Table
<1>4. x.s_buf = d.w_buf_curr => x.s_byte = 0
  BY <1>1 DEF Table
<1>5. Last(d.xfers) = x
  <2>1. d.xfers # <<>>
    BY <1>1
  <2> QED
    BY <2>1, LastEntry
<1> HIDE DEF x, k
<1>6. StartAddr(x) = Address(x.s_buf, x.s_byte)
  BY DEF StartAddr
<1>7. StartAddr(x) \in Nat /\ Address(d.w_buf_curr, 0) \in Int
  <2>1. x.s_byte \in Nat /\ d.w_buf_curr \in Int /\ 0 \in Int
    BY <1>1, <1>2
  <2> QED
    BY <1>2, <1>6, <2>1, AddressNat, AddressType
<1>8. CASE x.s_buf = d.w_buf_curr
  BY <1>4, <1>5, <1>6, <1>7, <1>8 DEF x, k
<1>9. CASE x.s_buf # d.w_buf_curr
  <2>1. x.s_buf < d.w_buf_curr /\ x.s_buf \in Int /\ d.w_buf_curr \in Int
        /\ x.s_byte \in 0 .. BufSz - 1
    BY <1>1, <1>2, <1>3, <1>9
  <2>2. Address(x.s_buf, x.s_byte) < Address(d.w_buf_curr, 0)
    BY <2>1, InBlock
  <2> QED
    BY <1>5, <1>6, <1>7, <2>2 DEF x, k
<1> QED
  BY <1>8, <1>9

(* The bytes vals stored from byte i of the block number c on.             *)
StoredIn(mem, b, i, vals, em) ==
  /\ \A a \in Ring : a # b => em[a] = mem[a]
  /\ \A j \in 0 .. BufSz - 1 :
       em[b][j] = IF j \in i .. i + Len(vals) - 1 THEN vals[j - i + 1] ELSE mem[b][j]

(* Storing bytes in a block leaves the others alone.                       *)
LEMMA StoreIs ==
  ASSUME NEW mem \in [Ring -> [0 .. BufSz - 1 -> Nat]], NEW b \in Ring, NEW i \in Nat,
         NEW vals \in Seq(Nat), NEW em, em = Store(mem, b, i, vals)
  PROVE  em \in [Ring -> [0 .. BufSz - 1 -> Nat]] /\ StoredIn(mem, b, i, vals, em)
<1> DEFINE f == [j \in 0 .. BufSz - 1 |->
                  IF j \in i .. i + Len(vals) - 1 THEN vals[j - i + 1] ELSE mem[b][j]]
<1>1. em = [mem EXCEPT ![b] = f]
  BY DEF Store
<1>2. f \in [0 .. BufSz - 1 -> Nat]
  <2>1. ASSUME NEW j \in 0 .. BufSz - 1, j \in i .. i + Len(vals) - 1
        PROVE  vals[j - i + 1] \in Nat
    <3>1. j - i + 1 \in 1 .. Len(vals)
      <4>1. Len(vals) \in Nat /\ j \in Nat
        BY RingPlaces
      <4> QED
        BY <2>1, <4>1
    <3> QED
      BY <3>1
  <2>2. \A j \in 0 .. BufSz - 1 : mem[b][j] \in Nat
    OBVIOUS
  <2> QED
    BY <2>1, <2>2
<1>3. \A j \in 0 .. BufSz - 1 : f[j] =
                IF j \in i .. i + Len(vals) - 1 THEN vals[j - i + 1] ELSE mem[b][j]
  OBVIOUS
<1> HIDE DEF f
<1> QED
  BY <1>1, <1>2, <1>3 DEF StoredIn

(* Bytes numbered from v + 1 on, stored in the block c from byte i on.     *)
LEMMA StoredRun ==
  ASSUME NEW d \in IoRec, NEW e \in IoRec, NEW c \in Nat, NEW i \in 0 .. BufSz,
         NEW vals \in Seq(Nat), i + Len(vals) <= BufSz, NEW v \in Nat,
         \A j \in 1 .. Len(vals) : vals[j] = v + j,
         c < d.w_buf_next, d.w_buf_next - NBufs <= c,
         e.mem = Store(d.mem, c % NBufs, i, vals)
  PROVE  Stores(d, e, v, Address(c, i), Len(vals))
<1>t. /\ BufSz \in Nat \ {0} /\ NBufs \in Nat \ {0} /\ d.w_buf_next \in Nat
      /\ d.mem \in [Ring -> [0 .. BufSz - 1 -> Nat]] /\ Len(vals) \in Nat
      /\ i \in Nat /\ c \in Int /\ c % NBufs \in Ring
  <2>1. BufSz \in Nat \ {0} /\ NBufs \in Nat \ {0}
    BY RingPlaces
  <2>2. d.w_buf_next \in Nat /\ d.mem \in [Ring -> [0 .. BufSz - 1 -> Nat]]
    BY IoTypes
  <2>3. Len(vals) \in Nat
    OBVIOUS
  <2>4. i \in Nat /\ c \in Int
    BY <2>1
  <2>5. c % NBufs \in Ring
    BY <2>4, PlaceInRing
  <2> QED
    BY <2>1, <2>2, <2>3, <2>4, <2>5
<1> DEFINE m == Len(vals)
           z == Address(c, i)
<1>1. SUFFICES ASSUME NEW b \in d.w_buf_next - NBufs .. d.w_buf_next - 1,
                      NEW j \in 0 .. BufSz - 1
               PROVE  /\ Address(b, j) \in z .. z + m - 1 =>
                           e.mem[b % NBufs][j] = v + 1 + (Address(b, j) - z)
                      /\ Address(b, j) < z => e.mem[b % NBufs][j] = d.mem[b % NBufs][j]
  BY DEF Stores
<1>b. b \in Int /\ b % NBufs \in Ring /\ j \in Nat
  <2>1. b \in Int /\ j \in Nat
    BY <1>t
  <2> QED
    BY <2>1, PlaceInRing
<1>z. /\ z \in Int /\ Address(c, 0) \in Int /\ z = Address(c, 0) + i
      /\ Address(b, j) \in Int /\ Address(b, 0) \in Int
      /\ Address(b, j) = Address(b, 0) + j
  <2>1. i \in Int /\ j \in Int
    BY <1>t, <1>b
  <2> QED
    BY <1>t, <1>b, <2>1, AddressType
<1>s. /\ \A a \in Ring : a # c % NBufs => e.mem[a] = d.mem[a]
      /\ \A k \in 0 .. BufSz - 1 : e.mem[c % NBufs][k] =
           IF k \in i .. i + Len(vals) - 1 THEN vals[k - i + 1]
                                           ELSE d.mem[c % NBufs][k]
  <2>1. StoredIn(d.mem, c % NBufs, i, vals, e.mem)
    BY <1>t, StoreIs
  <2> QED
    BY <2>1 DEF StoredIn
<1> DEFINE ab == Address(b, j)
<1>y. z \in Int /\ ab \in Int /\ m \in Nat /\ i + m <= BufSz
  BY <1>z, <1>t
<1> HIDE DEF z, m, ab
<1>2. ASSUME Address(b, j) \in z .. z + m - 1
      PROVE  e.mem[b % NBufs][j] = v + 1 + (Address(b, j) - z)
  <2> DEFINE t == ab - z
  <2>0. ab \in z .. z + m - 1
    BY <1>2 DEF ab
  <2>1. t \in 0 .. m - 1 /\ t \in Int
    BY <2>0, <1>y
  <2>9. ab = z + t
    BY <1>y
  <2> HIDE DEF t
  <2>2. i + t \in 0 .. BufSz - 1
    BY <2>1, <1>t, <1>y
  <2>3. Address(b, j) = Address(c, i + t)
    <3>1. Address(c, i + t) = Address(c, 0) + (i + t)
      BY <1>t, <2>2, AddressType
    <3>2. Address(b, j) = z + t
      BY <2>9 DEF ab
    <3> DEFINE ac == Address(c, 0)
    <3>3. ac \in Int /\ z = ac + i
      BY <1>z
    <3> HIDE DEF ac
    <3>4. z + t = ac + (i + t)
      BY <1>t, <2>1, <3>3
    <3> QED
      BY <3>1, <3>2, <3>4 DEF ac
  <2>4. b = c /\ j = i + t
    BY <1>b, <1>t, <2>2, <2>3, SameAddress
  <2>5. j \in i .. i + Len(vals) - 1 /\ j - i + 1 = t + 1 /\ t + 1 \in 1 .. Len(vals)
    BY <1>t, <2>1, <2>4 DEF m
  <2>6. e.mem[b % NBufs][j] = vals[t + 1]
    BY <1>s, <2>4, <2>5
  <2>7. vals[t + 1] = v + (t + 1)
    BY <2>5
  <2>8. v + (t + 1) = v + 1 + t
    BY <1>t, <2>1
  <2> QED
    BY <2>6, <2>7, <2>8 DEF t, ab
<1>3. ASSUME Address(b, j) < z
      PROVE  e.mem[b % NBufs][j] = d.mem[b % NBufs][j]
  <2>1. CASE b = c
    <3>1. ~(j \in i .. i + Len(vals) - 1)
      <4>1. j < i
        BY <1>3, <1>z, <1>b, <1>t, <2>1
      <4> QED
        BY <1>b, <1>t, <4>1
    <3> QED
      BY <1>s, <2>1, <3>1
  <2>2. CASE b # c
    <3>1. b % NBufs # c % NBufs
      <4>1. d.w_buf_next - NBufs \in Int
        BY <1>t
      <4> DEFINE a == d.w_buf_next - NBufs
      <4>2. b \in a .. a + NBufs - 1 /\ c \in a .. a + NBufs - 1
        BY <1>t
      <4> HIDE DEF a
      <4> QED
        BY <1>t, <2>2, <4>1, <4>2, OwnPlaceAmong DEF a
    <3> QED
      BY <1>s, <1>b, <3>1
  <2> QED
    BY <2>1, <2>2
<1> QED
  BY <1>2, <1>3

(* The bytes written get the addresses of the places where they are        *)
(* stored.                                                                 *)
LEMMA AddressesAre ==
  ASSUME NEW c \in Int, NEW i \in Int, NEW m \in Nat
  PROVE  LET s == Addresses(c, i, m) IN
         /\ s \in Seq(Int) /\ Len(s) = m
         /\ \A j \in 1 .. m : s[j] = Address(c, i) + j - 1
<1> DEFINE p == c * BufSz + i
           s == Addresses(c, i, m)
<1>1. p \in Int /\ p = Address(c, i)
  <2>1. Address(c, i) \in Int
    BY AddressType
  <2> QED
    BY <2>1 DEF Address
<1> HIDE DEF p
<1>2. s = [j \in 1 .. m |-> p + j - 1]
  BY DEF Addresses, p
<1> HIDE DEF s
<1>3. \A j \in 1 .. m : p + j - 1 \in Int
  BY <1>1
<1> QED
  BY <1>1, <1>2, <1>3 DEF s

(* What is written now and what is still to be written.                    *)
LEMMA TwoParts ==
  ASSUME NEW q \in Seq(Nat), NEW s \in Nat, s <= Len(q)
  PROVE  /\ SubSeq(q, 1, s) \in Seq(Nat) /\ Len(SubSeq(q, 1, s)) = s
         /\ \A j \in 1 .. s : SubSeq(q, 1, s)[j] = q[j] /\ j \in 1 .. Len(q)
         /\ SubSeq(q, s + 1, Len(q)) \in Seq(Nat)
         /\ Len(SubSeq(q, s + 1, Len(q))) = Len(q) - s
         /\ \A j \in 1 .. Len(q) - s :
              SubSeq(q, s + 1, Len(q))[j] = q[s + j] /\ s + j \in 1 .. Len(q)
OBVIOUS

(* A write stores at least one byte, and no more than fit.                 *)
LEMMA SpaceIs ==
  ASSUME NEW d, d.bytes \in 0 .. BufSz, d.bytes # BufSz, NEW q, Len(q) \in Nat \ {0}
  PROVE  LET s == Space(d, q) IN
         s \in Nat /\ s >= 1 /\ s <= Len(q) /\ d.bytes + s <= BufSz
<1> DEFINE y == d.bytes
           k == Len(q)
<1>1. y \in Int /\ y >= 0 /\ y < BufSz /\ k \in Nat /\ k >= 1 /\ BufSz \in Nat
  <2>1. BufSz \in Nat
    BY RingPlaces
  <2>2. y \in Int /\ y >= 0 /\ y < BufSz
    BY <2>1
  <2>3. k \in Nat /\ k >= 1
    OBVIOUS
  <2> QED
    BY <2>1, <2>2, <2>3
<1>2. Space(d, q) = IF k < BufSz - y THEN k ELSE BufSz - y
  BY DEF Space
<1> HIDE DEF y, k
<1> DEFINE s == IF k < BufSz - y THEN k ELSE BufSz - y
<1>3. s \in Nat /\ s >= 1 /\ s <= k /\ y + s <= BufSz
  BY <1>1
<1> QED
  BY <1>2, <1>3 DEF y, k

(* ipcio_write copies bytes into the block.                                *)
LEMMA DoWriteCopyStep ==
  ASSUME IoInv, StreamClients, DoWriteCopy
  PROVE  IoInv'
<1> DEFINE s == Space(io, todo)
           vals == SubSeq(todo, 1, s)
           c == io.w_buf_next - 1
           z == NextAddr(io)
           new == Addresses(c, io.bytes, s)
<1>1. /\ todo # <<>> /\ io.bytes # BufSz /\ io.curbuf # NoBuf
      /\ io' = WriteCopy(io, todo)
      /\ todo' = SubSeq(todo, s + 1, Len(todo))
      /\ addr' = addr \o new
      /\ sent' = sent /\ WriterOnly
  BY DEF DoWriteCopy
<1>2. /\ RingOK(rd, io) /\ Data(rd, io, addr, sent, NextAddr(io))
      /\ Asked(io, sent) /\ Calls /\ Modes(io) /\ Table(io)
  BY NowInv
<1>3. /\ io \in IoRec /\ rd \in ReaderRec /\ addr \in AddrSeq /\ sent \in Seq(SentRec)
      /\ todo \in Seq(Nat) /\ BufSz \in Nat \ {0} /\ io.w_buf_curr \in Nat
      /\ io.w_buf_next \in Nat /\ NBufs \in Nat \ {0} /\ Len(io.xfers) \in Nat
      /\ io.bytes \in 0 .. BufSz /\ n \in Nat /\ n = Len(addr)
      /\ io.w_xfer \in Nat /\ io.curbuf \in Ring \cup {NoBuf}
  BY NowTypes
<1>4. /\ io.rdwrt \in {"w", "W"} /\ io.buf_ptrs = <<>> /\ FillsOne(io) /\ ~io.err
      /\ io.state \in {"WRITER", "WCHANGE", "WRITING"}
      /\ Len(todo) \in Nat \ {0} /\ todo = [i \in 1 .. Len(todo) |-> n + i]
  BY <1>1, Writing
<1>5. io.state \in {"WRITER", "WRITING"}
  BY <1>1, <1>4, <1>2 DEF Modes
<1>6. /\ s \in Nat /\ s >= 1 /\ s <= Len(todo) /\ io.bytes + s <= BufSz
  <2>1. io.bytes \in 0 .. BufSz /\ io.bytes # BufSz /\ Len(todo) \in Nat \ {0}
    BY <1>1, <1>3, <1>4
  <2> QED
    BY <2>1, SpaceIs
<1> HIDE DEF s
<1>7. /\ vals \in Seq(Nat) /\ Len(vals) = s
      /\ \A j \in 1 .. s : vals[j] = n + j
  <2>1. vals \in Seq(Nat) /\ Len(vals) = s
    BY <1>3, <1>6, TwoParts
  <2>2. ASSUME NEW j \in 1 .. s PROVE vals[j] = n + j
    <3>1. vals[j] = todo[j] /\ j \in 1 .. Len(todo)
      BY <1>3, <1>6, TwoParts
    <3> QED
      BY <1>4, <3>1
  <2> QED
    BY <2>1, <2>2
<1> HIDE DEF vals
<1>8. io.curbuf = c % NBufs /\ io.curbuf \in Ring
  BY <1>1, <1>3, <1>4 DEF FillsOne
<1>9. io' = [io EXCEPT !.mem = Store(io.mem, io.curbuf, io.bytes, vals),
                       !.bytes = io.bytes + s]
  BY <1>1, <1>3 DEF WriteCopy, s, vals, IoRec
<1> DEFINE em == Store(io.mem, io.curbuf, io.bytes, vals)
<1>10. em \in [Ring -> [0 .. BufSz - 1 -> Nat]]
  <2>1. io.mem \in [Ring -> [0 .. BufSz - 1 -> Nat]] /\ io.bytes \in Nat
    <3>1. io.bytes \in Nat
      BY <1>3
    <3> QED
      BY <1>3, <3>1, IoTypes
  <2> QED
    BY <1>7, <1>8, <2>1, StoreIs
<1> HIDE DEF em
<1>11. /\ io' \in IoRec /\ io'.mem = em /\ io'.bytes = io.bytes + s
       /\ SameRing(io, io') /\ io'.rdwrt = io.rdwrt /\ io'.buf_ptrs = io.buf_ptrs
       /\ io'.sod_pending = io.sod_pending /\ io'.sod_buf = io.sod_buf
       /\ io'.sod_byte = io.sod_byte /\ io'.err = io.err
       /\ io'.state = io.state /\ io'.w_state = io.w_state
       /\ io'.curbuf = io.curbuf /\ io'.marked_filled = io.marked_filled
  <2> DEFINE y == io.bytes + s
  <2>1. y \in 0 .. BufSz
    BY SMTT(30), <1>3, <1>6
  <2>2. io' = [io EXCEPT !.mem = em, !.bytes = y]
    BY <1>9 DEF em
  <2> HIDE DEF y
  <2>3. io' \in IoRec
    BY <1>3, <1>10, <2>1, <2>2 DEF IoRec
  <2>4. SameRing(io, io')
    BY <1>3, <2>2 DEF IoRec, SameRing
  <2>5. /\ io'.mem = em /\ io'.bytes = y /\ io'.rdwrt = io.rdwrt
        /\ io'.buf_ptrs = io.buf_ptrs
        /\ io'.sod_pending = io.sod_pending /\ io'.sod_buf = io.sod_buf
        /\ io'.sod_byte = io.sod_byte /\ io'.err = io.err
        /\ io'.state = io.state /\ io'.w_state = io.w_state
        /\ io'.curbuf = io.curbuf /\ io'.marked_filled = io.marked_filled
    BY <1>3, <2>2 DEF IoRec
  <2> QED
    BY <2>3, <2>4, <2>5 DEF y
<1>12. /\ io'.w_buf_curr = io.w_buf_curr /\ io'.w_buf_next = io.w_buf_next
       /\ io'.xfers = io.xfers /\ io'.w_xfer = io.w_xfer
  BY <1>11 DEF SameRing
<1>13. /\ io.w_buf_curr <= io.w_buf_next /\ io.w_buf_next - io.w_buf_curr < NBufs
       /\ c \in Nat /\ c < io.w_buf_next /\ io.w_buf_next - NBufs <= c
       /\ io.marked_filled /\ io.bytes > 0 => c = io.w_buf_curr - 1
       /\ ~(io.marked_filled /\ io.bytes > 0) => c = io.w_buf_curr
  <2>1. /\ io.w_buf_curr <= io.w_buf_next /\ io.w_buf_next - io.w_buf_curr < NBufs
    BY <1>2 DEF Table
  <2>2. CASE io.marked_filled
    <3>1. io.bytes > 0 /\ io.w_buf_next = io.w_buf_curr /\ Base(io) = io.w_buf_curr
          /\ io.w_xfer > 0
      BY <1>1, <1>4, <2>2 DEF FillsOne
    <3>2. io.xfers[io.w_xfer].e_buf < io.w_buf_curr
          /\ io.xfers[io.w_xfer].e_buf \in Nat
      <4>1. io.w_xfer \in 1 .. io.w_xfer /\ io.w_xfer \in 1 .. Len(io.xfers)
        BY <1>2, <1>3, <3>1, TableNumbers
      <4> QED
        BY <1>2, <1>3, <4>1, XferTypes DEF Table
    <3>3. io.w_buf_curr > 0
      BY <1>3, <3>2
    <3> QED
      BY <1>3, <2>1, <2>2, <3>1, <3>3
  <2>3. CASE ~io.marked_filled
    <3>1. io.w_buf_next = io.w_buf_curr + 1
      BY <1>1, <1>4, <2>3 DEF FillsOne
    <3>2. c = io.w_buf_curr /\ c < io.w_buf_next /\ io.w_buf_next - NBufs <= c
      <4> DEFINE x == io.w_buf_next
                 u == io.w_buf_curr
      <4>1. x \in Nat /\ u \in Nat /\ x = u + 1 /\ NBufs \in Nat \ {0}
        BY <1>3, <3>1
      <4> HIDE DEF x, u
      <4>2. x - 1 = u /\ x - 1 < x /\ x - NBufs <= x - 1
        BY <4>1
      <4> QED
        BY <4>2 DEF x, u
    <3> QED
      BY <1>3, <2>1, <2>3, <3>2
  <2> QED
    BY <2>2, <2>3
<1>14. z = Address(c, io.bytes) /\ NextAddr(io') = Address(c, io.bytes + s)
  <2>1. io.rdwrt # "0" /\ io'.rdwrt # "0" /\ io'.marked_filled = io.marked_filled
    BY <1>4, <1>11
  <2>2. io.bytes > 0 => io'.bytes > 0
    BY <1>3, <1>6, <1>11
  <2>3. io.marked_filled => io.bytes > 0
    BY <1>1, <1>4 DEF FillsOne
  <2> HIDE DEF c
  <2> QED
    BY <1>11, <1>12, <1>13, <2>1, <2>2, <2>3 DEF NextAddr
<1> HIDE DEF c
<1>15. z \in Nat /\ NextAddr(io') = z + s /\ Address(c, 0) \in Int
       /\ z = Address(c, 0) + io.bytes
  <2> DEFINE i == io.bytes
             k == io.bytes + s
  <2>0. i \in Int /\ i \in Nat /\ c \in Int /\ k \in Int
    BY <1>3, <1>6, <1>13
  <2>k. k = i + s
    OBVIOUS
  <2> HIDE DEF i, k
  <2>1. z \in Nat
    BY <1>13, <1>14, <2>0, AddressNat DEF i
  <2>2. /\ Address(c, i) = Address(c, 0) + i /\ Address(c, 0) \in Int
        /\ Address(c, k) = Address(c, 0) + k
    BY <2>0, AddressType
  <2>3. NextAddr(io') = Address(c, k) /\ z = Address(c, i)
    BY <1>14 DEF i, k
  <2> HIDE DEF z
  <2>4. NextAddr(io') = z + s
    BY <1>6, <2>0, <2>k, <2>2, <2>3
  <2> QED
    BY <2>1, <2>2, <2>3, <2>4 DEF i
<1>16. Stores(io, io', n, z, s)
  <2>1. io'.mem = Store(io.mem, c % NBufs, io.bytes, vals)
    BY <1>8, <1>11 DEF em, c
  <2>2. io.bytes + Len(vals) <= BufSz /\ \A j \in 1 .. Len(vals) : vals[j] = n + j
    BY <1>6, <1>7
  <2>3. Stores(io, io', n, Address(c, io.bytes), Len(vals))
    BY <1>3, <1>7, <1>11, <1>13, <2>1, <2>2, StoredRun
  <2> QED
    BY <1>7, <1>14, <2>3
<1> HIDE DEF z
<1>17. new \in Seq(Int) /\ Len(new) = s /\ \A j \in 1 .. s : new[j] = z + j - 1
  <2>1. c \in Int /\ io.bytes \in Int
    BY <1>3, <1>13
  <2> QED
    BY <1>6, <1>14, <2>1, AddressesAre
<1> HIDE DEF new
<1>18. /\ addr' \in AddrSeq /\ Len(addr') = n + s
       /\ Data(rd, io', addr', sent, NextAddr(io'))
  <2>1. /\ addr \o new \in AddrSeq /\ Len(addr \o new) = Len(addr) + s
        /\ Data(rd, io', addr \o new, sent, z + s)
    <3>1. Data(rd, io, addr, sent, z) /\ Stores(io, io', Len(addr), z, s)
      BY <1>2, <1>3, <1>16 DEF z
    <3>2. io \in IoRec /\ io' \in IoRec /\ addr \in AddrSeq /\ s \in Nat /\ z \in Nat
          /\ Table(io)
      BY <1>2, <1>3, <1>6, <1>11, <1>15
    <3> QED
      <4>1. /\ io'.xfers = io.xfers /\ io'.w_xfer = io.w_xfer
            /\ io'.w_buf_next = io.w_buf_next
        BY <1>12
      <4>2. new \in Seq(Int) /\ Len(new) = s
        BY <1>17
      <4>3. \A i \in 1 .. s : new[i] = z + i - 1
        BY <1>17
      <4>4. addr \o new \in AddrSeq
        BY <4>1, <4>2, <4>3, <3>1, <3>2, DataStore
      <4>5. Len(addr \o new) = Len(addr) + s
        BY <4>1, <4>2, <4>3, <3>1, <3>2, DataStore
      <4>6. Data(rd, io', addr \o new, sent, z + s)
        BY <4>1, <4>2, <4>3, <3>1, <3>2, DataStore
      <4> QED
        BY <4>4, <4>5, <4>6
  <2> QED
    BY <1>1, <1>3, <1>15, <2>1
<1>19. RingOK(rd, io') /\ Base(io') = Base(io)
  BY <1>2, <1>3, <1>11, RingStay
<1>20. Modes(io') /\ Asked(io', sent')
  <2>1. Modes(io')
    BY <1>2, <1>5, <1>11, <1>12, <1>19 DEF Modes
  <2>2. Asked(io', sent')
    BY <1>1, <1>2, <1>5, <1>11, <1>12 DEF Asked
  <2> QED
    BY <2>1, <2>2
<1>21. io'.bytes > 0
  BY <1>3, <1>6, <1>11
<1>22. HandleOK(io')
  <2>1. FillsOne(io')
    <3>1. io.marked_filled => io.bytes > 0
      BY <1>1, <1>4 DEF FillsOne
    <3> QED
      BY <1>1, <1>4, <1>11, <1>12, <1>19, <1>21, <3>1 DEF FillsOne
  <2>2. Filling(io')
    BY <1>4, <1>11, <2>1 DEF Filling
  <2> QED
    BY <1>20, <2>2 DEF HandleOK
<1>23. todo' \in Seq(Nat) /\ todo' = [i \in 1 .. Len(todo') |-> n' + i]
  <2>1. n' = n + s
    BY <1>18 DEF n
  <2>2. todo' \in Seq(Nat) /\ Len(todo') = Len(todo) - s
    BY <1>1, <1>3, <1>6, TwoParts
  <2>3. \A i \in 1 .. Len(todo') : todo'[i] = n' + i
    <3> SUFFICES ASSUME NEW i \in 1 .. Len(todo') PROVE todo'[i] = n' + i
      OBVIOUS
    <3>1. todo'[i] = todo[s + i] /\ s + i \in 1 .. Len(todo)
      <4>1. i \in 1 .. Len(todo) - s
        BY <2>2
      <4> QED
        BY <1>1, <1>3, <1>6, <4>1, TwoParts
    <3>2. todo[s + i] = n + (s + i)
      BY <1>4, <3>1
    <3>3. n + (s + i) = n + s + i
      BY <1>3, <1>6, <3>1
    <3> QED
      BY <2>1, <3>1, <3>2, <3>3
  <2> QED
    BY <2>2, <2>3
<1>24. StartsBefore(io')
  <2> SUFFICES ASSUME io'.state = "WRITING"
               PROVE  StartAddr(Last(io'.xfers)) < NextAddr(io')
    BY DEF StartsBefore
  <2>1. io.state = "WRITING"
    BY <1>11
  <2>2. Len(io.xfers) = io.w_xfer + 1
    BY <1>2, <1>3, <2>1, StateOfTable
  <2>3. /\ StartAddr(Last(io.xfers)) \in Nat
        /\ StartAddr(Last(io.xfers)) <= Address(io.w_buf_curr, 0)
    BY <1>2, <1>3, <2>2, StartsByNow
  <2>4. c = io.w_buf_curr
    <3>1. ~(io.marked_filled /\ io.bytes > 0)
      BY <1>4, <2>1 DEF FillsOne
    <3> QED
      BY <1>13, <3>1
  <2>5. StartAddr(Last(io.xfers)) < z + s
    <3> DEFINE a == StartAddr(Last(io.xfers))
               o == Address(c, 0)
               i == io.bytes
    <3>1. a \in Nat /\ o \in Int /\ a <= o /\ z = o + i /\ i \in Nat /\ s >= 1 /\ s \in Nat
      BY <1>3, <1>6, <1>15, <2>3, <2>4
    <3> HIDE DEF a, o, i
    <3>2. a < z + s
      BY <3>1
    <3> QED
      BY <3>2 DEF a
  <2> QED
    BY <1>12, <1>15, <2>5
<1>25. Calls'
  BY <1>4, <1>11, <1>21, <1>23, <1>24 DEF Calls, StartsBefore
<1>26. Follows
  <2>1. n <= Len(addr')
    BY <1>3, <1>6, <1>18
  <2>2. \A v \in 1 .. n : addr'[v] = addr[v]
    <3>1. addr \in Seq(Nat \cup {GivenBack}) /\ new \in Seq(Int)
      BY <1>3, <1>17 DEF AddrSeq
    <3> QED
      BY <1>1, <1>3, <3>1
  <2>3. Len(io.xfers) <= Len(io'.xfers)
    BY <1>3, <1>12
  <2> QED
    BY <1>1, <1>12, <2>1, <2>2, <2>3, FollowsGrown
<1> QED
  BY <1>1, <1>11, <1>18, <1>19, <1>20, <1>22, <1>23, <1>25, <1>26, <1>3, WriterKeeps

(* One more block is held open.                                            *)
HeldOn(d, q, h) ==
  [d EXCEPT !.buf_ptrs = q, !.curbuf = h, !.marked_filled = FALSE, !.bytes = 0]

(* The handle once it holds one more block open.                           *)
LEMMA HeldOnIs ==
  ASSUME NEW d \in IoRec, NEW q \in Seq(Ring), NEW h \in Ring
  PROVE  LET e == HeldOn(d, q, h) IN
         /\ e \in IoRec /\ SameRing(d, e) /\ e.mem = d.mem
         /\ e.buf_ptrs = q /\ e.curbuf = h /\ ~e.marked_filled /\ e.bytes = 0
         /\ e.rdwrt = d.rdwrt /\ e.state = d.state /\ e.w_state = d.w_state
         /\ e.sod_pending = d.sod_pending /\ e.sod_buf = d.sod_buf
         /\ e.sod_byte = d.sod_byte /\ e.err = d.err
<1> DEFINE e == HeldOn(d, q, h)
<1>0. 0 \in 0 .. BufSz
  BY RingPlaces
<1>1. e \in IoRec
  BY <1>0 DEF IoRec, HeldOn
<1>2. SameRing(d, e)
  BY DEF IoRec, SameRing, HeldOn
<1>3. /\ e.mem = d.mem
      /\ e.buf_ptrs = q /\ e.curbuf = h /\ ~e.marked_filled /\ e.bytes = 0
      /\ e.rdwrt = d.rdwrt /\ e.state = d.state /\ e.w_state = d.w_state
      /\ e.sod_pending = d.sod_pending /\ e.sod_buf = d.sod_buf
      /\ e.sod_byte = d.sod_byte /\ e.err = d.err
  BY DEF IoRec, HeldOn
<1> QED
  BY <1>1, <1>2, <1>3

(* The blocks held open, whether there are any or not.                     *)
LEMMA HoldsSome ==
  ASSUME IoInv, io.bytes = 0, io.rdwrt = "W",
         io.curbuf # NoBuf => io.buf_ptrs # <<>>
  PROVE  /\ io.w_buf_next = io.w_buf_curr + Len(io.buf_ptrs)
         /\ \A i \in 1 .. Len(io.buf_ptrs) :
              io.buf_ptrs[i] = (io.w_buf_curr + i - 1) % NBufs
         /\ io.buf_ptrs # <<>> =>
              /\ io.curbuf = io.buf_ptrs[1] /\ ~io.marked_filled
              /\ io.state \in {"WRITER", "WRITING"}
         /\ NextAddr(io) = Address(io.w_buf_curr, 0)
         /\ io.buf_ptrs \in Seq(Ring) /\ Len(io.buf_ptrs) \in Nat
<1>1. io \in IoRec /\ Filling(io) /\ io.w_buf_curr \in Nat /\ io.w_buf_next \in Nat
  BY NowTypes, NowInv
<1>2. io.buf_ptrs \in Seq(Ring) /\ Len(io.buf_ptrs) \in Nat
  BY <1>1, IoTypes
<1>3. NextAddr(io) = Address(io.w_buf_curr, 0)
  BY DEF NextAddr
<1>4. CASE io.buf_ptrs = <<>>
  <2>1. FillsOne(io)
    BY <1>1, <1>4 DEF Filling
  <2>2. io.w_buf_next = io.w_buf_curr
    BY <1>4, <2>1 DEF FillsOne
  <2>3. Len(io.buf_ptrs) = 0
    BY <1>4
  <2> QED
    BY <1>1, <1>2, <1>3, <1>4, <2>2, <2>3
<1>5. CASE io.buf_ptrs # <<>>
  <2>1. HoldsOpen(io)
    BY <1>1, <1>5 DEF Filling
  <2> QED
    BY <1>2, <1>3, <2>1 DEF HoldsOpen
<1> QED
  BY <1>4, <1>5

(* A sequence with one more member.                                        *)
LEMMA Appended ==
  ASSUME NEW p \in Seq(Ring), NEW b \in Ring
  PROVE  LET q == Append(p, b) IN
         /\ q \in Seq(Ring) /\ q # <<>> /\ Len(q) = Len(p) + 1
         /\ \A i \in 1 .. Len(p) : q[i] = p[i]
         /\ q[Len(p) + 1] = b
OBVIOUS

(* ipcio_open_block_write                                                  *)
LEMMA OpenBlockStep ==
  ASSUME IoInv, StreamClients, OpenBlock
  PROVE  IoInv'
<1>1. /\ todo = <<>> /\ todo' = todo /\ addr' = addr /\ sent' = sent /\ WriterOnly
      /\ io' = ipcio_open_block_write(io) /\ GetReady(io)
      /\ io.bytes = 0 /\ io.rdwrt = "W" /\ Len(io.buf_ptrs) < NBufs - 1
      /\ io.curbuf # NoBuf => io.buf_ptrs # <<>>
  BY DEF OpenBlock, Idle, MayOpenBlock
<1>2. /\ RingOK(rd, io) /\ Data(rd, io, addr, sent, NextAddr(io))
      /\ Asked(io, sent) /\ Calls /\ Modes(io)
  BY NowInv
<1>3. /\ io \in IoRec /\ rd \in ReaderRec /\ addr \in AddrSeq /\ sent \in Seq(SentRec)
      /\ todo \in Seq(Nat) /\ BufSz \in Nat \ {0} /\ io.w_buf_curr \in Nat
      /\ io.w_buf_next \in Nat /\ NBufs \in Nat \ {0} /\ Len(io.xfers) \in Nat
  BY NowTypes
<1>4. /\ io.w_buf_next = io.w_buf_curr + Len(io.buf_ptrs)
      /\ \A i \in 1 .. Len(io.buf_ptrs) :
           io.buf_ptrs[i] = (io.w_buf_curr + i - 1) % NBufs
      /\ io.buf_ptrs # <<>> =>
           /\ io.curbuf = io.buf_ptrs[1] /\ ~io.marked_filled
           /\ io.state \in {"WRITER", "WRITING"}
      /\ NextAddr(io) = Address(io.w_buf_curr, 0)
      /\ io.buf_ptrs \in Seq(Ring) /\ Len(io.buf_ptrs) \in Nat
  BY <1>1, HoldsSome
<1>5. io.state \in {"WRITER", "WCHANGE", "WRITING"}
  BY <1>1, <1>2 DEF Modes
<1> DEFINE g == ipcbuf_get_next_write(io)
           b == io.w_buf_next % NBufs
           q == Append(io.buf_ptrs, b)
           h == IF io.buf_ptrs = <<>> THEN b ELSE io.curbuf
<1>6. /\ g \in IoRec /\ RingOK(rd, g) /\ Data(rd, g, addr, sent, NextAddr(io))
      /\ Modes(g) /\ Asked(g, sent) /\ Base(g) = Base(io)
      /\ SameHandle(io, g) /\ g.mem = io.mem
      /\ g.state = (IF io.state = "WCHANGE" THEN "WRITING" ELSE io.state)
      /\ g.w_buf_curr = io.w_buf_curr
      /\ g.w_buf_next = io.w_buf_next + 1 /\ g.w_xfer = io.w_xfer
      /\ Len(g.xfers) >= Len(io.xfers)
      /\ \A k \in 1 .. Len(io.xfers) : g.xfers[k] = io.xfers[k]
  <2>1. io.w_buf_next - io.w_buf_curr < NBufs - 1
    BY <1>1, <1>3, <1>4
  <2>2. NextAddr(io) <= Address(io.w_buf_next, 0)
    <3>1. io.w_buf_curr \in Int /\ io.w_buf_next \in Int /\ io.w_buf_curr <= io.w_buf_next
      BY <1>3, <1>4
    <3> QED
      BY <1>4, <3>1, AddressRises
  <2> HIDE DEF g
  <2>3. NextAddr(io) \in Int
    BY NextAddrType
  <2> QED
    BY <1>1, <1>2, <1>3, <2>1, <2>2, <2>3, NextTaken DEF g
<1> HIDE DEF g
<1>7. ~g.err /\ g.buf_ptrs = io.buf_ptrs /\ g.curbuf = io.curbuf
      /\ g.marked_filled = io.marked_filled /\ g.bytes = 0 /\ g.rdwrt = "W"
  BY <1>1, <1>6 DEF Modes, SameHandle
<1>8. b \in Ring /\ q \in Seq(Ring) /\ h \in Ring /\ h # NoBuf
  <2>1. b \in Ring
    <3>1. io.w_buf_next \in Int
      BY <1>3
    <3> QED
      BY <3>1, PlaceInRing
  <2>2. q \in Seq(Ring)
    BY <1>4, <2>1
  <2>3. io.buf_ptrs # <<>> => io.curbuf \in Ring
    <3> SUFFICES ASSUME io.buf_ptrs # <<>> PROVE io.curbuf \in Ring
      OBVIOUS
    <3>1. 1 \in 1 .. Len(io.buf_ptrs)
      BY <1>4
    <3> QED
      BY <1>4, <3>1
  <2> QED
    BY <2>1, <2>2, <2>3, RingPlaces
<1> HIDE DEF b
<1>9. io' = HeldOn(g, q, h)
  <2>1. (g.marked_filled /\ ~(io.buf_ptrs = <<>>)) = FALSE
    BY <1>4, <1>7
  <2>2. io' = [g EXCEPT !.buf_ptrs = Append(@, b),
                        !.curbuf = IF io.buf_ptrs = <<>> THEN b ELSE @,
                        !.marked_filled = @ /\ ~(io.buf_ptrs = <<>>),
                        !.bytes = IF io.buf_ptrs = <<>> THEN 0 ELSE @]
    BY <1>1, <1>7 DEF ipcio_open_block_write, g, b
  <2>3. io' = [g EXCEPT !.buf_ptrs = q, !.curbuf = h,
                        !.marked_filled = (g.marked_filled /\ ~(io.buf_ptrs = <<>>)),
                        !.bytes = 0]
    BY <1>6, <1>7, <2>2 DEF IoRec
  <2> QED
    BY <2>1, <2>3 DEF HeldOn
<1> HIDE DEF q, h
<1>10. /\ io' \in IoRec /\ SameRing(g, io') /\ io'.mem = g.mem
       /\ io'.buf_ptrs = q /\ io'.curbuf = h /\ ~io'.marked_filled /\ io'.bytes = 0
       /\ io'.rdwrt = g.rdwrt /\ io'.state = g.state /\ io'.w_state = g.w_state
       /\ io'.sod_pending = g.sod_pending /\ io'.sod_buf = g.sod_buf
       /\ io'.sod_byte = g.sod_byte /\ io'.err = g.err
  BY <1>6, <1>8, <1>9, HeldOnIs
<1>11. /\ io'.w_buf_curr = io.w_buf_curr /\ io'.w_buf_next = io.w_buf_next + 1
       /\ io'.xfers = g.xfers /\ io'.w_xfer = g.w_xfer
  BY <1>6, <1>10 DEF SameRing
<1>12. /\ RingOK(rd, io') /\ Data(rd, io', addr, sent, NextAddr(io))
       /\ Base(io') = Base(g)
  <2>1. NextAddr(io) \in Int
    BY NextAddrType
  <2> QED
    BY <1>3, <1>6, <1>10, <2>1, RingDataStay
<1>13. g.state \in {"WRITER", "WRITING"}
  BY <1>5, <1>6
<1>14. Modes(io') /\ Asked(io', sent')
  <2>1. g.w_buf_curr = io'.w_buf_curr /\ g.w_xfer = io'.w_xfer /\ g.xfers = io'.xfers
    BY <1>6, <1>11
  <2>2. Modes(io')
    BY <1>6, <1>7, <1>10, <1>12, <1>13, <2>1 DEF Modes
  <2>3. Asked(io', sent')
    BY <1>1, <1>6, <1>10, <1>13, <2>1 DEF Asked
  <2> QED
    BY <2>2, <2>3
<1>15. HoldsOpen(io')
  <2>1. /\ q # <<>> /\ Len(q) = Len(io.buf_ptrs) + 1
        /\ \A i \in 1 .. Len(io.buf_ptrs) : q[i] = io.buf_ptrs[i]
        /\ q[Len(io.buf_ptrs) + 1] = b
    BY <1>4, <1>8, Appended DEF q
  <2>2. h = q[1]
    <3>1. CASE io.buf_ptrs = <<>>
      BY <2>1, <3>1 DEF h
    <3>2. CASE io.buf_ptrs # <<>>
      <4>1. 1 \in 1 .. Len(io.buf_ptrs)
        BY <1>4, <3>2
      <4> QED
        BY <1>4, <2>1, <3>2, <4>1 DEF h
    <3> QED
      BY <3>1, <3>2
  <2>3. io'.w_buf_next = io'.w_buf_curr + Len(q)
    <3> DEFINE L == Len(io.buf_ptrs)
    <3>1. /\ L \in Nat /\ io.w_buf_next = io.w_buf_curr + L /\ Len(q) = L + 1
          /\ io.w_buf_curr \in Nat
      BY <1>3, <1>4, <2>1
    <3> HIDE DEF L
    <3> QED
      BY <1>11, <3>1
  <2>4. \A i \in 1 .. Len(q) : q[i] = (io'.w_buf_curr + i - 1) % NBufs
    <3> SUFFICES ASSUME NEW i \in 1 .. Len(q)
                 PROVE  q[i] = (io'.w_buf_curr + i - 1) % NBufs
      OBVIOUS
    <3>1. CASE i \in 1 .. Len(io.buf_ptrs)
      BY <1>4, <1>11, <2>1, <3>1
    <3>2. CASE i \notin 1 .. Len(io.buf_ptrs)
      <4>1. i = Len(io.buf_ptrs) + 1
        BY <1>4, <2>1, <3>2
      <4>2. io'.w_buf_curr + i - 1 = io.w_buf_next
        BY <1>3, <1>4, <1>11, <4>1
      <4> QED
        BY <2>1, <4>1, <4>2 DEF b
    <3> QED
      BY <3>1, <3>2
  <2> QED
    BY <1>7, <1>10, <1>13, <2>2, <2>3, <2>4 DEF HoldsOpen
<1>16. HandleOK(io') /\ io'.buf_ptrs # <<>>
  <2>1. io'.buf_ptrs # <<>>
    BY <1>4, <1>8, <1>10 DEF q
  <2>2. Filling(io')
    BY <1>15, <2>1 DEF Filling
  <2> QED
    BY <1>14, <2>1, <2>2 DEF HandleOK
<1>17. NextAddr(io') = NextAddr(io)
  BY <1>4, <1>7, <1>10, <1>11 DEF NextAddr
<1>18. Calls'
  BY <1>1, <1>16 DEF Calls
<1>19. Follows
  <2>1. n <= Len(addr') /\ \A v \in 1 .. n : addr'[v] = addr[v]
    BY <1>1, NowTypes
  <2>2. Len(io.xfers) <= Len(io'.xfers)
    <3>1. Len(g.xfers) \in Nat
      BY <1>6, IoTypes
    <3> QED
      BY <1>3, <1>6, <1>11, <3>1
  <2> QED
    BY <1>1, <1>6, <1>11, <2>1, <2>2, FollowsGrown
<1> QED
  BY <1>1, <1>3, <1>10, <1>12, <1>14, <1>16, <1>17, <1>18, <1>19, WriterKeeps

(* Bytes are stored in the blocks of the ring.                             *)
Filled(d, em) == [d EXCEPT !.mem = em]

(* The handle once bytes were stored: only the memory differs.             *)
LEMMA FilledIs ==
  ASSUME NEW d \in IoRec, NEW em \in [Ring -> [0 .. BufSz - 1 -> Nat]]
  PROVE  LET e == Filled(d, em) IN
         /\ e \in IoRec /\ e.mem = em /\ SameRing(d, e) /\ SameHandle(d, e)
         /\ e.state = d.state /\ e.w_state = d.w_state
<1> DEFINE e == Filled(d, em)
<1>1. e \in IoRec
  BY DEF IoRec, Filled
<1>2. SameRing(d, e)
  BY DEF IoRec, SameRing, Filled
<1>3. SameHandle(d, e)
  BY DEF IoRec, SameHandle, Filled
<1>4. e.mem = em /\ e.state = d.state /\ e.w_state = d.w_state
  BY DEF IoRec, Filled
<1> QED
  BY <1>1, <1>2, <1>3, <1>4

(* Storing bytes does not touch modes nor what was asked.                  *)
LEMMA FilledModes ==
  ASSUME NEW d, NEW e, NEW st, SameRing(d, e), SameHandle(d, e),
         e.state = d.state, e.w_state = d.w_state, Modes(d), Asked(d, st)
  PROVE  Modes(e) /\ Asked(e, st)
<1>1. /\ e.rdwrt = d.rdwrt /\ e.state = d.state /\ e.w_state = d.w_state
      /\ e.sod_pending = d.sod_pending /\ e.sod_buf = d.sod_buf
      /\ e.sod_byte = d.sod_byte /\ e.err = d.err
      /\ e.curbuf = d.curbuf /\ e.bytes = d.bytes
      /\ e.w_buf_curr = d.w_buf_curr /\ e.w_buf_next = d.w_buf_next
      /\ e.xfers = d.xfers /\ e.w_xfer = d.w_xfer
  BY DEF SameHandle, SameRing
<1>2. Base(e) = Base(d)
  BY <1>1 DEF Base
<1>3. Modes(e)
  BY <1>1, <1>2 DEF Modes
<1> QED
  BY <1>1, <1>3 DEF Asked

(* The addresses of the bytes written, with those of m more.               *)
LEMMA AddedBytes ==
  ASSUME NEW ad \in AddrSeq, NEW m \in Nat, NEW z \in Nat, NEW s \in Seq(Int),
         Len(s) = m, \A i \in 1 .. m : s[i] = z + i - 1
  PROVE  /\ ad \o s \in AddrSeq /\ Len(ad \o s) = Len(ad) + m
         /\ \A v \in 1 .. Len(ad) : (ad \o s)[v] = ad[v]
         /\ \A v \in 1 .. m : (ad \o s)[Len(ad) + v] = z + v - 1
<1>1. \A i \in 1 .. m : s[i] \in Nat
  OBVIOUS
<1>2. s \in Seq(Nat \cup {GivenBack}) /\ ad \in Seq(Nat \cup {GivenBack})
  BY <1>1 DEF AddrSeq
<1> QED
  BY <1>2 DEF AddrSeq

(* m bytes are stored in the block held open the longest.                  *)
LEMMA BlockStored ==
  ASSUME IoInv, StreamClients, NEW m \in 0 .. BufSz, HoldsOpen(io), io.buf_ptrs # <<>>,
         NEW vals, vals = [i \in 1 .. m |-> n + i],
         NEW em, em = Store(io.mem, io.curbuf, 0, vals),
         NEW ad, ad = addr \o Addresses(io.w_buf_curr, 0, m)
  PROVE  /\ em \in [Ring -> [0 .. BufSz - 1 -> Nat]]
         /\ ad \in AddrSeq /\ Len(ad) = n + m
         /\ \A v \in 1 .. n : ad[v] = addr[v]
         /\ Data(rd, Filled(io, em), ad, sent, Address(io.w_buf_curr, m))
<1> DEFINE e == Filled(io, em)
           c == io.w_buf_curr
           z == Address(c, 0)
           new == Addresses(c, 0, m)
<1>1. /\ io \in IoRec /\ addr \in AddrSeq /\ n \in Nat /\ n = Len(addr)
      /\ c \in Nat /\ io.w_buf_next \in Nat /\ BufSz \in Nat \ {0} /\ NBufs \in Nat \ {0}
      /\ m \in Nat
  BY NowTypes
<1>2. Data(rd, io, addr, sent, NextAddr(io)) /\ Table(io) /\ io.w_buf_next - c < NBufs
  BY NowInv
<1>3. /\ Len(io.buf_ptrs) \in Nat \ {0} /\ io.w_buf_next = c + Len(io.buf_ptrs)
      /\ io.curbuf = c % NBufs
  <2>1. Len(io.buf_ptrs) \in Nat \ {0}
    <3>1. io.buf_ptrs \in Seq(Ring)
      BY <1>1, IoTypes
    <3> QED
      BY <3>1
  <2>2. io.buf_ptrs[1] = (c + 1 - 1) % NBufs
    BY <2>1 DEF HoldsOpen
  <2>3. c + 1 - 1 = c
    BY <1>1
  <2> QED
    BY <2>1, <2>2, <2>3 DEF HoldsOpen
<1>4. c < io.w_buf_next /\ io.w_buf_next - NBufs <= c
  <2> DEFINE L == Len(io.buf_ptrs)
  <2>1. L \in Nat \ {0} /\ io.w_buf_next = c + L
    BY <1>3
  <2> HIDE DEF L, c
  <2> QED
    BY <1>1, <1>2, <2>1
<1>5. vals \in Seq(Nat) /\ Len(vals) = m /\ \A j \in 1 .. m : vals[j] = n + j
  BY <1>1
<1>6. io.mem \in [Ring -> [0 .. BufSz - 1 -> Nat]] /\ io.curbuf \in Ring
  <2>1. c \in Int
    BY <1>1
  <2> QED
    BY <1>1, <1>3, <2>1, IoTypes, PlaceInRing
<1>7. em \in [Ring -> [0 .. BufSz - 1 -> Nat]]
  <2>1. 0 \in Nat
    OBVIOUS
  <2> QED
    BY <1>5, <1>6, <2>1, StoreIs
<1>8. /\ e \in IoRec /\ e.mem = em /\ SameRing(io, e)
  BY <1>1, <1>7, FilledIs
<1> HIDE DEF e, c
<1>9. Stores(io, e, n, z, m)
  <2>1. e.mem = Store(io.mem, c % NBufs, 0, vals)
    BY <1>3, <1>8
  <2>2. 0 \in 0 .. BufSz /\ 0 + Len(vals) <= BufSz /\ \A j \in 1 .. Len(vals) : vals[j] = n + j
    BY <1>1, <1>5
  <2>3. Stores(io, e, n, Address(c, 0), Len(vals))
    BY <1>1, <1>4, <1>5, <1>8, <2>1, <2>2, StoredRun
  <2> QED
    BY <1>5, <2>3
<1>10. z \in Nat /\ NextAddr(io) = z /\ Address(c, m) = z + m
  <2>1. z \in Nat
    BY <1>1, AddressNat
  <2>2. NextAddr(io) = z
    BY DEF HoldsOpen, NextAddr, c
  <2>3. Address(c, m) = Address(c, 0) + m
    <3>1. c \in Int /\ m \in Int
      BY <1>1
    <3> QED
      BY <3>1, AddressType
  <2> QED
    BY <2>1, <2>2, <2>3
<1> HIDE DEF z
<1>11. new \in Seq(Int) /\ Len(new) = m /\ \A j \in 1 .. m : new[j] = z + j - 1
  <2>1. c \in Int /\ 0 \in Int
    BY <1>1
  <2> QED
    BY <1>1, <2>1, AddressesAre DEF z
<1> HIDE DEF new
<1>12. ad = addr \o new
  BY DEF new, c
<1>13. e.xfers = io.xfers /\ e.w_xfer = io.w_xfer /\ e.w_buf_next = io.w_buf_next
  BY <1>8 DEF SameRing
<1>14. Data(rd, io, addr, sent, z) /\ Stores(io, e, Len(addr), z, m)
  BY <1>1, <1>2, <1>9, <1>10
<1>15. /\ addr \o new \in AddrSeq /\ Len(addr \o new) = Len(addr) + m
       /\ \A v \in 1 .. Len(addr) : (addr \o new)[v] = addr[v]
  <2>1. addr \in AddrSeq /\ m \in Nat /\ z \in Nat /\ new \in Seq(Int)
    BY <1>1, <1>10, <1>11
  <2>2. Len(new) = m /\ \A j \in 1 .. m : new[j] = z + j - 1
    BY <1>11
  <2>3. addr \o new \in AddrSeq
    BY <2>1, <2>2, AddedBytes
  <2>4. Len(addr \o new) = Len(addr) + m
    BY <2>1, <2>2, AddedBytes
  <2>5. \A v \in 1 .. Len(addr) : (addr \o new)[v] = addr[v]
    BY <2>1, <2>2, AddedBytes
  <2> QED
    BY <2>3, <2>4, <2>5
<1>17. Data(rd, e, addr \o new, sent, z + m)
  BY <1>1, <1>2, <1>8, <1>10, <1>11, <1>13, <1>14, DataStore
<1> QED
  BY <1>1, <1>7, <1>10, <1>12, <1>15, <1>17 DEF e, c

(* The blocks still held open when the oldest was closed.                  *)
LEMMA RestHeld ==
  ASSUME NEW q \in Seq(Ring), q # <<>>, NEW c \in Nat, NEW x \in Nat,
         x = c + Len(q),
         \A i \in 1 .. Len(q) : q[i] = (c + i - 1) % NBufs
  PROVE  LET t == Tail(q) IN
         /\ t \in Seq(Ring) /\ Len(t) \in Nat /\ Len(q) = Len(t) + 1
         /\ x = (c + 1) + Len(t)
         /\ \A i \in 1 .. Len(t) : t[i] = ((c + 1) + i - 1) % NBufs
         /\ t # <<>> => Head(t) = t[1]
<1> DEFINE t == Tail(q)
<1>1. /\ t \in Seq(Ring) /\ Len(t) \in Nat /\ Len(q) = Len(t) + 1
      /\ \A i \in 1 .. Len(t) : t[i] = q[i + 1] /\ i + 1 \in 1 .. Len(q)
      /\ t # <<>> => Head(t) = t[1]
  OBVIOUS
<1> HIDE DEF t
<1>2. x = (c + 1) + Len(t)
  BY <1>1
<1>3. ASSUME NEW i \in 1 .. Len(t)
      PROVE  t[i] = ((c + 1) + i - 1) % NBufs
  <2>1. t[i] = (c + (i + 1) - 1) % NBufs
    BY <1>1
  <2>2. c + (i + 1) - 1 = (c + 1) + i - 1
    BY <1>1
  <2> QED
    BY <2>1, <2>2
<1> QED
  BY <1>1, <1>2, <1>3 DEF t

(* ipcio_close_block_write of a full block                                 *)
LEMMA CloseFullStep ==
  ASSUME IoInv, StreamClients, CloseBlock(BufSz)
  PROVE  IoInv'
<1> DEFINE vals == [i \in 1 .. BufSz |-> n + i]
           em == Store(io.mem, io.curbuf, 0, vals)
           d == Filled(io, em)
           u == Updated(d, BufSz)
           p == ipcio_check_pending_sod(ipcbuf_mark_filled(u, BufSz))
           z == Address(io.w_buf_curr, BufSz)
<1>1. /\ todo = <<>> /\ todo' = todo /\ WriterOnly
      /\ io.buf_ptrs # <<>> /\ io.bytes = 0 /\ sent' = sent
      /\ addr' = addr \o Addresses(io.w_buf_curr, 0, BufSz)
  <2>1. ~(BufSz < BufSz)
    BY NowTypes
  <2> QED
    BY <2>1 DEF CloseBlock, Idle
<1>d. io' = ipcio_close_block_write(d, BufSz)
  BY DEF CloseBlock, Filled
<1>2. /\ RingOK(rd, io) /\ Asked(io, sent) /\ Calls /\ Modes(io) /\ Filling(io)
  BY NowInv
<1>3. /\ io \in IoRec /\ rd \in ReaderRec /\ addr \in AddrSeq /\ sent \in Seq(SentRec)
      /\ todo \in Seq(Nat) /\ BufSz \in Nat \ {0} /\ io.w_buf_curr \in Nat
      /\ io.w_buf_next \in Nat /\ Len(io.xfers) \in Nat /\ n \in Nat
  BY NowTypes
<1>4. HoldsOpen(io)
  BY <1>1, <1>2 DEF Filling
<1>5. /\ em \in [Ring -> [0 .. BufSz - 1 -> Nat]]
      /\ addr' \in AddrSeq /\ Len(addr') = n + BufSz
      /\ \A v \in 1 .. n : addr'[v] = addr[v]
      /\ Data(rd, d, addr', sent, z)
  <2>1. BufSz \in 0 .. BufSz
    BY <1>3
  <2> QED
    BY ZenonT(40), <1>1, <1>4, <2>1, BlockStored
<1> HIDE DEF em
<1>6. /\ d \in IoRec /\ d.mem = em /\ SameRing(io, d) /\ SameHandle(io, d)
      /\ d.state = io.state /\ d.w_state = io.w_state
  BY <1>3, <1>5, FilledIs
<1> HIDE DEF d
<1>7. RingOK(rd, d) /\ Modes(d) /\ Asked(d, sent)
  BY <1>2, <1>3, <1>6, RingStay, FilledModes
<1>8. /\ d.bytes = 0 /\ d.curbuf # NoBuf /\ d.rdwrt = "W" /\ ~d.marked_filled /\ ~d.err
      /\ d.buf_ptrs = io.buf_ptrs /\ d.state \in {"WRITER", "WRITING"}
      /\ io.curbuf \in Ring
  <2>1. io.curbuf \in Ring
    <3>1. 1 \in 1 .. Len(io.buf_ptrs) /\ io.buf_ptrs \in Seq(Ring)
      <4>1. io.buf_ptrs \in Seq(Ring) /\ Len(io.buf_ptrs) \in Nat
        BY <1>3, IoTypes
      <4> QED
        BY <1>1, <4>1
    <3> QED
      BY <1>4, <3>1 DEF HoldsOpen
  <2> QED
    BY <1>4, <1>6, <1>7, <2>1, RingPlaces DEF HoldsOpen, SameHandle, Modes
<1>9. /\ u \in IoRec /\ SameRing(d, u) /\ u.mem = d.mem
      /\ u.rdwrt = d.rdwrt /\ u.bytes = BufSz /\ u.curbuf = d.curbuf
      /\ u.marked_filled = d.marked_filled /\ u.buf_ptrs = d.buf_ptrs
      /\ u.sod_pending = d.sod_pending /\ u.sod_buf = d.sod_buf
      /\ u.sod_byte = d.sod_byte /\ u.err = d.err
      /\ u.state = d.state /\ u.w_state = d.w_state
  <2>1. BufSz \in 0 .. BufSz
    BY <1>3
  <2> QED
    BY <1>6, <2>1, UpdatedFields
<1> HIDE DEF u
<1>z. z \in Int /\ z = Address(io.w_buf_curr + 1, 0)
  <2>1. io.w_buf_curr \in Int /\ BufSz \in Int
    BY <1>3
  <2> QED
    BY <2>1, AddressType, AddressNext
<1> HIDE DEF z
<1>10. RingOK(rd, u) /\ Data(rd, u, addr', sent, z) /\ Base(u) = Base(d)
  BY <1>3, <1>5, <1>6, <1>7, <1>9, <1>z, RingDataStay
<1>11. Modes(u) /\ Asked(u, sent)
  <2>1. /\ u.xfers = d.xfers /\ u.w_xfer = d.w_xfer /\ u.w_buf_curr = d.w_buf_curr
        /\ u.w_buf_next = d.w_buf_next
    BY <1>9 DEF SameRing
  <2> QED
    BY <1>7, <1>8, <1>9, <1>10, <2>1 DEF Modes, Asked
<1>12. /\ u.w_buf_curr = io.w_buf_curr /\ u.w_buf_next = io.w_buf_next
       /\ u.w_xfer = io.w_xfer /\ u.xfers = io.xfers
  BY <1>6, <1>9 DEF SameRing
<1>13. /\ io.buf_ptrs \in Seq(Ring)
       /\ io.w_buf_next = io.w_buf_curr + Len(io.buf_ptrs)
       /\ \A i \in 1 .. Len(io.buf_ptrs) :
            io.buf_ptrs[i] = (io.w_buf_curr + i - 1) % NBufs
  BY <1>3, <1>4, IoTypes DEF HoldsOpen
<1> DEFINE t == Tail(io.buf_ptrs)
<1>14. /\ t \in Seq(Ring) /\ Len(t) \in Nat
       /\ io.w_buf_next = (io.w_buf_curr + 1) + Len(t)
       /\ \A i \in 1 .. Len(t) : t[i] = ((io.w_buf_curr + 1) + i - 1) % NBufs
       /\ t # <<>> => Head(t) = t[1]
  BY SMTT(30), <1>1, <1>3, <1>13, RestHeld
<1> HIDE DEF t
<1>15. /\ p \in IoRec /\ RingOK(rd, p) /\ Data(rd, p, addr', sent, z)
       /\ Modes(p) /\ Asked(p, sent) /\ Base(p) = Base(u)
       /\ p.rdwrt = u.rdwrt /\ p.bytes = u.bytes /\ p.curbuf = u.curbuf
       /\ p.marked_filled = u.marked_filled /\ p.buf_ptrs = u.buf_ptrs
       /\ p.w_buf_curr = u.w_buf_curr + 1 /\ p.w_buf_next = u.w_buf_next
       /\ p.w_xfer = u.w_xfer /\ p.mem = u.mem
       /\ p.state \in {"WRITER", "WRITING"}
       /\ Len(p.xfers) >= Len(u.xfers)
       /\ \A k \in 1 .. Len(u.xfers) : p.xfers[k] = u.xfers[k]
       /\ p.state = "WRITING" =>
            StartAddr(p.xfers[Len(p.xfers)]) < Address(p.w_buf_curr, 0)
  <2>1. u.w_buf_curr < u.w_buf_next
    BY <1>3, <1>12, <1>14
  <2>2. u.state \in {"WRITER", "WRITING"}
    BY <1>8, <1>9
  <2> HIDE DEF p
  <2> QED
    BY <1>3, <1>5, <1>9, <1>10, <1>11, <1>z, <2>1, <2>2, FullBlock DEF p
<1>16. io' \in IoRec /\ NextHeld(p, io')
  <2>1. p \in IoRec /\ ~p.err /\ p.buf_ptrs # <<>>
    BY <1>1, <1>8, <1>9, <1>15 DEF Modes
  <2>2. BufSz \in 0 .. BufSz
    BY <1>3
  <2> QED
    BY <1>d, <1>6, <1>8, <2>1, <2>2, CloseBlockIs DEF u
<1> HIDE DEF p
<1>17. /\ SameRing(p, io') /\ io'.mem = p.mem /\ io'.rdwrt = "W" /\ io'.bytes = 0
       /\ io'.buf_ptrs = t
       /\ io'.curbuf = (IF t = <<>> THEN NoBuf ELSE Head(t))
       /\ io'.marked_filled = (t = <<>>)
       /\ io'.sod_pending = p.sod_pending /\ io'.sod_buf = p.sod_buf
       /\ io'.sod_byte = p.sod_byte /\ io'.err = p.err
       /\ io'.state = p.state /\ io'.w_state = p.w_state
  <2>1. p.buf_ptrs = io.buf_ptrs /\ p.rdwrt = "W"
    BY <1>8, <1>9, <1>15
  <2> QED
    BY <1>16, <2>1 DEF NextHeld, t
<1>18. /\ io'.w_buf_curr = io.w_buf_curr + 1 /\ io'.w_buf_next = io.w_buf_next
       /\ io'.xfers = p.xfers /\ io'.w_xfer = p.w_xfer
       /\ p.w_buf_curr = io.w_buf_curr + 1
  BY <1>12, <1>15, <1>17 DEF SameRing
<1>19. RingOK(rd, io') /\ Data(rd, io', addr', sent, z) /\ Base(io') = Base(p)
  BY <1>3, <1>5, <1>15, <1>16, <1>17, <1>z, RingDataStay
<1>20. NextAddr(io') = z
  BY <1>17, <1>18, <1>z DEF NextAddr
<1>21. Modes(io') /\ Asked(io', sent')
  <2>1. io'.w_buf_curr = p.w_buf_curr
    BY <1>18
  <2>2. Modes(io')
    BY <1>8, <1>9, <1>15, <1>17, <1>18, <1>19, <2>1 DEF Modes
  <2>3. Asked(io', sent')
    BY <1>1, <1>15, <1>17, <1>18, <2>1 DEF Asked
  <2> QED
    BY <2>2, <2>3
<1>22. HandleOK(io')
  <2>1. CASE t = <<>>
    <3>1. io'.w_buf_next = io'.w_buf_curr
      <4>1. Len(t) = 0
        BY <2>1
      <4> QED
        BY <1>3, <1>14, <1>18, <4>1
    <3>2. FillsOne(io')
      BY <1>3, <1>17, <2>1, <3>1 DEF FillsOne
    <3> QED
      BY <1>17, <1>21, <2>1, <3>2 DEF HandleOK, Filling
  <2>2. CASE t # <<>>
    <3>1. HoldsOpen(io')
      BY <1>14, <1>15, <1>17, <1>18, <2>2 DEF HoldsOpen
    <3> QED
      BY <1>17, <1>21, <2>2, <3>1 DEF HandleOK, Filling
  <2> QED
    BY <2>1, <2>2
<1>23. Calls'
  <2>1. io'.state = "WRITING" => StartAddr(Last(io'.xfers)) < NextAddr(io')
    <3> SUFFICES ASSUME io'.state = "WRITING"
                 PROVE  StartAddr(Last(io'.xfers)) < NextAddr(io')
      OBVIOUS
    <3>1. StartAddr(p.xfers[Len(p.xfers)]) < z
      BY <1>15, <1>17, <1>18, <1>z
    <3>2. Last(p.xfers) = p.xfers[Len(p.xfers)]
      BY DEF Last
    <3> QED
      BY <1>18, <1>20, <3>1, <3>2
  <2>2. io'.buf_ptrs = <<>> => io'.curbuf = NoBuf
    BY <1>17
  <2> QED
    BY <1>1, <2>1, <2>2 DEF Calls
<1>24. Follows
  <2>1. n <= Len(addr')
    BY <1>3, <1>5
  <2>2. Len(io.xfers) <= Len(io'.xfers) /\ \A k \in 1 .. Len(io.xfers) : io'.xfers[k] = io.xfers[k]
    <3>1. Len(p.xfers) \in Nat
      BY <1>15, IoTypes
    <3> QED
      BY <1>3, <1>12, <1>15, <1>18, <3>1
  <2> QED
    BY <1>1, <1>5, <2>1, <2>2, FollowsGrown
<1> QED
  BY <1>1, <1>3, <1>5, <1>16, <1>19, <1>20, <1>21, <1>22, <1>23, <1>24, WriterKeeps

(* The transfer being written ends with the last byte written: what was    *)
(* promised of the others stays.                                           *)
LEMMA FollowsEnded ==
  ASSUME IoInv, Len(io.xfers) = io.w_xfer + 1, Len(sent) = Len(io.xfers),
         Len(io'.xfers) = Len(io.xfers),
         \A k \in 1 .. io.w_xfer : io'.xfers[k] = io.xfers[k],
         StartAddr(io'.xfers[io.w_xfer + 1]) = StartAddr(io.xfers[io.w_xfer + 1]),
         NEW m \in Nat, n + m <= Len(addr'),
         \A v \in 1 .. n, k \in 1 .. Len(io.xfers) :
           addr[v] = sent[k].at => addr'[v] = addr[v],
         sent' = [sent EXCEPT ![Len(sent)].to = n + m]
  PROVE  Follows
<1>1. /\ Len(io.xfers) \in Nat /\ io.w_xfer \in Nat /\ n \in Nat /\ n = Len(addr)
      /\ sent \in Seq(SentRec)
  BY NowTypes
<1>2. /\ Len(io.xfers) <= Len(io'.xfers) /\ n <= n + m /\ n + m \in Nat
  BY <1>1
<1>3. n <= Len(addr')
  <2>1. Len(addr') \in Int \/ n <= Len(addr')
    <3>1. n + m <= Len(addr')
      OBVIOUS
    <3> QED
      BY <1>1, <1>2, <3>1
  <2> QED
    BY <1>1, <1>2, <2>1
<1>4. ASSUME NEW k \in 1 .. Len(io.xfers)
      PROVE  StartAddr(io'.xfers[k]) = StartAddr(io.xfers[k])
  <2>1. CASE k \in 1 .. io.w_xfer
    BY <2>1
  <2>2. CASE k = io.w_xfer + 1
    BY <2>2
  <2> QED
    BY <1>1, <2>1, <2>2
<1>5. ASSUME NEW k \in 1 .. Len(io.xfers)
      PROVE  /\ sent'[k].at = sent[k].at
             /\ \/ sent'[k].to = sent[k].to
                \/ sent[k].to = Open /\ sent'[k].to \in Nat /\ n <= sent'[k].to
  <2>1. k \in 1 .. Len(sent) /\ sent[k] \in SentRec
    BY <1>1
  <2>2. CASE k = Len(sent)
    <3>1. sent'[k] = [sent[k] EXCEPT !.to = n + m]
      BY <1>1, <2>1, <2>2
    <3>2. sent'[k].at = sent[k].at /\ sent'[k].to = n + m
      BY <2>1, <3>1 DEF SentRec
    <3>3. sent[k].to = Open
      <4>1. ~(k <= io.w_xfer)
        BY <1>1, <2>2
      <4> QED
        BY <2>1, <4>1, NowInv DEF Data, Promised
    <3> QED
      BY <1>2, <3>2, <3>3
  <2>3. CASE k # Len(sent)
    BY <1>1, <2>1, <2>3
  <2> QED
    BY <2>2, <2>3
<1> QED
  BY <1>1, <1>2, <1>3, <1>4, <1>5 DEF Follows

(* Nothing is left of a sequence of one.                                   *)
LEMMA TailOfOne ==
  ASSUME NEW S, NEW q \in Seq(S), Len(q) = 1
  PROVE  Tail(q) = <<>>
<1>1. Tail(q) \in Seq(S) /\ Len(Tail(q)) = 0
  OBVIOUS
<1> DEFINE t == Tail(q)
<1>2. t \in Seq(S) /\ Len(t) = 0
  BY <1>1
<1> HIDE DEF t
<1>3. t = <<>>
  BY <1>2
<1> QED
  BY <1>3 DEF t

(* ipcio_close_block_write of part of a block                              *)
LEMMA CloseShortStep ==
  ASSUME IoInv, StreamClients, NEW m \in 0 .. BufSz, m < BufSz, CloseBlock(m)
  PROVE  IoInv'
<1> DEFINE vals == [i \in 1 .. m |-> n + i]
           em == Store(io.mem, io.curbuf, 0, vals)
           d == Filled(io, em)
           u == Updated(d, m)
           p == ipcio_check_pending_sod(ipcbuf_mark_filled(u, m))
           z == Address(io.w_buf_curr, m)
           x == io.w_xfer + 1
<1>1. /\ todo = <<>> /\ todo' = todo /\ WriterOnly
      /\ io.buf_ptrs # <<>> /\ io.bytes = 0
      /\ sent' = [sent EXCEPT ![Len(sent)].to = n + m]
      /\ addr' = addr \o Addresses(io.w_buf_curr, 0, m)
      /\ Len(io.buf_ptrs) = 1 /\ io.state = "WRITING" /\ m > 0
  <2>1. m # BufSz
    BY NowTypes
  <2> QED
    BY <2>1 DEF CloseBlock, Idle, StreamClients, Slip
<1>d. io' = ipcio_close_block_write(d, m)
  BY DEF CloseBlock, Filled
<1>2. /\ RingOK(rd, io) /\ Asked(io, sent) /\ Calls /\ Modes(io) /\ Filling(io)
      /\ Table(io)
  BY NowInv
<1>3. /\ io \in IoRec /\ rd \in ReaderRec /\ addr \in AddrSeq /\ sent \in Seq(SentRec)
      /\ todo \in Seq(Nat) /\ BufSz \in Nat \ {0} /\ io.w_buf_curr \in Nat
      /\ io.w_buf_next \in Nat /\ Len(io.xfers) \in Nat /\ n \in Nat
      /\ io.w_xfer \in Nat
  BY NowTypes
<1>m. m \in Nat /\ m >= 1 /\ m # 0
  BY <1>1, <1>3
<1>4. HoldsOpen(io)
  BY <1>1, <1>2 DEF Filling
<1>5. /\ em \in [Ring -> [0 .. BufSz - 1 -> Nat]]
      /\ addr' \in AddrSeq /\ Len(addr') = n + m
      /\ \A v \in 1 .. n : addr'[v] = addr[v]
      /\ Data(rd, d, addr', sent, z)
  <2> DEFINE ad == addr \o Addresses(io.w_buf_curr, 0, m)
  <2>1. addr' = ad
    BY <1>1
  <2> HIDE DEF em, vals, ad
  <2>2. vals = [i \in 1 .. m |-> n + i] /\ em = Store(io.mem, io.curbuf, 0, vals)
        /\ ad = addr \o Addresses(io.w_buf_curr, 0, m)
    BY DEF vals, em, ad
  <2>3. /\ em \in [Ring -> [0 .. BufSz - 1 -> Nat]]
        /\ ad \in AddrSeq /\ Len(ad) = n + m
        /\ \A v \in 1 .. n : ad[v] = addr[v]
        /\ Data(rd, Filled(io, em), ad, sent, Address(io.w_buf_curr, m))
    <3>0. m \in 0 .. BufSz /\ io.buf_ptrs # <<>>
      BY <1>1
    <3> QED
      BY <1>4, <2>2, <3>0, BlockStored
  <2> QED
    BY <2>1, <2>3
<1> HIDE DEF em
<1>6. /\ d \in IoRec /\ d.mem = em /\ SameRing(io, d) /\ SameHandle(io, d)
      /\ d.state = io.state /\ d.w_state = io.w_state
  BY <1>3, <1>5, FilledIs
<1> HIDE DEF d
<1>7. RingOK(rd, d) /\ Modes(d) /\ Asked(d, sent)
  BY <1>2, <1>3, <1>6, RingStay, FilledModes
<1>8. /\ d.bytes = 0 /\ d.curbuf # NoBuf /\ d.rdwrt = "W" /\ ~d.marked_filled /\ ~d.err
      /\ d.buf_ptrs = io.buf_ptrs /\ d.state = "WRITING" /\ ~d.sod_pending
  <2>1. io.curbuf \in Ring
    <3>1. 1 \in 1 .. Len(io.buf_ptrs) /\ io.buf_ptrs \in Seq(Ring)
      BY <1>1, <1>3, IoTypes
    <3> QED
      BY <1>4, <3>1 DEF HoldsOpen
  <2> QED
    BY <1>1, <1>4, <1>6, <1>7, <2>1, RingPlaces DEF HoldsOpen, SameHandle, Modes
<1>9. /\ u \in IoRec /\ SameRing(d, u) /\ u.mem = d.mem
      /\ u.rdwrt = d.rdwrt /\ u.bytes = m /\ u.curbuf = d.curbuf
      /\ u.marked_filled = d.marked_filled /\ u.buf_ptrs = d.buf_ptrs
      /\ u.sod_pending = d.sod_pending /\ u.sod_buf = d.sod_buf
      /\ u.sod_byte = d.sod_byte /\ u.err = d.err
      /\ u.state = d.state /\ u.w_state = d.w_state
  BY <1>6, UpdatedFields
<1> HIDE DEF u
<1>z. /\ z \in Int /\ z = Address(io.w_buf_curr, 0) + m /\ Address(io.w_buf_curr, 0) \in Int
      /\ Address(io.w_buf_curr + 1, 0) = Address(io.w_buf_curr, 0) + BufSz
  <2>1. io.w_buf_curr \in Int /\ m \in Int
    BY <1>3, <1>m
  <2> QED
    BY <2>1, AddressType, AddressNext
<1> HIDE DEF z
<1>10. RingOK(rd, u) /\ Data(rd, u, addr', sent, z)
  BY <1>3, <1>5, <1>6, <1>7, <1>9, <1>z, RingDataStay
<1>11. /\ u.w_buf_curr = io.w_buf_curr /\ u.w_buf_next = io.w_buf_next
       /\ u.w_xfer = io.w_xfer /\ u.xfers = io.xfers
  BY <1>6, <1>9 DEF SameRing
<1>12. Len(io.xfers) = io.w_xfer + 1 /\ Len(sent) = Len(io.xfers)
  <2>1. Len(io.xfers) = io.w_xfer + 1
    BY <1>1, <1>2, <1>3, StateOfTable
  <2>2. ~io.sod_pending
    BY <1>1, <1>2 DEF Modes
  <2> QED
    BY <1>1, <1>2, <2>1, <2>2 DEF Asked
<1>13. StartAddr(io.xfers[io.w_xfer + 1]) < z
  <2> DEFINE a == StartAddr(io.xfers[io.w_xfer + 1])
             o == Address(io.w_buf_curr, 0)
  <2>1. a \in Nat /\ a <= o
    BY <1>2, <1>3, <1>12, StartsByNow
  <2>2. o \in Int /\ z = o + m
    BY <1>z
  <2> HIDE DEF a, o
  <2>3. a < z
    BY <1>m, <2>1, <2>2
  <2> QED
    BY <2>3 DEF a
<1>14. io.w_buf_next = io.w_buf_curr + 1
  BY <1>1, <1>4 DEF HoldsOpen
<1>15. /\ RingOK(rd, p) /\ Data(rd, p, addr', sent', z)
       /\ sent' \in Seq(SentRec)
       /\ BlockEnded(u, m, p)
  <2>1. u.state = "WRITING" /\ ~u.err /\ ~u.sod_pending
    BY <1>8, <1>9
  <2>2. Len(u.xfers) = u.w_xfer + 1 /\ Len(sent) = Len(u.xfers)
    BY <1>11, <1>12
  <2>3. z = Address(u.w_buf_curr, m) /\ StartAddr(u.xfers[u.w_xfer + 1]) < z
    BY <1>11, <1>13 DEF z
  <2>4. u.w_buf_curr < u.w_buf_next
    BY <1>3, <1>11, <1>14
  <2>5. sent' = [sent EXCEPT ![Len(sent)].to = Len(addr')]
    BY <1>1, <1>5
  <2>6. p = ipcio_check_pending_sod(ipcbuf_mark_filled(u, m))
    OBVIOUS
  <2> HIDE DEF p
  <2>7. /\ addr' \in AddrSeq /\ sent \in Seq(SentRec) /\ z \in Int /\ m \in 0 .. BufSz
        /\ rd \in ReaderRec /\ u \in IoRec
    BY <1>3, <1>5, <1>9, <1>z
  <2>8. /\ u.state = "WCHANGE" \/ (u.state = "WRITING" /\ m < BufSz)
        /\ m = 0 => GetReady(u) /\ u.w_buf_next - u.w_buf_curr < NBufs - 1
        /\ m # 0 => u.w_buf_curr < u.w_buf_next
    BY <1>m, <2>1, <2>4
  <2> DEFINE tt == [sent EXCEPT ![Len(sent)].to = Len(addr')]
  <2> HIDE DEF tt
  <2>9. tt = [sent EXCEPT ![Len(sent)].to = Len(addr')]
    BY DEF tt
  <2>10. EndedWith(rd, u, m, addr', z, p, tt)
    BY <1>10, <2>1, <2>2, <2>3, <2>6, <2>7, <2>8, <2>9, EndBlock
  <2> QED
    BY <2>5, <2>9, <2>10 DEF EndedWith
<1>e. /\ p \in IoRec
      /\ Base(p) = u.w_buf_curr + 1
      /\ SameHandle(u, p) /\ p.mem = u.mem
      /\ p.state = "WRITER" /\ p.w_state = "DISCON"
      /\ p.w_buf_curr = u.w_buf_curr + 1
      /\ p.w_buf_next = u.w_buf_next
      /\ p.w_xfer = u.w_xfer + 1 /\ Len(p.xfers) = Len(u.xfers)
      /\ \A k \in 1 .. u.w_xfer : p.xfers[k] = u.xfers[k]
      /\ StartAddr(p.xfers[u.w_xfer + 1]) = StartAddr(u.xfers[u.w_xfer + 1])
  <2> HIDE DEF p
  <2> QED
    BY <1>m, <1>15 DEF BlockEnded
<1>16. io' \in IoRec /\ NextHeld(p, io')
  <2>1. p \in IoRec /\ ~p.err /\ p.buf_ptrs # <<>>
    BY <1>1, <1>8, <1>9, <1>15, <1>e DEF SameHandle
  <2> QED
    BY <1>d, <1>6, <1>8, <2>1, CloseBlockIs DEF u
<1> HIDE DEF p
<1>17. /\ SameRing(p, io') /\ io'.mem = p.mem /\ io'.rdwrt = "W" /\ io'.bytes = 0
       /\ io'.buf_ptrs = <<>> /\ io'.curbuf = NoBuf /\ io'.marked_filled
       /\ ~io'.sod_pending /\ ~io'.err
       /\ io'.state = "WRITER" /\ io'.w_state = "DISCON"
  <2>1. p.buf_ptrs = io.buf_ptrs /\ p.rdwrt = "W" /\ ~p.sod_pending /\ ~p.err
    BY <1>8, <1>9, <1>15, <1>e DEF SameHandle
  <2>2. Tail(io.buf_ptrs) = <<>>
    <3>1. io.buf_ptrs \in Seq(Ring)
      BY <1>3, IoTypes
    <3> QED
      BY <1>1, <3>1, TailOfOne
  <2> QED
    BY <1>15, <1>e, <1>16, <2>1, <2>2 DEF NextHeld
<1>18. /\ io'.w_buf_curr = io.w_buf_curr + 1 /\ io'.w_buf_next = io.w_buf_curr + 1
       /\ io'.xfers = p.xfers /\ io'.w_xfer = io.w_xfer + 1
  BY <1>11, <1>14, <1>15, <1>e, <1>17 DEF SameRing
<1>19. RingOK(rd, io') /\ Data(rd, io', addr', sent', z) /\ Base(io') = io.w_buf_curr + 1
  BY <1>3, <1>5, <1>11, <1>15, <1>e, <1>16, <1>17, <1>z, RingDataStay
<1>20. NextAddr(io') = Address(io.w_buf_curr + 1, 0)
  BY <1>17, <1>18 DEF NextAddr
<1>21. Data(rd, io', addr', sent', NextAddr(io'))
  <2> DEFINE y == Address(io.w_buf_curr + 1, 0)
             o == Address(io.w_buf_curr, 0)
  <2>1. o \in Int /\ z = o + m /\ y = o + BufSz
    BY <1>z
  <2> HIDE DEF o, y
  <2>2. y \in Int /\ z <= y
    BY <1>3, <1>m, <2>1
  <2>3. Base(io') \in Int /\ y = Address(Base(io'), 0)
    BY <1>3, <1>19 DEF y
  <2>4. y <= Address(Base(io'), 0)
    BY <2>2, <2>3
  <2>5. Data(rd, io', addr', sent', y)
    BY <1>5, <1>19, <1>z, <2>2, <2>3, <2>4, DataLater
  <2> QED
    BY <1>20, <2>5 DEF y
<1>22. Modes(io') /\ Asked(io', sent')
  <2>1. Len(io'.xfers) = io'.w_xfer /\ Len(io'.xfers) # io'.w_xfer + 1
        /\ Len(sent') = Len(sent)
    BY <1>1, <1>3, <1>11, <1>12, <1>15, <1>e, <1>18
  <2>2. Modes(io')
    BY <1>17, <2>1 DEF Modes
  <2>3. Asked(io', sent')
    BY <1>11, <1>12, <1>15, <1>e, <1>17, <1>18, <2>1 DEF Asked
  <2> QED
    BY <2>2, <2>3
<1>23. HandleOK(io')
  <2>1. FillsOne(io')
    BY <1>17, <1>18 DEF FillsOne
  <2> QED
    BY <1>17, <1>22, <2>1 DEF HandleOK, Filling
<1>24. Calls'
  BY <1>1, <1>17 DEF Calls
<1>25. Follows
  <2>1. n + m <= Len(addr')
    <3>1. n + m \in Int
      BY <1>3, <1>m
    <3> QED
      BY <1>5, <3>1
  <2>2. Len(io'.xfers) = Len(io.xfers) /\ \A k \in 1 .. io.w_xfer : io'.xfers[k] = io.xfers[k]
    BY <1>11, <1>15, <1>e, <1>18
  <2>3. StartAddr(io'.xfers[io.w_xfer + 1]) = StartAddr(io.xfers[io.w_xfer + 1])
    BY <1>11, <1>15, <1>e, <1>18
  <2>4. \A v \in 1 .. n, k \in 1 .. Len(io.xfers) :
           addr[v] = sent[k].at => addr'[v] = addr[v]
    BY <1>5
  <2> QED
    BY <1>1, <1>12, <1>m, <2>1, <2>2, <2>3, <2>4, FollowsEnded
<1> QED
  BY <1>1, <1>3, <1>5, <1>15, <1>e, <1>16, <1>19, <1>21, <1>22, <1>23, <1>24, <1>25, WriterKeeps

(* A product of a difference, and a product of numbers.                    *)
LEMMA TimesMinus ==
  ASSUME NEW a \in Int, NEW b \in Int, NEW z \in Int
  PROVE  (a - b) * z = a * z - b * z /\ a * z \in Int /\ b * z \in Int
OBVIOUS

(* Products of natural numbers are natural numbers.                        *)
LEMMA TimesNat ==
  ASSUME NEW a \in Nat, NEW z \in Nat
  PROVE  a * z \in Nat
OBVIOUS

(* The blocks held open are the last of those in the ring.                 *)
LEMMA PlacesHeld ==
  ASSUME NEW q \in Seq(Ring), NEW c \in Nat, NEW x \in Nat,
         x = c + Len(q), Len(q) < NBufs,
         \A i \in 1 .. Len(q) : q[i] = (c + i - 1) % NBufs,
         NEW b \in x - NBufs .. x - 1, b >= c
  PROVE  b - c + 1 \in 1 .. Len(q) /\ q[b - c + 1] = b % NBufs
<1> DEFINE L == Len(q)
<1>1. L \in Nat /\ NBufs \in Nat \ {0} /\ x = c + L /\ L < NBufs /\ b \in Int
  BY RingPlaces
<1>2. b >= x - NBufs /\ b < x
  BY <1>1
<1>3. \A i \in 1 .. L : q[i] = (c + i - 1) % NBufs
  OBVIOUS
<1> HIDE DEF L
<1> DEFINE i == b - c + 1
<1>4. i \in 1 .. L /\ c + i - 1 = b
  BY <1>1, <1>2
<1> HIDE DEF i
<1>5. q[i] = b % NBufs
  BY <1>3, <1>4
<1> QED
  BY <1>4, <1>5 DEF L, i

(* The blocks held open are those after the ones that were filled.         *)
LEMMA PlaceOfHeld ==
  ASSUME NEW q \in Seq(Ring), NEW c \in Nat, NEW x \in Nat,
         x = c + Len(q), Len(q) < NBufs,
         \A i \in 1 .. Len(q) : q[i] = (c + i - 1) % NBufs,
         NEW b \in x - NBufs .. x - 1,
         NEW i \in 1 .. Len(q), q[i] = b % NBufs
  PROVE  i = b - c + 1
<1> DEFINE L == Len(q)
<1>1. L \in Nat /\ NBufs \in Nat \ {0} /\ x = c + L /\ L < NBufs /\ b \in Int
  BY RingPlaces
<1>2. b >= x - NBufs /\ b < x
  BY <1>1
<1>3. q[i] = (c + i - 1) % NBufs /\ i \in 1 .. L
  OBVIOUS
<1> HIDE DEF L
<1> DEFINE a == c + i - 1
           s == x - NBufs
<1>4. s \in Int /\ a \in Int /\ i \in Int
  BY <1>1, <1>3
<1>5. a \in s .. s + NBufs - 1 /\ b \in s .. s + NBufs - 1
  BY <1>1, <1>2, <1>3
<1>6. a % NBufs = b % NBufs
  BY <1>3
<1> HIDE DEF a, s
<1>7. a = b
  BY <1>1, <1>4, <1>5, <1>6, OwnPlaceAmong
<1>8. c + i - 1 = b
  BY <1>7 DEF a
<1> QED
  BY <1>1, <1>4, <1>8

(* The memory after the client has stored bytes in all the blocks it       *)
(* holds.                                                                  *)
HeldMem ==
  [b \in Ring |->
     IF b \in Range(io.buf_ptrs)
       THEN LET i == CHOOSE i \in DOMAIN io.buf_ptrs : io.buf_ptrs[i] = b IN
            [j \in 0 .. BufSz - 1 |-> n + (i - 1) * BufSz + j + 1]
       ELSE io.mem[b]]

(* The client stores bytes in all the blocks it holds open.                *)
LEMMA StoredFilled == Stored = Filled(io, HeldMem)
BY DEF Stored, Filled, HeldMem

(* The memory with the bytes stored in the blocks held open.               *)
LEMMA HeldMemIs ==
  ASSUME IoInv
  PROVE  /\ HeldMem \in [Ring -> [0 .. BufSz - 1 -> Nat]]
         /\ \A b \in Ring :
              /\ b \notin Range(io.buf_ptrs) => HeldMem[b] = io.mem[b]
              /\ b \in Range(io.buf_ptrs) =>
                   \E i \in 1 .. Len(io.buf_ptrs) :
                     /\ io.buf_ptrs[i] = b
                     /\ \A j \in 0 .. BufSz - 1 :
                          HeldMem[b][j] = n + (i - 1) * BufSz + j + 1
<1>1. /\ io \in IoRec /\ n \in Nat /\ BufSz \in Nat \ {0}
  BY NowTypes
<1>2. /\ io.buf_ptrs \in Seq(Ring) /\ DOMAIN io.buf_ptrs = 1 .. Len(io.buf_ptrs)
      /\ Len(io.buf_ptrs) \in Nat
      /\ io.mem \in [Ring -> [0 .. BufSz - 1 -> Nat]]
  BY <1>1, IoTypes
<1>3. ASSUME NEW b \in Ring, b \in Range(io.buf_ptrs)
      PROVE  \E i \in 1 .. Len(io.buf_ptrs) :
               /\ io.buf_ptrs[i] = b
               /\ HeldMem[b] = [j \in 0 .. BufSz - 1 |-> n + (i - 1) * BufSz + j + 1]
  <2> DEFINE i == CHOOSE i \in DOMAIN io.buf_ptrs : io.buf_ptrs[i] = b
  <2>1. i \in DOMAIN io.buf_ptrs /\ io.buf_ptrs[i] = b
    BY <1>3 DEF Range
  <2>2. HeldMem[b] = [j \in 0 .. BufSz - 1 |-> n + (i - 1) * BufSz + j + 1]
    BY <1>3 DEF HeldMem
  <2> QED
    BY <1>2, <2>1, <2>2
<1>4. ASSUME NEW i \in 1 .. Len(io.buf_ptrs)
      PROVE  [j \in 0 .. BufSz - 1 |-> n + (i - 1) * BufSz + j + 1]
               \in [0 .. BufSz - 1 -> Nat]
  <2> DEFINE p == (i - 1) * BufSz
  <2>1. i - 1 \in Nat /\ BufSz \in Nat
    BY <1>1, <1>2
  <2>2. p \in Nat
    BY <2>1, TimesNat
  <2> HIDE DEF p
  <2>3. \A j \in 0 .. BufSz - 1 : n + p + j + 1 \in Nat
    BY <1>1, <2>2
  <2> QED
    BY <2>3 DEF p
<1>5. ASSUME NEW b \in Ring
      PROVE  HeldMem[b] \in [0 .. BufSz - 1 -> Nat]
  <2>1. CASE b \in Range(io.buf_ptrs)
    BY ZenonT(40), <1>3, <1>4, <2>1
  <2>2. CASE b \notin Range(io.buf_ptrs)
    BY <1>2, <2>2 DEF HeldMem
  <2> QED
    BY <2>1, <2>2
<1>6. HeldMem \in [Ring -> [0 .. BufSz - 1 -> Nat]]
  BY <1>5 DEF HeldMem
<1>7. \A b \in Ring : b \notin Range(io.buf_ptrs) => HeldMem[b] = io.mem[b]
  BY DEF HeldMem
<1>8. ASSUME NEW b \in Ring, b \in Range(io.buf_ptrs)
      PROVE  \E i \in 1 .. Len(io.buf_ptrs) :
                     /\ io.buf_ptrs[i] = b
                     /\ \A j \in 0 .. BufSz - 1 :
                          HeldMem[b][j] = n + (i - 1) * BufSz + j + 1
  BY ZenonT(40), <1>3, <1>8
<1> QED
  BY <1>6, <1>7, <1>8

(* The blocks held open, and where the bytes go that are stored in them.   *)
LEMMA HeldStores ==
  ASSUME IoInv, HoldsOpen(io), io.buf_ptrs # <<>>
  PROVE  Stores(io, Stored, n, Address(io.w_buf_curr, 0), Held)
<1> DEFINE c == io.w_buf_curr
           x == io.w_buf_next
           q == io.buf_ptrs
           L == Len(q)
           z == Address(c, 0)
<1>1. /\ io \in IoRec /\ n \in Nat /\ BufSz \in Nat \ {0} /\ NBufs \in Nat \ {0}
      /\ c \in Nat /\ x \in Nat /\ q \in Seq(Ring) /\ L \in Nat
  BY NowTypes, IoTypes
<1>2. x = c + L /\ L < NBufs /\ \A i \in 1 .. L : q[i] = (c + i - 1) % NBufs
  <2>1. x = c + L /\ \A i \in 1 .. L : q[i] = (c + i - 1) % NBufs
    BY DEF HoldsOpen
  <2>2. x - c < NBufs
    BY NowInv
  <2> HIDE DEF c, x, L
  <2> QED
    BY <1>1, <2>1, <2>2
<1>3. Stored.mem = HeldMem
  BY <1>1, HeldMemIs, StoredFilled, FilledIs
<1>4. Held = BufSz * L
  BY DEF Held
<1>5. SUFFICES ASSUME NEW b \in x - NBufs .. x - 1, NEW j \in 0 .. BufSz - 1
      PROVE  /\ Address(b, j) \in z .. z + Held - 1 =>
                  HeldMem[b % NBufs][j] = n + 1 + (Address(b, j) - z)
             /\ Address(b, j) < z => HeldMem[b % NBufs][j] = io.mem[b % NBufs][j]
  BY <1>3 DEF Stores
<1>6. /\ b >= c => b - c + 1 \in 1 .. Len(q) /\ q[b - c + 1] = b % NBufs
      /\ \A i \in 1 .. Len(q) : q[i] = b % NBufs => i = b - c + 1
  <2>1. /\ q \in Seq(Ring) /\ c \in Nat /\ x \in Nat /\ x = c + Len(q) /\ Len(q) < NBufs
        /\ \A i \in 1 .. Len(q) : q[i] = (c + i - 1) % NBufs
        /\ b \in x - NBufs .. x - 1
    BY <1>1, <1>2
  <2> HIDE DEF c, x, q
  <2>2. b >= c => b - c + 1 \in 1 .. Len(q) /\ q[b - c + 1] = b % NBufs
    BY <2>1, PlacesHeld
  <2>3. ASSUME NEW i \in 1 .. Len(q), q[i] = b % NBufs
        PROVE  i = b - c + 1
    BY <2>1, <2>3, PlaceOfHeld
  <2> QED
    BY <2>2, <2>3
<1>7. b \in Int /\ c \in Int /\ j \in Int /\ b % NBufs \in Ring /\ z \in Int
      /\ Address(b, j) = b * BufSz + j /\ z = c * BufSz
      /\ Range(q) = {q[i] : i \in 1 .. Len(q)}
  <2>1. b \in Int /\ c \in Int /\ j \in Int
    BY <1>1
  <2>2. Range(q) = {q[i] : i \in 1 .. Len(q)}
    BY <1>1 DEF Range
  <2> QED
    BY <2>1, <2>2, PlaceInRing, AddressType DEF Address
<1>8. ASSUME Address(b, j) < z
      PROVE  HeldMem[b % NBufs][j] = io.mem[b % NBufs][j]
  <2>1. b < c
    BY <1>7, <1>8, InBlock
  <2>2. b % NBufs \notin Range(q)
    <3> SUFFICES ASSUME NEW i \in 1 .. Len(q), q[i] = b % NBufs PROVE FALSE
      BY <1>7
    <3>1. i = b - c + 1
      BY <1>6
    <3>2. i \in Int /\ i >= 1
      BY <1>1
    <3> HIDE DEF c
    <3> QED
      BY <1>7, <2>1, <3>1, <3>2
  <2> QED
    BY <1>7, <2>2, HeldMemIs
<1>9. ASSUME Address(b, j) \in z .. z + Held - 1
      PROVE  HeldMem[b % NBufs][j] = n + 1 + (Address(b, j) - z)
  <2>1. ~(b < c)
    <3>1. ~(Address(b, j) < z)
      <4>1. Address(b, j) \in Int /\ z <= Address(b, j)
        BY <1>9
      <4> HIDE DEF z
      <4> QED
        BY <1>7, <4>1
    <3> QED
      BY <1>7, <3>1, InBlock
  <2>2. b >= c
    <3> HIDE DEF c
    <3> QED
      BY <1>7, <2>1
  <2>3. b % NBufs \in Range(q)
    BY <1>6, <1>7, <2>2
  <2>4. PICK i \in 1 .. Len(q) :
          /\ q[i] = b % NBufs
          /\ \A k \in 0 .. BufSz - 1 :
               HeldMem[b % NBufs][k] = n + (i - 1) * BufSz + k + 1
    BY <1>7, <2>3, HeldMemIs
  <2>5. i = b - c + 1
    BY <1>6, <2>4
  <2>6. HeldMem[b % NBufs][j] = n + (i - 1) * BufSz + j + 1
    BY <2>4
  <2>7. i - 1 = b - c
    <3> HIDE DEF c
    <3> QED
      BY <1>7, <2>5
  <2>8. (b - c) * BufSz = b * BufSz - c * BufSz /\ b * BufSz \in Int /\ c * BufSz \in Int
    <3>1. BufSz \in Int
      BY <1>1
    <3> HIDE DEF c
    <3> QED
      BY <1>7, <3>1, TimesMinus
  <2> DEFINE B == b * BufSz
             C == c * BufSz
             h == HeldMem[b % NBufs][j]
  <2>9. h = n + (B - C) + j + 1 /\ B \in Int /\ C \in Int
    BY <2>6, <2>7, <2>8
  <2>10. Address(b, j) - z = (B + j) - C
    BY <1>7
  <2> HIDE DEF B, C, h
  <2>11. h = n + 1 + ((B + j) - C)
    BY <1>1, <1>7, <2>9
  <2> QED
    BY <2>10, <2>11 DEF h
<1> QED
  BY <1>8, <1>9

(* The bytes the client stored in the blocks it holds open, if it holds    *)
(* any.                                                                    *)
LEMMA HeldNumber ==
  ASSUME IoInv
  PROVE  /\ Held \in Nat /\ Held = BufSz * Len(io.buf_ptrs)
         /\ io.buf_ptrs = <<>> => Held = 0
         /\ io.buf_ptrs # <<>> => Held >= BufSz /\ Held >= 1
         /\ Address(io.w_buf_curr, 0) + Held
              = Address(io.w_buf_curr + Len(io.buf_ptrs), 0)
<1> DEFINE L == Len(io.buf_ptrs)
           c == io.w_buf_curr
<1>1. /\ io \in IoRec /\ BufSz \in Nat \ {0} /\ c \in Nat
      /\ L \in Nat /\ io.buf_ptrs \in Seq(Ring)
  BY NowTypes, IoTypes
<1>2. (io.buf_ptrs = <<>> => L = 0) /\ (io.buf_ptrs # <<>> => L >= 1)
  BY <1>1
<1>3. Held = BufSz * L
  BY DEF Held
<1> HIDE DEF L, c
<1>4. BufSz * L \in Nat /\ BufSz * L = L * BufSz
  <2>1. L * BufSz \in Nat
    BY <1>1, TimesNat
  <2>2. L * BufSz = BufSz * L
    BY <1>1
  <2> QED
    BY <2>1, <2>2
<1>5. L = 0 => BufSz * L = 0
  BY <1>1
<1>6. L >= 1 => BufSz * L >= BufSz
  <2> SUFFICES ASSUME L >= 1 PROVE BufSz * L >= BufSz
    OBVIOUS
  <2> DEFINE k == L - 1
  <2>1. k \in Nat /\ L = k + 1
    BY <1>1
  <2> HIDE DEF k
  <2>2. BufSz * (k + 1) = BufSz * k + BufSz
    BY <1>1, <2>1
  <2>3. BufSz * k \in Nat
    <3>1. k * BufSz \in Nat /\ k * BufSz = BufSz * k
      BY <1>1, <2>1, TimesNat
    <3> QED
      BY <3>1
  <2> DEFINE p == BufSz * k
             h == BufSz * L
  <2>4. h = p + BufSz /\ p \in Nat
    BY <2>1, <2>2, <2>3
  <2> HIDE DEF p, h
  <2>5. h >= BufSz
    BY <1>1, <2>4
  <2> QED
    BY <2>5 DEF h
<1>7. Address(c, 0) + BufSz * L = Address(c + L, 0)
  <2>1. c \in Int /\ c + L \in Int /\ L \in Int /\ BufSz \in Int
    BY <1>1
  <2>2. Address(c, 0) = c * BufSz /\ Address(c + L, 0) = (c + L) * BufSz
    BY <2>1, AddressZero
  <2>3. (c + L) * BufSz = c * BufSz + BufSz * L
    BY <2>1
  <2> QED
    BY <2>2, <2>3
<1> DEFINE h == BufSz * L
<1>8. Held = h /\ h \in Nat /\ (L = 0 => h = 0) /\ (L >= 1 => h >= BufSz)
  BY <1>3, <1>4, <1>5, <1>6
<1> HIDE DEF h
<1>9. L >= 1 => h >= 1
  BY <1>1, <1>8
<1> QED
  BY <1>2, <1>3, <1>7, <1>8, <1>9 DEF L, c, h

(* Nothing is stored if the client holds no block.                         *)
LEMMA NoneStored ==
  ASSUME IoInv, io.buf_ptrs = <<>>, NEW z \in Int
  PROVE  Stores(io, Stored, n, z, 0)
<1>1. /\ io \in IoRec /\ io.buf_ptrs \in Seq(Ring) /\ io.w_buf_next \in Nat
      /\ NBufs \in Nat \ {0}
  BY NowTypes, IoTypes
<1>2. Stored.mem = HeldMem
  BY <1>1, HeldMemIs, StoredFilled, FilledIs
<1>3. Range(io.buf_ptrs) = {}
  BY DEF Range
<1>4. \A b \in Ring : HeldMem[b] = io.mem[b]
  BY <1>3, HeldMemIs
<1>5. SUFFICES ASSUME NEW b \in io.w_buf_next - NBufs .. io.w_buf_next - 1,
                      NEW j \in 0 .. BufSz - 1
      PROVE  /\ Address(b, j) \in z .. z + 0 - 1 =>
                  HeldMem[b % NBufs][j] = n + 1 + (Address(b, j) - z)
             /\ Address(b, j) < z => HeldMem[b % NBufs][j] = io.mem[b % NBufs][j]
  BY <1>2 DEF Stores
<1>6. b % NBufs \in Ring /\ Address(b, j) \in Int
  <2>1. b \in Int /\ j \in Int
    BY <1>1
  <2> QED
    BY <2>1, PlaceInRing, AddressType
<1>7. HeldMem[b % NBufs] = io.mem[b % NBufs]
  BY <1>4, <1>6
<1>8. ~(Address(b, j) \in z .. z + 0 - 1)
  BY <1>6
<1> QED
  BY <1>7, <1>8

(* The handle and the ring before ipcio_stop and ipcio_close.              *)
LEMMA StoredNow ==
  ASSUME IoInv, io.rdwrt \in {"w", "W"}, NextAddr(io) \in Nat,
         NEW ad, ad = addr \o Addresses(io.w_buf_curr, 0, Held)
  PROVE  /\ Stored \in IoRec /\ SameRing(io, Stored) /\ SameHandle(io, Stored)
         /\ Stored.state = io.state /\ Stored.w_state = io.w_state
         /\ RingOK(rd, Stored)
         /\ ad \in AddrSeq /\ Len(ad) = n + Held
         /\ \A v \in 1 .. n : ad[v] = addr[v]
         /\ Data(rd, Stored, ad, sent, NextAddr(io) + Held)
<1> DEFINE c == io.w_buf_curr
           z == NextAddr(io)
           new == Addresses(c, 0, Held)
           m == Held
           e == Stored
<1>1. /\ io \in IoRec /\ rd \in ReaderRec /\ addr \in AddrSeq /\ n \in Nat /\ n = Len(addr)
      /\ c \in Nat /\ m \in Nat /\ z \in Nat
  BY NowTypes, HeldNumber
<1>2. RingOK(rd, io) /\ Table(io) /\ Data(rd, io, addr, sent, z)
  BY NowInv
<1>3. /\ e \in IoRec /\ SameRing(io, e) /\ SameHandle(io, e)
      /\ e.state = io.state /\ e.w_state = io.w_state
  BY <1>1, HeldMemIs, StoredFilled, FilledIs
<1>4. Stores(io, e, n, z, m)
  <2>1. CASE io.buf_ptrs = <<>>
    <3>1. m = 0
      BY <2>1, HeldNumber
    <3> QED
      BY <2>1, <3>1, NoneStored
  <2>2. CASE io.buf_ptrs # <<>>
    <3>1. HoldsOpen(io)
      BY <2>2, NowInv DEF Filling
    <3>2. z = Address(c, 0)
      BY <3>1 DEF HoldsOpen, NextAddr
    <3> QED
      BY <2>2, <3>1, <3>2, HeldStores
  <2> QED
    BY <2>1, <2>2
<1>6. new \in Seq(Int) /\ Len(new) = m /\ \A j \in 1 .. m : new[j] = z + j - 1
  <2>1. c \in Int /\ 0 \in Int
    BY <1>1
  <2>2. new \in Seq(Int) /\ Len(new) = m /\ \A j \in 1 .. m : new[j] = Address(c, 0) + j - 1
    BY <1>1, <2>1, AddressesAre
  <2>3. CASE io.buf_ptrs = <<>>
    <3>1. m = 0
      BY <2>3, HeldNumber
    <3>2. \A j \in 1 .. m : FALSE
      BY <3>1
    <3> HIDE DEF new, m, z
    <3> QED
      BY <2>2, <3>2
  <2>4. CASE io.buf_ptrs # <<>>
    <3>1. HoldsOpen(io)
      BY <2>4, NowInv DEF Filling
    <3>2. z = Address(c, 0)
      BY <3>1 DEF HoldsOpen, NextAddr
    <3> QED
      BY <2>2, <3>2
  <2> QED
    BY <2>3, <2>4
<1> HIDE DEF new, z, m, c, e
<1>7. ad = addr \o new
  BY DEF new, c, m
<1>8. addr \o new \in AddrSeq
  BY <1>1, <1>6, AddedBytes
<1>14. Len(addr \o new) = Len(addr) + m
  BY <1>1, <1>6, AddedBytes
<1>9. \A v \in 1 .. Len(addr) : (addr \o new)[v] = addr[v]
  BY <1>1, <1>6, AddedBytes
<1>10. e.xfers = io.xfers /\ e.w_xfer = io.w_xfer /\ e.w_buf_next = io.w_buf_next
  BY <1>3 DEF SameRing
<1>11. Stores(io, e, Len(addr), z, m)
  BY <1>1, <1>4
<1>12. Data(rd, e, addr \o new, sent, z + m)
  BY <1>1, <1>2, <1>3, <1>6, <1>10, <1>11, DataStore
<1>13. RingOK(rd, e)
  BY <1>1, <1>2, <1>3, RingStay
<1> QED
  BY <1>1, <1>3, <1>7, <1>8, <1>9, <1>12, <1>13, <1>14 DEF e, m, z

(* The address of the byte written next.                                   *)
LEMMA NextAddrNat ==
  ASSUME IoInv
  PROVE  NextAddr(io) \in Nat
<1>1. /\ io \in IoRec /\ io.w_buf_curr \in Nat /\ io.bytes \in Nat
      /\ io.w_xfer \in Nat
  BY NowTypes
<1>2. CASE io.rdwrt # "0" /\ io.marked_filled /\ io.bytes > 0
  <2>1. io.buf_ptrs = <<>>
    BY <1>2, NowInv DEF Filling, HoldsOpen
  <2>2. io.w_xfer > 0 /\ Base(io) = io.w_buf_curr
    BY <1>2, <2>1, NowInv DEF Filling, FillsOne
  <2>3. io.w_xfer \in 1 .. Len(io.xfers)
    <3>1. io.w_xfer \in 1 .. io.w_xfer
      BY <1>1, <2>2
    <3> QED
      BY <1>1, <3>1, NowInv, TableNumbers
  <2>4. io.xfers[io.w_xfer].e_buf \in Nat
    BY <1>1, <2>3, XferTypes
  <2>5. Base(io) = io.xfers[io.w_xfer].e_buf + 1
    BY <1>1, <2>2 DEF Base
  <2>6. io.w_buf_curr - 1 \in Nat
    BY <2>2, <2>4, <2>5
  <2>7. Address(io.w_buf_curr - 1, io.bytes) \in Nat
    BY <1>1, <2>6, AddressNat
  <2> QED
    BY <1>2, <2>7 DEF NextAddr
<1>3. CASE ~(io.rdwrt # "0" /\ io.marked_filled /\ io.bytes > 0)
  <2>1. Address(io.w_buf_curr, io.bytes) \in Nat /\ Address(io.w_buf_curr, 0) \in Nat
    BY <1>1, AddressNat
  <2> QED
    BY <1>3, <2>1 DEF NextAddr
<1> QED
  BY <1>2, <1>3

(* The blocks held open are closed as full ones.                           *)
BlocksClosed(d, e) ==
  LET L == Len(d.buf_ptrs) IN
  /\ e \in IoRec /\ RingOK(rd, e) /\ Base(e) = Base(d) /\ Due(rd, e) = Due(rd, d)
  /\ e.w_buf_curr = d.w_buf_curr + L /\ e.w_buf_next = d.w_buf_next
  /\ e.xfers = d.xfers /\ e.w_xfer = d.w_xfer /\ e.CLEAR = d.CLEAR /\ e.mem = d.mem
  /\ e.buf_ptrs = <<>> /\ e.rdwrt = d.rdwrt /\ e.bytes = d.bytes /\ e.err = d.err
  /\ e.sod_pending = d.sod_pending /\ e.state = d.state
  /\ e.curbuf = (IF L = 0 THEN d.curbuf ELSE NoBuf)
  /\ e.marked_filled = (IF L = 0 THEN d.marked_filled ELSE TRUE)
  /\ e.count = [k \in Ring |-> d.count[k] +
        (IF \E i \in 0 .. L - 1 : k = (d.w_buf_curr + i) % NBufs THEN 1 ELSE 0)]

(* ipcio_stop and ipcio_close close all blocks held open as full ones.     *)
LEMMA CloseBlocksEffect ==
  ASSUME NEW d \in IoRec, rd \in ReaderRec, HoldsBlocks(d), RingOK(rd, d),
         Len(d.xfers) = d.w_xfer + 1,
         Len(d.buf_ptrs) <= d.w_buf_next - d.w_buf_curr
  PROVE  BlocksClosed(d, CloseBlocks(d))
<1> DEFINE L == Len(d.buf_ptrs)
           e == Closing(d, L)
<1>1. /\ d.buf_ptrs \in Seq(Ring) /\ L \in Nat /\ L \in 0 .. Len(d.buf_ptrs)
      /\ d.count \in [Ring -> Nat]
  BY IoTypes
<1>2. CloseBlocks(d) = e
  BY CloseBlocksIs
<1>3. /\ e \in IoRec
      /\ e.count = [k \in Ring |-> d.count[k] +
              (IF \E i \in 0 .. L - 1 : k = (d.w_buf_curr + i) % NBufs THEN 1 ELSE 0)]
      /\ e.w_buf_curr = d.w_buf_curr + L /\ e.FULL = d.FULL + L
      /\ e.buf_ptrs = SubSeq(d.buf_ptrs, L + 1, Len(d.buf_ptrs))
      /\ e.curbuf = (IF L = 0 THEN d.curbuf
                     ELSE IF L = Len(d.buf_ptrs) THEN NoBuf ELSE d.buf_ptrs[L + 1])
      /\ e.marked_filled = (IF L = 0 THEN d.marked_filled ELSE L = Len(d.buf_ptrs))
      /\ e.rdwrt = d.rdwrt /\ e.bytes = d.bytes /\ e.sod_pending = d.sod_pending
      /\ e.state = d.state /\ e.soclock_buf = d.soclock_buf
      /\ e.w_buf_next = d.w_buf_next /\ e.w_xfer = d.w_xfer /\ e.xfers = d.xfers
      /\ e.CLEAR = d.CLEAR /\ e.mem = d.mem /\ e.err = d.err
  BY <1>1, ClosingFields
<1> HIDE DEF e
<1>4. e.buf_ptrs = <<>>
  <2>1. SubSeq(d.buf_ptrs, L + 1, L) = <<>>
    BY <1>1
  <2> QED
    BY <1>3, <2>1
<1>5. BlocksFilled(d, e, L)
  <2>1. \A k \in Ring : e.count[k] = d.count[k]
         + (IF \E j \in 0 .. L - 1 : k = (d.w_buf_curr + j) % NBufs THEN 1 ELSE 0)
    BY <1>3
  <2> HIDE DEF L
  <2> QED
    BY <1>3, <2>1 DEF BlocksFilled, Handed
<1>6. RingOK(rd, e)
  <2>1. L <= d.w_buf_next - d.w_buf_curr
    OBVIOUS
  <2> HIDE DEF L
  <2> QED
    BY <1>1, <1>3, <1>5, <2>1, RingFill
<1>7. Base(e) = Base(d) /\ Due(rd, e) = Due(rd, d)
  <2>1. Place(rd, d)
    BY DEF RingOK
  <2>2. d.w_buf_curr <= e.w_buf_curr
    <3>1. d.w_buf_curr \in Nat
      BY IoTypes
    <3> HIDE DEF L
    <3> QED
      BY <1>1, <1>3, <3>1
  <2> QED
    BY <1>3, <2>1, <2>2, PlaceKept
<1>8. /\ e.curbuf = (IF L = 0 THEN d.curbuf ELSE NoBuf)
      /\ e.marked_filled = (IF L = 0 THEN d.marked_filled ELSE TRUE)
  BY <1>3
<1> QED
  BY <1>2, <1>3, <1>4, <1>6, <1>7, <1>8 DEF BlocksClosed

(* The same for what the client stored, and the next block that is asked   *)
(* for.                                                                    *)
LEMMA ClosedNow ==
  ASSUME IoInv, io.rdwrt = "W", io.state = "WRITING", StopReady(io)
  PROVE  LET e == CloseBlocks(Stored) IN
         /\ BlocksClosed(Stored, e)
         /\ io.bytes = 0 => GetReady(e)
<1> DEFINE e == CloseBlocks(Stored)
           f == CloseBlocks(io)
<1>1. /\ io \in IoRec /\ rd \in ReaderRec /\ io.w_buf_curr \in Nat
      /\ io.w_buf_next \in Nat /\ io.buf_ptrs \in Seq(Ring)
      /\ Len(io.buf_ptrs) \in Nat /\ NBufs \in Nat \ {0}
  BY NowTypes, IoTypes
<1>2. /\ RingOK(rd, io) /\ Modes(io) /\ Filling(io) /\ Table(io)
      /\ io.w_buf_curr <= io.w_buf_next
      /\ io.w_buf_next - io.w_buf_curr < NBufs
  BY NowInv
<1>3. /\ Stored \in IoRec /\ SameRing(io, Stored) /\ SameHandle(io, Stored)
      /\ Stored.state = io.state /\ Stored.w_state = io.w_state
      /\ RingOK(rd, Stored)
  <2>1. NextAddr(io) \in Nat
    BY NextAddrNat
  <2> QED
    BY <2>1, StoredNow
<1>4. Len(io.xfers) = io.w_xfer + 1
  BY <1>1, <1>2, StateOfTable
<1>5. io.buf_ptrs # <<>> =>
        HoldsOpen(io) /\ io.curbuf \in Ring
          /\ io.w_buf_next = io.w_buf_curr + Len(io.buf_ptrs)
  <2> SUFFICES ASSUME io.buf_ptrs # <<>>
               PROVE  HoldsOpen(io) /\ io.curbuf \in Ring
                        /\ io.w_buf_next = io.w_buf_curr + Len(io.buf_ptrs)
    OBVIOUS
  <2>1. HoldsOpen(io)
    BY <1>2 DEF Filling
  <2>2. 1 \in 1 .. Len(io.buf_ptrs)
    BY <1>1
  <2>3. io.buf_ptrs[1] \in Ring
    BY <1>1, <2>2
  <2> QED
    BY <2>1, <2>3 DEF HoldsOpen
<1>6. Len(io.buf_ptrs) <= io.w_buf_next - io.w_buf_curr
  <2> DEFINE L == Len(io.buf_ptrs)
  <2>1. io.buf_ptrs = <<>> => L = 0
    OBVIOUS
  <2>2. L = 0 \/ io.w_buf_next = io.w_buf_curr + L
    BY <1>5, <2>1
  <2> HIDE DEF L
  <2>3. L \in Nat
    BY <1>1 DEF L
  <2>4. L <= io.w_buf_next - io.w_buf_curr
    BY <1>1, <1>2, <2>2, <2>3
  <2> QED
    BY <2>4 DEF L
<1>7. HoldsBlocks(io)
  <2>1. Len(io.buf_ptrs) <= NBufs
    BY <1>1, <1>2, <1>6
  <2>2. ~io.err /\ ~io.sod_pending
    BY <1>2 DEF Modes
  <2>3. io.buf_ptrs # <<>> => ~io.marked_filled /\ io.curbuf # NoBuf /\ io.bytes = 0
    BY <1>5, RingPlaces DEF HoldsOpen
  <2> QED
    BY <2>1, <2>2, <2>3 DEF HoldsBlocks
<1>8. HoldsBlocks(Stored)
  BY <1>3, <1>7 DEF HoldsBlocks, SameHandle
<1>9. /\ Stored.xfers = io.xfers /\ Stored.w_xfer = io.w_xfer
      /\ Stored.w_buf_curr = io.w_buf_curr /\ Stored.w_buf_next = io.w_buf_next
      /\ Stored.buf_ptrs = io.buf_ptrs /\ Stored.count = io.count
      /\ Stored.CLEAR = io.CLEAR
  BY <1>3 DEF SameRing, SameHandle
<1> HIDE DEF e, f
<1>10. BlocksClosed(Stored, e)
  BY <1>1, <1>3, <1>4, <1>6, <1>8, <1>9, CloseBlocksEffect DEF e
<1>11. BlocksClosed(io, f)
  BY <1>1, <1>2, <1>4, <1>6, <1>7, CloseBlocksEffect DEF f
<1>12. ASSUME io.bytes = 0
       PROVE  GetReady(e)
  <2>1. f.bytes = 0
    BY <1>11, <1>12 DEF BlocksClosed
  <2>2. GetReady(f)
    BY <2>1 DEF StopReady, f
  <2>3. e.count = f.count /\ e.CLEAR = f.CLEAR /\ e.w_buf_next = f.w_buf_next
    BY <1>9, <1>10, <1>11 DEF BlocksClosed
  <2> QED
    BY <2>2, <2>3 DEF GetReady
<1> QED
  BY <1>10, <1>12 DEF e

(* The record on which end of data is raised, and the handle after that.   *)
Changed(d) == [d EXCEPT !.state = "WCHANGE"]

(* The handle in state WCHANGE.                                            *)
LEMMA ChangedIs ==
  ASSUME NEW d \in IoRec
  PROVE  LET e == Changed(d) IN
         /\ e \in IoRec /\ SameRing(d, e) /\ SameHandle(d, e) /\ e.mem = d.mem
         /\ e.state = "WCHANGE"
<1> DEFINE e == Changed(d)
<1>1. e \in IoRec
  BY DEF IoRec, Changed
<1>2. SameRing(d, e)
  BY DEF IoRec, SameRing, Changed
<1>3. SameHandle(d, e)
  BY DEF IoRec, SameHandle, Changed
<1>4. e.mem = d.mem /\ e.state = "WCHANGE"
  BY DEF IoRec, Changed
<1> QED
  BY <1>1, <1>2, <1>3, <1>4

(* The handle after end of data was raised in ipcio_stop.                  *)
LEMMA EndedIs ==
  ASSUME NEW d \in IoRec
  PROVE  LET e == Ended(d) IN
         /\ e \in IoRec /\ SameRing(d, e) /\ e.mem = d.mem
         /\ e.rdwrt = "w" /\ e.marked_filled /\ e.bytes = d.bytes
         /\ e.curbuf = (IF d.bytes = BufSz THEN NoBuf ELSE d.curbuf)
         /\ e.buf_ptrs = d.buf_ptrs /\ e.sod_pending = d.sod_pending
         /\ e.err = d.err /\ e.state = d.state /\ e.w_state = d.w_state
<1> DEFINE h == IF d.bytes = BufSz THEN NoBuf ELSE d.curbuf
           e == [d EXCEPT !.marked_filled = TRUE, !.curbuf = h, !.rdwrt = "w"]
<1>0. Ended(d) = e
  BY DEF Ended
<1>h. h \in Ring \cup {NoBuf}
  BY DEF IoRec
<1> HIDE DEF h
<1>1. e \in IoRec
  BY <1>h DEF IoRec
<1>2. SameRing(d, e)
  BY DEF IoRec, SameRing
<1>3. /\ e.mem = d.mem
      /\ e.rdwrt = "w" /\ e.marked_filled /\ e.bytes = d.bytes
      /\ e.curbuf = h
      /\ e.buf_ptrs = d.buf_ptrs /\ e.sod_pending = d.sod_pending
      /\ e.err = d.err /\ e.state = d.state /\ e.w_state = d.w_state
  BY DEF IoRec
<1> QED
  BY <1>0, <1>1, <1>2, <1>3 DEF h

(* The handle after ipcio_stop.                                            *)
AtRest(e, ad, st) ==
  /\ e \in IoRec /\ st \in Seq(SentRec)
  /\ RingOK(rd, e) /\ Data(rd, e, ad, st, NextAddr(e))
  /\ Modes(e) /\ Asked(e, st) /\ FillsOne(e)
  /\ e.buf_ptrs = <<>> /\ e.rdwrt = "w" /\ e.state = "WRITER"
  /\ e.curbuf # NoBuf => e.bytes > 0

(* Where a transfer may end: the blocks held open are full; otherwise it   *)
(* ends in the block being filled, or in the next when there is none.      *)
LEMMA EndsHere ==
  ASSUME IoInv, io.rdwrt = "W", io.state = "WRITING", todo = <<>>
  PROVE  /\ io.buf_ptrs # <<>> =>
              /\ io.bytes = 0 /\ io.w_buf_next = io.w_buf_curr + Len(io.buf_ptrs)
              /\ NextAddr(io) = Address(io.w_buf_curr, 0)
         /\ io.buf_ptrs = <<>> =>
              /\ NextAddr(io) = Address(io.w_buf_curr, io.bytes)
              /\ StartAddr(Last(io.xfers)) < NextAddr(io)
              /\ io.bytes = 0 => io.curbuf = NoBuf /\ io.w_buf_next = io.w_buf_curr
              /\ io.bytes # 0 =>
                   /\ io.curbuf # NoBuf /\ io.w_buf_next = io.w_buf_curr + 1
                   /\ io.curbuf = (io.w_buf_next - 1) % NBufs
<1>1. io.bytes \in Nat
  BY NowTypes
<1>2. Filling(io) /\ Calls /\ io.rdwrt # "0"
  BY NowInv
<1>3. ASSUME io.buf_ptrs # <<>>
      PROVE  /\ io.bytes = 0 /\ io.w_buf_next = io.w_buf_curr + Len(io.buf_ptrs)
             /\ NextAddr(io) = Address(io.w_buf_curr, 0)
  BY <1>2, <1>3 DEF Filling, HoldsOpen, NextAddr
<1>4. ASSUME io.buf_ptrs = <<>>
      PROVE  /\ NextAddr(io) = Address(io.w_buf_curr, io.bytes)
             /\ StartAddr(Last(io.xfers)) < NextAddr(io)
             /\ io.bytes = 0 => io.curbuf = NoBuf /\ io.w_buf_next = io.w_buf_curr
             /\ io.bytes # 0 =>
                   /\ io.curbuf # NoBuf /\ io.w_buf_next = io.w_buf_curr + 1
                   /\ io.curbuf = (io.w_buf_next - 1) % NBufs
  <2>1. FillsOne(io)
    BY <1>2, <1>4 DEF Filling
  <2>2. ~(io.marked_filled /\ io.bytes > 0)
    BY <2>1 DEF FillsOne
  <2>3. NextAddr(io) = Address(io.w_buf_curr, io.bytes)
    BY <1>2, <2>2 DEF NextAddr
  <2>4. StartAddr(Last(io.xfers)) < NextAddr(io) /\ (io.curbuf # NoBuf => io.bytes > 0)
    BY <1>2, <1>4 DEF Calls
  <2>5. io.bytes = 0 => io.curbuf = NoBuf /\ io.w_buf_next = io.w_buf_curr
    BY <2>1, <2>4 DEF FillsOne
  <2>6. io.bytes # 0 =>
          /\ io.curbuf # NoBuf /\ io.w_buf_next = io.w_buf_curr + 1
          /\ io.curbuf = (io.w_buf_next - 1) % NBufs
    <3> SUFFICES ASSUME io.bytes # 0
                 PROVE  /\ io.curbuf # NoBuf /\ io.w_buf_next = io.w_buf_curr + 1
                        /\ io.curbuf = (io.w_buf_next - 1) % NBufs
      OBVIOUS
    <3>1. io.bytes > 0
      BY <1>1
    <3>2. ~io.marked_filled
      BY <2>2, <3>1
    <3>3. io.curbuf # NoBuf
      BY <2>1, <3>2 DEF FillsOne
    <3> QED
      BY <2>1, <3>2, <3>3 DEF FillsOne
  <2> QED
    BY <2>3, <2>4, <2>5, <2>6
<1> QED
  BY <1>3, <1>4

(* The last byte written, and what is before it.                           *)
LEMMA EndPlace ==
  ASSUME IoInv, io.rdwrt = "W", io.state = "WRITING", todo = <<>>
  PROVE  LET c == io.w_buf_curr + Len(io.buf_ptrs)
             z == NextAddr(io) + Held
         IN /\ c \in Nat /\ z \in Nat /\ z = Address(c, io.bytes)
            /\ StartAddr(io.xfers[io.w_xfer + 1]) < z
            /\ c <= io.w_buf_next
            /\ io.bytes = 0 => io.w_buf_next = c
            /\ io.bytes # 0 => io.w_buf_next = c + 1 /\ io.buf_ptrs = <<>>
<1> DEFINE L == Len(io.buf_ptrs)
           c == io.w_buf_curr + L
           z == NextAddr(io) + Held
           a == StartAddr(io.xfers[io.w_xfer + 1])
<1>1. /\ io \in IoRec /\ io.w_buf_curr \in Nat /\ io.w_buf_next \in Nat /\ L \in Nat
      /\ io.bytes \in Nat /\ NextAddr(io) \in Nat /\ Held \in Nat
      /\ io.buf_ptrs = <<>> => L = 0 /\ Held = 0
      /\ io.buf_ptrs # <<>> => Held >= 1
  BY NowTypes, IoTypes, NextAddrNat, HeldNumber
<1>2. Len(io.xfers) = io.w_xfer + 1 /\ Table(io)
  BY <1>1, NowInv, StateOfTable
<1>3. /\ Last(io.xfers) = io.xfers[io.w_xfer + 1] /\ a \in Nat
      /\ a <= Address(io.w_buf_curr, 0)
  BY <1>1, <1>2, StartsByNow
<1>4. CASE io.buf_ptrs # <<>>
  <2>1. /\ io.bytes = 0 /\ io.w_buf_next = c
        /\ NextAddr(io) = Address(io.w_buf_curr, 0)
    BY <1>4, EndsHere
  <2>2. z = Address(c, 0)
    BY <2>1, HeldNumber
  <2>3. a < z
    <3> DEFINE o == NextAddr(io)
               h == Held
    <3>1. a <= o /\ o \in Nat /\ h \in Nat /\ h >= 1 /\ z = o + h
      BY <1>1, <1>3, <1>4, <2>1
    <3> HIDE DEF a, o, h, z
    <3> QED
      BY <1>3, <3>1
  <2>4. c \in Nat /\ z \in Nat
    BY <1>1
  <2> HIDE DEF c, z, a
  <2> QED
    BY <2>1, <2>2, <2>3, <2>4, <1>1 DEF c, z, a
<1>5. CASE io.buf_ptrs = <<>>
  <2>1. /\ NextAddr(io) = Address(io.w_buf_curr, io.bytes)
        /\ StartAddr(Last(io.xfers)) < NextAddr(io)
        /\ io.bytes = 0 => io.curbuf = NoBuf /\ io.w_buf_next = io.w_buf_curr
        /\ io.bytes # 0 => io.w_buf_next = io.w_buf_curr + 1
    BY <1>5, EndsHere
  <2>2. c = io.w_buf_curr /\ z = NextAddr(io)
    BY <1>1, <1>5
  <2>3. c \in Nat /\ z \in Nat /\ a < z /\ z = Address(c, io.bytes)
    BY <1>1, <1>3, <2>1, <2>2
  <2>4. c <= io.w_buf_next
    BY <1>1, <2>1, <2>2
  <2> HIDE DEF c, z, a
  <2> QED
    BY <1>5, <2>1, <2>2, <2>3, <2>4 DEF c, z, a
<1> QED
  BY <1>4, <1>5

(* The table after the transfer ended, compared with the one before.       *)
EndedTable(d, e) ==
  /\ e.w_xfer = d.w_xfer + 1 /\ Len(e.xfers) = Len(d.xfers)
  /\ \A k \in 1 .. d.w_xfer : e.xfers[k] = d.xfers[k]
  /\ StartAddr(e.xfers[d.w_xfer + 1]) = StartAddr(d.xfers[d.w_xfer + 1])

(* End of data is raised after the last byte written.                      *)
LEMMA EodRaisedNow ==
  ASSUME IoInv, StreamClients, io.rdwrt = "W", io.state = "WRITING", todo = <<>>,
         StopReady(io),
         NEW ad, ad = addr \o Addresses(io.w_buf_curr, 0, Held),
         NEW st, st = [sent EXCEPT ![Len(sent)].to = n + Held]
  PROVE  LET p == EndOfData(CloseBlocks(Stored))
             c == io.w_buf_curr + Len(io.buf_ptrs)
         IN /\ p \in IoRec /\ RingOK(rd, p) /\ ~p.err /\ ~p.sod_pending
            /\ Data(rd, p, ad, st, NextAddr(io) + Held)
            /\ st \in Seq(SentRec)
            /\ EndedTable(io, p)
            /\ Base(p) = c + 1 /\ p.w_buf_curr = c + 1 /\ p.w_buf_next = c + 1
            /\ p.state = "WRITER" /\ p.w_state = "DISCON"
            /\ p.bytes = io.bytes /\ p.buf_ptrs = <<>>
            /\ p.curbuf = (IF io.buf_ptrs = <<>> THEN io.curbuf ELSE NoBuf)
<1> DEFINE L == Len(io.buf_ptrs)
           c == io.w_buf_curr + L
           z == NextAddr(io) + Held
           d == CloseBlocks(Stored)
           u == Changed(d)
           p == EndOfData(d)
           y == io.bytes
<1>1. /\ io \in IoRec /\ rd \in ReaderRec /\ addr \in AddrSeq /\ sent \in Seq(SentRec)
      /\ io.w_buf_curr \in Nat /\ io.w_buf_next \in Nat /\ L \in Nat /\ n \in Nat
      /\ y \in 0 .. BufSz /\ y \in Nat /\ NBufs \in Nat \ {0} /\ NBufs > 1
      /\ NextAddr(io) \in Nat /\ io.w_xfer \in Nat /\ Len(io.xfers) \in Nat
  BY NowTypes, IoTypes, NextAddrNat DEF StreamClients
<1>2. RingOK(rd, io) /\ Modes(io) /\ Asked(io, sent) /\ Table(io)
  BY NowInv
<1>3. /\ Stored \in IoRec /\ SameRing(io, Stored) /\ SameHandle(io, Stored)
      /\ Stored.state = io.state /\ Stored.w_state = io.w_state
      /\ RingOK(rd, Stored)
      /\ ad \in AddrSeq /\ Len(ad) = n + Held
      /\ Data(rd, Stored, ad, sent, z)
  BY <1>1, StoredNow
<1>4. BlocksClosed(Stored, d) /\ (y = 0 => GetReady(d))
  BY ClosedNow
<1>5. /\ c \in Nat /\ z \in Nat /\ z = Address(c, y)
      /\ StartAddr(io.xfers[io.w_xfer + 1]) < z
      /\ c <= io.w_buf_next
      /\ y = 0 => io.w_buf_next = c
      /\ y # 0 => io.w_buf_next = c + 1 /\ io.buf_ptrs = <<>>
  BY EndPlace
<1>6. /\ Stored.xfers = io.xfers /\ Stored.w_xfer = io.w_xfer
      /\ Stored.w_buf_curr = io.w_buf_curr /\ Stored.w_buf_next = io.w_buf_next
      /\ Stored.buf_ptrs = io.buf_ptrs /\ Stored.bytes = y /\ Stored.curbuf = io.curbuf
      /\ Stored.marked_filled = io.marked_filled
      /\ Stored.sod_pending = io.sod_pending /\ Stored.err = io.err
  BY <1>3 DEF SameRing, SameHandle
<1> HIDE DEF c, z, d
<1>7. /\ d \in IoRec /\ RingOK(rd, d) /\ Due(rd, d) = Due(rd, Stored)
      /\ d.w_buf_curr = c /\ d.w_buf_next = io.w_buf_next
      /\ d.xfers = io.xfers /\ d.w_xfer = io.w_xfer /\ d.mem = Stored.mem
      /\ d.buf_ptrs = <<>> /\ d.bytes = y /\ d.err = io.err
      /\ d.sod_pending = io.sod_pending
      /\ d.curbuf = (IF L = 0 THEN io.curbuf ELSE NoBuf)
  BY <1>4, <1>6 DEF BlocksClosed, c
<1>8. Data(rd, d, ad, sent, z)
  <2>1. Due(rd, Stored) \in Nat /\ Due(rd, d) \in Nat /\ Due(rd, Stored) <= Due(rd, d)
    <3>1. Due(rd, Stored) \in Nat
      BY <1>1, <1>3, DueNumbers DEF RingOK
    <3> QED
      BY <1>7, <3>1
  <2>2. z \in Int
    BY <1>5
  <2> QED
    BY <1>3, <1>6, <1>7, <2>1, <2>2, DataStay
<1>9. /\ u \in IoRec /\ SameRing(d, u) /\ SameHandle(d, u) /\ u.mem = d.mem
      /\ u.state = "WCHANGE"
  BY <1>7, ChangedIs
<1>p. p = ipcio_check_pending_sod(ipcbuf_mark_filled(u, y))
  BY <1>7 DEF EndOfData, Changed
<1> HIDE DEF u, p
<1>10. RingOK(rd, u) /\ Data(rd, u, ad, sent, z)
  <2>1. z \in Int
    BY <1>5
  <2> QED
    BY <1>1, <1>3, <1>7, <1>8, <1>9, <2>1, RingDataStay
<1>11. /\ u.w_buf_curr = c /\ u.w_buf_next = io.w_buf_next
       /\ u.xfers = io.xfers /\ u.w_xfer = io.w_xfer /\ u.buf_ptrs = <<>>
       /\ u.bytes = y /\ u.err = io.err /\ u.sod_pending = io.sod_pending
       /\ u.curbuf = d.curbuf
       /\ u.CLEAR = d.CLEAR /\ u.count = d.count /\ u.w_buf_next = d.w_buf_next
  BY <1>7, <1>9 DEF SameRing, SameHandle
<1>12. ~io.err /\ ~io.sod_pending /\ Len(io.xfers) = io.w_xfer + 1
       /\ Len(sent) = Len(io.xfers)
  <2>1. ~io.err /\ ~io.sod_pending
    BY <1>2 DEF Modes
  <2>2. Len(io.xfers) = io.w_xfer + 1
    BY <1>1, <1>2, StateOfTable
  <2> QED
    BY <1>2, <2>1, <2>2 DEF Asked
<1>13. BlockEnded(u, y, p) /\ RingOK(rd, p) /\ Data(rd, p, ad, st, z) /\ st \in Seq(SentRec)
  <2>1. /\ rd \in ReaderRec /\ u \in IoRec /\ ad \in AddrSeq /\ sent \in Seq(SentRec)
        /\ z \in Int /\ y \in 0 .. BufSz
    BY <1>1, <1>3, <1>5, <1>9
  <2>2. /\ u.state = "WCHANGE" \/ (u.state = "WRITING" /\ y < BufSz)
        /\ Len(u.xfers) = u.w_xfer + 1 /\ Len(sent) = Len(u.xfers)
        /\ ~u.err /\ ~u.sod_pending
    BY <1>9, <1>11, <1>12
  <2>3. z = Address(u.w_buf_curr, y) /\ StartAddr(u.xfers[u.w_xfer + 1]) < z
    BY <1>5, <1>11
  <2>4. y = 0 => GetReady(u) /\ u.w_buf_next - u.w_buf_curr < NBufs - 1
    <3> SUFFICES ASSUME y = 0
                 PROVE  GetReady(u) /\ u.w_buf_next - u.w_buf_curr < NBufs - 1
      OBVIOUS
    <3>1. GetReady(u)
      BY <1>4, <1>11 DEF GetReady
    <3>2. u.w_buf_next - u.w_buf_curr = 0
      BY <1>5, <1>11
    <3> QED
      BY <1>1, <3>1, <3>2
  <2>5. y # 0 => u.w_buf_curr < u.w_buf_next
    BY <1>5, <1>11
  <2>6. st = [sent EXCEPT ![Len(sent)].to = Len(ad)]
    BY <1>3
  <2> HIDE DEF y
  <2>7. EndedWith(rd, u, y, ad, z, p, st)
    BY <1>p, <1>9, <1>10, <2>1, <2>2, <2>3, <2>4, <2>5, <2>6, EndBlock
  <2> QED
    BY <2>7 DEF EndedWith
<1>14. /\ p \in IoRec /\ Base(p) = c + 1 /\ SameHandle(u, p)
       /\ p.state = "WRITER" /\ p.w_state = "DISCON"
       /\ p.w_buf_curr = c + 1
       /\ p.w_buf_next = (IF y = 0 THEN io.w_buf_next + 1 ELSE io.w_buf_next)
       /\ EndedTable(io, p)
  BY <1>11, <1>13 DEF BlockEnded, EndedTable
<1>15. p.w_buf_next = c + 1
  BY <1>5, <1>14
<1>16. /\ ~p.err /\ ~p.sod_pending /\ p.bytes = y /\ p.buf_ptrs = <<>>
       /\ p.curbuf = u.curbuf
  BY <1>11, <1>12, <1>14 DEF SameHandle
<1>17. p.curbuf = (IF io.buf_ptrs = <<>> THEN io.curbuf ELSE NoBuf)
  <2>1. L = 0 <=> io.buf_ptrs = <<>>
    <3>1. io.buf_ptrs \in Seq(Ring)
      BY <1>1, IoTypes
    <3> QED
      BY <3>1
  <2> QED
    BY <1>7, <1>11, <1>16, <2>1
<1> QED
  BY <1>13, <1>14, <1>15, <1>16, <1>17 DEF c, d, p, z

(* ipcio_stop in a transfer.                                               *)
LEMMA TransferEnds ==
  ASSUME IoInv, StreamClients, io.rdwrt = "W", io.state = "WRITING", todo = <<>>,
         StopReady(io),
         NEW ad, ad = addr \o Addresses(io.w_buf_curr, 0, Held),
         NEW st, st = [sent EXCEPT ![Len(sent)].to = n + Held],
         NEW e, e = ipcio_stop(Stored)
  PROVE  AtRest(e, ad, st) /\ EndedTable(io, e)
<1> DEFINE p == EndOfData(CloseBlocks(Stored))
           c == io.w_buf_curr + Len(io.buf_ptrs)
           z == NextAddr(io) + Held
           y == io.bytes
<1>1. /\ io \in IoRec /\ rd \in ReaderRec /\ y \in Nat /\ BufSz \in Nat \ {0}
      /\ NextAddr(io) \in Nat /\ NBufs \in Nat \ {0} /\ io.w_xfer \in Nat
  BY NowTypes, NextAddrNat
<1>2. /\ p \in IoRec /\ RingOK(rd, p) /\ ~p.err /\ ~p.sod_pending
      /\ Data(rd, p, ad, st, z)
      /\ st \in Seq(SentRec)
      /\ EndedTable(io, p)
      /\ Base(p) = c + 1 /\ p.w_buf_curr = c + 1 /\ p.w_buf_next = c + 1
      /\ p.state = "WRITER" /\ p.w_state = "DISCON"
      /\ p.bytes = y /\ p.buf_ptrs = <<>>
      /\ p.curbuf = (IF io.buf_ptrs = <<>> THEN io.curbuf ELSE NoBuf)
  BY EodRaisedNow
<1>3. /\ c \in Nat /\ z \in Nat /\ z = Address(c, y)
      /\ y = 0 => io.w_buf_next = c
      /\ y # 0 => io.w_buf_next = c + 1 /\ io.buf_ptrs = <<>>
  BY EndPlace
<1>4. /\ io.buf_ptrs = <<>> /\ y = 0 => io.curbuf = NoBuf
      /\ io.buf_ptrs = <<>> /\ y # 0 => io.curbuf # NoBuf /\ io.curbuf = (io.w_buf_next - 1) % NBufs
  BY EndsHere
<1>5. e = Ended(p)
  <2>1. Stored.rdwrt = "W" /\ Stored.state = "WRITING"
    BY <1>1, StoredNow DEF SameHandle
  <2> HIDE DEF p
  <2>2. e = IfOk(p, Ended)
    BY <2>1 DEF ipcio_stop, p
  <2> QED
    BY <1>2, <2>2 DEF IfOk
<1>g. ad \in AddrSeq
  BY <1>1, StoredNow
<1> HIDE DEF p, c, z
<1>6. /\ e \in IoRec /\ SameRing(p, e) /\ e.mem = p.mem
      /\ e.rdwrt = "w" /\ e.marked_filled /\ e.bytes = p.bytes
      /\ e.curbuf = (IF p.bytes = BufSz THEN NoBuf ELSE p.curbuf)
      /\ e.buf_ptrs = p.buf_ptrs /\ e.sod_pending = p.sod_pending
      /\ e.err = p.err /\ e.state = p.state /\ e.w_state = p.w_state
  BY <1>2, <1>5, EndedIs
<1>7. /\ e.w_buf_curr = c + 1 /\ e.w_buf_next = c + 1 /\ e.xfers = p.xfers
      /\ e.w_xfer = p.w_xfer
  BY <1>2, <1>6 DEF SameRing
<1>8. RingOK(rd, e) /\ Data(rd, e, ad, st, z) /\ Base(e) = c + 1
  <2>1. z \in Int
    BY <1>3
  <2> QED
    BY <1>1, <1>2, <1>6, <1>g, <2>1, RingDataStay
<1>9. EndedTable(io, e)
  BY <1>2, <1>7 DEF EndedTable
<1>10. Data(rd, e, ad, st, NextAddr(e))
  <2>1. CASE y # 0
    <3>0. e.bytes = y /\ y > 0 /\ e.rdwrt # "0" /\ e.marked_filled
      BY <1>1, <1>2, <1>6, <2>1
    <3>1. NextAddr(e) = Address(e.w_buf_curr - 1, y)
      BY <3>0 DEF NextAddr
    <3>2. e.w_buf_curr - 1 = c
      BY <1>3, <1>7
    <3> QED
      BY <1>3, <1>8, <3>1, <3>2
  <2>2. CASE y = 0
    <3> DEFINE o == Address(c + 1, 0)
    <3>1. NextAddr(e) = o
      BY <1>2, <1>6, <1>7, <2>2 DEF NextAddr
    <3>2. o = Address(c, 0) + BufSz /\ o \in Int /\ o = Address(Base(e), 0)
      <4>1. c \in Int /\ c + 1 \in Int
        BY <1>3
      <4> QED
        BY <1>8, <4>1, AddressNext, AddressType
    <3>3. z = Address(c, 0) /\ z \in Int
      BY <1>3, <2>2
    <3> HIDE DEF o
    <3>4. z <= o
      BY <1>1, <3>2, <3>3
    <3>5. o <= Address(Base(e), 0) /\ Base(e) \in Int
      BY <1>3, <1>8, <3>2
    <3> QED
      BY <1>8, <1>g, <3>1, <3>2, <3>3, <3>4, <3>5, DataLater
  <2> QED
    BY <2>1, <2>2
<1>11. /\ Len(e.xfers) = e.w_xfer /\ Len(e.xfers) # e.w_xfer + 1
       /\ Len(st) = Len(sent) /\ Len(sent) = Len(e.xfers) /\ e.w_xfer > 0
  <2>1. Table(io) /\ Modes(io) /\ Asked(io, sent)
    BY NowInv
  <2>2. Len(io.xfers) = io.w_xfer + 1
    BY <1>1, <2>1, StateOfTable
  <2>3. Len(sent) = Len(io.xfers)
    BY <2>1, <2>2 DEF Asked, Modes
  <2>4. e.w_xfer = io.w_xfer + 1 /\ Len(e.xfers) = Len(io.xfers)
    BY <1>9 DEF EndedTable
  <2>5. Len(st) = Len(sent)
    BY NowTypes
  <2> QED
    BY <1>1, <2>2, <2>3, <2>4, <2>5
<1>12. Modes(e) /\ Asked(e, st)
  <2>1. Modes(e)
    BY <1>2, <1>6, <1>11 DEF Modes
  <2>2. Asked(e, st)
    BY <1>2, <1>6, <1>11 DEF Asked
  <2> QED
    BY <2>1, <2>2
<1>13. FillsOne(e) /\ (e.curbuf # NoBuf => e.bytes > 0)
  <2>1. CASE y = 0
    <3>1. e.curbuf = NoBuf /\ e.bytes = 0
      BY <1>1, <1>2, <1>4, <1>6, <2>1
    <3> QED
      BY <1>7, <3>1 DEF FillsOne
  <2>2. CASE y # 0
    <3>1. io.buf_ptrs = <<>> /\ io.w_buf_next = c + 1 /\ y > 0
      BY <1>1, <1>3, <2>2
    <3>0. io.w_buf_next - 1 = c /\ e.w_buf_next - 1 = c
      BY <1>3, <1>7, <3>1
    <3>2. p.curbuf = c % NBufs /\ p.curbuf # NoBuf
      BY <1>2, <1>4, <2>2, <3>0, <3>1
    <3>3. e.bytes = y /\ e.curbuf = (IF y = BufSz THEN NoBuf ELSE c % NBufs)
      BY <1>2, <1>6, <3>2
    <3>4. e.curbuf = NoBuf => e.bytes = BufSz
      BY <1>6, <3>2, <3>3
    <3>5. e.state = "WRITER" /\ e.w_xfer > 0 /\ Base(e) = e.w_buf_curr
      BY <1>2, <1>6, <1>7, <1>8, <1>11
    <3>6. e.curbuf # NoBuf => e.curbuf = (e.w_buf_next - 1) % NBufs
      BY <3>0, <3>3
    <3> HIDE DEF y
    <3> QED
      BY <1>6, <1>7, <3>1, <3>3, <3>4, <3>5, <3>6 DEF FillsOne
  <2> QED
    BY <2>1, <2>2
<1> QED
  BY <1>2, <1>6, <1>8, <1>9, <1>10, <1>12, <1>13 DEF AtRest

(* What becomes of the transfers that were promised.                       *)
LEMMA StoppedIs ==
  ASSUME IoInv, io.rdwrt # "0", ~io.sod_pending
  PROVE  /\ io.state = "WRITER" => Stopped = sent
         /\ io.state = "WRITING" => Stopped = [sent EXCEPT ![Len(sent)].to = n + Held]
         /\ io.state = "WCHANGE" => Stopped = Front(sent)
<1>1. /\ io \in IoRec /\ sent \in Seq(SentRec) /\ Len(sent) \in Nat
      /\ Len(io.xfers) \in Nat /\ io.w_xfer \in Nat
  BY NowTypes
<1>2. /\ Table(io) /\ Modes(io) /\ Asked(io, sent)
      /\ \A k \in 1 .. Len(sent) :
           IF k <= io.w_xfer THEN sent[k].to \in 1 .. Len(addr) ELSE sent[k].to = Open
  BY NowInv DEF Data, Promised
<1>3. Last(sent) = sent[Len(sent)]
  BY DEF Last
<1>4. ASSUME io.state = "WRITER"
      PROVE  sent = <<>> \/ Last(sent).to # Open
  <2>1. Len(sent) = io.w_xfer
    BY <1>1, <1>2, <1>4, StateOfTable DEF Asked
  <2> SUFFICES ASSUME sent # <<>> PROVE Last(sent).to # Open
    OBVIOUS
  <2>2. Len(sent) \in 1 .. Len(sent)
    BY <1>1
  <2>3. sent[Len(sent)].to \in 1 .. Len(addr)
    BY <1>1, <1>2, <2>1, <2>2
  <2>4. sent[Len(sent)].to # Open
    BY <2>3 DEF Open
  <2> QED
    BY <1>3, <2>4
<1>5. ASSUME io.state # "WRITER", io.state \in {"WRITING", "WCHANGE"}
      PROVE  sent # <<>> /\ Last(sent).to = Open
  <2>1. Len(sent) = io.w_xfer + 1
    BY <1>1, <1>2, <1>5, StateOfTable DEF Asked
  <2>2. Len(sent) \in 1 .. Len(sent) /\ sent # <<>> /\ ~(Len(sent) <= io.w_xfer)
    BY <1>1, <2>1
  <2> QED
    BY <1>2, <1>3, <2>2
<1>6. io.state = "WRITER" => Stopped = sent
  BY <1>4 DEF Stopped
<1>7. io.state = "WRITING" => Stopped = [sent EXCEPT ![Len(sent)].to = n + Held]
  BY <1>5 DEF Stopped
<1>8. io.state = "WCHANGE" => Stopped = Front(sent)
  BY <1>5 DEF Stopped
<1> QED
  BY <1>6, <1>7, <1>8

(* The mode is left.                                                       *)
Quiet(d) == [d EXCEPT !.rdwrt = "w"]

(* The handle after ipcio_stop, when there was no transfer to end.         *)
LEMMA QuietIs ==
  ASSUME NEW d \in IoRec
  PROVE  LET e == Quiet(d) IN
         /\ e \in IoRec /\ SameRing(d, e) /\ e.mem = d.mem
         /\ e.rdwrt = "w" /\ e.marked_filled = d.marked_filled /\ e.bytes = d.bytes
         /\ e.curbuf = d.curbuf
         /\ e.buf_ptrs = d.buf_ptrs /\ e.sod_pending = d.sod_pending
         /\ e.err = d.err /\ e.state = d.state /\ e.w_state = d.w_state
<1> DEFINE e == Quiet(d)
<1>1. e \in IoRec
  BY DEF IoRec, Quiet
<1>2. SameRing(d, e)
  BY DEF IoRec, SameRing, Quiet
<1>3. /\ e.mem = d.mem
      /\ e.rdwrt = "w" /\ e.marked_filled = d.marked_filled /\ e.bytes = d.bytes
      /\ e.curbuf = d.curbuf
      /\ e.buf_ptrs = d.buf_ptrs /\ e.sod_pending = d.sod_pending
      /\ e.err = d.err /\ e.state = d.state /\ e.w_state = d.w_state
  BY DEF IoRec, Quiet
<1> QED
  BY <1>1, <1>2, <1>3

(* ipcio_stop when no transfer is open, or no call of it.                  *)
LEMMA QuietNow ==
  ASSUME IoInv, io.rdwrt \in {"w", "W"}, io.state # "WRITING", ~io.sod_pending,
         io.buf_ptrs = <<>>, todo = <<>>,
         NEW ad, ad = addr \o Addresses(io.w_buf_curr, 0, Held),
         NEW e, e = Quiet(Stored)
  PROVE  /\ e \in IoRec /\ RingOK(rd, e) /\ Data(rd, e, ad, sent, NextAddr(io))
         /\ Base(e) = Base(io)
         /\ ad \in AddrSeq /\ Len(ad) = n /\ (\A v \in 1 .. n : ad[v] = addr[v])
         /\ e.rdwrt = "w" /\ e.marked_filled = io.marked_filled /\ e.bytes = io.bytes
         /\ e.curbuf = io.curbuf /\ e.buf_ptrs = <<>> /\ ~e.sod_pending
         /\ ~e.err /\ e.state = io.state /\ e.w_state = "DISCON"
         /\ e.xfers = io.xfers /\ e.w_xfer = io.w_xfer
         /\ e.w_buf_curr = io.w_buf_curr /\ e.w_buf_next = io.w_buf_next
         /\ NextAddr(e) = NextAddr(io)
<1> DEFINE z == NextAddr(io)
<1>1. /\ io \in IoRec /\ rd \in ReaderRec /\ n \in Nat /\ z \in Nat /\ Held = 0
      /\ io.w_xfer \in Nat /\ Len(io.xfers) \in Nat
  BY NowTypes, NextAddrNat, HeldNumber
<1>2. Modes(io) /\ Table(io) /\ RingOK(rd, io)
  BY NowInv
<1>3. /\ Stored \in IoRec /\ SameRing(io, Stored) /\ SameHandle(io, Stored)
      /\ Stored.state = io.state /\ Stored.w_state = io.w_state
      /\ RingOK(rd, Stored)
      /\ ad \in AddrSeq /\ Len(ad) = n + Held
      /\ Data(rd, Stored, ad, sent, z + Held)
  BY <1>1, StoredNow
<1>4. \A v \in 1 .. n : ad[v] = addr[v]
  BY <1>1, StoredNow
<1>5. Len(ad) = n /\ Data(rd, Stored, ad, sent, z)
  <2>1. n + Held = n /\ z + Held = z
    BY <1>1
  <2> HIDE DEF z
  <2> QED
    BY <1>3, <2>1
<1>6. /\ e \in IoRec /\ SameRing(Stored, e) /\ e.mem = Stored.mem
      /\ e.rdwrt = "w" /\ e.marked_filled = Stored.marked_filled /\ e.bytes = Stored.bytes
      /\ e.curbuf = Stored.curbuf
      /\ e.buf_ptrs = Stored.buf_ptrs /\ e.sod_pending = Stored.sod_pending
      /\ e.err = Stored.err /\ e.state = Stored.state /\ e.w_state = Stored.w_state
  BY <1>3, QuietIs
<1> HIDE DEF z
<1>7. RingOK(rd, e) /\ Data(rd, e, ad, sent, z)
  <2>1. z \in Int
    BY <1>1
  <2> QED
    BY <1>1, <1>3, <1>5, <1>6, <2>1, RingDataStay
<1>8. /\ e.marked_filled = io.marked_filled /\ e.bytes = io.bytes
      /\ e.curbuf = io.curbuf /\ e.buf_ptrs = <<>> /\ ~e.sod_pending
      /\ e.err = io.err /\ e.state = io.state /\ e.w_state = io.w_state
  BY <1>3, <1>6 DEF SameHandle
<1>9. /\ e.xfers = io.xfers /\ e.w_xfer = io.w_xfer
      /\ e.w_buf_curr = io.w_buf_curr /\ e.w_buf_next = io.w_buf_next
  BY <1>3, <1>6 DEF SameRing
<1>10. NextAddr(e) = z
  BY <1>6, <1>8, <1>9 DEF NextAddr, z
<1>11. ~io.err /\ io.w_state = "DISCON"
  BY <1>2 DEF Modes
<1>12. Base(e) = Base(io)
  BY <1>9 DEF Base
<1> QED
  BY <1>3, <1>4, <1>5, <1>6, <1>7, <1>8, <1>9, <1>10, <1>11, <1>12 DEF z

(* ipcio_close_block_write                                                 *)
LEMMA CloseBlockStep ==
  ASSUME IoInv, StreamClients, NEW m \in 0 .. BufSz, CloseBlock(m)
  PROVE  IoInv'
<1>1. m \in Int /\ m <= BufSz /\ BufSz \in Int
  BY NowTypes
<1>2. CASE m = BufSz
  BY <1>2, CloseFullStep
<1>3. CASE m < BufSz
  BY <1>3, CloseShortStep
<1> QED
  BY <1>1, <1>2, <1>3

(* The handle at rest, if no transfer is open and none was asked for.      *)
LEMMA RestedNow ==
  ASSUME IoInv, io.rdwrt \in {"w", "W"}, io.state = "WRITER", ~io.sod_pending,
         io.buf_ptrs = <<>>, todo = <<>>,
         NEW ad, ad = addr \o Addresses(io.w_buf_curr, 0, Held),
         NEW e, e = Quiet(Stored)
  PROVE  AtRest(e, ad, sent) /\ Len(ad) = n /\ e.xfers = io.xfers /\ e.w_xfer = io.w_xfer
<1>1. /\ e \in IoRec /\ RingOK(rd, e) /\ Data(rd, e, ad, sent, NextAddr(io))
      /\ Base(e) = Base(io)
      /\ ad \in AddrSeq /\ Len(ad) = n
      /\ e.rdwrt = "w" /\ e.marked_filled = io.marked_filled /\ e.bytes = io.bytes
      /\ e.curbuf = io.curbuf /\ e.buf_ptrs = <<>> /\ ~e.sod_pending
      /\ ~e.err /\ e.state = io.state /\ e.w_state = "DISCON"
      /\ e.xfers = io.xfers /\ e.w_xfer = io.w_xfer
      /\ e.w_buf_curr = io.w_buf_curr /\ e.w_buf_next = io.w_buf_next
      /\ NextAddr(e) = NextAddr(io)
  BY QuietNow
<1>2. /\ Modes(io) /\ Asked(io, sent) /\ Filling(io) /\ Calls
  BY NowInv
<1>3. sent \in Seq(SentRec)
  BY NowTypes
<1>4. Modes(e)
  BY <1>1, <1>2 DEF Modes
<1>5. Asked(e, sent)
  BY <1>1, <1>2 DEF Asked
<1>6. FillsOne(io)
  BY <1>2 DEF Filling
<1>7. FillsOne(e)
  BY <1>1, <1>6 DEF FillsOne
<1>8. e.curbuf # NoBuf => e.bytes > 0
  BY <1>1, <1>2 DEF Calls
<1>9. Data(rd, e, ad, sent, NextAddr(e))
  BY <1>1
<1> QED
  BY <1>1, <1>3, <1>4, <1>5, <1>7, <1>8, <1>9 DEF AtRest

(* After ipcio_stop no call is in progress and no block is held open.      *)
LEMMA RestCalls ==
  ASSUME NEW ad, NEW st, AtRest(io', ad, st), todo' = <<>>
  PROVE  Calls' /\ HandleOK(io')
<1>1. /\ io'.buf_ptrs = <<>> /\ io'.rdwrt = "w" /\ io'.state = "WRITER"
      /\ io'.curbuf # NoBuf => io'.bytes > 0
      /\ Modes(io') /\ FillsOne(io')
  BY DEF AtRest
<1>2. Calls'
  BY <1>1 DEF Calls
<1> QED
  BY <1>1, <1>2 DEF HandleOK, Filling

(* ipcio_stop                                                              *)
LEMMA StopStep ==
  ASSUME IoInv, StreamClients, Stop
  PROVE  IoInv'
<1>1. /\ todo = <<>> /\ todo' = <<>> /\ WriterOnly /\ io.rdwrt = "W"
      /\ io.state # "WCHANGE" /\ ~io.sod_pending /\ StopReady(io)
      /\ io.buf_ptrs # <<>> => io.state = "WRITING"
      /\ io' = ipcio_stop(Stored)
      /\ sent' = Stopped
      /\ addr' = addr \o Addresses(io.w_buf_curr, 0, Held)
  BY DEF Stop, Idle, MayStop, Slip, StreamClients
<1>2. /\ io \in IoRec /\ sent \in Seq(SentRec) /\ n \in Nat /\ Held \in Nat
      /\ NextAddr(io) \in Nat /\ io.w_xfer \in Nat
  BY NowTypes, NextAddrNat, HeldNumber
<1>3. /\ addr' \in AddrSeq /\ Len(addr') = n + Held
      /\ \A v \in 1 .. n : addr'[v] = addr[v]
      /\ Stored.rdwrt = "W" /\ Stored.state = io.state
  <2> DEFINE ad == addr \o Addresses(io.w_buf_curr, 0, Held)
  <2> HIDE DEF ad
  <2>1. ad = addr \o Addresses(io.w_buf_curr, 0, Held)
    BY DEF ad
  <2>2. /\ ad \in AddrSeq /\ Len(ad) = n + Held
        /\ \A v \in 1 .. n : ad[v] = addr[v]
        /\ SameHandle(io, Stored) /\ Stored.state = io.state
    BY <1>1, <1>2, <2>1, StoredNow
  <2>3. addr' = ad
    BY <1>1, <2>1
  <2> QED
    BY <1>1, <2>2, <2>3 DEF SameHandle
<1>4. /\ Modes(io) /\ Table(io) /\ Asked(io, sent)
  BY NowInv
<1>5. io.state \in {"WRITER", "WRITING"}
  BY <1>1, <1>4 DEF Modes
<1>6. AtRest(io', addr', sent') /\ Follows
  <2>1. CASE io.state = "WRITER"
    <3>1. io' = Quiet(Stored)
      BY <1>1, <1>3, <2>1 DEF ipcio_stop, Quiet
    <3>2. sent' = sent
      BY <1>1, <2>1, StoppedIs
    <3>3. AtRest(io', addr', sent) /\ Len(addr') = n /\ io'.xfers = io.xfers
          /\ io'.w_xfer = io.w_xfer
      BY <1>1, <2>1, <3>1, RestedNow
    <3>4. Follows
      <4>1. Len(io.xfers) <= Len(io'.xfers)
        BY <1>2, <3>3, IoTypes
      <4>2. n <= Len(addr')
        BY <1>2, <3>3
      <4>3. /\ \A k \in 1 .. Len(io.xfers) : io'.xfers[k] = io.xfers[k]
            /\ \A k \in 1 .. Len(io.xfers) : sent'[k] = sent[k]
        BY <3>2, <3>3
      <4> QED
        BY <1>3, <4>1, <4>2, <4>3, FollowsGrown
    <3> QED
      BY <3>2, <3>3, <3>4
  <2>2. CASE io.state = "WRITING"
    <3>1. sent' = [sent EXCEPT ![Len(sent)].to = n + Held]
      BY <1>1, <2>2, StoppedIs
    <3>2. AtRest(io', addr', sent') /\ EndedTable(io, io')
      BY <1>1, <2>2, <3>1, TransferEnds
    <3>3. Len(io.xfers) = io.w_xfer + 1 /\ Len(sent) = Len(io.xfers)
      BY <1>2, <1>4, <2>2, <1>1, StateOfTable DEF Asked
    <3>4. n + Held <= Len(addr')
      <4>1. n + Held \in Int
        BY <1>2
      <4> QED
        BY <1>3, <4>1
    <3>5. \A v \in 1 .. n, k \in 1 .. Len(io.xfers) :
            addr[v] = sent[k].at => addr'[v] = addr[v]
      BY <1>3
    <3>6. /\ Len(io'.xfers) = Len(io.xfers)
          /\ \A k \in 1 .. io.w_xfer : io'.xfers[k] = io.xfers[k]
          /\ StartAddr(io'.xfers[io.w_xfer + 1]) = StartAddr(io.xfers[io.w_xfer + 1])
      BY <3>2 DEF EndedTable
    <3>7. Follows
      BY <1>2, <3>1, <3>3, <3>4, <3>5, <3>6, FollowsEnded
    <3> QED
      BY <3>2, <3>7
  <2> QED
    BY <1>5, <2>1, <2>2
<1>7. Calls' /\ HandleOK(io')
  BY <1>1, <1>6, RestCalls
<1>8. /\ io' \in IoRec /\ sent' \in Seq(SentRec) /\ RingOK(rd, io')
      /\ Data(rd, io', addr', sent', NextAddr(io')) /\ Asked(io', sent')
  BY <1>6 DEF AtRest
<1>9. todo' \in Seq(Nat)
  BY <1>1
<1> QED
  BY <1>1, <1>3, <1>6, <1>7, <1>8, <1>9, WriterKeeps

(* The blocks after the last end of data are given back, or there was no   *)
(* transfer and none is in use.                                            *)
GaveBack(e) ==
  [e EXCEPT !.w_buf_curr = Base(e), !.w_buf_next = Base(e),
            !.state = "VIEWER", !.rdwrt = "0"]

LeftAll(e) == [e EXCEPT !.state = "VIEWER", !.rdwrt = "0"]

Left(e, f) ==
  /\ f \in IoRec /\ f.rdwrt = "0" /\ f.state = "VIEWER"
  /\ f.buf_ptrs = e.buf_ptrs /\ f.sod_pending = e.sod_pending
  /\ f.err = e.err /\ f.w_state = e.w_state /\ f.mem = e.mem

(* ipcio_close leaves the handle as before ipcio_open, and gives blocks    *)
(* back.                                                                   *)
LEMMA ClosedIs ==
  ASSUME NEW e \in IoRec, e.rdwrt = "w", Table(e), NEW f, f = Closed(e)
  PROVE  /\ Left(e, f)
         /\ IF e.w_xfer > 0 THEN GivenBackTo(e, f) ELSE SameRing(e, f)
<1>1. Base(e) \in Nat /\ e.w_xfer \in Nat
  BY TableNumbers, IoTypes
<1>2. CASE e.w_xfer > 0
  <2>0. Base(e) = e.xfers[e.w_xfer].e_buf + 1
    BY <1>2 DEF Base
  <2>1. f = GaveBack(e)
    BY <1>2, <2>0 DEF Closed, GaveBack
  <2>2. f \in IoRec
    BY ZenonT(40), <1>1, <2>1 DEF GaveBack, IoRec
  <2>3. /\ f.rdwrt = "0" /\ f.state = "VIEWER"
        /\ f.buf_ptrs = e.buf_ptrs /\ f.sod_pending = e.sod_pending
        /\ f.err = e.err /\ f.w_state = e.w_state /\ f.mem = e.mem
    BY <2>1 DEF GaveBack, IoRec
  <2>4. GivenBackTo(e, f)
    BY <2>1 DEF GaveBack, IoRec, GivenBackTo
  <2> QED
    BY <1>2, <2>2, <2>3, <2>4 DEF Left
<1>3. CASE ~(e.w_xfer > 0)
  <2>1. f = LeftAll(e)
    BY <1>3 DEF Closed, LeftAll
  <2>2. f \in IoRec
    BY <2>1 DEF LeftAll, IoRec
  <2>3. /\ f.rdwrt = "0" /\ f.state = "VIEWER"
        /\ f.buf_ptrs = e.buf_ptrs /\ f.sod_pending = e.sod_pending
        /\ f.err = e.err /\ f.w_state = e.w_state /\ f.mem = e.mem
    BY <2>1 DEF LeftAll, IoRec
  <2>4. SameRing(e, f)
    BY <2>1 DEF LeftAll, IoRec, SameRing
  <2> QED
    BY <1>3, <2>2, <2>3, <2>4 DEF Left
<1> QED
  BY <1>2, <1>3

(* The addresses of the bytes whose blocks the writer keeps.               *)
Kept(ad, f) ==
  [v \in 1 .. Len(ad) |-> IF ad[v] >= f.w_buf_next * BufSz THEN GivenBack ELSE ad[v]]

(* The start of a transfer that ended lies before the last end of data.    *)
LEMMA StartsEnded ==
  ASSUME NEW d \in IoRec, Table(d), NEW k \in 1 .. d.w_xfer
  PROVE  /\ StartAddr(d.xfers[k]) \in Int
         /\ StartAddr(d.xfers[k]) < Address(Base(d), 0)
<1> DEFINE b == d.xfers[k].s_buf
           y == d.xfers[k].s_byte
<1>1. k \in 1 .. Len(d.xfers) /\ Base(d) \in Nat /\ d.xfers[k].e_buf < Base(d)
  BY TableNumbers
<1>2. b \in Nat /\ d.xfers[k].e_buf \in Nat /\ y \in 0 .. BufSz
  BY <1>1, XferTypes
<1>3. y < BufSz /\ b <= d.xfers[k].e_buf
  BY <1>1 DEF Table
<1> DEFINE z == d.xfers[k].e_buf
<1> HIDE DEF b, y, z
<1>4. b \in Int /\ Base(d) \in Int /\ y \in 0 .. BufSz - 1 /\ b < Base(d) /\ y \in Int
  <2>1. b \in Nat /\ z \in Nat /\ b <= z /\ z < Base(d) /\ Base(d) \in Nat
    BY <1>1, <1>2, <1>3 DEF b, z
  <2>2. y \in 0 .. BufSz /\ y < BufSz /\ BufSz \in Nat
    BY <1>2, <1>3, IoSizes DEF y
  <2> QED
    BY <2>1, <2>2
<1>5. Address(b, y) \in Int /\ Address(b, y) < Address(Base(d), 0)
  BY <1>4, InBlock, AddressType
<1> QED
  BY <1>5 DEF StartAddr, b, y

(* The handle and the ring after ipcio_close.                              *)
ClosedTo(e, ad, st, f) ==
  /\ f \in IoRec /\ RingOK(rd, f) /\ HandleOK(f) /\ Asked(f, st)
  /\ Kept(ad, f) \in AddrSeq /\ Len(Kept(ad, f)) = Len(ad)
  /\ Data(rd, f, Kept(ad, f), st, NextAddr(f))
  /\ f.rdwrt = "0" /\ f.xfers = e.xfers /\ f.w_xfer = e.w_xfer
  /\ \A k \in 1 .. Len(e.xfers), v \in 1 .. Len(ad) :
       ad[v] = StartAddr(e.xfers[k]) => Kept(ad, f)[v] = ad[v]

(* The bytes, when the blocks after the last end of data are given back,   *)
LEMMA ClosedBytes ==
  ASSUME rd \in ReaderRec, NEW e \in IoRec, NEW ad \in AddrSeq, NEW st, NEW z \in Int,
         RingOK(rd, e), Data(rd, e, ad, st, z), Len(e.xfers) = e.w_xfer, e.w_xfer > 0,
         NEW f \in IoRec, GivenBackTo(e, f), f.mem = e.mem
  PROVE  /\ RingOK(rd, f) /\ f.w_buf_next = f.w_buf_curr
         /\ Kept(ad, f) \in AddrSeq /\ Len(Kept(ad, f)) = Len(ad)
         /\ Data(rd, f, Kept(ad, f), st, Address(f.w_buf_curr, 0))
         /\ f.xfers = e.xfers /\ f.w_xfer = e.w_xfer
<1> DEFINE bd == [v \in 1 .. Len(ad) |->
                   IF ad[v] >= Address(Base(e), 0) THEN GivenBack ELSE ad[v]]
<1>1. Base(e) \in Nat
  BY TableNumbers DEF RingOK
<1>2. /\ f.w_buf_curr = Base(e) /\ f.w_buf_next = Base(e)
      /\ f.xfers = e.xfers /\ f.w_xfer = e.w_xfer
  BY DEF GivenBackTo
<1>3. Address(Base(e), 0) = Base(e) * BufSz
  BY <1>1, AddressZero
<1>4. Kept(ad, f) = bd
  BY <1>2, <1>3 DEF Kept
<1> HIDE DEF bd
<1>5. bd = [v \in 1 .. Len(ad) |->
                   IF ad[v] >= Address(Base(e), 0) THEN GivenBack ELSE ad[v]]
  BY DEF bd
<1>6. /\ bd \in AddrSeq /\ Len(bd) = Len(ad)
      /\ Data(rd, f, bd, st, Address(Base(f), 0))
      /\ Base(f) = Base(e)
  BY <1>5, DataClose
<1>7. RingOK(rd, f)
  BY RingClose
<1> QED
  BY <1>2, <1>4, <1>6, <1>7

(* and when there was no transfer.                                         *)
LEMMA UnusedBytes ==
  ASSUME rd \in ReaderRec, NEW e \in IoRec, NEW ad \in AddrSeq, NEW st, NEW z \in Int,
         RingOK(rd, e), Data(rd, e, ad, st, z),
         e.w_buf_next = e.w_buf_curr, z = Address(e.w_buf_curr, 0),
         NEW f \in IoRec, SameRing(e, f), f.mem = e.mem
  PROVE  /\ RingOK(rd, f) /\ f.w_buf_next = f.w_buf_curr
         /\ Kept(ad, f) \in AddrSeq /\ Len(Kept(ad, f)) = Len(ad)
         /\ Data(rd, f, Kept(ad, f), st, Address(f.w_buf_curr, 0))
         /\ f.xfers = e.xfers /\ f.w_xfer = e.w_xfer
<1>1. /\ f.w_buf_curr = e.w_buf_curr /\ f.w_buf_next = e.w_buf_next
      /\ f.xfers = e.xfers /\ f.w_xfer = e.w_xfer
  BY DEF SameRing
<1>2. RingOK(rd, f) /\ Data(rd, f, ad, st, z)
  BY RingDataStay
<1>3. e.w_buf_curr \in Int /\ Len(ad) \in Nat
  BY IoTypes DEF AddrSeq
<1>4. z = f.w_buf_next * BufSz
  BY <1>1, <1>3, AddressZero
<1>5. \A v \in 1 .. Len(ad) : ~(ad[v] >= z) \/ ad[v] = GivenBack
  <2> SUFFICES ASSUME NEW v \in 1 .. Len(ad), ad[v] # GivenBack
               PROVE  ~(ad[v] >= z)
    OBVIOUS
  <2>1. ad[v] \in Nat /\ ad[v] < z
    BY <1>2 DEF Data, Increasing, AddrSeq
  <2> QED
    BY <2>1
<1>6. Kept(ad, f) = [v \in 1 .. Len(ad) |-> ad[v]]
  BY <1>4, <1>5 DEF Kept
<1>7. ad = [v \in 1 .. Len(ad) |-> ad[v]]
  BY DEF AddrSeq
<1> QED
  BY <1>1, <1>2, <1>6, <1>7

(* ipcio_close, once no transfer is open, keeps the ring and the bytes.    *)
LEMMA ClosedFrom ==
  ASSUME rd \in ReaderRec, NEW e \in IoRec, NEW ad \in AddrSeq, NEW st, NEW z \in Int,
         RingOK(rd, e), Data(rd, e, ad, st, z),
         e.rdwrt = "w", ~e.err, ~e.sod_pending, e.w_state = "DISCON", e.buf_ptrs = <<>>,
         Len(e.xfers) = e.w_xfer, Len(st) = Len(e.xfers),
         e.w_xfer = 0 => e.w_buf_next = e.w_buf_curr /\ z = Address(e.w_buf_curr, 0),
         NEW f, f = Closed(e)
  PROVE  ClosedTo(e, ad, st, f)
<1>1. Table(e) /\ e.w_xfer \in Nat /\ Base(e) \in Nat
  BY IoTypes, TableNumbers DEF RingOK
<1>2. /\ Left(e, f)
      /\ IF e.w_xfer > 0 THEN GivenBackTo(e, f) ELSE SameRing(e, f)
  BY <1>1, ClosedIs
<1>3. f \in IoRec /\ f.mem = e.mem
  BY <1>2 DEF Left
<1>4. /\ RingOK(rd, f) /\ f.w_buf_next = f.w_buf_curr
      /\ Kept(ad, f) \in AddrSeq /\ Len(Kept(ad, f)) = Len(ad)
      /\ Data(rd, f, Kept(ad, f), st, Address(f.w_buf_curr, 0))
      /\ f.xfers = e.xfers /\ f.w_xfer = e.w_xfer
  <2>1. CASE e.w_xfer > 0
    BY <1>2, <1>3, <2>1, ClosedBytes
  <2>2. CASE ~(e.w_xfer > 0)
    <3>1. e.w_buf_next = e.w_buf_curr /\ z = Address(e.w_buf_curr, 0) /\ SameRing(e, f)
      BY <1>1, <1>2, <2>2
    <3> QED
      BY <1>3, <3>1, UnusedBytes
  <2> QED
    BY <2>1, <2>2
<1>5. /\ f.rdwrt = "0" /\ f.state = "VIEWER" /\ f.buf_ptrs = <<>> /\ ~f.sod_pending
      /\ ~f.err /\ f.w_state = "DISCON"
  BY <1>2 DEF Left
<1>6. HandleOK(f)
  <2>1. Len(f.xfers) # f.w_xfer + 1
    BY <1>1, <1>4
  <2>2. Modes(f)
    BY <1>5, <2>1 DEF Modes
  <2>3. Filling(f)
    BY <1>4, <1>5 DEF Filling
  <2> QED
    BY <2>2, <2>3 DEF HandleOK
<1>7. Asked(f, st)
  BY <1>4, <1>5 DEF Asked
<1>8. NextAddr(f) = Address(f.w_buf_curr, 0)
  BY <1>5 DEF NextAddr
<1>9. ASSUME NEW k \in 1 .. Len(e.xfers), NEW v \in 1 .. Len(ad),
             ad[v] = StartAddr(e.xfers[k])
      PROVE  Kept(ad, f)[v] = ad[v]
  <2>1. k \in 1 .. e.w_xfer /\ e.w_xfer > 0
    BY <1>1
  <2>2. f.w_buf_next = Base(e)
    BY <1>2, <2>1 DEF GivenBackTo
  <2>3. StartAddr(e.xfers[k]) \in Int /\ StartAddr(e.xfers[k]) < Address(Base(e), 0)
    BY <1>1, <2>1, StartsEnded
  <2>4. Address(Base(e), 0) = f.w_buf_next * BufSz /\ Address(Base(e), 0) \in Int
    BY <1>1, <2>2, AddressZero, AddressType
  <2>5. ~(ad[v] >= f.w_buf_next * BufSz)
    BY <1>9, <2>3, <2>4
  <2> QED
    BY <2>5 DEF Kept
<1> QED
  BY <1>3, <1>4, <1>5, <1>6, <1>7, <1>8, <1>9 DEF ClosedTo

(* A sequence without its last member.                                     *)
LEMMA FrontIs ==
  ASSUME NEW S, NEW q \in Seq(S), NEW m \in Nat, Len(q) = m + 1, NEW t, t = Front(q)
  PROVE  t \in Seq(S) /\ Len(t) = m /\ \A k \in 1 .. m : t[k] = q[k]
<1>1. t = SubSeq(q, 1, m)
  BY DEF Front
<1> QED
  BY <1>1

(* A transfer that was opened and got no byte is none.                     *)
LEMMA DataFront ==
  ASSUME NEW r, NEW d, NEW ad, NEW st \in Seq(SentRec), NEW z,
         Data(r, d, ad, st, z), Len(d.xfers) \in Nat, Len(st) = Len(d.xfers) + 1,
         NEW tt, tt = Front(st)
  PROVE  /\ tt \in Seq(SentRec) /\ Len(tt) = Len(d.xfers)
         /\ \A k \in 1 .. Len(tt) : tt[k] = st[k]
         /\ Data(r, d, ad, tt, z)
<1> DEFINE m == Len(st) - 1
<1>1. m \in Nat /\ m <= Len(st) /\ m = Len(d.xfers)
  OBVIOUS
<1>2. tt = SubSeq(st, 1, m)
  BY DEF Front
<1>3. tt \in Seq(SentRec) /\ Len(tt) = m /\ \A k \in 1 .. m : tt[k] = st[k] /\ k \in 1 .. Len(st)
  BY <1>1, <1>2
<1> HIDE DEF m
<1>4. Promised(d, ad, tt)
  <2>1. Promised(d, ad, st)
    BY DEF Data
  <2> QED
    BY <1>1, <1>3, <2>1 DEF Promised
<1>5. Data(r, d, ad, tt, z)
  BY <1>4 DEF Data
<1> QED
  BY <1>1, <1>3, <1>5

(* What ipcio_close works on: the handle after ipcio_stop, and the table.  *)
ClosesFrom(e, ad, st, z) ==
  /\ e \in IoRec /\ ad \in AddrSeq /\ st \in Seq(SentRec) /\ z \in Int
  /\ RingOK(rd, e) /\ Data(rd, e, ad, st, z)
  /\ e.rdwrt = "w" /\ ~e.err /\ ~e.sod_pending /\ e.w_state = "DISCON" /\ e.buf_ptrs = <<>>
  /\ Len(e.xfers) = e.w_xfer /\ Len(st) = Len(e.xfers)
  /\ e.w_xfer = 0 => e.w_buf_next = e.w_buf_curr /\ z = Address(e.w_buf_curr, 0)

(* A handle at rest can be closed.                                         *)
LEMMA RestCloses ==
  ASSUME NEW e, NEW ad \in AddrSeq, NEW st, AtRest(e, ad, st), Base(e) \in Nat,
         e.w_xfer > 0 \/ e.w_buf_next = e.w_buf_curr
  PROVE  ClosesFrom(e, ad, st, NextAddr(e))
<1>1. /\ e \in IoRec /\ st \in Seq(SentRec)
      /\ RingOK(rd, e) /\ Data(rd, e, ad, st, NextAddr(e))
      /\ Modes(e) /\ Asked(e, st) /\ FillsOne(e)
      /\ e.buf_ptrs = <<>> /\ e.rdwrt = "w" /\ e.state = "WRITER"
  BY DEF AtRest
<1>2. /\ ~e.err /\ ~e.sod_pending /\ e.w_state = "DISCON"
  BY <1>1 DEF Modes
<1>3. Len(e.xfers) = e.w_xfer
  BY <1>1, StateOfTable DEF RingOK
<1>4. Len(st) = Len(e.xfers)
  BY <1>1, <1>2 DEF Asked
<1>5. e.bytes \in Nat /\ e.w_buf_curr \in Nat /\ BufSz \in Nat \ {0} /\ e.w_xfer \in Nat
  <2>1. e.bytes \in 0 .. BufSz /\ e.w_buf_curr \in Nat /\ e.w_xfer \in Nat
    BY <1>1, IoTypes
  <2>2. BufSz \in Nat \ {0}
    BY RingPlaces
  <2> QED
    BY <2>1, <2>2
<1>6. NextAddr(e) \in Int
  <2>1. Address(e.w_buf_curr - 1, e.bytes) \in Int /\ Address(e.w_buf_curr, e.bytes) \in Int
        /\ Address(e.w_buf_curr, 0) \in Int
    <3>1. e.w_buf_curr - 1 \in Int /\ e.w_buf_curr \in Int /\ e.bytes \in Int
      BY <1>5
    <3> QED
      BY <3>1, AddressType
  <2> QED
    BY <2>1 DEF NextAddr
<1>7. ASSUME e.w_xfer = 0
      PROVE  e.w_buf_next = e.w_buf_curr /\ NextAddr(e) = Address(e.w_buf_curr, 0)
  <2>1. e.w_buf_next = e.w_buf_curr /\ ~(e.w_xfer > 0)
    BY <1>7
  <2>2. ~(e.marked_filled /\ e.bytes > 0)
    BY <1>1, <2>1 DEF FillsOne
  <2>3. e.bytes = 0
    <3>1. CASE e.curbuf = NoBuf
      <4>1. e.bytes = 0 \/ (e.marked_filled /\ e.bytes = BufSz)
        BY <1>1, <3>1 DEF FillsOne
      <4> QED
        BY <1>5, <2>2, <4>1
    <3>2. CASE e.curbuf # NoBuf
      <4>1. e.w_buf_curr # e.w_buf_curr + 1
        BY <1>5
      <4>2. e.marked_filled
        BY <1>1, <2>1, <3>2, <4>1 DEF FillsOne
      <4> QED
        BY <1>1, <2>2, <3>2, <4>2 DEF FillsOne
    <3> QED
      BY <3>1, <3>2
  <2> QED
    BY <1>1, <2>1, <2>3 DEF NextAddr
<1> QED
  BY <1>1, <1>2, <1>3, <1>4, <1>6, <1>7 DEF ClosesFrom

(* The handle after ipcio_stop, if ipcio_close calls it, and how the table *)
(* compares with the one before.                                           *)
LEMMA StoppedFirst ==
  ASSUME IoInv, StreamClients, Close,
         NEW ad, ad = addr \o Addresses(io.w_buf_curr, 0, Held),
         NEW e, e = IF Stored.rdwrt = "W" THEN ipcio_stop(Stored) ELSE Stored
  PROVE  /\ \E z : ClosesFrom(e, ad, Stopped, z)
         /\ \/ /\ io.state # "WRITING" /\ e.xfers = io.xfers /\ e.w_xfer = io.w_xfer
               /\ \A k \in 1 .. Len(io.xfers) : Stopped[k] = sent[k]
            \/ /\ io.state = "WRITING" /\ EndedTable(io, e)
               /\ Stopped = [sent EXCEPT ![Len(sent)].to = n + Held]
<1>1. /\ todo = <<>> /\ io.rdwrt \in {"w", "W"} /\ ~io.sod_pending /\ StopReady(io)
      /\ io.buf_ptrs # <<>> => io.state = "WRITING"
      /\ io.w_xfer > 0 \/ io.state = "WRITING" \/ io.w_buf_next = io.w_buf_curr
  BY DEF Close, Idle, MayStop, Slip, StreamClients
<1>2. /\ io \in IoRec /\ sent \in Seq(SentRec) /\ n \in Nat /\ Held \in Nat
      /\ NextAddr(io) \in Nat /\ io.w_xfer \in Nat /\ Len(io.xfers) \in Nat
  BY NowTypes, NextAddrNat, HeldNumber
<1>3. /\ Modes(io) /\ Table(io) /\ Asked(io, sent)
  BY NowInv
<1>4. io.state \in {"WRITER", "WCHANGE", "WRITING"} /\ (io.rdwrt = "w" => io.state = "WRITER")
  BY <1>1, <1>3 DEF Modes
<1>5. /\ ad \in AddrSeq /\ Stored \in IoRec
      /\ Stored.rdwrt = io.rdwrt /\ Stored.state = io.state
  BY <1>1, <1>2, StoredNow DEF SameHandle
<1>6. CASE io.state = "WRITING"
  <2>1. e = ipcio_stop(Stored) /\ io.rdwrt = "W"
    BY <1>1, <1>4, <1>5, <1>6
  <2>2. Stopped = [sent EXCEPT ![Len(sent)].to = n + Held]
    BY <1>1, <1>6, StoppedIs
  <2>3. AtRest(e, ad, Stopped) /\ EndedTable(io, e)
    BY <1>1, <1>6, <2>1, <2>2, TransferEnds
  <2>4. e.w_xfer > 0 /\ Base(e) \in Nat
    <3>1. e.w_xfer = io.w_xfer + 1 /\ e \in IoRec /\ Table(e)
      BY <2>3 DEF EndedTable, AtRest, RingOK
    <3> QED
      BY <1>2, <3>1, TableNumbers
  <2>5. ClosesFrom(e, ad, Stopped, NextAddr(e))
    BY <1>5, <2>3, <2>4, RestCloses
  <2> QED
    BY <1>6, <2>2, <2>3, <2>5
<1>7. ASSUME io.state # "WRITING"
      PROVE  e = Quiet(Stored) /\ io.buf_ptrs = <<>>
             /\ (io.w_xfer > 0 \/ io.w_buf_next = io.w_buf_curr)
  <2>1. CASE io.rdwrt = "W"
    BY <1>1, <1>5, <1>7, <2>1 DEF ipcio_stop, Quiet
  <2>2. CASE io.rdwrt = "w"
    <3>1. e = Stored /\ Stored.rdwrt = "w"
      BY <1>5, <2>2
    <3>2. Stored = Quiet(Stored)
      BY <1>5, <3>1 DEF Quiet, IoRec
    <3> QED
      BY <1>1, <1>7, <3>1, <3>2
  <2> QED
    BY <1>1, <2>1, <2>2
<1>8. CASE io.state = "WRITER"
  <2>1. Stopped = sent
    BY <1>1, <1>8, StoppedIs
  <2>2. /\ AtRest(e, ad, sent) /\ e.xfers = io.xfers /\ e.w_xfer = io.w_xfer
    BY <1>1, <1>7, <1>8, RestedNow
  <2>3. e.w_buf_next = io.w_buf_next /\ e.w_buf_curr = io.w_buf_curr /\ Base(e) = Base(io)
    BY <1>1, <1>7, <1>8, QuietNow
  <2>4. ClosesFrom(e, ad, sent, NextAddr(e))
    BY <1>5, <1>7, <1>8, <2>2, <2>3, NowInv, RestCloses
  <2> QED
    BY <1>8, <2>1, <2>2, <2>4
<1>9. CASE io.state = "WCHANGE"
  <2>1. Stopped = Front(sent)
    BY <1>1, <1>9, StoppedIs
  <2>2. /\ e \in IoRec /\ RingOK(rd, e) /\ Data(rd, e, ad, sent, NextAddr(io))
        /\ e.rdwrt = "w" /\ e.buf_ptrs = <<>> /\ ~e.sod_pending
        /\ ~e.err /\ e.w_state = "DISCON"
        /\ e.xfers = io.xfers /\ e.w_xfer = io.w_xfer
        /\ e.w_buf_curr = io.w_buf_curr /\ e.w_buf_next = io.w_buf_next
    BY <1>1, <1>7, <1>9, QuietNow
  <2>3. Len(sent) = Len(io.xfers) + 1 /\ Len(io.xfers) = io.w_xfer
    BY <1>3, <1>2, <1>9, StateOfTable DEF Asked
  <2>4. /\ Front(sent) \in Seq(SentRec) /\ Len(Front(sent)) = Len(io.xfers)
        /\ \A k \in 1 .. Len(Front(sent)) : Front(sent)[k] = sent[k]
        /\ Data(rd, e, ad, Front(sent), NextAddr(io))
    <3>1. Len(e.xfers) \in Nat /\ Len(sent) = Len(e.xfers) + 1 /\ e.xfers = io.xfers
      BY <1>2, <2>2, <2>3
    <3>2. Data(rd, e, ad, sent, NextAddr(io)) /\ sent \in Seq(SentRec)
      BY <1>2, <2>2
    <3> DEFINE z == NextAddr(io)
    <3> HIDE DEF z
    <3>3. Data(rd, e, ad, sent, z)
      BY <3>2 DEF z
    <3> DEFINE tt == Front(sent)
    <3> HIDE DEF tt
    <3>5. tt = Front(sent)
      BY DEF tt
    <3>4. /\ tt \in Seq(SentRec) /\ Len(tt) = Len(e.xfers)
          /\ \A k \in 1 .. Len(tt) : tt[k] = sent[k]
          /\ Data(rd, e, ad, tt, z)
      <4> DEFINE m == Len(e.xfers)
      <4> HIDE DEF m
      <4>0. m \in Nat /\ Len(sent) = m + 1 /\ sent \in Seq(SentRec)
        BY <3>1, <3>2 DEF m
      <4>1. tt \in Seq(SentRec) /\ Len(tt) = m /\ \A k \in 1 .. m : tt[k] = sent[k]
        BY SMTT(30), <3>5, <4>0, FrontIs
      <4>2. /\ tt \in Seq(SentRec) /\ Len(tt) = Len(e.xfers)
            /\ \A k \in 1 .. Len(tt) : tt[k] = sent[k]
        BY <4>1 DEF m
      <4>3. Data(rd, e, ad, tt, z)
        BY <3>1, <3>2, <3>3, <3>5, DataFront
      <4> QED
        BY <4>2, <4>3
    <3> QED
      BY <3>1, <3>4 DEF z, tt
  <2>5. /\ io.w_buf_curr = io.w_buf_next /\ io.bytes = 0
    BY <1>3, <1>9 DEF Modes
  <2>6. NextAddr(io) = Address(io.w_buf_curr, 0)
    BY <1>1, <2>5 DEF NextAddr
  <2>7. NextAddr(io) \in Int
    BY <1>2
  <2>8. ClosesFrom(e, ad, Front(sent), NextAddr(io))
    BY <1>5, <2>2, <2>3, <2>4, <2>5, <2>6, <2>7 DEF ClosesFrom
  <2> QED
    BY <1>9, <2>1, <2>2, <2>4, <2>8
<1> QED
  BY <1>4, <1>6, <1>8, <1>9

(* ipcio_close                                                             *)
LEMMA CloseStep ==
  ASSUME IoInv, StreamClients, Close
  PROVE  IoInv'
<1> DEFINE ad == addr \o Addresses(io.w_buf_curr, 0, Held)
           e == IF Stored.rdwrt = "W" THEN ipcio_stop(Stored) ELSE Stored
<1>1. /\ todo = <<>> /\ todo' = <<>> /\ WriterOnly
      /\ io' = IfOk(e, Closed)
      /\ sent' = Stopped /\ io.rdwrt \in {"w", "W"}
  BY DEF Close, Idle, ipcio_close
<1>a. addr' = [v \in 1 .. n + Held |->
               IF ad[v] >= io'.w_buf_next * BufSz THEN GivenBack ELSE ad[v]]
  BY DEF Close
<1>2. /\ io \in IoRec /\ sent \in Seq(SentRec) /\ n \in Nat /\ Held \in Nat
      /\ NextAddr(io) \in Nat /\ io.w_xfer \in Nat /\ rd \in ReaderRec
  BY NowTypes, NextAddrNat, HeldNumber
<1> HIDE DEF ad, e
<1>d. /\ ad = addr \o Addresses(io.w_buf_curr, 0, Held)
      /\ e = IF Stored.rdwrt = "W" THEN ipcio_stop(Stored) ELSE Stored
  BY DEF ad, e
<1>3. /\ ad \in AddrSeq /\ Len(ad) = n + Held
      /\ \A v \in 1 .. n : ad[v] = addr[v]
  BY <1>1, <1>2, <1>d, StoredNow
<1>4. PICK z : ClosesFrom(e, ad, Stopped, z)
  BY <1>d, StoppedFirst
<1>5. \/ /\ io.state # "WRITING" /\ e.xfers = io.xfers /\ e.w_xfer = io.w_xfer
         /\ \A k \in 1 .. Len(io.xfers) : Stopped[k] = sent[k]
      \/ /\ io.state = "WRITING" /\ EndedTable(io, e)
         /\ Stopped = [sent EXCEPT ![Len(sent)].to = n + Held]
  BY <1>d, StoppedFirst
<1>6. io' = Closed(e)
  <2>1. ~e.err
    BY <1>4 DEF ClosesFrom
  <2> QED
    BY <1>1, <2>1 DEF IfOk
<1>7. ClosedTo(e, ad, Stopped, io')
  BY <1>2, <1>4, <1>6, ClosedFrom DEF ClosesFrom
<1>8. addr' = Kept(ad, io')
  BY <1>3, <1>a DEF Kept
<1>9. /\ io' \in IoRec /\ RingOK(rd, io') /\ HandleOK(io') /\ Asked(io', sent')
      /\ addr' \in AddrSeq /\ Len(addr') = n + Held
      /\ Data(rd, io', addr', sent', NextAddr(io'))
      /\ io'.rdwrt = "0" /\ io'.xfers = e.xfers /\ io'.w_xfer = e.w_xfer
      /\ \A k \in 1 .. Len(e.xfers), v \in 1 .. Len(ad) :
           ad[v] = StartAddr(e.xfers[k]) => addr'[v] = ad[v]
  BY <1>1, <1>3, <1>7, <1>8 DEF ClosedTo
<1>10. Calls'
  BY <1>1, <1>9 DEF Calls
<1>11. /\ Table(io) /\ Asked(io, sent) /\ Modes(io) /\ Promised(io, addr, sent)
  BY NowInv DEF Data
<1>12. /\ Len(io'.xfers) = Len(io.xfers) /\ Len(e.xfers) = Len(io.xfers)
       /\ \A k \in 1 .. Len(io.xfers) : StartAddr(e.xfers[k]) = StartAddr(io.xfers[k])
  <2>1. CASE io.state # "WRITING"
    BY <1>5, <1>9, <2>1
  <2>2. CASE io.state = "WRITING"
    <3>1. Len(io.xfers) = io.w_xfer + 1
      BY <1>2, <1>11, <2>2, StateOfTable
    <3>2. EndedTable(io, e)
      BY <1>5, <2>2
    <3> QED
      BY SMTT(30), <1>2, <1>9, <3>1, <3>2 DEF EndedTable
  <2> QED
    BY <2>1, <2>2
<1>13. \A v \in 1 .. n, k \in 1 .. Len(io.xfers) :
         addr[v] = sent[k].at => addr'[v] = addr[v]
  <2> SUFFICES ASSUME NEW v \in 1 .. n, NEW k \in 1 .. Len(io.xfers), addr[v] = sent[k].at
               PROVE  addr'[v] = addr[v]
    OBVIOUS
  <2>1. addr[v] = StartAddr(e.xfers[k])
    BY <1>11, <1>12 DEF Promised
  <2>2. v \in 1 .. Len(ad) /\ ad[v] = addr[v] /\ k \in 1 .. Len(e.xfers)
    BY <1>2, <1>3, <1>12
  <2> QED
    BY <1>9, <2>1, <2>2
<1>14. n <= Len(addr')
  BY <1>2, <1>9
<1>15. Follows
  <2>1. CASE io.state # "WRITING"
    <3>1. /\ io'.xfers = io.xfers
          /\ \A k \in 1 .. Len(io.xfers) : sent'[k] = sent[k]
          /\ Len(io.xfers) <= Len(io'.xfers)
      BY <1>1, <1>2, <1>5, <1>9, <2>1, IoTypes
    <3> QED
      BY <1>13, <1>14, <3>1 DEF Follows
  <2>2. CASE io.state = "WRITING"
    <3>1. EndedTable(io, e) /\ sent' = [sent EXCEPT ![Len(sent)].to = n + Held]
      BY <1>1, <1>5, <2>2
    <3>2. /\ \A k \in 1 .. io.w_xfer : io'.xfers[k] = io.xfers[k]
          /\ StartAddr(io'.xfers[io.w_xfer + 1]) = StartAddr(io.xfers[io.w_xfer + 1])
      BY <1>9, <3>1 DEF EndedTable
    <3>3. Len(io.xfers) = io.w_xfer + 1 /\ Len(sent) = Len(io.xfers)
      <4>1. ~io.sod_pending
        BY <1>11, <2>2 DEF Modes
      <4> QED
        BY <1>2, <1>11, <2>2, <4>1, StateOfTable DEF Asked
    <3>4. n + Held <= Len(addr')
      BY <1>2, <1>9
    <3> QED
      BY <1>2, <1>12, <1>13, <3>1, <3>2, <3>3, <3>4, FollowsEnded
  <2> QED
    BY <2>1, <2>2
<1>16. todo' \in Seq(Nat) /\ sent' \in Seq(SentRec)
  BY <1>1, <1>4 DEF ClosesFrom
<1> QED
  BY <1>1, <1>9, <1>10, <1>15, <1>16, WriterKeeps
=============================================================================
