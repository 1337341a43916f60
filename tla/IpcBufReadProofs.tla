-------------------------- MODULE IpcBufReadProofs ---------------------------
(***************************************************************************)
(* FULL counts the blocks a reader may still take, and a reader is told the  *)
(* truth about each: ReadInv is inductive.                                   *)
(***************************************************************************)
EXTENDS IpcBufTableProofs

-----------------------------------------------------------------------------
(***************************************************************************)
(* Counting the members of a set between two places.                        *)
(***************************************************************************)

(* There are finitely many. *)
LEMMA AmongFinite ==
  ASSUME NEW B, NEW from \in Int, NEW to \in Int
  PROVE  IsFiniteSet(Among(B, from, to)) /\ HowMany(B, from, to) \in Nat
<1>1. IsFiniteSet(from .. to - 1)
  BY FS_Interval
<1>2. Among(B, from, to) \in SUBSET (from .. to - 1)
  BY DEF Among
<1> QED
  BY <1>1, <1>2, FS_Subset, FS_CardinalityType DEF HowMany

(* If there is none, the number is zero. *)
LEMMA AmongEmpty ==
  ASSUME NEW B, NEW from \in Int, NEW to \in Int
  PROVE  HowMany(B, from, to) = 0 <=> Among(B, from, to) = {}
BY AmongFinite, FS_EmptySet DEF HowMany

(* The first place counts if it is a member. *)
LEMMA FirstAmong ==
  ASSUME NEW B, NEW from \in Int, NEW to \in Int, from < to
  PROVE  /\ from \in B =>
              HowMany(B, from, to) = HowMany(B, from + 1, to) + 1
         /\ from \notin B => Among(B, from, to) = Among(B, from + 1, to)
<1>1. IsFiniteSet(Among(B, from + 1, to)) /\ from + 1 \in Int
  BY AmongFinite
<1>2. from \notin Among(B, from + 1, to)
  BY DEF Among
<1>3. ASSUME from \in B
      PROVE  Among(B, from, to) = Among(B, from + 1, to) \cup {from}
  BY <1>3 DEF Among
<1>4. from \in B => HowMany(B, from, to) = HowMany(B, from + 1, to) + 1
  BY <1>1, <1>2, <1>3, FS_AddElement DEF HowMany
<1>5. ASSUME from \notin B
      PROVE  Among(B, from, to) = Among(B, from + 1, to)
  <2>1. \A b \in from .. to - 1 : b \in B => b \in from + 1 .. to - 1
    BY <1>5
  <2>2. \A b \in from + 1 .. to - 1 : b \in from .. to - 1
    OBVIOUS
  <2> QED
    BY <2>1, <2>2 DEF Among
<1> QED
  BY <1>4, <1>5

(* The last place counts if it is a member. *)
LEMMA LastAmong ==
  ASSUME NEW B, NEW from \in Int, NEW to \in Int, from <= to
  PROVE  /\ to \in B => HowMany(B, from, to + 1) = HowMany(B, from, to) + 1
         /\ to \notin B => Among(B, from, to + 1) = Among(B, from, to)
<1>1. IsFiniteSet(Among(B, from, to)) /\ to + 1 \in Int
  BY AmongFinite
<1>2. to \notin Among(B, from, to)
  BY DEF Among
<1>3. ASSUME to \in B
      PROVE  Among(B, from, to + 1) = Among(B, from, to) \cup {to}
  BY <1>3 DEF Among
<1>4. to \in B => HowMany(B, from, to + 1) = HowMany(B, from, to) + 1
  BY <1>1, <1>2, <1>3, FS_AddElement DEF HowMany
<1>5. ASSUME to \notin B
      PROVE  Among(B, from, to + 1) = Among(B, from, to)
  <2>1. \A b \in from .. to + 1 - 1 : b \in B => b \in from .. to - 1
    BY <1>5
  <2>2. \A b \in from .. to - 1 : b \in from .. to + 1 - 1
    OBVIOUS
  <2> QED
    BY <2>1, <2>2 DEF Among
<1> QED
  BY <1>4, <1>5

(* Places without a member may be left out. *)
LEMMA SkipNone ==
  ASSUME NEW B, NEW from \in Int, NEW mid \in Int, NEW to \in Int,
         from <= mid, Among(B, from, mid) = {}
  PROVE  Among(B, from, to) = Among(B, mid, to)
<1>1. \A b \in from .. to - 1 : b \in B => b \in mid .. to - 1
  <2> SUFFICES ASSUME NEW b \in from .. to - 1, b \in B, b < mid
               PROVE  FALSE
    OBVIOUS
  <2>1. b \in Among(B, from, mid)
    BY DEF Among
  <2> QED
    BY <2>1
<1>2. \A b \in mid .. to - 1 : b \in from .. to - 1
  OBVIOUS
<1> QED
  BY <1>1, <1>2 DEF Among

(* Members added beyond the places counted do not count. *)
LEMMA AddedBeyond ==
  ASSUME NEW B, NEW C, NEW from \in Int, NEW to \in Int,
         B \subseteq C, \A x \in C : x \in B \/ (x \in Int /\ x >= to)
  PROVE  Among(C, from, to) = Among(B, from, to)
BY DEF Among

(* A run of new members counts in full. *)
LEMMA AddedRun ==
  ASSUME NEW B, NEW from \in Int, NEW a \in Int, NEW to \in Int,
         from <= a, a <= to, \A b \in B : b \in Int /\ b < a
  PROVE  HowMany(B \cup (a .. to - 1), from, to)
           = HowMany(B, from, to) + (to - a)
<1> DEFINE N == a .. to - 1
           A == Among(B, from, to)
<1>1. IsFiniteSet(N) /\ Cardinality(N) = to - a
  <2>1. to - 1 \in Int
    OBVIOUS
  <2>2. /\ IsFiniteSet(N)
        /\ Cardinality(N) = IF a > to - 1 THEN 0 ELSE (to - 1) - a + 1
    BY <2>1, FS_Interval
  <2>3. (IF a > to - 1 THEN 0 ELSE (to - 1) - a + 1) = to - a
    OBVIOUS
  <2> QED
    BY <2>2, <2>3
<1>2. IsFiniteSet(A) /\ Cardinality(A) \in Nat
  BY AmongFinite DEF HowMany
<1>3. A \cap N = {}
  BY DEF Among
<1>4. Among(B \cup N, from, to) = A \cup N
  BY DEF Among
<1>5. Cardinality(A \cup N) = Cardinality(A) + Cardinality(N) - Cardinality(A \cap N)
  BY <1>1, <1>2, FS_Union
<1>6. Cardinality(A \cap N) = 0
  BY <1>3, FS_EmptySet
<1>7. Cardinality(A \cup N) = Cardinality(A) + (to - a)
  BY <1>1, <1>2, <1>5, <1>6
<1> QED
  BY <1>4, <1>7 DEF HowMany

-----------------------------------------------------------------------------
(***************************************************************************)
(* The blocks that are used, and how a step changes them.                   *)
(***************************************************************************)

(* Used blocks are filled blocks. *)
LEMMA UsedRange ==
  ASSUME AckInv
  PROVE  \A b \in UsedBlocks : b \in Nat /\ b < w_buf_curr
BY WriterTypes DEF UsedBlocks

(* A used block beyond the end of transfer k lies in a later one: then there  *)
(* is a transfer k + 1, and it started no later.                             *)
LEMMA UsedAfter ==
  ASSUME LayoutInv, NEW k \in Nat, k <= Len(ended), NEW b \in UsedBlocks,
         k = 0 \/ ended[k].buf < b
  PROVE  k + 1 <= Len(started) /\ started[k + 1].buf <= b
<1> USE DEF LayoutInv, TableInv
<1>1. PICK m \in 1 .. Len(started) : InTransfer(b, m)
  BY DEF UsedBlocks
<1>2. Len(started) \in Nat /\ Len(ended) \in Nat /\ m \in Nat /\ b \in Nat
  BY <1>1, WriterTypes, UsedRange
<1>3. m > k
  <2> SUFFICES ASSUME m <= k
               PROVE  FALSE
    BY <1>2
  <2>1. k \in 1 .. Len(ended) /\ m \in 1 .. k /\ m <= Len(ended)
    BY <1>1, <1>2
  <2>2. ended[m].buf <= ended[k].buf
    BY <2>1, EndsIncrease
  <2>3. b <= ended[m].buf
    BY <1>1, <2>1 DEF InTransfer
  <2>4. ended[m].buf \in Nat /\ ended[k].buf \in Nat
    BY <1>2, <2>1, EntryTypes
  <2>5. ended[k].buf < b
    BY <2>1
  <2> QED
    BY <1>2, <2>2, <2>3, <2>4, <2>5
<1>4. k + 1 \in 1 .. Len(started)
  BY <1>1, <1>2, <1>3
<1>5. started[m].buf <= b
  BY <1>1 DEF InTransfer
<1>6. CASE m = k + 1
  BY <1>4, <1>5, <1>6
<1>7. CASE m # k + 1
  <2>1. k + 1 \in 1 .. m - 1 /\ k + 1 \in 1 .. Len(ended)
    <3>1. Len(started) <= Len(ended) + 1
      BY HistoryLengths, WriterTypes
    <3> QED
      BY <1>1, <1>2, <1>3, <1>7, <3>1
  <2>2. ended[k + 1].buf < started[m].buf
    BY <1>1, <2>1 DEF Ordered
  <2>3. started[k + 1].buf <= ended[k + 1].buf
    BY <2>1 DEF Ordered
  <2>4. /\ ended[k + 1].buf \in Nat /\ started[k + 1].buf \in Nat
        /\ started[m].buf \in Nat
    BY <1>1, <1>4, <2>1, EntryTypes
  <2> QED
    BY <1>2, <1>4, <1>5, <2>2, <2>3, <2>4
<1> QED
  BY <1>6, <1>7

(* A filled block of a transfer is used. *)
LEMMA UsedIf ==
  ASSUME AckInv, NEW b \in Nat, b < w_buf_curr, NEW n \in 1 .. Len(started),
         InTransfer(b, n)
  PROVE  b \in UsedBlocks
BY WriterTypes DEF UsedBlocks

(* ipcbuf_enable_sod makes every block from the start of data on used. *)
LEMMA UsedBySod ==
  ASSUME LayoutInv, AckInv', NEW w \in Writers, SodSet(w)
  PROVE  /\ UsedBlocks' = UsedBlocks \cup (arg[w].buf .. w_buf_curr - 1)
         /\ \A b \in UsedBlocks : b \in Int /\ b < arg[w].buf
<1> USE DEF LayoutInv, TableInv
<1>1. pc[w] = "sod_set" /\ is_writer(w) /\ w_state = "DISCON"
  BY WriterSteps DEF SodSet, Goto, CallOrStep, LockWrite, AckInv, StatesAgree
<1>2. PlaceOf(w)
  BY <1>1 DEF WriterPlace
<1>3. /\ started' = Append(started, [buf |-> arg[w].buf, byte |-> arg[w].nbytes])
      /\ UNCHANGED <<ended, w_buf_curr>>
  BY DEF SodSet
<1>4. Len(started) = Len(ended)
  BY <1>1, HistoryLengths
<1>k. PICK k : k = Len(started) + 1
  OBVIOUS
<1>5. /\ \A n \in 1 .. Len(started) : started'[n] = started[n]
      /\ started'[k].buf = arg[w].buf
      /\ Len(started') = k
      /\ 1 .. Len(started') = (1 .. Len(started)) \cup {k}
  BY <1>k, <1>3, WriterTypes
<1>6. ASSUME NEW b \in UsedBlocks
      PROVE  b \in Int /\ b < arg[w].buf
  <2>1. PICK n \in 1 .. Len(started) : InTransfer(b, n)
    BY DEF UsedBlocks
  <2>2. n \in 1 .. Len(ended) /\ n <= Len(ended)
    BY <1>4, WriterTypes
  <2>3. b <= ended[n].buf /\ ended[n].buf < arg[w].buf
    BY <1>1, <1>2, <2>1, <2>2 DEF InTransfer, PlaceOf
  <2> QED
    BY <2>2, <2>3, UsedRange, EntryTypes, WriterTypes
<1>7. \A b : \A n \in 1 .. Len(started) : InTransfer(b, n)' <=> InTransfer(b, n)
  BY <1>3, <1>5 DEF InTransfer
<1>8. \A b : InTransfer(b, k)' <=> arg[w].buf <= b
  BY <1>k, <1>3, <1>4, <1>5, WriterTypes DEF InTransfer
<1>9. ASSUME NEW b
      PROVE  b \in UsedBlocks'
               <=> b \in UsedBlocks \/ b \in arg[w].buf .. w_buf_curr - 1
  <2>1. b \in UsedBlocks' <=>
          /\ b \in 0 .. w_buf_curr - 1
          /\ \/ \E n \in 1 .. Len(started) : InTransfer(b, n)'
             \/ InTransfer(b, k)'
    BY <1>3, <1>5 DEF UsedBlocks
  <2>2. b \in 0 .. w_buf_curr - 1 /\ arg[w].buf <= b
          <=> b \in arg[w].buf .. w_buf_curr - 1
    BY WriterTypes
  <2> QED
    BY <1>7, <1>8, <2>1, <2>2 DEF UsedBlocks
<1> QED
  BY <1>6, <1>9

(* ipcbuf_mark_filled makes the block it fills used. *)
LEMMA UsedByFill ==
  ASSUME LayoutInv, AckInv', NEW w \in Writers, Fill(w)
  PROVE  UsedBlocks' = UsedBlocks \cup {w_buf_curr} /\ w_buf_curr \notin UsedBlocks
<1> USE DEF LayoutInv, TableInv
<1>1. pc[w] = "fill" /\ is_writer(w)
  BY WriterSteps DEF Fill, Goto, CallOrStep, LockWrite
<1>2. PlaceOf(w)
  BY <1>1 DEF WriterPlace
<1>3. w_buf_curr' = w_buf_curr + 1 /\ UNCHANGED <<started, ended>>
  BY DEF Fill, ghost
<1>4. \E n \in 1 .. Len(started) : InTransfer(w_buf_curr, n)
  <2>1. CASE w_state = "WRITING"
    <3>1. Len(started) = Len(ended) + 1 /\ Len(started) \in 1 .. Len(started)
      BY <2>1, HistoryLengths, WriterTypes
    <3>2. started[Len(started)].buf <= w_buf_curr
      BY <3>1 DEF Ordered
    <3> QED
      BY <3>1, <3>2, Numbers DEF InTransfer
  <2>2. CASE ended # <<>> /\ ended[Len(ended)].buf = w_buf_curr
    <3>1. Len(ended) \in 1 .. Len(ended) /\ Len(ended) \in 1 .. Len(started)
      BY <2>2, HistoryLengths, WriterTypes
    <3>2. started[Len(ended)].buf <= w_buf_curr
      BY <2>2, <3>1 DEF Ordered
    <3> QED
      BY <2>2, <3>1, <3>2, WriterTypes DEF InTransfer
  <2> QED
    BY <1>1, <1>2, <2>1, <2>2 DEF PlaceOf
<1>5. \A b, n : InTransfer(b, n)' <=> InTransfer(b, n)
  BY <1>3 DEF InTransfer
<1>6. /\ 0 .. w_buf_curr = (0 .. w_buf_curr - 1) \cup {w_buf_curr}
      /\ w_buf_curr' - 1 = w_buf_curr
  <2>1. w_buf_curr \in Nat
    BY WriterTypes
  <2>2. \A n \in Nat : 0 .. n = (0 .. n - 1) \cup {n}
    OBVIOUS
  <2>3. w_buf_curr' - 1 = w_buf_curr
    BY <1>3, <2>1
  <2> QED
    BY <2>1, <2>2, <2>3
<1>7. UNCHANGED <<started, ended>>
        /\ (0 .. w_buf_curr' - 1 = (0 .. w_buf_curr - 1) \cup {w_buf_curr})
  BY <1>3, <1>6
<1>8. ASSUME NEW b
      PROVE  b \in UsedBlocks' <=> b \in UsedBlocks \/ b = w_buf_curr
  <2>1. b \in UsedBlocks' <=>
          /\ b \in 0 .. w_buf_curr' - 1
          /\ \E n \in 1 .. Len(started) : InTransfer(b, n)'
    BY <1>7 DEF UsedBlocks
  <2> QED
    BY <1>4, <1>5, <1>7, <2>1 DEF UsedBlocks
<1>9. w_buf_curr \notin UsedBlocks
  BY UsedRange, WriterTypes
<1> QED
  BY <1>8, <1>9

(* No other step of the writer uses a block or gives one back. *)
LEMMA UsedOtherwise ==
  ASSUME LayoutInv, AckInv', NEW w \in Writers, CallOrStep(w),
         ~SodSet(w), ~Fill(w)
  PROVE  /\ UsedBlocks' = UsedBlocks
         /\ w_buf_curr' = w_buf_curr + 1 => w_buf_curr \notin UsedBlocks'
<1> USE DEF LayoutInv, TableInv
<1>1. CASE EodSet(w)
  <2>1. /\ ended' = Append(ended, [buf |-> w_buf_curr, byte |-> arg[w].nbytes])
        /\ UNCHANGED <<started, w_buf_curr>>
    BY <1>1 DEF EodSet
  <2>2. ASSUME NEW b \in 0 .. w_buf_curr - 1, NEW n \in 1 .. Len(started)
        PROVE  InTransfer(b, n)' <=> InTransfer(b, n)
    <3>1. n \in Nat /\ Len(ended') = Len(ended) + 1 /\ b < w_buf_curr
      BY <2>1, WriterTypes
    <3>2. CASE n <= Len(ended)
      <4>1. ended'[n] = ended[n] /\ n <= Len(ended')
        BY <2>1, <3>1, <3>2, WriterTypes
      <4> QED
        BY <2>1, <3>2, <4>1 DEF InTransfer
    <3>3. CASE n = Len(ended) + 1
      <4>1. ended'[n].buf = w_buf_curr
        BY <2>1, <3>3, WriterTypes
      <4>2. b <= ended'[n].buf
        BY <3>1, <4>1, WriterTypes
      <4>3. ~(n <= Len(ended))
        BY <3>3, WriterTypes
      <4> QED
        BY <2>1, <4>2, <4>3 DEF InTransfer
    <3>4. CASE n > Len(ended) + 1
      <4>1. ~(n <= Len(ended)) /\ ~(n <= Len(ended'))
        BY <3>1, <3>4, Numbers
      <4> QED
        BY <2>1, <4>1 DEF InTransfer
    <3> QED
      BY <3>1, <3>2, <3>3, <3>4, WriterTypes
  <2>3. UsedBlocks' = UsedBlocks
    BY <2>1, <2>2 DEF UsedBlocks
  <2> QED
    BY <2>1, <2>3, WriterTypes
<1>2. CASE UNCHANGED <<started, ended, w_buf_curr>>
  <2>1. \A b, n : InTransfer(b, n)' <=> InTransfer(b, n)
    BY <1>2 DEF InTransfer
  <2> QED
    BY <1>2, <2>1, Numbers DEF UsedBlocks
<1>3. ASSUME NEW n \in 0 .. BufSz, MarkFilled(w, n), state[w] = "WRITER"
      PROVE  /\ UsedBlocks' = UsedBlocks
             /\ w_buf_curr \notin UsedBlocks'
  <2>1. /\ pc[w] = "idle" /\ is_writer(w) /\ w_buf_curr' = w_buf_curr + 1
        /\ UNCHANGED <<started, ended>>
    BY <1>3 DEF MarkFilled, ghost
  <2>2. Len(started) = Len(ended)
    BY <1>3, HistoryLengths DEF AckInv, StatesAgree
  <2>3. \A m \in 1 .. Len(ended) : ended[m].buf < w_buf_curr
    BY <2>1, EndsBehind DEF EndPending
  <2>4. ASSUME NEW m \in 1 .. Len(started)
        PROVE  ~InTransfer(w_buf_curr, m)
    <3>1. m \in 1 .. Len(ended) /\ m <= Len(ended)
      BY <2>2, WriterTypes
    <3>2. ended[m].buf \in Nat /\ ended[m].buf < w_buf_curr
      BY <2>3, <3>1, EntryTypes
    <3> QED
      BY SMTT(30), <3>1, <3>2, WriterTypes DEF InTransfer
  <2>5. \A b, m : InTransfer(b, m)' <=> InTransfer(b, m)
    BY <2>1 DEF InTransfer
  <2>c. w_buf_curr \in Nat
    BY WriterTypes
  <2>6. /\ 0 .. w_buf_curr = (0 .. w_buf_curr - 1) \cup {w_buf_curr}
        /\ w_buf_curr' - 1 = w_buf_curr
    BY <2>1, <2>c
  <2>7. ASSUME NEW b
        PROVE  b \in UsedBlocks' <=> b \in UsedBlocks
    <3>1. b \in UsedBlocks' <=>
            /\ b \in (0 .. w_buf_curr - 1) \cup {w_buf_curr}
            /\ \E m \in 1 .. Len(started) : InTransfer(b, m)'
      BY <2>1, <2>6 DEF UsedBlocks
    <3> QED
      BY <2>4, <2>5, <3>1 DEF UsedBlocks
  <2>8. w_buf_curr \notin UsedBlocks
    BY UsedRange, WriterTypes
  <2> QED
    BY <2>7, <2>8
<1>4. \/ EodSet(w) \/ UNCHANGED <<started, ended, w_buf_curr>>
      \/ \E n \in 0 .. BufSz : MarkFilled(w, n) /\ state[w] = "WRITER"
  BY DEF CallOrStep, LockWrite, UnlockWrite, EnableEod, DisableSod,
         SetSoclockBuf, EnableSod, CallEnableSod, GetNextWrite, MarkFilled,
         ZeroNextWrite, SodAck, SodFull, Drain, TakeBlock, EodAck, PostFull,
         wsync, ghost
<1> QED
  BY <1>1, <1>2, <1>3, <1>4

-----------------------------------------------------------------------------
(***************************************************************************)
(* What the steps of the writer and of the readers leave alone.             *)
(***************************************************************************)

(* The types of what a reader reads and writes. *)
LEMMA ReaderTypes ==
  ASSUME AckInv
  PROVE  /\ r_bufs \in [Slots -> Nat] /\ r_xfers \in [Slots -> Nat]
         /\ r_states \in [Slots -> {"DISCON", "READING"}]
         /\ FULL \in [Slots -> Nat] /\ CLEAR \in [Slots -> Nat]
         /\ start_byte \in [Readers -> Nat] /\ bytes \in [Readers -> Int]
         /\ xfer \in [Procs -> XferSlots]
         /\ pc \in [Procs -> WriterPcs \cup ReaderPcs]
         /\ state \in [Procs -> {"VIEWER"} \cup WriterStates \cup ReaderStates]
         /\ Readers \subseteq Procs
         /\ Slots = 0 .. NReaders - 1 /\ NReaders \in Nat \ {0}
BY SizesAssumption
   DEF AckInv, LockInv, TypeOK, ReadType, SemType, ReaderType, ProcType, Procs,
       Slots

(* A reader that has a block is connected, inside a transfer or about to     *)
(* start one.                                                               *)
LEMMA HolderConnected ==
  ASSUME AckInv, NEW r \in Readers, pc[r] \in HeldPcs
  PROVE  /\ Connected(r) /\ iread[r] \in Slots
         /\ pc[r] # "start" =>
              state[r] = "READING" /\ r_states[iread[r]] = "READING"
         /\ pc[r] = "start" => r_states[iread[r]] = "DISCON"
<1>1. is_reader(r) /\ iread[r] \in Slots /\ Connected(r)
  BY DEF AckInv, LockInv, Control, InsidePcs, HeldPcs, Connected
<1>2. pc[r] # "start" => state[r] = "READING"
  BY DEF AckInv, LockInv, Control, HeldPcs
<1>3. pc[r] = "start" => state[r] # "READING"
  BY DEF AckInv, LockInv, Control, HeldPcs
<1> QED
  BY <1>1, <1>2, <1>3, ReaderTypes DEF AckInv, StatesAgree

(* The reader of a slot is the only one to have its block. *)
LEMMA HeldBy ==
  ASSUME AckInv, NEW r \in Readers, Connected(r)
  PROVE  /\ Held(iread[r]) <=> pc[r] \in HeldPcs
         /\ Cleared(iread[r]) <=> pc[r] = "cleared"
<1>1. \A q \in Readers : iread[q] = iread[r] /\ pc[q] \in HeldPcs => q = r
  BY HolderConnected DEF AckInv, LockInv, Exclusive
<1> QED
  BY <1>1 DEF Held, Cleared, HeldPcs

(* A reader's step that is about its block, or one that is not. *)
LEMMA ReaderCases ==
  ASSUME AckInv, AckInv', NEW r \in Readers, ReadStep(r)
  PROVE  \/ /\ GetNextRead(r) \/ StartXfer(r) \/ GetBytes(r)
               \/ MarkCleared(r) \/ Advance(r)
            /\ Connected(r) /\ Connected(r)' /\ iread[r] \in Slots
            /\ UNCHANGED iread
         \/ /\ UNCHANGED <<rsync, FULL, CLEAR, start_byte, bytes>>
            /\ pc[r] \notin HeldPcs /\ pc'[r] \notin HeldPcs
<1>t. /\ pc \in [Procs -> WriterPcs \cup ReaderPcs] /\ r \in Procs
      /\ state \in [Procs -> {"VIEWER"} \cup WriterStates \cup ReaderStates]
  BY ReaderTypes
<1>1. ASSUME \/ GetNextRead(r) \/ StartXfer(r) \/ GetBytes(r)
             \/ MarkCleared(r) \/ Advance(r)
      PROVE  Connected(r) /\ Connected(r)' /\ iread[r] \in Slots
             /\ UNCHANGED iread
  <2>1. pc[r] \in InsidePcs \ {"unlock"} /\ pc'[r] \in InsidePcs \ {"unlock"}
    BY <1>t, <1>1
       DEF GetNextRead, StartXfer, GetBytes, MarkCleared, Advance, Goto,
           InsidePcs
  <2>2. UNCHANGED iread
    BY <1>1 DEF GetNextRead, StartXfer, GetBytes, MarkCleared, Advance, rproc
  <2>3. is_reader(r) /\ iread[r] \in Slots
    BY <2>1 DEF AckInv, LockInv, Control
  <2>4. is_reader(r)'
    BY <2>1 DEF AckInv, LockInv, Control
  <2> QED
    BY <2>1, <2>2, <2>3, <2>4 DEF Connected
<1>2. ASSUME \/ LockRead(r) \/ Connect(r) \/ ConnectFailed(r) \/ Unlocked(r)
             \/ ResetRead(r) \/ UnlockRead(r)
      PROVE  /\ UNCHANGED <<rsync, FULL, CLEAR, start_byte, bytes>>
             /\ pc[r] \notin HeldPcs /\ pc'[r] \notin HeldPcs
  BY <1>t, <1>2
     DEF LockRead, Connect, ConnectFailed, Unlocked, ResetRead, UnlockRead,
         Goto, HeldPcs, rproc
<1> QED
  BY <1>1, <1>2 DEF ReadStep, ReaderWork

(* A step that takes no block and releases none. *)
LEMMA HeldQuiet ==
  ASSUME AckInv, NEW r \in Readers, ReadStep(r),
         pc[r] \notin HeldPcs, pc'[r] \notin HeldPcs, NEW s
  PROVE  (Held(s)' <=> Held(s)) /\ (Cleared(s)' <=> Cleared(s))
<1>1. \A q \in Readers : q # r => pc'[q] = pc[q] /\ iread'[q] = iread[q]
  BY ReaderFrame DEF OnlyMoves, Procs
<1> QED
  BY <1>1 DEF Held, Cleared, HeldPcs

(* A step about the block of one slot leaves the other slots alone. *)
LEMMA HeldMoves ==
  ASSUME AckInv, AckInv', NEW r \in Readers, ReadStep(r),
         Connected(r), Connected(r)', UNCHANGED iread
  PROVE  /\ \A s : s # iread[r] => (Held(s)' <=> Held(s))
         /\ \A s : s # iread[r] => (Cleared(s)' <=> Cleared(s))
         /\ Held(iread[r]) <=> pc[r] \in HeldPcs
         /\ Cleared(iread[r]) <=> pc[r] = "cleared"
         /\ \A s : s = iread[r] => (Held(s)' <=> pc'[r] \in HeldPcs)
         /\ \A s : s = iread[r] => (Cleared(s)' <=> pc'[r] = "cleared")
<1>1. \A q \in Readers : q # r => pc'[q] = pc[q] /\ iread'[q] = iread[q]
  BY ReaderFrame DEF OnlyMoves, Procs
<1>2. \A q \in Readers : iread[q] = iread[r] /\ pc[q] \in HeldPcs => q = r
  BY HolderConnected DEF AckInv, LockInv, Exclusive
<1> QED
  BY <1>1, <1>2, HeldBy DEF Held, Cleared, HeldPcs

(* The writer moves no reader. *)
LEMMA WriterKeepsReaders ==
  ASSUME AckInv, NEW w \in Writers, CallOrStep(w)
  PROVE  /\ UNCHANGED <<rsync, iread, start_byte, bytes>>
         /\ \A r \in Readers : /\ pc'[r] = pc[r] /\ state'[r] = state[r]
                               /\ xfer'[r] = xfer[r]
         /\ \A s : (Held(s)' <=> Held(s)) /\ (Cleared(s)' <=> Cleared(s))
<1>1. UNCHANGED <<rsync, iread, start_byte, bytes>>
  BY WriterFrame DEF rproc
<1>2. \A r \in Readers : /\ pc'[r] = pc[r] /\ state'[r] = state[r]
                         /\ xfer'[r] = xfer[r]
  BY WriterFrame, ProcessAssumption DEF OnlyMoves, Procs
<1>3. \A s : (Held(s)' <=> Held(s)) /\ (Cleared(s)' <=> Cleared(s))
  BY <1>1, <1>2 DEF Held, Cleared
<1> QED
  BY <1>1, <1>2, <1>3

(* The writer only adds to the history, and it ends transfers where it is. *)
LEMMA HistoryGrows ==
  ASSUME AckInv, NEW w \in Writers, CallOrStep(w), WriterOp
  PROVE  /\ Len(started') \in Nat /\ Len(started) <= Len(started')
         /\ \A n \in 1 .. Len(started) : started'[n] = started[n]
         /\ Len(ended') \in Nat /\ Len(ended) <= Len(ended')
         /\ \A n \in 1 .. Len(ended) : ended'[n] = ended[n]
         /\ \A n \in 1 .. Len(ended') :
              n > Len(ended) => ended'[n].buf = w_buf_curr
         /\ w_buf_curr' \in Nat /\ w_buf_curr <= w_buf_curr'
<1>1. w_buf_curr' \in {w_buf_curr, w_buf_curr + 1}
  BY EndPendingStep
<1>2. w_buf_curr' \in Nat /\ w_buf_curr <= w_buf_curr'
  BY <1>1, WriterTypes
<1>3. CASE SodSet(w)
  BY <1>2, <1>3, WriterTypes DEF SodSet
<1>4. CASE EodSet(w)
  <2>1. PICK e : ended' = Append(ended, e) /\ e.buf = w_buf_curr
    BY <1>4 DEF EodSet
  <2>2. started' = started
    BY <1>4 DEF EodSet
  <2>3. ended \in Seq(Extent)
    BY WriterTypes
  <2>4. /\ Len(ended') = Len(ended) + 1
        /\ \A n \in 1 .. Len(ended) : ended'[n] = ended[n]
        /\ ended'[Len(ended) + 1].buf = w_buf_curr
    BY <2>1, <2>3
  <2>5. \A n \in 1 .. Len(ended') : n > Len(ended) => n = Len(ended) + 1
    BY <2>4, Numbers
  <2> QED
    BY <1>2, <2>2, <2>4, <2>5, Numbers
<1>5. CASE UNCHANGED <<w_state, w_xfer, xsync, started, ended>>
  BY <1>2, <1>5, Numbers
<1> QED
  BY <1>3, <1>4, <1>5, TableFrame

(* Where a reader is, is a block number. *)
LEMMA NextDueType ==
  ASSUME AckInv, NEW s \in Slots, r_xfers[s] <= Len(ended)
  PROVE  NextDue(s) \in Nat
<1>1. CASE r_states[s] # "READING" /\ r_xfers[s] # 0
  <2>1. r_xfers[s] \in 1 .. Len(ended)
    BY <1>1, ReaderTypes, Numbers
  <2> QED
    BY <1>1, <2>1, EntryTypes DEF NextDue
<1>2. CASE r_states[s] = "READING" \/ r_xfers[s] = 0
  BY <1>2, ReaderTypes DEF NextDue
<1> QED
  BY <1>1, <1>2

-----------------------------------------------------------------------------
(***************************************************************************)
(* The readers' places.                                                     *)
(***************************************************************************)

(* Where a reader is that has a block of a transfer it has started. *)
LEMMA ReaderInside ==
  ASSUME LayoutInv, ReadPlace, NEW r \in Readers,
         pc[r] \in {"bytes", "hold", "cleared"}
  PROVE  LET s == iread[r]
             n == r_xfers[s] + 1
         IN  /\ s \in Slots /\ Connected(r) /\ state[r] = "READING"
             /\ r_states[s] = "READING" /\ Held(s)
             /\ n \in 1 .. Len(started) /\ n <= Len(ended) + 1
             /\ started[n].buf <= r_bufs[s] /\ r_bufs[s] < w_buf_curr
             /\ n <= Len(ended) => r_bufs[s] <= ended[n].buf
             /\ NextDue(s) = r_bufs[s] /\ r_bufs[s] \in UsedBlocks
<1> DEFINE s == iread[r]
           n == r_xfers[s] + 1
<1> USE DEF LayoutInv, TableInv
<1>1. /\ s \in Slots /\ Connected(r) /\ state[r] = "READING"
      /\ r_states[s] = "READING" /\ Held(s)
  BY HolderConnected, HeldBy DEF HeldPcs
<1>2. ReadPlaceOf(s, n)
  BY <1>1 DEF ReadPlace
<1>3. r_xfers[s] \in Nat /\ r_bufs[s] \in Nat
  BY <1>1, ReaderTypes
<1>4. n \in 1 .. Len(started) /\ n <= Len(ended) + 1
  <2>1. Len(started) \in Nat /\ Len(ended) \in Nat
    BY WriterTypes
  <2>2. n <= Len(started) /\ r_xfers[s] <= Len(ended)
    BY <1>1, <1>2 DEF ReadPlaceOf
  <2> QED
    BY <1>3, <2>1, <2>2
<1>5. /\ started[n].buf <= r_bufs[s] /\ r_bufs[s] < w_buf_curr
      /\ n <= Len(ended) => r_bufs[s] <= ended[n].buf
  BY <1>1, <1>2 DEF ReadPlaceOf
<1>6. NextDue(s) = r_bufs[s]
  BY <1>1 DEF NextDue
<1>7. r_bufs[s] \in UsedBlocks
  BY <1>3, <1>4, <1>5, UsedIf DEF InTransfer
<1> QED
  BY <1>1, <1>4, <1>5, <1>6, <1>7

(* The sync structure shows a reader the end of data exactly at the block in  *)
(* which its transfer ended.                                                *)
LEMMA AtEodIff ==
  ASSUME LayoutInv, ReadPlace, KnowsXfer, NEW r \in Readers,
         pc[r] \in {"bytes", "hold", "cleared"}
  PROVE  LET n == r_xfers[iread[r]] + 1
         IN  AtEod(r) <=> n <= Len(ended) /\ ended[n].buf = r_bufs[iread[r]]
<1> DEFINE s == iread[r]
           n == r_xfers[s] + 1
<1> USE DEF LayoutInv, TableInv
<1>1. /\ s \in Slots /\ Connected(r) /\ state[r] = "READING"
      /\ r_states[s] = "READING"
      /\ n \in 1 .. Len(started) /\ n <= Len(ended) + 1
      /\ started[n].buf <= r_bufs[s]
  BY ReaderInside
<1>2. xfer[r] = r_xfers[s] % XFERS
  BY <1>1 DEF KnowsXfer
<1>3. r_xfers[s] \in Nat /\ r_bufs[s] \in Nat /\ n - 1 = r_xfers[s]
  BY <1>1, ReaderTypes
<1> SUFFICES eod[xfer[r]] /\ r_bufs[s] = e_buf[xfer[r]]
               <=> n <= Len(ended) /\ ended[n].buf = r_bufs[s]
  BY DEF AtEod
<1>4. CASE n <= Len(ended)
  <2>1. n \in r_xfers[s] + 1 .. Len(ended)
    BY <1>3, <1>4, Numbers
  <2>2. EndValid(s)
    BY <1>1, SlotsValid DEF AckInv
  <2>3. /\ eod[(n - 1) % XFERS]
        /\ e_buf[(n - 1) % XFERS] = ended[n].buf
    BY <2>1, <2>2 DEF EndValid
  <2> HIDE DEF n, s
  <2> QED
    BY <1>2, <1>3, <1>4, <2>3
<1>5. CASE ~(n <= Len(ended))
  <2>n. Len(started) \in Nat /\ Len(ended) \in Nat
    BY Numbers
  <2>h. /\ w_state = "DISCON" => Len(started) = Len(ended)
        /\ w_state = "WRITING" => Len(started) = Len(ended) + 1
        /\ w_state \in {"DISCON", "WRITING"}
    BY HistoryLengths, WriterTypes
  <2>i. n \in Nat /\ n <= Len(started) /\ n <= Len(ended) + 1
    BY <1>1, <1>3
  <2> HIDE DEF n
  <2>1. n = Len(ended) + 1 /\ Len(started) = n
    BY <1>5, <2>n, <2>h, <2>i
  <2>2. w_state = "WRITING"
    BY <2>1, <2>h, <2>n
  <2> USE DEF n
  <2>3. w_xfer = r_xfers[s]
    BY <1>3, <2>1, Numbers DEF History
  <2>4. ASSUME eod[xfer[r]]
        PROVE  e_buf[xfer[r]] < r_bufs[s]
    <3>1. e_buf[xfer[r]] < started[n].buf
      BY <1>2, <2>1, <2>2, <2>3, <2>4 DEF OpenEntry
    <3>2. e_buf[xfer[r]] \in Nat /\ started[n].buf \in Nat
      BY <1>1, ReaderTypes, EntryTypes DEF AckInv, LockInv, TypeOK, XferType,
         Procs
    <3> QED
      BY <1>1, <1>3, <3>1, <3>2
  <2>5. eod[xfer[r]] => e_buf[xfer[r]] # r_bufs[s]
    <3>1. e_buf[xfer[r]] \in Nat
      BY ReaderTypes DEF AckInv, LockInv, TypeOK, XferType, Procs
    <3> QED
      BY <1>3, <2>4, <3>1
  <2> QED
    BY <1>5, <2>5
<1> QED
  BY <1>4, <1>5

(* The place of a reader stays right while the writer adds blocks and         *)
(* transfers.                                                               *)
LEMMA PlaceByWriter ==
  ASSUME LayoutInv, ReadPlace, NEW w \in Writers, CallOrStep(w), NEW s \in Slots
  PROVE  /\ ReadPlaceOf(s, r_xfers[s] + 1)'
         /\ NextDue(s)' = NextDue(s) /\ NextDue(s) \in Nat
<1> USE DEF LayoutInv, TableInv
<1> DEFINE n == r_xfers[s] + 1
<1>1. /\ UNCHANGED <<r_bufs, r_states, r_xfers>>
      /\ Held(s)' <=> Held(s)
  BY WriterKeepsReaders DEF rsync
<1>2. ReadPlaceOf(s, n)
  BY DEF ReadPlace
<1>3. r_xfers[s] \in Nat /\ r_bufs[s] \in Nat /\ r_xfers[s] <= Len(ended)
      /\ r_states[s] \in {"DISCON", "READING"} /\ n \in Nat /\ n >= 1
  BY <1>2, ReaderTypes DEF ReadPlaceOf
<1>4. NextDue(s) \in Nat
  BY <1>3, NextDueType
<1>5. NextDue(s)' = NextDue(s)
  <2>1. r_xfers[s] # 0 => r_xfers[s] \in 1 .. Len(ended)
    BY <1>3, Numbers
  <2>2. r_xfers[s] # 0 => ended'[r_xfers[s]] = ended[r_xfers[s]]
    BY <2>1, HistoryGrows
  <2> QED
    BY <1>1, <2>2 DEF NextDue
<1>g. /\ Len(started) \in Nat /\ Len(started') \in Nat
      /\ Len(started) <= Len(started')
      /\ Len(ended) \in Nat /\ Len(ended') \in Nat /\ Len(ended) <= Len(ended')
      /\ w_buf_curr \in Nat /\ w_buf_curr' \in Nat /\ w_buf_curr <= w_buf_curr'
  BY HistoryGrows, WriterTypes
<1>6. /\ r_xfers[s] <= Len(ended') /\ NextDue(s) <= w_buf_curr'
  <2>1. NextDue(s) <= w_buf_curr
    BY <1>2 DEF ReadPlaceOf
  <2> QED
    BY <1>3, <1>4, <1>g, <2>1
<1>7. n <= Len(started) => n <= Len(started') /\ started'[n] = started[n]
                           /\ started[n].buf \in Nat
  <2> SUFFICES ASSUME n <= Len(started)
               PROVE  n <= Len(started') /\ started'[n] = started[n]
                      /\ started[n].buf \in Nat
    OBVIOUS
  <2>1. n \in 1 .. Len(started)
    BY <1>3, Numbers
  <2>2. started'[n] = started[n] /\ started[n].buf \in Nat
    BY <2>1, HistoryGrows, EntryTypes
  <2>3. n <= Len(started')
    <3>1. Len(started) <= Len(started') /\ Len(started') \in Nat
      BY HistoryGrows, Numbers
    <3>2. Len(started) \in Nat
      BY Numbers
    <3> QED
      BY <1>3, <3>1, <3>2
  <2> QED
    BY <2>2, <2>3
<1>8. ASSUME r_states[s] = "READING", n <= Len(ended')
      PROVE  r_bufs[s] <= ended'[n].buf
  <2>1. CASE n <= Len(ended)
    <3>1. n \in 1 .. Len(ended)
      BY <1>3, <2>1, WriterTypes
    <3>2. ended'[n] = ended[n]
      BY <3>1, HistoryGrows
    <3> QED
      BY <1>2, <1>8, <2>1, <3>2 DEF ReadPlaceOf
  <2>2. CASE ~(n <= Len(ended))
    <3>1. n \in 1 .. Len(ended') /\ n > Len(ended)
      BY <1>3, <1>8, <1>g, <2>2
    <3>2. ended'[n].buf = w_buf_curr
      BY <3>1, HistoryGrows
    <3>3. r_bufs[s] <= w_buf_curr
      BY <1>2, <1>8 DEF ReadPlaceOf, NextDue
    <3> QED
      BY <3>2, <3>3
  <2> QED
    BY <2>1, <2>2
<1>9. ReadPlaceOf(s, n)'
  BY <1>1, <1>2, <1>3, <1>5, <1>6, <1>7, <1>8, <1>g DEF ReadPlaceOf
<1> QED
  BY <1>1, <1>4, <1>5, <1>9

(* A reader's step adds no block and no transfer. *)
LEMMA ReaderKeepsBlocks ==
  ASSUME AckInv, NEW r \in Readers, ReadStep(r)
  PROVE  /\ UNCHANGED <<started, ended, w_buf_curr, w_buf_next, w_state, w_xfer,
                        UsedBlocks, s_buf, s_byte, eod, e_buf, e_byte, count,
                        mem>>
         /\ \A v \in Writers : /\ pc'[v] = pc[v] /\ op'[v] = op[v]
                               /\ arg'[v] = arg[v] /\ ir'[v] = ir[v]
<1>1. UNCHANGED <<wsync, xsync, wproc, count, started, ended, mem>>
  BY ReaderFrame DEF ghost
<1>2. \A b, n : InTransfer(b, n)' <=> InTransfer(b, n)
  BY <1>1 DEF InTransfer
<1>3. UsedBlocks' = UsedBlocks
  BY <1>1, <1>2 DEF UsedBlocks, wsync
<1>4. \A v \in Writers : pc'[v] = pc[v]
  BY ReaderFrame, ProcessAssumption DEF OnlyMoves, Procs
<1> QED
  BY <1>1, <1>3, <1>4 DEF wsync, xsync, wproc

(* A number of blocks, never a negative one, waits to be posted. *)
LEMMA UnpostedType ==
  ASSUME LayoutInv, NEW s \in Slots
  PROVE  Unposted(s) \in Nat
<1> USE DEF LayoutInv, TableInv
<1>1. ASSUME NEW w \in Writers, pc[w] = "sod_full"
      PROVE  w_buf_curr - started[Len(started)].buf \in Nat
  <2>1. is_writer(w)
    BY <1>1 DEF AckInv, LockInv, Control
  <2>2. w_state = "WRITING"
    BY <1>1, <2>1 DEF WriterPlace, PlaceOf
  <2>3. Len(started) \in 1 .. Len(started)
    BY <2>2, HistoryLengths, WriterTypes
  <2>4. started[Len(started)].buf <= w_buf_curr
    BY <2>3 DEF Ordered
  <2>5. started[Len(started)].buf \in Nat /\ w_buf_curr \in Nat
    BY <2>3, EntryTypes, Numbers
  <2> QED
    BY <2>4, <2>5
<1> QED
  BY <1>1 DEF Unposted

(* A token in FULL stands for a used block the reader has not had. *)
LEMMA FullMeansMore ==
  ASSUME LayoutInv, FullTokens, NEW s \in Slots, FULL[s] > 0,
         NextDue(s) \in Nat
  PROVE  \E b \in UsedBlocks : NextDue(s) <= b /\ b < w_buf_curr
<1> USE DEF LayoutInv, TableInv
<1>1. FULL[s] + Unposted(s) + (IF Held(s) THEN 1 ELSE 0)
        = HowMany(UsedBlocks, NextDue(s), w_buf_curr)
  BY DEF FullTokens
<1>2. FULL[s] \in Nat /\ Unposted(s) \in Nat /\ w_buf_curr \in Int
  BY UnpostedType, ReaderTypes, WriterTypes
<1>3. HowMany(UsedBlocks, NextDue(s), w_buf_curr) # 0
  BY <1>1, <1>2
<1>4. PICK b : b \in Among(UsedBlocks, NextDue(s), w_buf_curr)
  BY <1>2, <1>3, AmongEmpty
<1> QED
  BY <1>2, <1>4 DEF Among

(* Between two transfers: the next block a reader gets is in the next one. *)
LEMMA NextIsLater ==
  ASSUME LayoutInv, ReadPlace, NEW s \in Slots, r_states[s] = "DISCON",
         NEW b \in UsedBlocks, NextDue(s) <= b
  PROVE  r_xfers[s] + 1 <= Len(started) /\ started[r_xfers[s] + 1].buf <= b
<1> USE DEF LayoutInv, TableInv
<1>1. r_xfers[s] \in Nat /\ r_xfers[s] <= Len(ended) /\ b \in Nat
  BY ReaderTypes, UsedRange DEF ReadPlace, ReadPlaceOf
<1>2. r_xfers[s] = 0 \/ ended[r_xfers[s]].buf < b
  <2> SUFFICES ASSUME r_xfers[s] # 0
               PROVE  ended[r_xfers[s]].buf < b
    OBVIOUS
  <2>1. r_xfers[s] \in 1 .. Len(ended)
    BY <1>1, WriterTypes
  <2>2. ended[r_xfers[s]].buf \in Nat
    BY <2>1, EntryTypes
  <2>3. ended[r_xfers[s]].buf + 1 <= b
    BY DEF NextDue
  <2> QED
    BY <1>1, <2>2, <2>3
<1> QED
  BY <1>1, <1>2, UsedAfter

(* ipcbuf_get_next_read takes a token: there is a block for it. *)
LEMMA PlaceByGetNextRead ==
  ASSUME LayoutInv, AckInv', ReadPlace, FullTokens, NEW r \in Readers,
         GetNextRead(r), NEW s, s = iread[r]
  PROVE  /\ ReadPlaceOf(s, r_xfers[s] + 1)'
         /\ NextDue(s)' = NextDue(s)
         /\ ~Held(s) /\ Held(s)' /\ ~Cleared(s) /\ ~Cleared(s)'
<1> DEFINE n == r_xfers[s] + 1
<1> USE DEF LayoutInv, TableInv
<1>1. /\ ReadStep(r) /\ Connected(r) /\ Connected(r)' /\ s \in Slots
      /\ UNCHANGED iread
  BY ReaderCases DEF ReadStep, ReaderWork, GetNextRead, Goto, HeldPcs,
     AckInv, LockInv, Control, InsidePcs, Connected, rproc
<1>2. /\ pc[r] = "ready" /\ pc'[r] \in {"start", "bytes"} /\ FULL[s] > 0
      /\ UNCHANGED <<r_bufs, r_states, r_xfers, started, ended, w_buf_curr>>
  BY ReaderTypes DEF GetNextRead, Goto, Avail, rsync, wsync, ghost
<1>3. ~Held(s) /\ Held(s)' /\ ~Cleared(s) /\ ~Cleared(s)'
  BY <1>1, <1>2, HeldMoves DEF HeldPcs
<1>4. ReadPlaceOf(s, n)
  BY <1>1 DEF ReadPlace
<1>5. NextDue(s) \in Nat
  BY <1>1, <1>4, NextDueType DEF ReadPlaceOf
<1>6. PICK b \in UsedBlocks : NextDue(s) <= b /\ b < w_buf_curr
  BY <1>1, <1>2, <1>5, FullMeansMore
<1>7. b \in Nat /\ w_buf_curr \in Nat
  BY UsedRange, WriterTypes
<1>8. r_states[s] = "READING" => r_bufs[s] < w_buf_curr
  BY <1>5, <1>6, <1>7 DEF NextDue
<1>9. ASSUME r_states[s] = "DISCON"
      PROVE  n <= Len(started) /\ started[n].buf < w_buf_curr
  <2>1. n <= Len(started) /\ started[n].buf <= b
    BY <1>1, <1>6, <1>9, NextIsLater
  <2>2. n \in 1 .. Len(started)
    <3>1. r_xfers[s] \in Nat /\ Len(started) \in Nat
      BY <1>1, ReaderTypes, WriterTypes
    <3> QED
      BY <2>1, <3>1
  <2> QED
    BY <1>6, <1>7, <2>1, <2>2, EntryTypes
<1>10. NextDue(s)' = NextDue(s)
  BY <1>1, <1>2 DEF NextDue
<1>11. ReadPlaceOf(s, n)'
  BY <1>1, <1>2, <1>3, <1>4, <1>8, <1>9, <1>10 DEF ReadPlaceOf
<1> QED
  BY <1>1, <1>2, <1>3, <1>10, <1>11

(* The first block of a transfer: the reader skips to where it starts. *)
LEMMA PlaceByStartXfer ==
  ASSUME LayoutInv, AckInv', ReadPlace, NEW r \in Readers, StartXfer(r),
         NEW s, s = iread[r]
  PROVE  /\ s \in Slots /\ r_states[s] = "DISCON" /\ ReadStep(r)
         /\ ReadPlaceOf(s, r_xfers[s] + 1)'
         /\ r_bufs'[s] = started[r_xfers[s] + 1].buf
         /\ start_byte'[r] = started[r_xfers[s] + 1].byte
         /\ r_xfers[s] + 1 \in 1 .. Len(started)
         /\ NextDue(s)' = r_bufs'[s] /\ NextDue(s) <= NextDue(s)'
         /\ NextDue(s) \in Nat /\ NextDue(s)' \in Nat
         /\ Among(UsedBlocks, NextDue(s), NextDue(s)') = {}
         /\ Held(s) /\ Held(s)' /\ ~Cleared(s) /\ ~Cleared(s)'
<1> DEFINE n == r_xfers[s] + 1
<1> USE DEF LayoutInv, TableInv
<1>1. /\ ReadStep(r) /\ Connected(r) /\ Connected(r)' /\ s \in Slots
      /\ UNCHANGED iread
  BY ReaderCases DEF ReadStep, ReaderWork, StartXfer, Goto, HeldPcs,
     AckInv, LockInv, Control, InsidePcs, Connected, rproc
<1>2. /\ pc[r] = "start" /\ pc'[r] = "bytes"
      /\ r_bufs' = [r_bufs EXCEPT ![s] = s_buf[r_xfers[s] % XFERS]]
      /\ r_states' = [r_states EXCEPT ![s] = "READING"]
      /\ start_byte' = [start_byte EXCEPT ![r] = s_byte[r_xfers[s] % XFERS]]
      /\ UNCHANGED <<r_xfers, started, ended, w_buf_curr>>
  BY ReaderTypes DEF StartXfer, Goto, wsync, ghost
<1>3. Held(s) /\ Held(s)' /\ ~Cleared(s) /\ ~Cleared(s)'
  BY <1>1, <1>2, HeldMoves DEF HeldPcs
<1>4. r_states[s] = "DISCON"
  BY <1>2, HolderConnected DEF HeldPcs
<1>5. ReadPlaceOf(s, n)
  BY <1>1 DEF ReadPlace
<1>6. /\ r_xfers[s] \in Nat /\ Len(started) \in Nat /\ Len(ended) \in Nat
      /\ w_buf_curr \in Nat
  BY <1>1, ReaderTypes, WriterTypes
<1>7. n \in 1 .. Len(started) /\ started[n].buf < w_buf_curr
  BY <1>3, <1>4, <1>5, <1>6 DEF ReadPlaceOf
<1>8. s_buf[r_xfers[s] % XFERS] = started[n].buf
      /\ s_byte[r_xfers[s] % XFERS] = started[n].byte
  <2>1. StartValid(s)
    BY <1>1, SlotsValid DEF AckInv
  <2>2. n \in ReadStarted(s) + 1 .. Len(started)
    BY <1>4, <1>6, <1>7 DEF ReadStarted
  <2>3. /\ s_buf[(n - 1) % XFERS] = started[n].buf
        /\ s_byte[(n - 1) % XFERS] = started[n].byte
    BY <2>1, <2>2 DEF StartValid
  <2>4. n - 1 = r_xfers[s]
    BY <1>6
  <2> HIDE DEF n
  <2> QED
    BY <2>3, <2>4
<1>9. /\ r_bufs'[s] = started[n].buf /\ r_states'[s] = "READING"
      /\ start_byte'[r] = started[n].byte
  BY <1>1, <1>2, <1>8, ReaderTypes
<1>10. NextDue(s)' = started[n].buf
  BY <1>9 DEF NextDue
<1>11. NextDue(s) \in Nat /\ started[n].buf \in Nat
  BY <1>1, <1>5, <1>7, NextDueType, EntryTypes DEF ReadPlaceOf
<1>12. NextDue(s) <= started[n].buf
  <2>1. CASE r_xfers[s] = 0
    BY <1>4, <1>11, <2>1 DEF NextDue
  <2>2. CASE r_xfers[s] # 0
    <3>1. r_xfers[s] \in 1 .. Len(ended) /\ r_xfers[s] \in 1 .. n - 1
      BY <1>5, <1>6, <2>2 DEF ReadPlaceOf
    <3>2. ended[r_xfers[s]].buf < started[n].buf
      BY <1>7, <3>1 DEF Ordered
    <3>3. NextDue(s) = ended[r_xfers[s]].buf + 1
      BY <1>4, <2>2 DEF NextDue
    <3>4. ended[r_xfers[s]].buf \in Nat
      BY <3>1, EntryTypes
    <3> QED
      BY <1>11, <3>2, <3>3, <3>4
  <2> QED
    BY <2>1, <2>2
<1>13. Among(UsedBlocks, NextDue(s), started[n].buf) = {}
  <2> SUFFICES ASSUME NEW b \in Among(UsedBlocks, NextDue(s), started[n].buf)
               PROVE  FALSE
    OBVIOUS
  <2>1. b \in UsedBlocks /\ NextDue(s) <= b /\ b < started[n].buf /\ b \in Nat
    BY <1>11, UsedRange DEF Among
  <2>2. started[n].buf <= b
    BY <1>1, <1>4, <2>1, NextIsLater
  <2> QED
    BY <1>11, <2>1, <2>2
<1>14. n <= Len(ended) => started[n].buf <= ended[n].buf
  <2> SUFFICES ASSUME n <= Len(ended)
               PROVE  started[n].buf <= ended[n].buf
    OBVIOUS
  <2>1. n \in 1 .. Len(ended)
    BY <1>6
  <2> QED
    BY <2>1 DEF Ordered
<1>15. ReadPlaceOf(s, n)'
  BY <1>2, <1>3, <1>5, <1>6, <1>7, <1>9, <1>10, <1>11, <1>14 DEF ReadPlaceOf
<1> QED
  BY <1>1, <1>3, <1>4, <1>7, <1>9, <1>10, <1>11, <1>12, <1>13, <1>15

(* A block is released: on to the next one, or past the end of the transfer. *)
LEMMA PlaceByAdvance ==
  ASSUME LayoutInv, AckInv', ReadPlace, KnowsXfer, NEW r \in Readers,
         Advance(r), NEW s, s = iread[r]
  PROVE  /\ s \in Slots /\ ReadStep(r)
         /\ ReadPlaceOf(s, r_xfers[s] + 1)'
         /\ NextDue(s) \in Nat /\ NextDue(s)' = NextDue(s) + 1
         /\ NextDue(s) \in UsedBlocks /\ NextDue(s) < w_buf_curr
         /\ Held(s) /\ ~Held(s)' /\ Cleared(s) /\ ~Cleared(s)'
<1> DEFINE n == r_xfers[s] + 1
<1> USE DEF LayoutInv, TableInv
<1>1. /\ ReadStep(r) /\ Connected(r) /\ Connected(r)' /\ s \in Slots
      /\ UNCHANGED iread
  BY ReaderCases DEF ReadStep, ReaderWork, Advance, Goto, HeldPcs,
     AckInv, LockInv, Control, InsidePcs, Connected, rproc
<1>2. /\ pc[r] = "cleared" /\ pc'[r] = "ready"
      /\ UNCHANGED <<started, ended, w_buf_curr>>
  BY ReaderTypes DEF Advance, Goto, wsync, ghost
<1>3. Held(s) /\ ~Held(s)' /\ Cleared(s) /\ ~Cleared(s)'
  BY <1>1, <1>2, HeldMoves DEF HeldPcs
<1>4. /\ r_states[s] = "READING"
      /\ n \in 1 .. Len(started) /\ n <= Len(ended) + 1
      /\ started[n].buf <= r_bufs[s] /\ r_bufs[s] < w_buf_curr
      /\ n <= Len(ended) => r_bufs[s] <= ended[n].buf
      /\ NextDue(s) = r_bufs[s] /\ r_bufs[s] \in UsedBlocks
  BY <1>2, ReaderInside
<1>5. AtEod(r) <=> n <= Len(ended) /\ ended[n].buf = r_bufs[s]
  BY <1>2, AtEodIff
<1>6. /\ r_xfers[s] \in Nat /\ r_bufs[s] \in Nat /\ w_buf_curr \in Nat
      /\ Len(started) \in Nat /\ Len(ended) \in Nat
      /\ started[n].buf \in Nat
  BY <1>1, <1>4, ReaderTypes, WriterTypes, EntryTypes
<1>7. CASE AtEod(r)
  <2>1. /\ r_states'[s] = "DISCON" /\ r_xfers'[s] = n
    BY <1>1, <1>7, ReaderTypes DEF Advance
  <2>2. NextDue(s)' = r_bufs[s] + 1
    BY <1>2, <1>5, <1>6, <1>7, <2>1 DEF NextDue
  <2>3. ReadPlaceOf(s, r_xfers[s] + 1)'
    BY <1>2, <1>3, <1>4, <1>5, <1>6, <1>7, <2>1, <2>2 DEF ReadPlaceOf
  <2> QED
    BY <1>1, <1>3, <1>4, <1>6, <2>2, <2>3
<1>8. CASE ~AtEod(r)
  <2>1. /\ r_bufs'[s] = r_bufs[s] + 1 /\ r_states'[s] = "READING"
        /\ r_xfers'[s] = r_xfers[s]
    BY <1>1, <1>4, <1>8, ReaderTypes DEF Advance
  <2>2. NextDue(s)' = r_bufs[s] + 1
    BY <2>1 DEF NextDue
  <2>3. n <= Len(ended) => r_bufs[s] + 1 <= ended[n].buf
    <3> SUFFICES ASSUME n <= Len(ended)
                 PROVE  r_bufs[s] + 1 <= ended[n].buf
      OBVIOUS
    <3>1. n \in 1 .. Len(ended)
      BY <1>6
    <3>2. ended[n].buf \in Nat /\ ended[n].buf # r_bufs[s]
      BY <1>5, <1>8, <3>1, EntryTypes
    <3>3. r_bufs[s] \in Nat /\ r_bufs[s] <= ended[n].buf
      BY <1>4, <1>6
    <3> HIDE DEF n
    <3> QED
      BY <3>2, <3>3
  <2>4. /\ r_xfers'[s] <= Len(ended') /\ NextDue(s)' <= w_buf_curr'
        /\ n <= Len(started') /\ started'[n].buf < r_bufs'[s]
        /\ started'[n].buf <= r_bufs'[s]
        /\ n <= Len(ended') => r_bufs'[s] <= ended'[n].buf
    <3>1. /\ r_xfers'[s] <= Len(ended') /\ n <= Len(started')
      BY <1>2, <1>4, <1>6, <2>1
    <3>2. r_bufs'[s] = r_bufs[s] + 1 /\ NextDue(s)' = r_bufs[s] + 1
      BY <2>1, <2>2
    <3>3. started'[n] = started[n] /\ w_buf_curr' = w_buf_curr /\ ended' = ended
      BY <1>2
    <3>4. started[n].buf <= r_bufs[s] /\ r_bufs[s] < w_buf_curr
      BY <1>4
    <3>5. r_bufs[s] \in Nat /\ w_buf_curr \in Nat /\ started[n].buf \in Nat
      BY <1>6
    <3>6. started[n].buf < r_bufs[s] + 1 /\ r_bufs[s] + 1 <= w_buf_curr
          /\ started[n].buf <= r_bufs[s] + 1
      BY <3>4, <3>5
    <3> HIDE DEF n
    <3> QED
      BY <3>1, <3>2, <3>3, <3>6, <2>3
  <2>5. ReadPlaceOf(s, n)'
    BY <1>3, <2>1, <2>4 DEF ReadPlaceOf
  <2> QED
    BY <1>1, <1>3, <1>4, <1>6, <2>2, <2>5
<1> QED
  BY <1>7, <1>8


(* The slots a reader's step is not about. *)
LEMMA SlotQuiet ==
  ASSUME AckInv, AckInv', NEW r \in Readers, ReadStep(r), NEW s \in Slots,
         \/ s # iread[r]
         \/ ~(GetNextRead(r) \/ StartXfer(r) \/ MarkCleared(r) \/ Advance(r))
  PROVE  /\ r_bufs'[s] = r_bufs[s] /\ r_states'[s] = r_states[s]
         /\ r_xfers'[s] = r_xfers[s]
         /\ FULL'[s] = FULL[s] /\ CLEAR'[s] = CLEAR[s]
         /\ Held(s)' <=> Held(s)
         /\ Cleared(s)' <=> Cleared(s)
         /\ NextDue(s)' = NextDue(s)
         /\ NextUncleared(s)' = NextUncleared(s)
<1> DEFINE About == \/ GetNextRead(r) \/ StartXfer(r) \/ GetBytes(r)
                    \/ MarkCleared(r) \/ Advance(r)
<1>1. UNCHANGED ended
  BY ReaderKeepsBlocks
<1>2. CASE /\ UNCHANGED <<rsync, FULL, CLEAR, start_byte, bytes>>
           /\ pc[r] \notin HeldPcs /\ pc'[r] \notin HeldPcs
  <2>1. (Held(s)' <=> Held(s)) /\ (Cleared(s)' <=> Cleared(s))
    BY <1>2, HeldQuiet
  <2> QED
    BY <1>1, <1>2, <2>1 DEF rsync, NextDue, NextUncleared
<1>3. CASE /\ About
           /\ Connected(r) /\ Connected(r)' /\ iread[r] \in Slots
           /\ UNCHANGED iread
  <2>1. /\ r_bufs'[s] = r_bufs[s] /\ r_states'[s] = r_states[s]
        /\ r_xfers'[s] = r_xfers[s]
        /\ FULL'[s] = FULL[s] /\ CLEAR'[s] = CLEAR[s]
    BY <1>3, ReaderTypes
       DEF GetNextRead, StartXfer, GetBytes, MarkCleared, Advance, Down, Up,
           rsync
  <2>2. (Held(s)' <=> Held(s)) /\ (Cleared(s)' <=> Cleared(s))
    <3>1. CASE s # iread[r]
      BY <1>3, <3>1, HeldMoves
    <3>2. CASE s = iread[r]
      <4>1. GetBytes(r)
        BY <1>3, <3>2
      <4>2. pc[r] = "bytes" /\ pc'[r] = "hold"
        BY <4>1, ReaderTypes DEF GetBytes, Goto
      <4> QED
        BY <1>3, <3>2, <4>2, HeldMoves DEF HeldPcs
    <3> QED
      BY <3>1, <3>2
  <2> QED
    BY <1>1, <2>1, <2>2 DEF NextDue, NextUncleared
<1> QED
  BY <1>2, <1>3, ReaderCases

(* The place and the tokens of a slot, after a step of any reader. *)
LEMMA ReaderTokens ==
  ASSUME ReadInv, AckInv', NEW r \in Readers, ReadStep(r), NEW s \in Slots
  PROVE  /\ ReadPlaceOf(s, r_xfers[s] + 1)'
         /\ FULL'[s] + Unposted(s)' + (IF Held(s)' THEN 1 ELSE 0)
              = HowMany(UsedBlocks', NextDue(s)', w_buf_curr')
<1> USE DEF ReadInv, LayoutInv, TableInv
<1>1. /\ UNCHANGED <<started, ended, w_buf_curr, UsedBlocks>>
      /\ \A v \in Writers : pc'[v] = pc[v] /\ ir'[v] = ir[v]
  BY ReaderKeepsBlocks
<1>2. Unposted(s)' = Unposted(s) /\ Unposted(s) \in Nat
  <2>1. Unposted(s)' = Unposted(s)
    BY <1>1 DEF Unposted
  <2> QED
    BY <2>1, UnpostedType
<1>3. FULL[s] + Unposted(s) + (IF Held(s) THEN 1 ELSE 0)
        = HowMany(UsedBlocks, NextDue(s), w_buf_curr)
  BY DEF FullTokens
<1>4. /\ FULL \in [Slots -> Nat] /\ FULL[s] \in Nat /\ w_buf_curr \in Int
      /\ r_xfers[s] <= Len(ended)
  BY ReaderTypes, WriterTypes DEF ReadPlace, ReadPlaceOf
<1>5. NextDue(s) \in Nat
  BY <1>4, NextDueType
<1>6. HowMany(UsedBlocks, NextDue(s), w_buf_curr) \in Nat
  BY <1>4, <1>5, AmongFinite
<1>7. CASE s # iread[r] \/ ~(GetNextRead(r) \/ StartXfer(r) \/ MarkCleared(r) \/ Advance(r))
  <2>1. /\ r_bufs'[s] = r_bufs[s] /\ r_states'[s] = r_states[s]
        /\ r_xfers'[s] = r_xfers[s] /\ FULL'[s] = FULL[s]
        /\ Held(s)' <=> Held(s)
        /\ NextDue(s)' = NextDue(s)
    BY <1>7, SlotQuiet
  <2>2. ReadPlaceOf(s, r_xfers[s] + 1)
    BY DEF ReadPlace
  <2>3. ReadPlaceOf(s, r_xfers[s] + 1)'
    BY <1>1, <2>1, <2>2 DEF ReadPlaceOf
  <2> QED
    BY <1>1, <1>2, <1>3, <2>1, <2>3
<1>8. CASE s = iread[r] /\ GetNextRead(r)
  <2>1. /\ ReadPlaceOf(s, r_xfers[s] + 1)'
        /\ NextDue(s)' = NextDue(s) /\ ~Held(s) /\ Held(s)'
    BY <1>8, PlaceByGetNextRead
  <2>2. FULL'[s] = FULL[s] - 1
    BY <1>4, <1>8 DEF GetNextRead, Down
  <2> QED
    BY <1>1, <1>2, <1>3, <1>4, <1>6, <2>1, <2>2
<1>9. CASE s = iread[r] /\ StartXfer(r)
  <2>1. /\ ReadPlaceOf(s, r_xfers[s] + 1)' /\ Held(s) /\ Held(s)'
        /\ NextDue(s) <= NextDue(s)' /\ NextDue(s)' \in Nat
        /\ Among(UsedBlocks, NextDue(s), NextDue(s)') = {}
    BY <1>9, PlaceByStartXfer
  <2>2. FULL' = FULL
    BY <1>9 DEF StartXfer
  <2>3. Among(UsedBlocks, NextDue(s), w_buf_curr)
          = Among(UsedBlocks, NextDue(s)', w_buf_curr)
    BY <1>4, <1>5, <2>1, SkipNone
  <2> QED
    BY <1>1, <1>2, <1>3, <2>1, <2>2, <2>3 DEF HowMany
<1>10. CASE s = iread[r] /\ MarkCleared(r)
  <2>1. /\ Connected(r) /\ Connected(r)' /\ ReadStep(r)
        /\ UNCHANGED iread /\ pc[r] = "hold" /\ pc'[r] = "cleared"
    BY <1>10, HolderConnected, ReaderTypes
       DEF MarkCleared, Goto, HeldPcs, rproc, Connected, is_reader
  <2>2. Held(s)' <=> Held(s)
    BY <1>10, <2>1, HeldMoves DEF HeldPcs
  <2>3. UNCHANGED <<r_bufs, r_states, r_xfers, FULL>>
    BY <1>10 DEF MarkCleared, rsync
  <2>4. NextDue(s)' = NextDue(s)
    BY <1>1, <2>3 DEF NextDue
  <2>5. ReadPlaceOf(s, r_xfers[s] + 1)
    BY DEF ReadPlace
  <2>6. ReadPlaceOf(s, r_xfers[s] + 1)'
    BY <1>1, <2>2, <2>3, <2>4, <2>5 DEF ReadPlaceOf
  <2> QED
    BY <1>1, <1>2, <1>3, <2>2, <2>3, <2>4, <2>6
<1>11. CASE s = iread[r] /\ Advance(r)
  <2>1. /\ ReadPlaceOf(s, r_xfers[s] + 1)' /\ NextDue(s)' = NextDue(s) + 1
        /\ NextDue(s) \in UsedBlocks /\ NextDue(s) < w_buf_curr
        /\ Held(s) /\ ~Held(s)'
    BY <1>11, PlaceByAdvance
  <2>2. FULL' = FULL
    BY <1>11 DEF Advance
  <2>3. HowMany(UsedBlocks, NextDue(s), w_buf_curr)
          = HowMany(UsedBlocks, NextDue(s) + 1, w_buf_curr) + 1
    BY <1>4, <1>5, <2>1, FirstAmong
  <2>4. HowMany(UsedBlocks, NextDue(s) + 1, w_buf_curr) \in Nat
    BY <1>4, <1>5, AmongFinite
  <2> QED
    BY <1>1, <1>2, <1>3, <1>4, <2>1, <2>2, <2>3, <2>4
<1> QED
  BY <1>7, <1>8, <1>9, <1>10, <1>11


(* A reader's index into the table is that of its slot's transfer. *)
LEMMA KnowsXferStep ==
  ASSUME AckInv, AckInv', KnowsXfer, NEW r \in Readers, ReadStep(r)
  PROVE  KnowsXfer'
<1>t. /\ pc \in [Procs -> WriterPcs \cup ReaderPcs] /\ r \in Procs
      /\ state \in [Procs -> {"VIEWER"} \cup WriterStates \cup ReaderStates]
      /\ xfer \in [Procs -> XferSlots]
      /\ iread \in [Readers -> Slots \cup {-1}]
      /\ r_xfers \in [Slots -> Nat]
  BY ReaderTypes DEF AckInv, LockInv, TypeOK, ReaderType
<1>1. ASSUME NEW q \in Readers, q # r, Connected(q)', state'[q] = "READING"
      PROVE  xfer'[q] = r_xfers'[iread'[q]] % XFERS
  <2>1. /\ pc'[q] = pc[q] /\ state'[q] = state[q] /\ iread'[q] = iread[q]
        /\ xfer'[q] = xfer[q]
    BY <1>1, ReaderFrame DEF OnlyMoves, Procs
  <2>2. Connected(q) /\ state[q] = "READING"
    BY <1>1, <2>1 DEF Connected, is_reader
  <2>3. iread[q] \in Slots
    BY <2>2 DEF Connected, AckInv, LockInv, Control
  <2>4. /\ iread[q] # iread[r]
        \/ ~(GetNextRead(r) \/ StartXfer(r) \/ MarkCleared(r) \/ Advance(r))
    <3> SUFFICES ASSUME GetNextRead(r) \/ StartXfer(r) \/ MarkCleared(r) \/ Advance(r)
                 PROVE  iread[q] # iread[r]
      OBVIOUS
    <3>1. pc[r] \in InsidePcs \ {"unlock"}
      BY DEF GetNextRead, StartXfer, MarkCleared, Advance, Goto, InsidePcs
    <3>2. Connected(r)
      BY <3>1 DEF Connected, AckInv, LockInv, Control
    <3> QED
      BY <1>1, <2>2, <3>2 DEF AckInv, LockInv, Exclusive
  <2>5. r_xfers'[iread[q]] = r_xfers[iread[q]]
    BY <2>3, <2>4, SlotQuiet
  <2> QED
    BY <2>1, <2>2, <2>5 DEF KnowsXfer
<1>2. ASSUME Connected(r)', state'[r] = "READING"
      PROVE  xfer'[r] = r_xfers'[iread'[r]] % XFERS
  <2>1. CASE Connect(r)
    <3>1. Avail(READER_CONN, Head(order[r]))
      <4> SUFFICES ASSUME ~Avail(READER_CONN, Head(order[r]))
                   PROVE  FALSE
        OBVIOUS
      <4>1. pc'[r] = "connect"
        BY <2>1 DEF Connect
      <4> QED
        BY <1>2, <4>1 DEF Connected, AckInv, LockInv, Control, InsidePcs
    <3> QED
      BY <1>t, <2>1, <3>1 DEF Connect, rsync
  <2>2. CASE StartXfer(r)
    BY <1>t, <2>2 DEF StartXfer, rproc
  <2>3. CASE LockRead(r) \/ ConnectFailed(r) \/ Unlocked(r) \/ UnlockRead(r)
    <3>1. pc'[r] \in {"connect", "idle", "unlock"}
      BY <1>t, <2>3 DEF LockRead, ConnectFailed, Unlocked, UnlockRead, Goto
    <3> QED
      BY <1>2, <3>1 DEF Connected, AckInv, LockInv, Control, InsidePcs
  <2>4. CASE ResetRead(r)
    BY <1>t, <1>2, <2>4 DEF ResetRead
  <2>5. CASE GetNextRead(r) \/ GetBytes(r) \/ MarkCleared(r) \/ Advance(r)
    <3>1. Connected(r)
      BY <2>5 DEF GetNextRead, GetBytes, MarkCleared, Advance, Goto, Connected,
                  InsidePcs, AckInv, LockInv, Control
    <3>2. UNCHANGED <<xfer, state, r_xfers, iread>>
      BY <1>t, <1>2, <2>5
         DEF GetNextRead, GetBytes, MarkCleared, Advance, rsync, rproc
    <3> QED
      BY <1>2, <3>1, <3>2 DEF KnowsXfer
  <2> QED
    BY <2>1, <2>2, <2>3, <2>4, <2>5 DEF ReadStep, ReaderWork
<1> QED
  BY <1>1, <1>2 DEF KnowsXfer

(* ipcbuf_get_next_read returns the true size of the block it found. *)
LEMMA KnowsBlockStep ==
  ASSUME ReadInv, AckInv', NEW r \in Readers, ReadStep(r)
  PROVE  KnowsBlock'
<1> USE DEF ReadInv, LayoutInv, TableInv
<1>t. /\ pc \in [Procs -> WriterPcs \cup ReaderPcs] /\ r \in Procs
      /\ start_byte \in [Readers -> Nat] /\ bytes \in [Readers -> Int]
  BY ReaderTypes
<1>b. UNCHANGED <<started, ended>>
  BY ReaderKeepsBlocks
<1>1. ASSUME NEW q \in Readers, q # r, pc'[q] \in {"bytes", "hold"},
             NEW s, s = iread'[q], NEW n, n = r_xfers'[s] + 1
      PROVE  /\ start_byte'[q] = IF started'[n].buf = r_bufs'[s]
                                 THEN started'[n].byte ELSE 0
             /\ pc'[q] = "hold" => bytes'[q] = TrueBytes(s)'
  <2>1. /\ pc'[q] = pc[q] /\ iread'[q] = iread[q] /\ s = iread[q]
        /\ start_byte'[q] = start_byte[q] /\ bytes'[q] = bytes[q]
    BY <1>1, ReaderFrame DEF OnlyMoves, Procs
  <2>2. Connected(q) /\ s \in Slots
    BY <1>1, <2>1, HolderConnected DEF HeldPcs
  <2>3. \/ s # iread[r]
        \/ ~(GetNextRead(r) \/ StartXfer(r) \/ MarkCleared(r) \/ Advance(r))
    <3> SUFFICES ASSUME GetNextRead(r) \/ StartXfer(r) \/ MarkCleared(r) \/ Advance(r)
                 PROVE  s # iread[r]
      OBVIOUS
    <3>1. pc[r] \in InsidePcs \ {"unlock"}
      BY DEF GetNextRead, StartXfer, MarkCleared, Advance, Goto, InsidePcs
    <3>2. Connected(r)
      BY <3>1 DEF Connected, AckInv, LockInv, Control
    <3> QED
      BY <1>1, <2>1, <2>2, <3>2 DEF AckInv, LockInv, Exclusive
  <2>4. r_xfers'[s] = r_xfers[s] /\ r_bufs'[s] = r_bufs[s]
    BY <2>2, <2>3, SlotQuiet
  <2>5. TrueBytes(s)' = TrueBytes(s)
    BY <1>b, <2>4 DEF TrueBytes
  <2> QED
    BY <1>1, <1>b, <2>1, <2>4, <2>5 DEF KnowsBlock
<1>2. ASSUME pc'[r] \in {"bytes", "hold"},
             NEW s, s = iread'[r], NEW n, n = r_xfers'[s] + 1
      PROVE  /\ start_byte'[r] = IF started'[n].buf = r_bufs'[s]
                                 THEN started'[n].byte ELSE 0
             /\ pc'[r] = "hold" => bytes'[r] = TrueBytes(s)'
  <2>1. GetNextRead(r) \/ StartXfer(r) \/ GetBytes(r)
    <3>1. GetNextRead(r) \/ StartXfer(r) \/ GetBytes(r) \/ MarkCleared(r) \/ Advance(r)
      BY <1>2, ReaderCases DEF HeldPcs
    <3>2. ~MarkCleared(r) /\ ~Advance(r)
      BY <1>t, <1>2 DEF MarkCleared, Advance, Goto
    <3> QED
      BY <3>1, <3>2
  <2>2. s = iread[r]
    BY <1>2, <2>1 DEF GetNextRead, StartXfer, GetBytes, rproc
  <2>3. CASE GetNextRead(r)
    <3>1. /\ pc'[r] = "bytes" /\ state[r] # "READER" /\ pc[r] = "ready"
          /\ start_byte'[r] = 0 /\ UNCHANGED <<r_xfers, r_bufs, r_states>>
      BY <1>t, <1>2, <2>3 DEF GetNextRead, Goto, rsync
    <3>2. Connected(r) /\ s \in Slots /\ state[r] = "READING"
      BY <2>2, <2>3, <3>1
         DEF GetNextRead, Connected, InsidePcs, AckInv, LockInv, Control
    <3>3. r_states[s] = "READING" /\ ~Held(s)
      BY <2>2, <2>3, <3>2, PlaceByGetNextRead DEF AckInv, StatesAgree
    <3>4. started[n].buf < r_bufs[s] /\ n \in 1 .. Len(started)
      <4>1. ReadPlaceOf(s, n)
        BY <1>2, <3>1, <3>2 DEF ReadPlace
      <4>2. n \in Nat /\ n >= 1
        BY <1>2, <3>1, <3>2, ReaderTypes
      <4> QED
        BY <3>3, <4>1, <4>2, WriterTypes DEF ReadPlaceOf
    <3>5. started[n].buf # r_bufs[s]
      BY <3>2, <3>4, ReaderTypes, EntryTypes
    <3> QED
      BY <1>b, <3>1, <3>5
  <2>4. CASE StartXfer(r)
    <3>1. n = r_xfers[s] + 1
      BY <1>2, <2>4 DEF StartXfer
    <3>s. /\ r_bufs'[s] = started[n].buf /\ start_byte'[r] = started[n].byte
      BY <2>2, <2>4, <3>1, PlaceByStartXfer
    <3>2. pc'[r] = "bytes"
      BY <1>t, <2>4 DEF StartXfer, Goto
    <3> QED
      BY <1>b, <3>s, <3>2
  <2>5. CASE GetBytes(r)
    <3>1. /\ pc[r] = "bytes" /\ UNCHANGED <<r_xfers, r_bufs, start_byte>>
          /\ bytes'[r] = (IF AtEod(r) THEN e_byte[xfer[r]] ELSE BufSz) - start_byte[r]
      BY <1>t, <2>5 DEF GetBytes, Goto, rsync
    <3>2. start_byte[r] = IF started[n].buf = r_bufs[s] THEN started[n].byte ELSE 0
      BY <1>2, <2>2, <3>1 DEF KnowsBlock
    <3>3. AtEod(r) <=> n <= Len(ended) /\ ended[n].buf = r_bufs[s]
      BY <1>2, <2>2, <3>1, AtEodIff
    <3>4. ASSUME n <= Len(ended)
          PROVE  e_byte[xfer[r]] = ended[n].byte
      <4>1. /\ s \in Slots /\ Connected(r) /\ state[r] = "READING"
            /\ n \in 1 .. Len(started)
        BY <1>2, <2>2, <3>1, ReaderInside
      <4>2. xfer[r] = r_xfers[s] % XFERS
        BY <2>2, <4>1 DEF KnowsXfer
      <4>t. r_xfers[s] \in Nat /\ Len(ended) \in Nat /\ n = r_xfers[s] + 1
        BY <1>2, <3>1, <4>1, ReaderTypes, WriterTypes
      <4>3. n - 1 = r_xfers[s] /\ n \in r_xfers[s] + 1 .. Len(ended)
        BY <3>4, <4>t
      <4>4. EndValid(s)
        BY <4>1, SlotsValid DEF AckInv
      <4>5. e_byte[(n - 1) % XFERS] = ended[n].byte
        BY <4>3, <4>4 DEF EndValid
      <4> QED
        BY <4>2, <4>3, <4>5
    <3>5. bytes'[r] = TrueBytes(s)'
      BY <1>2, <1>b, <3>1, <3>2, <3>3, <3>4 DEF TrueBytes
    <3> QED
      BY <1>b, <3>1, <3>2, <3>5
  <2> QED
    BY <2>1, <2>3, <2>4, <2>5
<1> QED
  BY <1>1, <1>2 DEF KnowsBlock


-----------------------------------------------------------------------------
(***************************************************************************)
(* The tokens, and the steps of the writer.                                 *)
(***************************************************************************)

(* What the writer has yet to post, told by its own place. *)
LEMMA UnpostedOf ==
  ASSUME NEW w \in Writers, NEW s,
         \A v \in Writers : v # w => pc[v] \notin {"sod_full", "full"}
  PROVE  /\ pc[w] = "sod_full" /\ s >= ir[w] =>
              Unposted(s) = w_buf_curr - started[Len(started)].buf
         /\ pc[w] = "full" /\ s >= ir[w] => Unposted(s) = 1
         /\ pc[w] \notin {"sod_full", "full"} \/ ~(s >= ir[w]) => Unposted(s) = 0
BY DEF Unposted

(* Start of data is raised beyond every block a reader has released. *)
LEMMA DueBeforeSod ==
  ASSUME LayoutInv, ReadPlace, NEW w \in Writers, SodSet(w), NEW s \in Slots
  PROVE  NextDue(s) \in Nat /\ NextDue(s) <= arg[w].buf
<1> USE DEF LayoutInv, TableInv
<1> DEFINE n == r_xfers[s] + 1
<1>1. pc[w] = "sod_set" /\ is_writer(w) /\ w_state = "DISCON"
  BY WriterSteps DEF SodSet, Goto, CallOrStep, LockWrite, AckInv, StatesAgree
<1>2. \A m \in 1 .. Len(ended) : ended[m].buf < arg[w].buf
  BY <1>1 DEF WriterPlace, PlaceOf
<1>3. Len(started) = Len(ended)
  BY <1>1, HistoryLengths
<1>4. ReadPlaceOf(s, n)
  BY DEF ReadPlace
<1>5. /\ NextDue(s) \in Nat /\ r_xfers[s] \in Nat /\ r_bufs[s] \in Nat
      /\ arg[w].buf \in Nat /\ Len(ended) \in Nat
      /\ r_xfers[s] <= Len(ended)
  BY <1>4, NextDueType, ReaderTypes, WriterTypes DEF ReadPlaceOf
<1>6. CASE r_states[s] = "READING"
  <2>1. n \in 1 .. Len(ended)
    BY <1>3, <1>4, <1>5, <1>6 DEF ReadPlaceOf
  <2>2. r_bufs[s] <= ended[n].buf
    BY <1>4, <1>6, <2>1 DEF ReadPlaceOf
  <2>3. ended[n].buf < arg[w].buf /\ ended[n].buf \in Nat
    BY <1>2, <2>1, EntryTypes
  <2>4. NextDue(s) = r_bufs[s]
    BY <1>6 DEF NextDue
  <2> QED
    BY <1>5, <2>2, <2>3, <2>4
<1>7. CASE r_states[s] # "READING" /\ r_xfers[s] # 0
  <2>1. r_xfers[s] \in 1 .. Len(ended)
    BY <1>5, <1>7
  <2>2. ended[r_xfers[s]].buf < arg[w].buf /\ ended[r_xfers[s]].buf \in Nat
    BY <1>2, <2>1, EntryTypes
  <2>3. NextDue(s) = ended[r_xfers[s]].buf + 1
    BY <1>7 DEF NextDue
  <2> QED
    BY <1>5, <2>2, <2>3
<1>8. CASE r_states[s] # "READING" /\ r_xfers[s] = 0
  BY <1>5, <1>8 DEF NextDue
<1> QED
  BY <1>6, <1>7, <1>8

(* ipcbuf_enable_sod posts the blocks that were filled beforehand, and         *)
(* ipcbuf_mark_filled the one it filled.                                     *)
LEMMA WriterTokens ==
  ASSUME ReadInv, AckInv', NEW w \in Writers, CallOrStep(w), NEW s \in Slots
  PROVE  FULL'[s] + Unposted(s)' + (IF Held(s)' THEN 1 ELSE 0)
           = HowMany(UsedBlocks', NextDue(s)', w_buf_curr')
<1> USE DEF ReadInv, LayoutInv, TableInv
<1> DEFINE D == NextDue(s)
<1>1. /\ NextDue(s)' = D /\ D \in Nat /\ D <= w_buf_curr
      /\ Held(s)' <=> Held(s)
  BY PlaceByWriter, WriterKeepsReaders DEF ReadPlace, ReadPlaceOf
<1>2. FULL[s] + Unposted(s) + (IF Held(s) THEN 1 ELSE 0)
        = HowMany(UsedBlocks, D, w_buf_curr)
  BY DEF FullTokens
<1>3. /\ FULL \in [Slots -> Nat] /\ FULL[s] \in Nat /\ Unposted(s) \in Nat
      /\ w_buf_curr \in Nat
      /\ Slots = 0 .. NReaders - 1 /\ NReaders \in Nat \ {0} /\ s \in Int
  BY ReaderTypes, WriterTypes, UnpostedType
<1>4. HowMany(UsedBlocks, D, w_buf_curr) \in Nat
  BY <1>1, <1>3, AmongFinite
<1>t. /\ pc \in [Procs -> WriterPcs \cup ReaderPcs] /\ Writers \subseteq Procs
      /\ ir \in [Writers -> Slots] /\ ir[w] \in Slots
      /\ started \in Seq(Extent) /\ arg[w].buf \in Nat
  BY WriterTypes
<1>v. ASSUME ~LockWrite(w)
      PROVE  /\ \A v \in Writers : v # w => pc[v] \notin {"sod_full", "full"}
             /\ \A v \in Writers : v # w => pc'[v] \notin {"sod_full", "full"}
  <2>1. \A v \in Writers : v # w => pc[v] = "idle"
    BY <1>v, WriterSteps
  <2> QED
    BY <1>t, <2>1, WriterFrame DEF OnlyMoves
<1>i. pc[w] \in {"sod_set", "fill"} => ir[w] = 0
  BY DEF WriterOp
<1>5. CASE SodSet(w)
  <2>1. /\ pc[w] = "sod_set" /\ pc'[w] = "sod_full"
        /\ started' = Append(started, [buf |-> arg[w].buf, byte |-> arg[w].nbytes])
        /\ UNCHANGED <<w_buf_curr, FULL, ir>> /\ ~LockWrite(w)
    BY <1>t, <1>5 DEF SodSet, Goto, wproc, LockWrite
  <2>2. started'[Len(started')].buf = arg[w].buf
    BY <1>t, <2>1
  <2>3. s >= ir[w]
    BY <1>3, <1>i, <2>1
  <2>4. Unposted(s) = 0
    BY <1>v, <2>1, UnpostedOf
  <2>5. Unposted(s)' = w_buf_curr - arg[w].buf
    BY <1>v, <2>1, <2>2, <2>3 DEF Unposted
  <2>6. /\ UsedBlocks' = UsedBlocks \cup (arg[w].buf .. w_buf_curr - 1)
        /\ \A b \in UsedBlocks : b \in Int /\ b < arg[w].buf
    BY <1>5, UsedBySod
  <2>7. D <= arg[w].buf /\ arg[w].buf <= w_buf_curr
    <3>1. is_writer(w)
      BY <2>1, WriterSteps
    <3>2. PlaceOf(w)
      BY <3>1 DEF WriterPlace
    <3> QED
      BY <1>5, <2>1, <3>2, DueBeforeSod DEF PlaceOf
  <2>8. HowMany(UsedBlocks', D, w_buf_curr)
          = HowMany(UsedBlocks, D, w_buf_curr) + (w_buf_curr - arg[w].buf)
    <3>1. HowMany(UsedBlocks \cup (arg[w].buf .. w_buf_curr - 1), D, w_buf_curr)
            = HowMany(UsedBlocks, D, w_buf_curr) + (w_buf_curr - arg[w].buf)
      <4>1. D \in Int /\ arg[w].buf \in Int /\ w_buf_curr \in Int
        BY <1>1, <1>3, <1>t
      <4> HIDE DEF D
      <4> QED
        BY <2>6, <2>7, <4>1, AddedRun
    <3> QED
      BY <2>6, <3>1
  <2>9. w_buf_curr - arg[w].buf \in Int
    BY SMTT(30), <1>3, <1>t
  <2>10. FULL'[s] = FULL[s] /\ w_buf_curr' = w_buf_curr
    BY <2>1
  <2>11. FULL[s] \in Nat /\ HowMany(UsedBlocks, D, w_buf_curr) \in Nat
    BY <1>3, <1>4
  <2>12. HowMany(UsedBlocks', NextDue(s)', w_buf_curr')
           = HowMany(UsedBlocks, D, w_buf_curr) + (w_buf_curr - arg[w].buf)
    BY <1>1, <2>8, <2>10
  <2> HIDE DEF D
  <2> QED
    BY <1>1, <1>2, <2>4, <2>5, <2>9, <2>10, <2>11, <2>12
<1>6. CASE Fill(w)
  <2>1. /\ pc[w] = "fill" /\ pc'[w] = "full" /\ w_buf_curr' = w_buf_curr + 1
        /\ UNCHANGED <<FULL, ir>> /\ ~LockWrite(w)
    BY <1>t, <1>6 DEF Fill, Goto, wproc, LockWrite
  <2>2. s >= ir[w]
    BY <1>3, <1>i, <2>1
  <2>3. Unposted(s) = 0
    BY <1>v, <2>1, UnpostedOf
  <2>4. Unposted(s)' = 1
    BY <1>v, <2>1, <2>2 DEF Unposted
  <2>5. UsedBlocks' = UsedBlocks \cup {w_buf_curr}
    BY <1>6, UsedByFill
  <2>6. HowMany(UsedBlocks', D, w_buf_curr + 1) = HowMany(UsedBlocks', D, w_buf_curr) + 1
    BY <1>1, <1>3, <2>5, LastAmong
  <2>7. Among(UsedBlocks', D, w_buf_curr) = Among(UsedBlocks, D, w_buf_curr)
    <3>1. /\ D \in Int /\ w_buf_curr \in Int /\ UsedBlocks \subseteq UsedBlocks'
          /\ \A x \in UsedBlocks' : x \in UsedBlocks \/ (x \in Int /\ x >= w_buf_curr)
      BY <1>1, <1>3, <2>5
    <3> HIDE DEF D
    <3> QED
      BY <3>1, AddedBeyond
  <2>8. HowMany(UsedBlocks', D, w_buf_curr) = HowMany(UsedBlocks, D, w_buf_curr)
    BY <2>7 DEF HowMany
  <2> QED
    BY <1>1, <1>2, <1>3, <1>4, <2>1, <2>3, <2>4, <2>6, <2>8
<1>7. ASSUME ~SodSet(w), ~Fill(w), w_buf_curr' = w_buf_curr
      PROVE  HowMany(UsedBlocks', D, w_buf_curr') = HowMany(UsedBlocks, D, w_buf_curr)
  BY <1>7, UsedOtherwise
<1>8. CASE SodFull(w)
  <2>1. /\ pc[w] = "sod_full"
        /\ pc'[w] = (CASE ~LastReader(w) -> "sod_full"
                      [] LastReader(w) /\ op[w] = "get_next_write" -> "clear"
                      [] OTHER -> "idle")
        /\ FULL' = [FULL EXCEPT ![ir[w]] = @ + (w_buf_curr - arg[w].buf)]
        /\ ir' = [ir EXCEPT ![w] = IF LastReader(w) THEN 0 ELSE @ + 1]
        /\ UNCHANGED <<started, w_buf_curr>> /\ ~LockWrite(w)
    BY <1>t, <1>8 DEF SodFull, Goto, LockWrite, NextReader, ghost, wsync
  <2>2. started[Len(started)].buf = arg[w].buf
    BY <2>1, WriterSteps DEF WriterPlace, PlaceOf
  <2>3. ~SodSet(w) /\ ~Fill(w)
    BY <2>1 DEF SodSet, Fill, Goto
  <2>4. CASE s < ir[w]
    <3>t. ~(s >= ir[w])
      BY <1>3, <1>t, <2>4
    <3>1. Unposted(s) = 0
      BY <1>v, <2>1, <3>t, UnpostedOf
    <3>2. FULL'[s] = FULL[s]
      BY <1>3, <1>t, <2>1, <2>4
    <3>3. LastReader(w) => pc'[w] \notin {"sod_full", "full"}
      BY <2>1
    <3>4. ~LastReader(w) => ~(s >= ir'[w]) /\ pc'[w] = "sod_full"
      BY <1>3, <1>t, <2>1, <2>4
    <3>5. Unposted(s)' = 0
      BY <1>v, <2>1, <3>3, <3>4 DEF Unposted
    <3> QED
      BY <1>1, <1>2, <1>7, <2>1, <2>3, <3>1, <3>2, <3>5
  <2>5. CASE s = ir[w]
    <3>1. Unposted(s) = w_buf_curr - arg[w].buf
      BY <1>3, <1>t, <1>v, <2>1, <2>2, <2>5, UnpostedOf
    <3>2. FULL'[s] = FULL[s] + (w_buf_curr - arg[w].buf)
      BY <1>3, <1>t, <2>1, <2>5
    <3>3. LastReader(w) => pc'[w] \notin {"sod_full", "full"}
      BY <2>1
    <3>4. ~LastReader(w) => ~(s >= ir'[w]) /\ pc'[w] = "sod_full"
      BY <1>3, <1>t, <2>1, <2>5
    <3>5. Unposted(s)' = 0
      BY <1>v, <2>1, <3>3, <3>4 DEF Unposted
    <3> QED
      BY <1>1, <1>2, <1>3, <1>7, <2>1, <2>3, <3>1, <3>2, <3>5
  <2>6. CASE s > ir[w]
    <3>1. Unposted(s) = w_buf_curr - arg[w].buf
      BY <1>3, <1>t, <1>v, <2>1, <2>2, <2>6, UnpostedOf
    <3>2. FULL'[s] = FULL[s]
      BY <1>3, <1>t, <2>1, <2>6
    <3>3. ~LastReader(w)
      BY <1>3, <1>t, <2>6 DEF LastReader
    <3>4. s >= ir'[w] /\ pc'[w] = "sod_full"
      BY <1>3, <1>t, <2>1, <2>6, <3>3
    <3>5. Unposted(s)' = w_buf_curr - arg[w].buf
      BY <1>v, <2>1, <2>2, <3>4 DEF Unposted
    <3> QED
      BY <1>1, <1>2, <1>7, <2>1, <2>3, <3>1, <3>2, <3>5
  <2> QED
    BY <1>3, <1>t, <2>4, <2>5, <2>6
<1>9. CASE PostFull(w)
  <2>1. /\ pc[w] = "full"
        /\ pc'[w] = (IF LastReader(w) THEN "idle" ELSE "full")
        /\ FULL' = [FULL EXCEPT ![ir[w]] = @ + 1]
        /\ ir' = [ir EXCEPT ![w] = IF LastReader(w) THEN 0 ELSE @ + 1]
        /\ UNCHANGED <<started, w_buf_curr>> /\ ~LockWrite(w)
    BY <1>t, <1>9 DEF PostFull, Goto, LockWrite, NextReader, Up, ghost, wsync
  <2>3. ~SodSet(w) /\ ~Fill(w)
    BY <2>1 DEF SodSet, Fill, Goto
  <2>4. CASE s < ir[w]
    <3>t. ~(s >= ir[w])
      BY <1>3, <1>t, <2>4
    <3>1. Unposted(s) = 0
      BY <1>v, <2>1, <3>t, UnpostedOf
    <3>2. FULL'[s] = FULL[s]
      BY <1>3, <1>t, <2>1, <2>4
    <3>3. LastReader(w) => pc'[w] \notin {"sod_full", "full"}
      BY <2>1
    <3>4. ~LastReader(w) => ~(s >= ir'[w]) /\ pc'[w] = "full"
      BY <1>3, <1>t, <2>1, <2>4
    <3>5. Unposted(s)' = 0
      BY <1>v, <2>1, <3>3, <3>4 DEF Unposted
    <3> QED
      BY <1>1, <1>2, <1>7, <2>1, <2>3, <3>1, <3>2, <3>5
  <2>5. CASE s = ir[w]
    <3>1. Unposted(s) = 1
      BY <1>3, <1>t, <1>v, <2>1, <2>5, UnpostedOf
    <3>2. FULL'[s] = FULL[s] + 1
      BY <1>3, <1>t, <2>1, <2>5
    <3>3. LastReader(w) => pc'[w] \notin {"sod_full", "full"}
      BY <2>1
    <3>4. ~LastReader(w) => ~(s >= ir'[w]) /\ pc'[w] = "full"
      BY <1>3, <1>t, <2>1, <2>5
    <3>5. Unposted(s)' = 0
      BY <1>v, <2>1, <3>3, <3>4 DEF Unposted
    <3> QED
      BY <1>1, <1>2, <1>3, <1>7, <2>1, <2>3, <3>1, <3>2, <3>5
  <2>6. CASE s > ir[w]
    <3>1. Unposted(s) = 1
      BY <1>3, <1>t, <1>v, <2>1, <2>6, UnpostedOf
    <3>2. FULL'[s] = FULL[s]
      BY <1>3, <1>t, <2>1, <2>6
    <3>3. ~LastReader(w)
      BY <1>3, <1>t, <2>6 DEF LastReader
    <3>4. s >= ir'[w] /\ pc'[w] = "full"
      BY <1>3, <1>t, <2>1, <2>6, <3>3
    <3>5. Unposted(s)' = 1
      BY <1>v, <2>1, <3>4 DEF Unposted
    <3> QED
      BY <1>1, <1>2, <1>7, <2>1, <2>3, <3>1, <3>2, <3>5
  <2> QED
    BY <1>3, <1>t, <2>4, <2>5, <2>6
<1>10. CASE ~SodSet(w) /\ ~Fill(w) /\ ~SodFull(w) /\ ~PostFull(w)
  <2>1. FULL' = FULL
    BY <1>10 DEF CallOrStep, LockWrite, UnlockWrite, EnableEod, DisableSod,
       SetSoclockBuf, EnableSod, CallEnableSod, GetNextWrite, MarkFilled,
       ZeroNextWrite, SodAck, Drain, TakeBlock, EodAck, EodSet
  <2>2. pc[w] \notin {"sod_full", "full"} /\ pc'[w] \notin {"sod_full", "full"}
    BY <1>10, <1>t DEF CallOrStep, LockWrite, UnlockWrite, EnableEod, DisableSod,
       SetSoclockBuf, EnableSod, CallEnableSod, GetNextWrite, MarkFilled,
       ZeroNextWrite, SodAck, Drain, TakeBlock, EodAck, EodSet, Goto
  <2>3. \A v \in Writers : /\ pc[v] \notin {"sod_full", "full"}
                           /\ pc'[v] \notin {"sod_full", "full"}
    <3>1. CASE LockWrite(w)
      <4>1. UNCHANGED pc /\ \A v \in Writers : pc[v] = "idle"
        BY <3>1 DEF LockWrite, AckInv, LockInv, LocksHeld, Control
      <4> QED
        BY <4>1
    <3> QED
      BY <1>v, <2>2, <3>1
  <2>4. Unposted(s) = 0 /\ Unposted(s)' = 0
    BY <2>3 DEF Unposted
  <2>5. CASE w_buf_curr' = w_buf_curr
    BY <1>1, <1>2, <1>7, <1>10, <2>1, <2>4, <2>5
  <2>6. CASE w_buf_curr' = w_buf_curr + 1
    <3>1. UsedBlocks' = UsedBlocks /\ w_buf_curr \notin UsedBlocks'
      BY <1>10, <2>6, UsedOtherwise
    <3>2. Among(UsedBlocks, D, w_buf_curr + 1) = Among(UsedBlocks, D, w_buf_curr)
      BY <1>1, <1>3, <3>1, LastAmong
    <3> QED
      BY <1>1, <1>2, <2>1, <2>4, <2>6, <3>1, <3>2 DEF HowMany
  <2> QED
    BY <2>5, <2>6, EndPendingStep
<1> QED
  BY <1>5, <1>6, <1>8, <1>9, <1>10


(* A block that a reader has keeps its size: the writer ends a transfer        *)
(* beyond it.                                                               *)
LEMMA WriterKeepsBlocks ==
  ASSUME ReadInv, NEW w \in Writers, CallOrStep(w)
  PROVE  KnowsBlock'
<1> USE DEF ReadInv, LayoutInv, TableInv
<1> SUFFICES ASSUME NEW q \in Readers, pc'[q] \in {"bytes", "hold"},
                    NEW s, s = iread'[q], NEW n, n = r_xfers'[s] + 1
             PROVE  /\ start_byte'[q] = IF started'[n].buf = r_bufs'[s]
                                        THEN started'[n].byte ELSE 0
                    /\ pc'[q] = "hold" => bytes'[q] = TrueBytes(s)'
  BY DEF KnowsBlock
<1>1. /\ pc'[q] = pc[q] /\ s = iread[q]
      /\ UNCHANGED <<r_bufs, r_xfers, start_byte, bytes>>
  BY WriterKeepsReaders DEF rsync
<1>2. n = r_xfers[s] + 1
  BY <1>1
<1>3. /\ s \in Slots /\ n \in 1 .. Len(started) /\ n <= Len(ended) + 1
      /\ r_bufs[s] < w_buf_curr
  BY <1>1, <1>2, ReaderInside
<1>4. started'[n] = started[n]
  BY <1>3, HistoryGrows
<1>5. /\ n \in Nat /\ n >= 1 /\ Len(ended) \in Nat /\ Len(ended') \in Nat
      /\ Len(ended) <= Len(ended') /\ r_bufs[s] \in Nat /\ w_buf_curr \in Nat
  <2>1. /\ Len(ended) \in Nat /\ Len(ended') \in Nat /\ Len(started) \in Nat
        /\ Len(ended) <= Len(ended') /\ w_buf_curr \in Nat
    BY HistoryGrows, WriterTypes
  <2>2. r_bufs[s] \in Nat
    BY <1>3, ReaderTypes
  <2> QED
    BY <1>3, <2>1, <2>2
<1>6. n <= Len(ended') /\ ended'[n].buf = r_bufs[s]
        <=> n <= Len(ended) /\ ended[n].buf = r_bufs[s]
  <2>1. CASE n <= Len(ended)
    <3>1. n \in 1 .. Len(ended) /\ n <= Len(ended')
      BY <1>5, <2>1
    <3>2. ended'[n] = ended[n]
      BY <3>1, HistoryGrows
    <3> QED
      BY <2>1, <3>1, <3>2
  <2>2. CASE ~(n <= Len(ended)) /\ n <= Len(ended')
    <3>1. n \in 1 .. Len(ended') /\ n > Len(ended)
      BY <1>5, <2>2
    <3>2. ended'[n].buf = w_buf_curr
      BY <3>1, HistoryGrows
    <3> QED
      BY <1>3, <1>5, <2>2, <3>2
  <2>3. CASE ~(n <= Len(ended)) /\ ~(n <= Len(ended'))
    BY <2>3
  <2> QED
    BY <2>1, <2>2, <2>3
<1>7. ASSUME n <= Len(ended)
      PROVE  ended'[n] = ended[n]
  <2>1. n \in 1 .. Len(ended)
    BY <1>5, <1>7
  <2> QED
    BY <2>1, HistoryGrows
<1>8. TrueBytes(s)' = TrueBytes(s)
  BY <1>1, <1>2, <1>4, <1>6, <1>7 DEF TrueBytes
<1> QED
  BY <1>1, <1>2, <1>4, <1>8 DEF KnowsBlock

(* ReadInv is inductive. *)
LEMMA ReadInvStep ==
  ASSUME RingClients, ReadInv, [Next]_vars
  PROVE  ReadInv'
<1>1. MaxReset = 0 /\ LayoutInv /\ AckInv
  BY DEF RingClients, ReadInv, LayoutInv, TableInv
<1>2. LayoutInv' /\ AckInv'
  BY <1>1, LayoutStep, AckNext
<1>3. ASSUME NEW w \in Writers, CallOrStep(w)
      PROVE  ReadInv'
  <2>1. ReadPlace'
    BY <1>1, <1>3, PlaceByWriter DEF ReadPlace, ReadInv
  <2>2. KnowsXfer'
    <3>1. /\ UNCHANGED <<r_xfers, iread>>
          /\ \A r \in Readers : /\ pc'[r] = pc[r] /\ state'[r] = state[r]
                                /\ xfer'[r] = xfer[r]
      BY <1>1, <1>3, WriterKeepsReaders DEF rsync
    <3> QED
      BY <3>1 DEF KnowsXfer, Connected, is_reader, ReadInv
  <2>3. KnowsBlock'
    BY <1>3, WriterKeepsBlocks
  <2>4. FullTokens'
    BY <1>2, <1>3, WriterTokens DEF FullTokens
  <2> QED
    BY <1>2, <2>1, <2>2, <2>3, <2>4 DEF ReadInv
<1>4. ASSUME NEW r \in Readers, ReadStep(r)
      PROVE  ReadInv'
  <2>1. ReadPlace'
    BY <1>2, <1>4, ReaderTokens DEF ReadPlace
  <2>2. FullTokens'
    BY <1>2, <1>4, ReaderTokens DEF FullTokens
  <2>3. KnowsXfer' /\ KnowsBlock'
    BY <1>1, <1>2, <1>4, KnowsXferStep, KnowsBlockStep DEF ReadInv
  <2> QED
    BY <1>2, <2>1, <2>2, <2>3 DEF ReadInv
<1>5. CASE UNCHANGED vars
  <2> USE <1>5 DEF vars, wsync, rsync, wproc, rproc, ghost
  <2>1. \A s : /\ Held(s)' <=> Held(s)
               /\ NextDue(s)' = NextDue(s)
    BY DEF Held, NextDue
  <2>2. \A s, n : ReadPlaceOf(s, n)' <=> ReadPlaceOf(s, n)
    BY <2>1 DEF ReadPlaceOf
  <2>3. ReadPlace'
    BY <2>2 DEF ReadPlace, ReadInv
  <2>4. KnowsXfer' /\ KnowsBlock'
    BY DEF KnowsXfer, KnowsBlock, TrueBytes, Connected, is_reader, ReadInv
  <2>5. \A b, n : InTransfer(b, n)' <=> InTransfer(b, n)
    BY DEF InTransfer
  <2>6. UsedBlocks' = UsedBlocks
    BY <2>5 DEF UsedBlocks
  <2>7. \A s : Unposted(s)' = Unposted(s)
    BY DEF Unposted
  <2>8. FullTokens'
    BY <2>1, <2>6, <2>7 DEF FullTokens, ReadInv
  <2> QED
    BY <1>2, <2>3, <2>4, <2>8 DEF ReadInv
<1> QED
  BY <1>1, <1>3, <1>4, <1>5, StepSplit

(* Initially every reader is before the first block. *)
LEMMA ReadInit == Init => ReadInv
<1> SUFFICES ASSUME Init
             PROVE  ReadInv
  OBVIOUS
<1>1. LayoutInv
  BY LayoutInit
<1>2. /\ w_buf_curr = 0 /\ Len(started) = 0 /\ Len(ended) = 0
      /\ \A s \in Slots : /\ r_xfers[s] = 0 /\ r_states[s] = "DISCON"
                          /\ FULL[s] = 0
      /\ \A p \in Procs : pc[p] = "idle" /\ state[p] = "VIEWER"
  BY DEF Init
<1>3. \A s : ~Held(s)
  BY <1>2 DEF Held, HeldPcs, Procs
<1>4. \A s \in Slots : NextDue(s) = 0 /\ Unposted(s) = 0
  BY <1>2 DEF NextDue, Unposted, Procs
<1>5. ReadPlace
  BY <1>2, <1>3, <1>4 DEF ReadPlace, ReadPlaceOf
<1>6. KnowsXfer /\ KnowsBlock
  BY <1>2 DEF KnowsXfer, KnowsBlock, Connected, is_reader, ReaderStates, Procs
<1>7. Among(UsedBlocks, 0, 0) = {}
  BY DEF Among
<1>8. HowMany(UsedBlocks, 0, 0) = 0
  BY <1>7, AmongEmpty
<1>9. FullTokens
  BY <1>2, <1>3, <1>4, <1>8 DEF FullTokens
<1> QED
  BY <1>1, <1>5, <1>6, <1>9 DEF ReadInv

-----------------------------------------------------------------------------
(***************************************************************************)
(* The theorems.                                                           *)
(***************************************************************************)

(* ReadInv holds in every reachable state of a ring whose clients keep to     *)
(* RingClients.                                                             *)
THEOREM ReadInvariant ==
  ASSUME RingClients
  PROVE  Spec => []ReadInv
<1>1. ReadInv /\ [Next]_vars => ReadInv'
  BY ReadInvStep
<1> QED
  BY <1>1, ReadInit, PTL DEF Spec

(* The number of bytes ipcbuf_get_next_read returns is the transfer's share   *)
(* of the block, and the block lies in a transfer that the writer started:    *)
(* for every number of readers, of blocks and of transfers, and readers that  *)
(* come and go between any two blocks.                                       *)
THEOREM ReadersGetTrueBytes ==
  ASSUME RingClients
  PROVE  Spec => []BytesTrue
<1>1. ReadInv => BytesTrue
  <2> SUFFICES ASSUME ReadInv, NEW r \in Readers, pc[r] = "hold",
                      NEW s, s = iread[r], NEW n, n = r_xfers[s] + 1
               PROVE  /\ n <= Len(started)
                      /\ started[n].buf <= r_bufs[s]
                      /\ n <= Len(ended) => r_bufs[s] <= ended[n].buf
                      /\ bytes[r] = TrueBytes(s)
    BY DEF BytesTrue
  <2>1. LayoutInv /\ ReadPlace /\ AckInv
    BY DEF ReadInv, LayoutInv, TableInv
  <2>2. /\ n \in 1 .. Len(started) /\ started[n].buf <= r_bufs[s]
        /\ n <= Len(ended) => r_bufs[s] <= ended[n].buf
    BY <2>1, ReaderInside
  <2>3. n <= Len(started)
    BY <2>1, <2>2, WriterTypes
  <2>4. bytes[r] = TrueBytes(s)
    BY DEF ReadInv, KnowsBlock
  <2> QED
    BY <2>2, <2>3, <2>4
<1> QED
  BY <1>1, ReadInvariant, PTL

(* ipcbuf_mark_cleared takes a reader out of its transfer at the block where  *)
(* the writer ended it, and at no other: not at a block that merely has the   *)
(* number of an end of data left in the table by an earlier transfer.         *)
THEOREM ReadersSeeEveryEnd ==
  ASSUME RingClients
  PROVE  Spec => []EodTrue
<1>1. ReadInv => EodTrue
  <2> SUFFICES ASSUME ReadInv, NEW r \in Readers, pc[r] = "cleared"
               PROVE  LET n == r_xfers[iread[r]] + 1
                      IN  AtEod(r) <=>
                            n <= Len(ended) /\ ended[n].buf = r_bufs[iread[r]]
    BY DEF EodTrue
  <2> QED
    BY AtEodIff DEF ReadInv
<1> QED
  BY <1>1, ReadInvariant, PTL

-----------------------------------------------------------------------------
(***************************************************************************)
(* The writer takes back no block that a reader has yet to clear: RingInv is *)
(* inductive, and a block is intact as long as a reader has it.              *)
(***************************************************************************)

-----------------------------------------------------------------------------
(***************************************************************************)
(* Places.                                                                 *)
(***************************************************************************)

(* No reader has released, or cleared, a block that is not filled. *)
LEMMA UnclearedType ==
  ASSUME ReadInv, NEW s \in Slots
  PROVE  /\ NextDue(s) \in Nat /\ NextUncleared(s) \in Nat
         /\ NextUncleared(s) <= w_buf_curr
<1> USE DEF ReadInv, LayoutInv, TableInv
<1>1. NextDue(s) \in Nat /\ NextDue(s) <= w_buf_curr /\ w_buf_curr \in Nat
  BY NextDueType, WriterTypes DEF ReadPlace, ReadPlaceOf
<1>2. ASSUME Cleared(s)
      PROVE  NextDue(s) < w_buf_curr
  <2>1. PICK r \in Readers : iread[r] = s /\ pc[r] = "cleared"
    BY <1>2 DEF Cleared
  <2> QED
    BY <2>1, ReaderInside
<1> QED
  BY <1>1, <1>2 DEF NextUncleared

(* The types of the places and of what lies there. *)
LEMMA BlockTypes ==
  ASSUME ReadInv
  PROVE  /\ NBufs \in Nat \ {0} /\ w_buf_next \in Nat /\ w_buf_curr \in Nat
         /\ Oldest \in Int /\ Oldest < w_buf_next /\ Oldest <= w_buf_curr
         /\ w_buf_curr <= w_buf_next
         /\ DrainFrom \in {Oldest, Oldest + 1} /\ DrainFrom \in Int
         /\ count \in [Ring -> Nat] /\ CLEAR \in [Slots -> Nat]
         /\ mem \in [Ring -> Nat \cup {NoBlock}]
         /\ w_buf_next % NBufs \in Ring
         /\ Oldest % NBufs = w_buf_next % NBufs
         /\ \A s \in Slots : Drained(s) \in {0, 1}
<1> USE DEF ReadInv, LayoutInv, TableInv
<1>1. /\ NBufs \in Nat \ {0} /\ w_buf_next \in Nat /\ w_buf_curr \in Nat
      /\ Ring = 0 .. NBufs - 1
  BY WriterTypes
<1>2. /\ Oldest \in Int /\ Oldest < w_buf_next /\ Oldest <= w_buf_curr
      /\ w_buf_curr <= w_buf_next
  BY <1>1 DEF Oldest, OpenBlocks
<1>3. DrainFrom \in {Oldest, Oldest + 1} /\ DrainFrom \in Int
  BY <1>2 DEF DrainFrom
<1>4. /\ count \in [Ring -> Nat] /\ CLEAR \in [Slots -> Nat]
      /\ mem \in [Ring -> Nat \cup {NoBlock}]
  BY DEF AckInv, LockInv, TypeOK, SemType, GhostType
<1>5. w_buf_next % NBufs \in Ring
  BY <1>1, ModRange
<1>6. Oldest % NBufs = w_buf_next % NBufs
  <2>1. Oldest = w_buf_next - NBufs /\ w_buf_next \in Int
    BY <1>1 DEF Oldest
  <2> QED
    BY <1>1, <1>2, <2>1, ModShift
<1>7. \A s \in Slots : Drained(s) \in {0, 1}
  BY DEF Drained
<1> QED
  BY <1>1, <1>2, <1>3, <1>4, <1>5, <1>6, <1>7

(* Each block of the ring has a place of its own. *)
LEMMA OwnPlace ==
  ASSUME ReadInv, NEW b \in Oldest .. w_buf_next - 1
  PROVE  /\ b \in Int /\ b % NBufs \in Ring
         /\ \A c \in Oldest .. w_buf_next - 1 : c % NBufs = b % NBufs => c = b
         /\ b # Oldest => b % NBufs # w_buf_next % NBufs
<1>1. /\ NBufs \in Nat \ {0} /\ w_buf_next \in Nat /\ Oldest \in Int
      /\ Oldest = w_buf_next - NBufs
      /\ Oldest % NBufs = w_buf_next % NBufs
      /\ Ring = 0 .. NBufs - 1
  BY BlockTypes DEF Oldest, Ring
<1>2. b \in Int /\ b % NBufs \in Ring
  BY <1>1, ModRange
<1>3. ASSUME NEW c \in Oldest .. w_buf_next - 1, c % NBufs = b % NBufs
      PROVE  c = b
  <2>1. c \in Int /\ c < b + NBufs /\ b < c + NBufs
    BY <1>1, <1>2
  <2>2. CASE c <= b
    BY <1>1, <1>2, <1>3, <2>1, <2>2, ModDistinct
  <2>3. CASE b <= c
    BY <1>1, <1>2, <1>3, <2>1, <2>3, ModDistinct
  <2> QED
    BY <1>2, <2>1, <2>2, <2>3
<1>4. b # Oldest => b % NBufs # w_buf_next % NBufs
  <2>1. Oldest \in Oldest .. w_buf_next - 1
    BY <1>1
  <2> QED
    BY <1>1, <1>3, <2>1
<1> QED
  BY <1>2, <1>3, <1>4

(* How far the writer has come in draining the oldest block, told by its own   *)
(* place.                                                                   *)
LEMMA DrainPlace ==
  ASSUME NEW w \in Writers, \A v \in Writers : v # w => pc[v] # "clear"
  PROVE  /\ pc[w] # "clear" => DrainFrom = Oldest
         /\ pc[w] = "clear" /\ count[w_buf_next % NBufs] = 0 =>
              DrainFrom = Oldest + 1
         /\ count[w_buf_next % NBufs] # 0 => DrainFrom = Oldest
         /\ \A s : Drained(s) = IF pc[w] = "clear" /\ s < ir[w] THEN 1 ELSE 0
BY DEF DrainFrom, Drained

(* The writer leaves the readers' places where they are. *)
LEMMA WriterKeepsUncleared ==
  ASSUME ReadInv, NEW w \in Writers, CallOrStep(w)
  PROVE  \A s \in Slots : /\ NextDue(s)' = NextDue(s)
                          /\ NextUncleared(s)' = NextUncleared(s)
<1> USE DEF ReadInv, LayoutInv, TableInv
<1>1. \A s \in Slots : NextDue(s)' = NextDue(s)
  BY PlaceByWriter
<1>2. \A s : Cleared(s)' <=> Cleared(s)
  BY WriterKeepsReaders
<1> QED
  BY <1>1, <1>2 DEF NextUncleared

(* The writer that takes a step is the only one that drains. *)
LEMMA OnlyDrainer ==
  ASSUME ReadInv, NEW w \in Writers, CallOrStep(w)
  PROVE  /\ \A v \in Writers : v # w => pc[v] # "clear" /\ pc'[v] # "clear"
         /\ LockWrite(w) => pc[w] # "clear" /\ pc'[w] # "clear"
<1> USE DEF ReadInv, LayoutInv, TableInv
<1>1. \A v \in Writers : v # w => pc'[v] = pc[v]
  BY WriterFrame DEF OnlyMoves, Procs
<1>2. \A v \in Writers : v # w => pc[v] # "clear"
  <2>1. CASE LockWrite(w)
    BY <2>1 DEF LockWrite, AckInv, LockInv, LocksHeld, Control
  <2>2. CASE ~LockWrite(w)
    BY <2>2, WriterSteps
  <2> QED
    BY <2>1, <2>2
<1>3. LockWrite(w) => pc[w] # "clear" /\ pc'[w] # "clear"
  BY DEF LockWrite
<1> QED
  BY <1>1, <1>2, <1>3


-----------------------------------------------------------------------------
(***************************************************************************)
(* The steps of the writer.                                                 *)
(***************************************************************************)

(* What it takes for BlockInv to survive a step that moves no block. *)
LEMMA BlockFrame ==
  ASSUME UNCHANGED <<count, CLEAR, mem, w_buf_next, UsedBlocks, DrainFrom>>,
         w_buf_curr' \in {w_buf_curr, w_buf_curr + 1}, w_buf_curr \in Nat,
         Oldest \in Int, BlockInv,
         \A s \in Slots : /\ NextUncleared(s)' = NextUncleared(s)
                          /\ Drained(s)' = Drained(s)
  PROVE  BlockInv'
<1>1. Oldest' = Oldest
  BY DEF Oldest
<1>2. ClearTokens' /\ NoneLost' /\ Counts'
  BY <1>1 DEF BlockInv, ClearTokens, NoneLost, Counts
<1>3. OldestNeeded' => OldestNeeded
  BY <1>1 DEF OldestNeeded
<1>4. Contents'
  BY <1>1, <1>3 DEF BlockInv, Contents
<1> QED
  BY <1>2, <1>4 DEF BlockInv

(* Most steps of a call neither move a block nor drain one. *)
LEMMA QuietBlocks ==
  ASSUME ReadInv, AckInv', BlockInv, NEW w \in Writers, CallOrStep(w),
         UNCHANGED <<count, CLEAR, mem, w_buf_next>>,
         ~SodSet(w), ~Fill(w), pc[w] # "clear", pc'[w] # "clear"
  PROVE  BlockInv'
<1>1. UsedBlocks' = UsedBlocks
  BY UsedOtherwise DEF ReadInv
<1>2. \A v \in Writers : pc[v] # "clear" /\ pc'[v] # "clear"
  BY OnlyDrainer
<1>3. DrainFrom' = DrainFrom /\ \A s : Drained(s)' = Drained(s)
  BY <1>2 DEF DrainFrom, Drained, Oldest
<1>4. w_buf_curr' \in {w_buf_curr, w_buf_curr + 1}
  BY EndPendingStep DEF ReadInv, LayoutInv, TableInv
<1> QED
  BY <1>1, <1>3, <1>4, BlockFrame, BlockTypes, WriterKeepsUncleared

(* The block that lies where the next one goes is used iff it is counted. *)
LEMMA OldestCount ==
  ASSUME ReadInv, BlockInv
  PROVE  /\ DrainFrom = Oldest =>
              count[w_buf_next % NBufs] = IF Oldest \in UsedBlocks THEN 1 ELSE 0
         /\ count[w_buf_next % NBufs] # 0 => DrainFrom = Oldest
<1>1. Oldest \in Oldest .. w_buf_next - 1 /\ Oldest >= Oldest
      /\ Oldest % NBufs = w_buf_next % NBufs /\ Oldest \in Int
  BY BlockTypes
<1>2. count[Oldest % NBufs]
        = IF Oldest >= DrainFrom /\ Oldest \in UsedBlocks THEN 1 ELSE 0
  BY <1>1 DEF BlockInv, Counts
<1> QED
  BY <1>1, <1>2, BlockTypes

(* A call that waits for the oldest block begins: if nobody uses the block,   *)
(* it is drained.                                                           *)
LEMMA ClearEntered ==
  ASSUME ReadInv, AckInv', BlockInv, NEW w \in Writers, CallOrStep(w),
         UNCHANGED <<count, CLEAR, mem, w_buf_next, w_buf_curr>>,
         ~SodSet(w), ~Fill(w), pc[w] # "clear", pc'[w] = "clear", ir'[w] = 0
  PROVE  BlockInv'
<1>1. UsedBlocks' = UsedBlocks /\ Oldest' = Oldest
  BY UsedOtherwise DEF ReadInv, Oldest
<1>2. \A v \in Writers : /\ pc[v] # "clear"
                         /\ v # w => pc'[v] # "clear"
  BY OnlyDrainer
<1>3. DrainFrom = Oldest /\ \A s : Drained(s) = 0
  BY <1>2 DEF DrainFrom, Drained
<1>4. \A s \in Slots : Drained(s)' = 0
  BY <1>2 DEF Drained, Slots
<1>5. DrainFrom' = IF count[w_buf_next % NBufs] = 0 THEN Oldest + 1 ELSE Oldest
  BY <1>1, <1>2 DEF DrainFrom
<1>6. /\ Oldest \in Int /\ w_buf_curr \in Nat /\ w_buf_next \in Nat
      /\ w_buf_curr' = w_buf_curr
      /\ \A s \in Slots : /\ NextUncleared(s)' = NextUncleared(s)
                          /\ NextUncleared(s) \in Nat
  BY BlockTypes, UnclearedType, WriterKeepsUncleared
<1>7. CASE count[w_buf_next % NBufs] # 0
  BY <1>1, <1>3, <1>4, <1>5, <1>6, <1>7, BlockFrame
<1>8. CASE count[w_buf_next % NBufs] = 0
  <2>1. Oldest \notin UsedBlocks /\ DrainFrom' = Oldest + 1
    BY <1>3, <1>5, <1>8, OldestCount
  <2>2. ASSUME NEW s \in Slots
        PROVE  /\ Among(UsedBlocks, Oldest + 1, NextUncleared(s))
                    = Among(UsedBlocks, Oldest, NextUncleared(s))
               /\ Among(UsedBlocks, NextUncleared(s), Oldest + 1)
                    = Among(UsedBlocks, NextUncleared(s), Oldest)
    <3>1. \A b \in UsedBlocks : b # Oldest
      BY <2>1
    <3> QED
      BY <1>6, <3>1 DEF Among
  <2>3. ClearTokens'
    BY <1>1, <1>3, <1>4, <1>6, <2>1, <2>2 DEF ClearTokens, BlockInv, HowMany
  <2>4. NoneLost'
    BY <1>1, <1>3, <1>6, <2>1, <2>2 DEF NoneLost, BlockInv
  <2>5. Counts'
    <3>1. \A b \in Oldest .. w_buf_next - 1 :
            b >= Oldest + 1 /\ b \in UsedBlocks <=> b >= Oldest /\ b \in UsedBlocks
      BY <1>6, <2>1
    <3> QED
      BY <1>1, <1>3, <2>1, <3>1 DEF Counts, BlockInv
  <2>6. OldestNeeded' => OldestNeeded
    BY <1>1, <1>6 DEF OldestNeeded
  <2>7. Contents'
    BY <1>1, <2>6 DEF Contents, BlockInv
  <2> QED
    BY <2>3, <2>4, <2>5, <2>7 DEF BlockInv
<1> QED
  BY <1>7, <1>8


(* The token of the oldest block is taken from one reader after another; with *)
(* the last one the block is drained, and every reader has cleared it.         *)
LEMMA DrainBlocks ==
  ASSUME ReadInv, AckInv', BlockInv, NEW w \in Writers, CallOrStep(w), Drain(w)
  PROVE  BlockInv'
<1> DEFINE p == w_buf_next % NBufs
<1>t. /\ pc \in [Procs -> WriterPcs \cup ReaderPcs] /\ w \in Procs
      /\ ir \in [Writers -> Slots] /\ ir[w] \in Slots
      /\ Slots = 0 .. NReaders - 1 /\ NReaders \in Nat \ {0}
  BY WriterTypes, ReaderTypes DEF ReadInv, LayoutInv, TableInv
<1>b. /\ Oldest \in Int /\ w_buf_curr \in Nat /\ w_buf_next \in Nat
      /\ count \in [Ring -> Nat] /\ CLEAR \in [Slots -> Nat] /\ p \in Ring
      /\ Oldest % NBufs = p
  BY BlockTypes
<1>1. /\ pc[w] = "clear" /\ pc'[w] = "clear" /\ op[w] # "reset"
      /\ CLEAR[ir[w]] > 0
      /\ CLEAR' = [CLEAR EXCEPT ![ir[w]] = @ - 1]
      /\ ir' = [ir EXCEPT ![w] = IF LastReader(w) THEN 0 ELSE @ + 1]
      /\ UNCHANGED <<mem, w_buf_next, w_buf_curr>> /\ ~LockWrite(w)
      /\ ~SodSet(w) /\ ~Fill(w)
  BY <1>t DEF Drain, Goto, Avail, Down, NextReader, LockWrite, SodSet, Fill,
     wsync, ghost, ReadInv, LayoutInv, TableInv, WriterOp
<1>2. count[p] > 0 /\ count' = IF LastReader(w) THEN Down(count, p) ELSE count
  BY <1>1 DEF Drain, Draining
<1>3. UsedBlocks' = UsedBlocks /\ Oldest' = Oldest
  BY <1>1, UsedOtherwise DEF ReadInv, Oldest
<1>4. \A v \in Writers : v # w => pc[v] # "clear" /\ pc'[v] # "clear"
  BY OnlyDrainer
<1>5. /\ DrainFrom = Oldest /\ count[p] = 1 /\ Oldest \in UsedBlocks
  BY <1>b, <1>2, OldestCount
<1>6. \A s \in Slots : Drained(s) = IF s < ir[w] THEN 1 ELSE 0
  BY <1>1, <1>4 DEF Drained
<1>7. \A s \in Slots : /\ NextUncleared(s)' = NextUncleared(s)
                       /\ NextUncleared(s) \in Nat
  BY UnclearedType, WriterKeepsUncleared
<1>8. \A s \in Slots :
        CLEAR[s] + Drained(s) = HowMany(UsedBlocks, Oldest, NextUncleared(s))
  BY <1>5 DEF BlockInv, ClearTokens
<1>9. CASE ~LastReader(w)
  <2>1. DrainFrom' = Oldest
    BY <1>1, <1>2, <1>3, <1>5, <1>9 DEF DrainFrom
  <2>2. ir'[w] = ir[w] + 1
    BY <1>t, <1>1, <1>9
  <2>3. \A s \in Slots : Drained(s)' = IF s < ir[w] + 1 THEN 1 ELSE 0
    BY <1>1, <1>4, <2>2 DEF Drained
  <2>4. \A s \in Slots : CLEAR'[s] + Drained(s)' = CLEAR[s] + Drained(s)
    BY <1>t, <1>b, <1>1, <1>6, <2>3
  <2>5. ClearTokens'
    BY <1>3, <1>7, <1>8, <2>1, <2>4 DEF ClearTokens
  <2>6. NoneLost' /\ Counts'
    BY <1>1, <1>2, <1>3, <1>5, <1>7, <1>9, <2>1 DEF NoneLost, Counts, BlockInv
  <2>7. OldestNeeded' => OldestNeeded
    BY <1>1, <1>3, <1>7 DEF OldestNeeded
  <2>8. Contents'
    BY <1>1, <1>3, <2>7 DEF Contents, BlockInv
  <2> QED
    BY <2>5, <2>6, <2>8 DEF BlockInv
<1>10. CASE LastReader(w)
  <2>1. count' = [count EXCEPT ![p] = 0]
    BY <1>b, <1>2, <1>5, <1>10 DEF Down
  <2>2. DrainFrom' = Oldest + 1
    BY <1>b, <1>1, <1>3, <2>1 DEF DrainFrom
  <2>3. ir'[w] = 0 /\ ir[w] = NReaders - 1
    BY <1>t, <1>1, <1>10 DEF LastReader
  <2>4. \A s \in Slots : Drained(s)' = 0
    BY <1>t, <1>4, <2>3 DEF Drained
  <2>5. ASSUME NEW s \in Slots
        PROVE  CLEAR'[s] + 1 = HowMany(UsedBlocks, Oldest, NextUncleared(s))
               /\ CLEAR'[s] \in Nat
    <3>1. CASE s = ir[w]
      BY <1>t, <1>b, <1>1, <1>6, <1>8, <3>1
    <3>2. CASE s # ir[w]
      BY <1>t, <1>b, <1>1, <1>6, <1>8, <2>3, <3>2
    <3> QED
      BY <3>1, <3>2
  <2>6. ASSUME NEW s \in Slots
        PROVE  /\ Oldest < NextUncleared(s)
               /\ HowMany(UsedBlocks, Oldest, NextUncleared(s))
                    = HowMany(UsedBlocks, Oldest + 1, NextUncleared(s)) + 1
               /\ HowMany(UsedBlocks, Oldest + 1, NextUncleared(s)) \in Nat
    <3>1. HowMany(UsedBlocks, Oldest, NextUncleared(s)) # 0
      BY <2>5
    <3>2. Among(UsedBlocks, Oldest, NextUncleared(s)) # {}
      BY <1>b, <1>7, <3>1, AmongEmpty
    <3>3. Oldest < NextUncleared(s)
      BY <1>b, <1>7, <3>2 DEF Among
    <3> QED
      BY <1>b, <1>5, <1>7, <3>3, FirstAmong, AmongFinite
  <2>7. ClearTokens'
    <3>1. \A s \in Slots :
            CLEAR'[s] = HowMany(UsedBlocks, Oldest + 1, NextUncleared(s))
      BY <2>5, <2>6
    <3>2. \A s \in Slots : CLEAR'[s] + 0 = CLEAR'[s]
      BY <2>5
    <3> QED
      BY <1>3, <1>7, <2>2, <2>4, <3>1, <3>2 DEF ClearTokens
  <2>8. NoneLost'
    <3>1. \A s \in Slots : Among(UsedBlocks, NextUncleared(s), Oldest + 1) = {}
      BY <1>b, <1>7, <2>6 DEF Among
    <3> QED
      BY <1>3, <1>7, <2>2, <3>1 DEF NoneLost
  <2>9. Counts'
    <3> SUFFICES ASSUME NEW b \in Oldest .. w_buf_next - 1
                 PROVE  count'[b % NBufs]
                          = IF b >= Oldest + 1 /\ b \in UsedBlocks THEN 1 ELSE 0
      BY <1>1, <1>3, <2>2 DEF Counts
    <3>1. b \in Int /\ b % NBufs \in Ring /\ (b # Oldest => b % NBufs # p)
      BY OwnPlace
    <3>2. CASE b = Oldest
      BY <1>b, <2>1, <3>2
    <3>3. CASE b # Oldest
      <4>1. count'[b % NBufs] = count[b % NBufs]
        BY <1>b, <2>1, <3>1, <3>3
      <4>2. b >= Oldest + 1 <=> b >= Oldest
        BY <1>b, <3>1, <3>3
      <4> QED
        BY <1>5, <4>1, <4>2 DEF Counts, BlockInv
    <3> QED
      BY <3>2, <3>3
  <2>10. OldestNeeded' => OldestNeeded
    BY <1>1, <1>3, <1>7 DEF OldestNeeded
  <2>11. Contents'
    BY <1>1, <1>3, <2>10 DEF Contents, BlockInv
  <2> QED
    BY <2>7, <2>8, <2>9, <2>11 DEF BlockInv
<1> QED
  BY <1>9, <1>10

(* The next block is handed out in the place of the oldest one, which every    *)
(* reader has cleared.                                                      *)
LEMMA TakeBlocks ==
  ASSUME ReadInv, AckInv', BlockInv, NEW w \in Writers, CallOrStep(w),
         TakeBlock(w)
  PROVE  BlockInv'
<1> DEFINE p == w_buf_next % NBufs
<1>a. AckInv
  BY DEF ReadInv, LayoutInv, TableInv
<1>t. pc \in [Procs -> WriterPcs \cup ReaderPcs] /\ w \in Procs
  BY <1>a, WriterTypes
<1>s. \A s \in Slots : s \in Nat
  BY <1>a, ReaderTypes
<1>b. /\ Oldest \in Int /\ w_buf_curr \in Nat /\ w_buf_next \in Nat
      /\ w_buf_curr <= w_buf_next /\ Oldest < w_buf_next
      /\ count \in [Ring -> Nat] /\ p \in Ring
      /\ mem \in [Ring -> Nat \cup {NoBlock}] /\ CLEAR \in [Slots -> Nat]
      /\ NBufs \in Nat \ {0}
  BY BlockTypes
<1>1. /\ pc[w] = "clear" /\ pc'[w] # "clear" /\ op[w] # "reset"
      /\ ~DrainPending(w) /\ w_buf_next' = w_buf_next + 1
      /\ mem' = [mem EXCEPT ![p] = w_buf_next]
      /\ UNCHANGED <<w_buf_curr, count, CLEAR>>
      /\ ~SodSet(w) /\ ~Fill(w)
  BY <1>t DEF TakeBlock, Goto, SodSet, Fill
<1>2. count[p] = 0
  <2>1. ~Draining(w, p)
    BY <1>b, <1>1 DEF DrainPending
  <2> QED
    BY <1>b, <1>1, <2>1 DEF Draining
<1>3. UsedBlocks' = UsedBlocks
  BY <1>1, UsedOtherwise DEF ReadInv
<1>4. \A v \in Writers : /\ v # w => pc[v] # "clear"
                         /\ pc'[v] # "clear"
  BY <1>1, OnlyDrainer
<1>5. DrainFrom = Oldest + 1 /\ ir[w] = 0
  BY <1>1, <1>2 DEF DrainFrom, ReadInv, LayoutInv, TableInv, WriterOp
<1>6. Oldest' = Oldest + 1
  BY <1>b, <1>1 DEF Oldest
<1>7. DrainFrom' = Oldest + 1
  BY <1>4, <1>6 DEF DrainFrom
<1>8. \A s \in Slots : Drained(s) = 0 /\ Drained(s)' = 0
  BY <1>t, <1>s, <1>4, <1>5 DEF Drained
<1>9. \A s \in Slots : NextUncleared(s)' = NextUncleared(s)
  BY WriterKeepsUncleared
<1>10. ClearTokens' /\ NoneLost'
  BY <1>1, <1>3, <1>5, <1>7, <1>8, <1>9 DEF ClearTokens, NoneLost, BlockInv
<1>11. Oldest' .. w_buf_next' - 1 = Oldest + 1 .. w_buf_next
  BY <1>b, <1>1, <1>6
<1>12. \A b \in Oldest + 1 .. w_buf_next :
         b = w_buf_next \/ (b \in Oldest .. w_buf_next - 1 /\ b # Oldest)
  BY <1>b
<1>13. Counts'
  <2> SUFFICES ASSUME NEW b \in Oldest + 1 .. w_buf_next
               PROVE  count[b % NBufs]
                        = IF b >= Oldest + 1 /\ b \in UsedBlocks THEN 1 ELSE 0
    BY <1>1, <1>3, <1>7, <1>11 DEF Counts
  <2>1. CASE b = w_buf_next
    <3>1. b \notin UsedBlocks
      BY <1>b, <2>1, UsedRange DEF ReadInv, LayoutInv, TableInv
    <3> QED
      BY <1>2, <2>1, <3>1
  <2>2. CASE b \in Oldest .. w_buf_next - 1
    BY <1>5, <2>2 DEF Counts, BlockInv
  <2> QED
    BY <1>12, <2>1, <2>2
<1>14. Contents'
  <2> SUFFICES ASSUME NEW b \in Oldest + 1 .. w_buf_next, b >= 0
               PROVE  mem'[b % NBufs] = b
    BY <1>11 DEF Contents
  <2>1. CASE b = w_buf_next
    BY <1>b, <1>1, <2>1
  <2>2. CASE b \in Oldest .. w_buf_next - 1 /\ b # Oldest
    <3>1. b % NBufs \in Ring /\ b % NBufs # p
      BY <2>2, OwnPlace
    <3>2. mem[b % NBufs] = b
      BY <2>2 DEF Contents, BlockInv
    <3> QED
      BY <1>b, <1>1, <3>1, <3>2
  <2> QED
    BY <1>12, <2>1, <2>2
<1> QED
  BY <1>10, <1>13, <1>14 DEF BlockInv

(* ipcbuf_zero_next_write clears memory that nobody needs any more.           *)
LEMMA ZeroBlocks ==
  ASSUME ReadInv, AckInv', BlockInv, NEW w \in Writers, CallOrStep(w),
         ZeroNextWrite(w)
  PROVE  BlockInv'
<1> DEFINE p == w_buf_next % NBufs
<1>b. /\ Oldest \in Int /\ w_buf_curr \in Nat /\ w_buf_next \in Nat
      /\ CLEAR \in [Slots -> Nat] /\ p \in Ring
      /\ mem \in [Ring -> Nat \cup {NoBlock}]
  BY BlockTypes
<1>1. /\ pc[w] = "idle" /\ UNCHANGED <<pc, count, CLEAR, w_buf_next, w_buf_curr>>
      /\ \A s \in Slots : CLEAR[s] > 0
      /\ mem' = [mem EXCEPT ![p] = NoBlock]
      /\ ~SodSet(w) /\ ~Fill(w)
  BY DEF ZeroNextWrite, SodSet, Fill, Goto, wsync
<1>2. UsedBlocks' = UsedBlocks /\ Oldest' = Oldest
  BY <1>1, UsedOtherwise DEF ReadInv, Oldest
<1>3. \A v \in Writers : pc[v] # "clear" /\ pc'[v] # "clear"
  BY <1>1, OnlyDrainer
<1>4. /\ DrainFrom = Oldest /\ DrainFrom' = Oldest
      /\ \A s \in Slots : Drained(s) = 0 /\ Drained(s)' = 0
  BY <1>2, <1>3 DEF DrainFrom, Drained
<1>5. \A s \in Slots : NextUncleared(s)' = NextUncleared(s)
  BY WriterKeepsUncleared
<1>6. ClearTokens' /\ NoneLost' /\ Counts'
  BY <1>1, <1>2, <1>4, <1>5 DEF ClearTokens, NoneLost, Counts, BlockInv
<1>7. ASSUME NEW s \in Slots
      PROVE  Oldest < NextUncleared(s) /\ NextUncleared(s) \in Nat
             /\ NextUncleared(s) <= w_buf_curr
  <2>1. NextUncleared(s) \in Nat /\ NextUncleared(s) <= w_buf_curr
    BY UnclearedType
  <2>2. CLEAR[s] + 0 = HowMany(UsedBlocks, Oldest, NextUncleared(s))
    BY <1>4 DEF ClearTokens, BlockInv
  <2>3. HowMany(UsedBlocks, Oldest, NextUncleared(s)) # 0
    BY <1>b, <1>1, <2>2
  <2>4. Among(UsedBlocks, Oldest, NextUncleared(s)) # {}
    BY <1>b, <2>1, <2>3, AmongEmpty
  <2> QED
    BY <1>b, <2>1, <2>4 DEF Among
<1>8. ~OldestNeeded'
  <2>1. 0 \in Slots
    BY SizesAssumption DEF Slots
  <2>2. Oldest < w_buf_curr
    BY <1>b, <1>7, <2>1
  <2> QED
    BY <1>b, <1>1, <1>2, <1>5, <1>7, <2>2 DEF OldestNeeded
<1>9. Contents'
  <2> SUFFICES ASSUME NEW b \in Oldest .. w_buf_next - 1, b >= 0, b # Oldest
               PROVE  mem'[b % NBufs] = b
    BY <1>1, <1>2, <1>8 DEF Contents
  <2>1. b % NBufs \in Ring /\ b % NBufs # p
    BY OwnPlace
  <2>2. mem[b % NBufs] = b
    BY DEF Contents, BlockInv
  <2> QED
    BY <1>b, <1>1, <2>1, <2>2
<1> QED
  BY <1>6, <1>9 DEF BlockInv


(* ipcbuf_enable_sod counts the blocks of the transfer that are filled: each   *)
(* lies in the ring, none was used before, and no reader has passed one.       *)
LEMMA SodBlocks ==
  ASSUME ReadInv, AckInv', BlockInv, NEW w \in Writers, CallOrStep(w), SodSet(w)
  PROVE  BlockInv'
<1> USE DEF ReadInv, LayoutInv, TableInv
<1> DEFINE a == arg[w].buf
           N == a .. w_buf_curr - 1
<1>t. pc \in [Procs -> WriterPcs \cup ReaderPcs] /\ w \in Procs /\ a \in Nat
  BY WriterTypes
<1>b. /\ Oldest \in Int /\ w_buf_curr \in Nat /\ w_buf_next \in Nat
      /\ w_buf_curr <= w_buf_next /\ Oldest < w_buf_next
      /\ count \in [Ring -> Nat] /\ NBufs \in Nat \ {0}
  BY BlockTypes
<1>1. /\ pc[w] = "sod_set" /\ pc'[w] = "sod_full" /\ ~LockWrite(w)
      /\ count' = [b \in Ring |-> count[b] + FilledIn(b, a)]
      /\ UNCHANGED <<CLEAR, mem, w_buf_next, w_buf_curr>>
  BY <1>t DEF SodSet, Goto, LockWrite
<1>2. a <= w_buf_curr /\ Oldest < a
  <2>1. PlaceOf(w)
    BY <1>1, WriterSteps DEF WriterPlace
  <2> QED
    BY <1>1, <2>1 DEF PlaceOf, Oldest
<1>3. /\ UsedBlocks' = UsedBlocks \cup N
      /\ \A b \in UsedBlocks : b \in Int /\ b < a
  BY UsedBySod
<1>4. \A v \in Writers : pc[v] # "clear" /\ pc'[v] # "clear"
  BY <1>1, OnlyDrainer
<1>5. /\ Oldest' = Oldest /\ DrainFrom = Oldest /\ DrainFrom' = Oldest
      /\ \A s \in Slots : Drained(s) = 0 /\ Drained(s)' = 0
  BY <1>1, <1>4 DEF DrainFrom, Drained, Oldest
<1>6. \A s \in Slots : NextUncleared(s)' = NextUncleared(s)
  BY WriterKeepsUncleared
<1>7. ASSUME NEW s \in Slots
      PROVE  NextUncleared(s) \in Nat /\ NextUncleared(s) <= a
  <2>1. NextDue(s) \in Nat /\ NextDue(s) <= a
    BY DueBeforeSod
  <2>2. ASSUME Cleared(s)
        PROVE  NextDue(s) < a
    <3>1. PICK r \in Readers : iread[r] = s /\ pc[r] = "cleared"
      BY <2>2 DEF Cleared
    <3>2. NextDue(s) \in UsedBlocks
      BY <3>1, ReaderInside
    <3> QED
      BY <1>3, <3>2
  <2> QED
    BY <1>t, <2>1, <2>2 DEF NextUncleared
<1>8. \A x \in UsedBlocks' : x \in UsedBlocks \/ (x \in Int /\ x >= a)
  BY <1>3, <1>t
<1>9. UsedBlocks \subseteq UsedBlocks'
  BY <1>3
<1>10. ASSUME NEW s \in Slots
       PROVE  /\ Among(UsedBlocks', Oldest, NextUncleared(s))
                   = Among(UsedBlocks, Oldest, NextUncleared(s))
              /\ Among(UsedBlocks', NextUncleared(s), Oldest)
                   = Among(UsedBlocks, NextUncleared(s), Oldest)
  <2>1. NextUncleared(s) \in Int /\ Oldest \in Int
    BY <1>b, <1>7
  <2>2. \A x \in UsedBlocks' :
          /\ x \in UsedBlocks \/ (x \in Int /\ x >= NextUncleared(s))
          /\ x \in UsedBlocks \/ (x \in Int /\ x >= Oldest)
    BY <1>b, <1>t, <1>2, <1>7, <1>8
  <2> QED
    BY <1>9, <2>1, <2>2, AddedBeyond
<1>11. ClearTokens' /\ NoneLost'
  BY <1>1, <1>5, <1>6, <1>10 DEF ClearTokens, NoneLost, BlockInv, HowMany
<1>12. ASSUME NEW b \in Oldest .. w_buf_next - 1
       PROVE  FilledIn(b % NBufs, a) = IF b \in N THEN 1 ELSE 0
  <2> DEFINE F == {n \in N : n % NBufs = b % NBufs}
  <2>1. ASSUME NEW n \in N
        PROVE  n % NBufs = b % NBufs <=> n = b
    <3>1. n \in Oldest .. w_buf_next - 1
      BY <1>b, <1>t, <1>2
    <3> QED
      BY <3>1, OwnPlace
  <2>2. F = IF b \in N THEN {b} ELSE {}
    BY <2>1
  <2>3. Cardinality({b}) = 1 /\ Cardinality({}) = 0
    BY FS_Singleton, FS_EmptySet
  <2>4. FilledIn(b % NBufs, a) = Cardinality(F)
    BY DEF FilledIn
  <2> HIDE DEF F
  <2> QED
    BY <2>2, <2>3, <2>4
<1>13. Counts'
  <2> SUFFICES ASSUME NEW b \in Oldest .. w_buf_next - 1
               PROVE  count'[b % NBufs]
                        = IF b >= Oldest /\ b \in UsedBlocks' THEN 1 ELSE 0
    BY <1>1, <1>5 DEF Counts
  <2>1. b \in Int /\ b % NBufs \in Ring /\ b >= Oldest
    <3>1. b \in Int /\ b % NBufs \in Ring
      BY OwnPlace
    <3>2. b >= Oldest
      BY <1>b
    <3> QED
      BY <3>1, <3>2
  <2>2. count[b % NBufs] = IF b \in UsedBlocks THEN 1 ELSE 0
    BY <1>5, <2>1 DEF Counts, BlockInv
  <2>3. count'[b % NBufs] = count[b % NBufs] + FilledIn(b % NBufs, a)
    BY <1>1, <2>1
  <2>4. b \in N => b \notin UsedBlocks
    BY <1>t, <1>3
  <2> QED
    BY <1>3, <1>12, <2>1, <2>2, <2>3, <2>4
<1>14. OldestNeeded' => OldestNeeded
  <2>1. Oldest \in UsedBlocks' => Oldest \in UsedBlocks
    BY <1>b, <1>t, <1>2, <1>8
  <2> QED
    BY <1>1, <1>5, <1>6, <2>1 DEF OldestNeeded
<1>15. Contents'
  BY <1>1, <1>5, <1>14 DEF Contents, BlockInv
<1> QED
  BY <1>11, <1>13, <1>15 DEF BlockInv

(* ipcbuf_mark_filled counts the block it fills.                              *)
LEMMA FillBlocks ==
  ASSUME ReadInv, AckInv', BlockInv, NEW w \in Writers, CallOrStep(w), Fill(w)
  PROVE  BlockInv'
<1> USE DEF ReadInv, LayoutInv, TableInv
<1> DEFINE c == w_buf_curr
<1>t. pc \in [Procs -> WriterPcs \cup ReaderPcs] /\ w \in Procs
  BY WriterTypes
<1>b. /\ Oldest \in Int /\ c \in Nat /\ w_buf_next \in Nat
      /\ Oldest <= c /\ count \in [Ring -> Nat] /\ NBufs \in Nat \ {0}
  BY BlockTypes
<1>1. /\ pc[w] = "fill" /\ pc'[w] = "full" /\ ~LockWrite(w)
      /\ count' = [count EXCEPT ![c % NBufs] = @ + 1]
      /\ w_buf_curr' = c + 1
      /\ UNCHANGED <<CLEAR, mem, w_buf_next>>
  BY <1>t DEF Fill, Goto, LockWrite, Up, ghost
<1>2. c \in Oldest .. w_buf_next - 1
  <2>1. PlaceOf(w)
    BY <1>1, WriterSteps DEF WriterPlace
  <2> QED
    BY <1>b, <1>1, <2>1 DEF PlaceOf
<1>3. UsedBlocks' = UsedBlocks \cup {c} /\ c \notin UsedBlocks
  BY UsedByFill
<1>4. \A v \in Writers : pc[v] # "clear" /\ pc'[v] # "clear"
  BY <1>1, OnlyDrainer
<1>5. /\ Oldest' = Oldest /\ DrainFrom = Oldest /\ DrainFrom' = Oldest
      /\ \A s \in Slots : Drained(s) = 0 /\ Drained(s)' = 0
  BY <1>1, <1>4 DEF DrainFrom, Drained, Oldest
<1>6. \A s \in Slots : /\ NextUncleared(s)' = NextUncleared(s)
                       /\ NextUncleared(s) \in Nat /\ NextUncleared(s) <= c
  BY WriterKeepsUncleared, UnclearedType
<1>7. ASSUME NEW s \in Slots
      PROVE  /\ Among(UsedBlocks', Oldest, NextUncleared(s))
                  = Among(UsedBlocks, Oldest, NextUncleared(s))
             /\ Among(UsedBlocks', NextUncleared(s), Oldest)
                  = Among(UsedBlocks, NextUncleared(s), Oldest)
  <2>1. NextUncleared(s) \in Int /\ Oldest \in Int
    BY <1>b, <1>6
  <2>2. \A x \in UsedBlocks' :
          /\ x \in UsedBlocks \/ (x \in Int /\ x >= NextUncleared(s))
          /\ x \in UsedBlocks \/ (x \in Int /\ x >= Oldest)
    BY <1>b, <1>3, <1>6
  <2>3. UsedBlocks \subseteq UsedBlocks'
    BY <1>3
  <2> QED
    BY <2>1, <2>2, <2>3, AddedBeyond
<1>8. ClearTokens' /\ NoneLost'
  BY <1>1, <1>5, <1>6, <1>7 DEF ClearTokens, NoneLost, BlockInv, HowMany
<1>9. Counts'
  <2> SUFFICES ASSUME NEW b \in Oldest .. w_buf_next - 1
               PROVE  count'[b % NBufs]
                        = IF b >= Oldest /\ b \in UsedBlocks' THEN 1 ELSE 0
    BY <1>1, <1>5 DEF Counts
  <2>1. b \in Int /\ b % NBufs \in Ring /\ b >= Oldest
    <3>1. b \in Int /\ b % NBufs \in Ring
      BY OwnPlace
    <3>2. b >= Oldest
      BY <1>b
    <3> QED
      BY <3>1, <3>2
  <2>2. count[b % NBufs] = IF b \in UsedBlocks THEN 1 ELSE 0
    BY <1>5, <2>1 DEF Counts, BlockInv
  <2>3. CASE b = c
    BY <1>b, <1>1, <1>3, <2>1, <2>2, <2>3
  <2>4. CASE b # c
    <3>1. b % NBufs # c % NBufs
      BY <1>2, <2>4, OwnPlace
    <3> QED
      BY <1>b, <1>1, <1>3, <2>1, <2>2, <2>4, <3>1
  <2> QED
    BY <2>3, <2>4
<1>10. OldestNeeded' => OldestNeeded
  BY <1>b, <1>1, <1>3, <1>5, <1>6 DEF OldestNeeded
<1>11. Contents'
  BY <1>1, <1>5, <1>10 DEF Contents, BlockInv
<1> QED
  BY <1>8, <1>9, <1>11 DEF BlockInv

(* BlockInv is kept by every step of the writer. *)
LEMMA WriterKeepsRing ==
  ASSUME RingClients, ReadInv, AckInv', BlockInv, NEW w \in Writers,
         CallOrStep(w)
  PROVE  BlockInv'
<1> USE DEF ReadInv, LayoutInv, TableInv
<1>t. /\ pc \in [Procs -> WriterPcs \cup ReaderPcs] /\ w \in Procs
      /\ ir \in [Writers -> Slots]
  BY WriterTypes
<1>1. CASE \/ LockWrite(w) \/ UnlockWrite(w) \/ EnableEod(w) \/ DisableSod(w)
           \/ SetSoclockBuf(w)
           \/ \E b \in 0 .. MaxBuf, y \in 0 .. BufSz : EnableSod(w, b, y)
           \/ \E n \in 0 .. BufSz : MarkFilled(w, n)
           \/ SodAck(w) \/ EodAck(w) \/ PostFull(w)
  <2>1. /\ UNCHANGED <<count, CLEAR, mem, w_buf_next>>
        /\ pc[w] # "clear" /\ pc'[w] # "clear" /\ ~SodSet(w) /\ ~Fill(w)
    <3>1. UNCHANGED <<count, CLEAR, mem, w_buf_next>>
      BY <1>1 DEF LockWrite, UnlockWrite, EnableEod, DisableSod, SetSoclockBuf,
         EnableSod, CallEnableSod, MarkFilled, SodAck, EodAck, PostFull,
         wsync, ghost
    <3>2. /\ pc[w] \in {"idle", "sod_ack", "eod_ack", "full"}
          /\ pc'[w] \in {"idle", "sod_ack", "sod_set", "eod_ack", "eod_set",
                         "fill", "full"}
      BY <1>t, <1>1 DEF LockWrite, UnlockWrite, EnableEod, DisableSod,
         SetSoclockBuf, EnableSod, CallEnableSod, MarkFilled, SodAck, EodAck,
         PostFull, Goto, AckInv, LockInv, Control
    <3> QED
      BY <3>1, <3>2 DEF SodSet, Fill, Goto
  <2> QED
    BY <2>1, QuietBlocks
<1>2. CASE GetNextWrite(w)
  <2>1. /\ pc[w] = "idle" /\ UNCHANGED <<count, CLEAR, mem, w_buf_next, w_buf_curr>>
        /\ ~SodSet(w) /\ ~Fill(w)
    BY <1>2 DEF GetNextWrite, CallEnableSod, SodSet, Fill, Goto, wsync, ghost
  <2>2. pc'[w] = "sod_ack" \/ (pc'[w] = "clear" /\ ir'[w] = 0)
    BY <1>t, <1>2 DEF GetNextWrite, CallEnableSod, Goto, FirstReader
  <2> QED
    BY <2>1, <2>2, QuietBlocks, ClearEntered
<1>3. CASE SodFull(w)
  <2>1. /\ pc[w] = "sod_full"
        /\ UNCHANGED <<count, CLEAR, mem, w_buf_next, w_buf_curr>>
        /\ ~SodSet(w) /\ ~Fill(w)
    BY <1>3 DEF SodFull, SodSet, Fill, Goto, wsync, ghost
  <2>2. pc'[w] \in {"sod_full", "idle"} \/ (pc'[w] = "clear" /\ ir'[w] = 0)
    BY <1>t, <1>3 DEF SodFull, Goto, NextReader
  <2> QED
    BY <2>1, <2>2, QuietBlocks, ClearEntered
<1>4. CASE EodSet(w)
  <2>1. /\ pc[w] = "eod_set"
        /\ UNCHANGED <<count, CLEAR, mem, w_buf_next, w_buf_curr, ir>>
        /\ ~SodSet(w) /\ ~Fill(w)
    BY <1>4 DEF EodSet, SodSet, Fill, Goto, wproc
  <2>2. pc'[w] \in {"fill", "clear"}
    BY <1>t, <1>4 DEF EodSet, Goto
  <2>3. ir'[w] = 0
    BY <2>1 DEF WriterOp
  <2> QED
    BY <2>1, <2>2, <2>3, QuietBlocks, ClearEntered
<1> QED
  BY <1>1, <1>2, <1>3, <1>4, DrainBlocks, TakeBlocks, ZeroBlocks, SodBlocks,
     FillBlocks DEF CallOrStep


-----------------------------------------------------------------------------
(***************************************************************************)
(* The steps of the readers.                                                *)
(***************************************************************************)

(* The tokens of a slot in CLEAR, after a step of any reader. *)
LEMMA ReaderClears ==
  ASSUME ReadInv, AckInv', BlockInv, NEW r \in Readers, ReadStep(r),
         NEW s \in Slots
  PROVE  /\ CLEAR'[s] + Drained(s)
              = HowMany(UsedBlocks, DrainFrom, NextUncleared(s)')
         /\ Among(UsedBlocks, NextUncleared(s)', DrainFrom) = {}
         /\ NextUncleared(s)' \in Nat /\ NextUncleared(s) <= NextUncleared(s)'
<1> USE DEF ReadInv, LayoutInv, TableInv
<1>1. /\ CLEAR[s] + Drained(s) = HowMany(UsedBlocks, DrainFrom, NextUncleared(s))
      /\ Among(UsedBlocks, NextUncleared(s), DrainFrom) = {}
  BY DEF BlockInv, ClearTokens, NoneLost
<1>2. /\ NextDue(s) \in Nat /\ NextUncleared(s) \in Nat /\ DrainFrom \in Int
      /\ CLEAR \in [Slots -> Nat] /\ CLEAR[s] \in Nat /\ Drained(s) \in {0, 1}
  BY BlockTypes, UnclearedType
<1>3. CASE s # iread[r] \/ ~(GetNextRead(r) \/ StartXfer(r) \/ MarkCleared(r) \/ Advance(r))
  BY <1>1, <1>2, <1>3, SlotQuiet
<1>4. CASE s = iread[r] /\ GetNextRead(r)
  <2>1. /\ NextDue(s)' = NextDue(s) /\ ~Cleared(s) /\ ~Cleared(s)'
    BY <1>4, PlaceByGetNextRead
  <2>2. CLEAR' = CLEAR
    BY <1>4 DEF GetNextRead
  <2> QED
    BY <1>1, <1>2, <2>1, <2>2 DEF NextUncleared
<1>5. CASE s = iread[r] /\ StartXfer(r)
  <2>1. /\ NextDue(s) <= NextDue(s)' /\ NextDue(s)' \in Nat
        /\ Among(UsedBlocks, NextDue(s), NextDue(s)') = {}
        /\ ~Cleared(s) /\ ~Cleared(s)'
    BY <1>5, PlaceByStartXfer
  <2>2. CLEAR' = CLEAR
    BY <1>5 DEF StartXfer
  <2>3. NextUncleared(s) = NextDue(s) /\ NextUncleared(s)' = NextDue(s)'
    BY <2>1 DEF NextUncleared
  <2>n. PICK n : n = NextDue(s)'
    OBVIOUS
  <2>4. /\ Among(UsedBlocks, DrainFrom, n) = Among(UsedBlocks, DrainFrom, NextDue(s))
        /\ Among(UsedBlocks, n, DrainFrom) = {}
    <3>1. /\ n \in Int /\ NextDue(s) \in Int /\ NextDue(s) <= n
          /\ Among(UsedBlocks, NextDue(s), n) = {}
          /\ Among(UsedBlocks, NextDue(s), DrainFrom) = {}
      BY <1>1, <1>2, <2>1, <2>3, <2>n
    <3>2. \A b \in UsedBlocks : b \in Int =>
            ~(NextDue(s) <= b /\ b < n)
      BY <3>1 DEF Among
    <3> QED
      BY <1>2, <3>1, <3>2 DEF Among
  <2> QED
    BY <1>1, <2>1, <2>2, <2>3, <2>n, <2>4 DEF HowMany
<1>6. CASE s = iread[r] /\ MarkCleared(r)
  <2>1. /\ Connected(r) /\ Connected(r)' /\ ReadStep(r)
        /\ UNCHANGED iread /\ pc[r] = "hold" /\ pc'[r] = "cleared"
    BY <1>6, HolderConnected, ReaderTypes
       DEF MarkCleared, Goto, HeldPcs, rproc, Connected, is_reader
  <2>2. ~Cleared(s) /\ Cleared(s)'
    BY <1>6, <2>1, HeldMoves
  <2>3. /\ CLEAR' = [CLEAR EXCEPT ![s] = @ + 1]
        /\ UNCHANGED <<r_bufs, r_states, r_xfers, ended>>
    BY <1>6 DEF MarkCleared, Up, rsync, ghost
  <2>4. NextDue(s)' = NextDue(s)
    BY <2>3 DEF NextDue
  <2>5. NextUncleared(s) = NextDue(s) /\ NextUncleared(s)' = NextDue(s) + 1
    BY <2>2, <2>4 DEF NextUncleared
  <2>6. NextDue(s) \in UsedBlocks
    BY <1>6, <2>1, ReaderInside
  <2>7. DrainFrom <= NextDue(s)
    <3> SUFFICES ASSUME NextDue(s) < DrainFrom
                 PROVE  FALSE
      BY <1>2
    <3>1. NextDue(s) \in Among(UsedBlocks, NextDue(s), DrainFrom)
      BY <1>2, <2>6 DEF Among
    <3> QED
      BY <1>1, <2>5, <3>1
  <2>8. HowMany(UsedBlocks, DrainFrom, NextDue(s) + 1)
          = HowMany(UsedBlocks, DrainFrom, NextDue(s)) + 1
    BY <1>2, <2>6, <2>7, LastAmong
  <2>9. HowMany(UsedBlocks, DrainFrom, NextDue(s)) \in Nat
    BY <1>2, AmongFinite
  <2>10. Among(UsedBlocks, NextDue(s) + 1, DrainFrom) = {}
    BY <1>2, <2>7 DEF Among
  <2> QED
    BY <1>1, <1>2, <2>3, <2>5, <2>8, <2>9, <2>10
<1>7. CASE s = iread[r] /\ Advance(r)
  <2>1. /\ NextDue(s)' = NextDue(s) + 1 /\ Cleared(s) /\ ~Cleared(s)'
    BY <1>7, PlaceByAdvance
  <2>2. CLEAR' = CLEAR
    BY <1>7 DEF Advance
  <2>3. NextUncleared(s)' = NextUncleared(s)
    BY <2>1 DEF NextUncleared
  <2> QED
    BY <1>1, <1>2, <2>2, <2>3
<1> QED
  BY <1>3, <1>4, <1>5, <1>6, <1>7

(* BlockInv is kept by every step of a reader. *)
LEMMA ReaderKeepsRing ==
  ASSUME ReadInv, AckInv', BlockInv, NEW r \in Readers, ReadStep(r)
  PROVE  BlockInv'
<1>1. /\ UNCHANGED <<w_buf_curr, w_buf_next, UsedBlocks, count, mem>>
      /\ \A v \in Writers : pc'[v] = pc[v] /\ ir'[v] = ir[v]
  BY ReaderKeepsBlocks DEF ReadInv, LayoutInv, TableInv
<1>2. /\ Oldest' = Oldest /\ DrainFrom' = DrainFrom
      /\ \A s : Drained(s)' = Drained(s)
  BY <1>1 DEF Oldest, DrainFrom, Drained
<1>3. ClearTokens' /\ NoneLost'
  BY <1>1, <1>2, ReaderClears DEF ClearTokens, NoneLost
<1>4. Counts'
  BY <1>1, <1>2 DEF Counts, BlockInv
<1>5. OldestNeeded' => OldestNeeded
  <2> SUFFICES ASSUME NEW s \in Slots, NextUncleared(s)' <= Oldest
               PROVE  NextUncleared(s) <= Oldest
    BY <1>1, <1>2 DEF OldestNeeded
  <2>1. /\ NextUncleared(s)' \in Nat /\ NextUncleared(s) <= NextUncleared(s)'
        /\ NextUncleared(s) \in Nat /\ Oldest \in Int
    BY ReaderClears, UnclearedType, BlockTypes
  <2> QED
    BY <2>1
<1>6. Contents'
  BY <1>1, <1>2, <1>5 DEF Contents, BlockInv
<1> QED
  BY <1>3, <1>4, <1>6 DEF BlockInv

-----------------------------------------------------------------------------
(***************************************************************************)
(* The theorems.                                                           *)
(***************************************************************************)

(* RingInv is inductive. *)
LEMMA RingStep ==
  ASSUME RingClients, RingInv, [Next]_vars
  PROVE  RingInv'
<1>1. MaxReset = 0 /\ ReadInv /\ BlockInv /\ AckInv
  BY DEF RingClients, RingInv, ReadInv, LayoutInv, TableInv
<1>2. ReadInv' /\ AckInv'
  BY <1>1, ReadInvStep, AckNext
<1>3. CASE UNCHANGED vars
  <2> USE <1>3 DEF vars, wsync, rsync, rproc, wproc, ghost
  <2>1. \A b, n : InTransfer(b, n)' <=> InTransfer(b, n)
    BY DEF InTransfer
  <2>2. UsedBlocks' = UsedBlocks
    BY <2>1 DEF UsedBlocks
  <2>3. \A s : NextDue(s)' = NextDue(s) /\ (Cleared(s)' <=> Cleared(s))
    BY DEF NextDue, Cleared
  <2>4. \A s : NextUncleared(s)' = NextUncleared(s)
    BY <2>3 DEF NextUncleared
  <2>5. DrainFrom' = DrainFrom /\ \A s : Drained(s)' = Drained(s)
    BY DEF DrainFrom, Drained, Oldest
  <2>6. BlockInv'
    BY <1>1, <2>2, <2>4, <2>5, BlockFrame, BlockTypes
  <2> QED
    BY <1>2, <2>6 DEF RingInv
<1>4. ASSUME NEW w \in Writers, CallOrStep(w)
      PROVE  RingInv'
  BY <1>1, <1>2, <1>4, WriterKeepsRing DEF RingInv
<1>5. ASSUME NEW r \in Readers, ReadStep(r)
      PROVE  RingInv'
  BY <1>1, <1>2, <1>5, ReaderKeepsRing DEF RingInv
<1> QED
  BY <1>1, <1>3, <1>4, <1>5, StepSplit

(* Initially no block was handed out: the places of the ring lie before 0. *)
LEMMA RingInit == Init => RingInv
<1> SUFFICES ASSUME Init
             PROVE  RingInv
  OBVIOUS
<1>1. ReadInv
  BY ReadInit
<1>2. /\ w_buf_next = 0 /\ w_buf_curr = 0 /\ NBufs \in Nat \ {0}
      /\ count = [b \in Ring |-> 0]
      /\ \A s \in Slots : /\ CLEAR[s] = 0 /\ r_xfers[s] = 0
                          /\ r_states[s] = "DISCON"
      /\ \A p \in Procs : pc[p] = "idle"
  BY SizesAssumption DEF Init
<1>3. Oldest = 0 - NBufs
  BY <1>2 DEF Oldest
<1>4. /\ DrainFrom = Oldest
      /\ \A s \in Slots : Drained(s) = 0 /\ NextUncleared(s) = 0
  BY <1>2 DEF DrainFrom, Drained, NextUncleared, NextDue, Cleared, Procs
<1>5. UsedBlocks = {}
  BY <1>2 DEF UsedBlocks
<1>6. /\ Among(UsedBlocks, Oldest, 0) = {} /\ Among(UsedBlocks, 0, Oldest) = {}
      /\ Oldest \in Int
  BY <1>2, <1>3, <1>5 DEF Among
<1>7. HowMany(UsedBlocks, Oldest, 0) = 0
  BY <1>6, AmongEmpty
<1>8. ClearTokens /\ NoneLost
  BY <1>2, <1>4, <1>6, <1>7 DEF ClearTokens, NoneLost
<1>9. Counts
  <2> SUFFICES ASSUME NEW b \in Oldest .. w_buf_next - 1
               PROVE  count[b % NBufs] = 0
    BY <1>5 DEF Counts
  <2>1. b % NBufs \in Ring
    BY <1>1, OwnPlace
  <2> QED
    BY <1>2, <2>1
<1>10. Contents
  BY <1>2, <1>3 DEF Contents
<1> QED
  BY <1>1, <1>8, <1>9, <1>10 DEF RingInv, BlockInv

(* RingInv holds in every reachable state of a ring whose clients keep to     *)
(* RingClients.                                                             *)
THEOREM RingInvariant ==
  ASSUME RingClients
  PROVE  Spec => []RingInv
<1>1. RingInv /\ [Next]_vars => RingInv'
  BY RingStep
<1> QED
  BY <1>1, RingInit, PTL DEF Spec

(* The block a reader has is neither behind the place up to which the writer   *)
(* has taken blocks back nor ahead of what was handed out.                     *)
LEMMA RingKeepsBlocks == RingInv => BlockIntact
<1> SUFFICES ASSUME RingInv, NEW r \in Readers, pc[r] \in {"bytes", "hold"},
                    NEW s, s = iread[r]
             PROVE  mem[r_bufs[s] % NBufs] = r_bufs[s]
  BY DEF BlockIntact
<1> USE DEF RingInv, ReadInv, LayoutInv, TableInv
<1>1. /\ s \in Slots /\ Connected(r) /\ NextDue(s) = r_bufs[s]
      /\ r_bufs[s] \in UsedBlocks /\ r_bufs[s] < w_buf_curr
  BY ReaderInside
<1>2. ~Cleared(s)
  BY <1>1, HeldBy
<1>3. NextUncleared(s) = r_bufs[s]
  BY <1>1, <1>2 DEF NextUncleared
<1>4. /\ Oldest \in Int /\ DrainFrom \in {Oldest, Oldest + 1}
      /\ w_buf_curr \in Nat /\ w_buf_next \in Nat /\ w_buf_curr <= w_buf_next
      /\ r_bufs[s] \in Nat
  BY <1>1, BlockTypes, ReaderTypes
<1>5. r_bufs[s] >= DrainFrom
  <2> SUFFICES ASSUME r_bufs[s] < DrainFrom
               PROVE  FALSE
    BY <1>4
  <2>1. r_bufs[s] \in Among(UsedBlocks, r_bufs[s], DrainFrom)
    BY <1>1, <1>4 DEF Among
  <2> QED
    BY <1>1, <1>3, <2>1 DEF NoneLost, BlockInv
<1>6. r_bufs[s] \in Oldest .. w_buf_next - 1
  BY <1>1, <1>4, <1>5
<1>7. r_bufs[s] = Oldest => OldestNeeded
  BY <1>1, <1>3, <1>4 DEF OldestNeeded
<1> QED
  BY <1>4, <1>6, <1>7 DEF Contents, BlockInv

(* While a reader has a block, between ipcbuf_get_next_read and               *)
(* ipcbuf_mark_cleared, neither ipcbuf_get_next_write nor                     *)
(* ipcbuf_zero_next_write touches its memory: for every number of readers     *)
(* and of blocks, whatever the writer clocked through the ring or made part   *)
(* of a transfer afterwards.                                                *)
THEOREM ReadersKeepTheirBlock ==
  ASSUME RingClients
  PROVE  Spec => []BlockIntact
BY RingKeepsBlocks, RingInvariant, PTL
=============================================================================
