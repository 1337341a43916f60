-------------------------- MODULE IpcBufTableProofs --------------------------
(***************************************************************************)
(* The table of transfers in ipcsync_t is right: TableInv is inductive, as   *)
(* long as the writer does not call ipcbuf_reset.                            *)
(***************************************************************************)
EXTENDS IpcBufRing, IpcBufProofs

-----------------------------------------------------------------------------
(***************************************************************************)
(* Numbers modulo n.                                                        *)
(***************************************************************************)

(* A remainder is below the divisor. *)
LEMMA ModRange ==
  ASSUME NEW n \in Nat \ {0}, NEW a \in Int
  PROVE  a % n \in 0 .. n - 1
OBVIOUS

(* A number is a multiple of the divisor and the remainder. *)
LEMMA ModQuotient ==
  ASSUME NEW n \in Nat \ {0}, NEW a \in Int
  PROVE  a \div n \in Int /\ a = n * (a \div n) + (a % n)
OBVIOUS

(* Numbers less than n apart have different remainders. *)
LEMMA ModDistinct ==
  ASSUME NEW n \in Nat \ {0}, NEW a \in Int, NEW b \in Int,
         a % n = b % n, a <= b, b < a + n
  PROVE  a = b
<1> DEFINE p == a \div n
           q == b \div n
<1>1. p \in Int /\ q \in Int /\ a = n * p + (a % n) /\ b = n * q + (b % n)
  BY ModQuotient
<1>2. a % n \in Int /\ b % n \in Int
  BY ModRange
<1> HIDE DEF p, q
<1>3. b - a = n * q - n * p
  BY <1>1, <1>2
<1>4. n * q - n * p = n * (q - p)
  BY <1>1
<1>5. q - p >= 1 => n * (q - p) >= n
  BY <1>1
<1>6. q - p <= -1 => n * (q - p) <= -n
  BY <1>1
<1>7. q = p
  BY <1>1, <1>3, <1>4, <1>5, <1>6
<1> QED
  BY <1>1, <1>7

(* Numbers n apart have the same remainder. *)
LEMMA ModShift ==
  ASSUME NEW n \in Nat \ {0}, NEW a \in Int, NEW b \in Int, b = a - n
  PROVE  b % n = a % n
<1> DEFINE p == a \div n
<1>1. p \in Int /\ a = n * p + (a % n)
  BY ModQuotient
<1>2. a % n \in 0 .. n - 1
  BY ModRange
<1> HIDE DEF p
<1>3. n * (p - 1) = n * p - n
  BY <1>1
<1>4. b = n * (p - 1) + (a % n)
  BY <1>1, <1>2, <1>3
<1>5. p - 1 \in Int
  BY <1>1
<1>6. ASSUME NEW r \in 0 .. n - 1, NEW k \in Int, NEW c \in Int, c = n * k + r
      PROVE  c % n = r
  BY <1>6
<1> QED
  BY <1>2, <1>4, <1>5, <1>6

-----------------------------------------------------------------------------
(***************************************************************************)
(* What a step may change.                                                  *)
(***************************************************************************)

(* The steps of a writer that does not call ipcbuf_reset. *)
CallOrStep(w) ==
  \/ LockWrite(w) \/ UnlockWrite(w)
  \/ EnableEod(w) \/ DisableSod(w) \/ SetSoclockBuf(w)
  \/ \E b \in 0 .. MaxBuf, y \in 0 .. BufSz : EnableSod(w, b, y)
  \/ GetNextWrite(w)
  \/ \E n \in 0 .. BufSz : MarkFilled(w, n)
  \/ ZeroNextWrite(w)
  \/ SodAck(w) \/ SodSet(w) \/ SodFull(w)
  \/ Drain(w) \/ TakeBlock(w)
  \/ EodAck(w) \/ EodSet(w) \/ Fill(w) \/ PostFull(w)

ReadStep(r) == ReaderWork(r) \/ UnlockRead(r)

(* A step is the writer's, a reader's, or none. *)
LEMMA StepSplit ==
  ASSUME MaxReset = 0, AckInv, [Next]_vars
  PROVE  \/ \E w \in Writers : CallOrStep(w)
         \/ \E r \in Readers : ReadStep(r)
         \/ UNCHANGED vars
<1>1. ASSUME NEW w \in Writers, WriterCall(w) \/ WriterStep(w)
      PROVE  CallOrStep(w)
  <2>1. ~Reset(w)
    BY DEF Reset, AckInv, LockInv, TypeOK, GhostType
  <2>2. ~ResetSodAck(w) /\ ~ResetEodAck(w) /\ ~ResetSync(w)
    BY DEF AckInv, NeverReset, Resetting, ResetSodAck, ResetEodAck, ResetSync,
           Goto
  <2> QED
    BY <1>1, <2>1, <2>2 DEF WriterCall, WriterStep, CallOrStep
<1> QED
  BY <1>1 DEF Next, ReadStep

(* What a reader's step leaves alone. *)
LEMMA ReaderFrame ==
  ASSUME AckInv, NEW r \in Readers, ReadStep(r)
  PROVE  /\ UNCHANGED <<wsync, xsync, count, WRITE, wproc, ghost>>
         /\ OnlyMoves(r)
         /\ \A p \in Procs : p # r => xfer'[p] = xfer[p]
         /\ \A q \in Readers :
              q # r => /\ iread'[q] = iread[q]
                       /\ start_byte'[q] = start_byte[q]
                       /\ bytes'[q] = bytes[q]
<1> USE DEF wsync, xsync, rsync, locks, wproc, rproc, ghost, Goto
<1>t. /\ pc \in [Procs -> WriterPcs \cup ReaderPcs]
      /\ state \in [Procs -> {"VIEWER"} \cup WriterStates \cup ReaderStates]
      /\ xfer \in [Procs -> XferSlots]
      /\ iread \in [Readers -> Slots \cup {-1}]
      /\ start_byte \in [Readers -> Nat]
      /\ bytes \in [Readers -> Int]
  BY DEF AckInv, LockInv, TypeOK, ProcType, ReaderType
<1>1. UNCHANGED <<wsync, xsync, count, WRITE, wproc, ghost>>
  BY DEF ReadStep, ReaderWork, LockRead, Connect, ConnectFailed, Unlocked,
         GetNextRead, StartXfer, GetBytes, MarkCleared, Advance, ResetRead,
         UnlockRead
<1>2. OnlyMoves(r)
  BY <1>t
     DEF OnlyMoves, ReadStep, ReaderWork, LockRead, Connect, ConnectFailed,
         Unlocked, GetNextRead, StartXfer, GetBytes, MarkCleared, Advance,
         ResetRead, UnlockRead
<1>3. \A p \in Procs : p # r => xfer'[p] = xfer[p]
  BY <1>t
     DEF ReadStep, ReaderWork, LockRead, Connect, ConnectFailed,
         Unlocked, GetNextRead, StartXfer, GetBytes, MarkCleared, Advance,
         ResetRead, UnlockRead
<1>4. \A q \in Readers :
        q # r => /\ iread'[q] = iread[q]
                 /\ start_byte'[q] = start_byte[q]
                 /\ bytes'[q] = bytes[q]
  BY <1>t
     DEF ReadStep, ReaderWork, LockRead, Connect, ConnectFailed,
         Unlocked, GetNextRead, StartXfer, GetBytes, MarkCleared, Advance,
         ResetRead, UnlockRead
<1> QED
  BY <1>1, <1>2, <1>3, <1>4

(* What a writer's step leaves alone. *)
LEMMA WriterFrame ==
  ASSUME AckInv, NEW w \in Writers, CallOrStep(w)
  PROVE  /\ UNCHANGED <<rsync, READ, READER_CONN, rproc, resets>>
         /\ OnlyMoves(w)
         /\ \A p \in Procs : p # w => xfer'[p] = xfer[p]
         /\ \A v \in Writers :
              v # w => op'[v] = op[v] /\ arg'[v] = arg[v] /\ ir'[v] = ir[v]
         /\ is_writer(w) \/ LockWrite(w)
<1> USE DEF wsync, xsync, rsync, locks, wproc, rproc, ghost, Goto
<1>t. /\ pc \in [Procs -> WriterPcs \cup ReaderPcs]
      /\ state \in [Procs -> {"VIEWER"} \cup WriterStates \cup ReaderStates]
      /\ xfer \in [Procs -> XferSlots]
      /\ op \in [Writers -> {"none", "enable_sod", "get_next_write",
                             "mark_filled", "reset"}]
      /\ arg \in [Writers -> [buf : Nat, nbytes : Nat]]
      /\ ir \in [Writers -> Slots]
  BY DEF AckInv, LockInv, TypeOK, ProcType, WriterType
<1>1. UNCHANGED <<rsync, READ, READER_CONN, rproc, resets>>
  BY DEF CallOrStep, LockWrite, UnlockWrite, EnableEod, DisableSod,
         SetSoclockBuf, EnableSod, CallEnableSod, GetNextWrite, MarkFilled,
         ZeroNextWrite, SodAck, SodSet, SodFull, Drain, TakeBlock, EodAck,
         EodSet, Fill, PostFull
<1>2. OnlyMoves(w)
  BY <1>t
     DEF OnlyMoves, CallOrStep, LockWrite, UnlockWrite, EnableEod, DisableSod,
         SetSoclockBuf, EnableSod, CallEnableSod, GetNextWrite, MarkFilled,
         ZeroNextWrite, SodAck, SodSet, SodFull, Drain, TakeBlock, EodAck,
         EodSet, Fill, PostFull
<1>3. \A p \in Procs : p # w => xfer'[p] = xfer[p]
  BY <1>t
     DEF CallOrStep, LockWrite, UnlockWrite, EnableEod, DisableSod,
         SetSoclockBuf, EnableSod, CallEnableSod, GetNextWrite, MarkFilled,
         ZeroNextWrite, SodAck, SodSet, SodFull, Drain, TakeBlock, EodAck,
         EodSet, Fill, PostFull
<1>4. \A v \in Writers :
        v # w => op'[v] = op[v] /\ arg'[v] = arg[v] /\ ir'[v] = ir[v]
  BY <1>t
     DEF CallOrStep, LockWrite, UnlockWrite, EnableEod, DisableSod,
         SetSoclockBuf, EnableSod, CallEnableSod, GetNextWrite, MarkFilled,
         ZeroNextWrite, SodAck, SodSet, SodFull, Drain, TakeBlock, EodAck,
         EodSet, Fill, PostFull, NextReader, FirstReader
<1>5. is_writer(w) \/ LockWrite(w)
  BY DEF CallOrStep, UnlockWrite, EnableEod, DisableSod,
         SetSoclockBuf, EnableSod, CallEnableSod, GetNextWrite, MarkFilled,
         ZeroNextWrite, SodAck, SodSet, SodFull, Drain, TakeBlock, EodAck,
         EodSet, Fill, PostFull, AckInv, LockInv, Control, SodAccepted,
         is_writer, WriterStates
<1> QED
  BY <1>1, <1>2, <1>3, <1>4, <1>5

(* The steps that write the table and its history. *)
LEMMA TableFrame ==
  ASSUME NEW w \in Writers, CallOrStep(w)
  PROVE  \/ SodSet(w) \/ EodSet(w)
         \/ UNCHANGED <<w_state, w_xfer, xsync, started, ended>>
BY DEF wsync, xsync, ghost, CallOrStep, LockWrite, UnlockWrite, EnableEod,
       DisableSod, SetSoclockBuf, EnableSod, CallEnableSod, GetNextWrite,
       MarkFilled, ZeroNextWrite, SodAck, SodFull, Drain, TakeBlock, EodAck,
       Fill, PostFull

(* AckInv is inductive (see AckInvariant). *)
LEMMA AckNext ==
  ASSUME MaxReset = 0, AckInv, [Next]_vars
  PROVE  AckInv'
BY TypeStep, LockStep, AckStep DEF AckInv, Acks, LockInv, Locking

(* A step is a step of Next. *)
LEMMA StepsAreNext ==
  /\ \A w \in Writers : CallOrStep(w) => [Next]_vars
  /\ \A r \in Readers : ReadStep(r) => [Next]_vars
BY DEF CallOrStep, ReadStep, Next, WriterCall, WriterStep

(* The history consists of numbers. *)
LEMMA EntryTypes ==
  ASSUME AckInv
  PROVE  /\ \A n \in 1 .. Len(started) :
              started[n] \in Extent /\ started[n].buf \in Nat
         /\ \A n \in 1 .. Len(ended) :
              ended[n] \in Extent /\ ended[n].buf \in Nat
<1>t. started \in Seq(Extent) /\ ended \in Seq(Extent)
  BY DEF AckInv, LockInv, TypeOK, GhostType
<1>1. ASSUME NEW e \in Extent
      PROVE  e.buf \in Nat
  BY DEF Extent
<1>2. \A n \in 1 .. Len(started) : started[n] \in Extent
  BY <1>t
<1>3. \A n \in 1 .. Len(ended) : ended[n] \in Extent
  BY <1>t
<1> QED
  BY <1>1, <1>2, <1>3

(* Transfer slots are numbers below XFERS. *)
LEMMA SlotOf == \A n \in Nat : n % XFERS \in XferSlots
BY ModSlot

-----------------------------------------------------------------------------
(***************************************************************************)
(* The parts of TableInv.                                                  *)
(***************************************************************************)

(* WriterOp is kept. *)
LEMMA WriterOpStep ==
  ASSUME AckInv, AckInv', WriterOp, NEW w \in Writers, CallOrStep(w)
  PROVE  WriterOp'
<1>t. /\ pc \in [Procs -> WriterPcs \cup ReaderPcs]
      /\ state \in [Procs -> {"VIEWER"} \cup WriterStates \cup ReaderStates]
      /\ xfer \in [Procs -> XferSlots]
      /\ op \in [Writers -> {"none", "enable_sod", "get_next_write",
                             "mark_filled", "reset"}]
      /\ ir \in [Writers -> Slots]
      /\ Writers \subseteq Procs
  BY DEF AckInv, LockInv, TypeOK, ProcType, WriterType, Procs
<1>1. \A v \in Writers : v # w => /\ pc'[v] = pc[v] /\ op'[v] = op[v]
                                 /\ ir'[v] = ir[v] /\ state'[v] = state[v]
                                 /\ xfer'[v] = xfer[v]
  BY <1>t, WriterFrame DEF OnlyMoves
<1>2. \A v \in Writers : v # w /\ is_writer(v)' => UNCHANGED w_xfer
  <2>1. is_writer(w) \/ UNCHANGED w_xfer
    BY WriterFrame DEF LockWrite, wsync
  <2>2. \A v \in Writers : v # w /\ is_writer(w) => ~is_writer(v)
    BY OnlyWriter DEF AckInv, is_writer, WriterStates
  <2> QED
    BY <1>1, <2>1, <2>2 DEF is_writer
<1>3. pc'[w] \in {"eod_ack", "eod_set"} => op'[w] = "mark_filled"
  BY <1>t DEF WriterOp, wproc, Goto, CallOrStep,
       LockWrite, UnlockWrite, EnableEod, DisableSod, SetSoclockBuf, EnableSod,
       CallEnableSod, GetNextWrite, MarkFilled, ZeroNextWrite, SodAck, SodSet,
       SodFull, Drain, TakeBlock, EodAck, EodSet, Fill, PostFull
<1>4. is_writer(w)' => xfer'[w] = w_xfer' % XFERS
  BY <1>t DEF WriterOp, wsync, is_writer, WriterStates, Goto, CallOrStep,
       LockWrite, UnlockWrite, EnableEod, DisableSod, SetSoclockBuf, EnableSod,
       CallEnableSod, GetNextWrite, MarkFilled, ZeroNextWrite, SodAck, SodSet,
       SodFull, Drain, TakeBlock, EodAck, EodSet, Fill, PostFull
<1> DEFINE Looping == {"sod_ack", "sod_full", "clear", "eod_ack", "full"}
<1>5. pc'[w] \notin Looping => ir'[w] = 0
  <2>1. CASE TakeBlock(w)
    <3>1. w_buf_next % NBufs \in Ring
      BY ModRange, SizesAssumption DEF AckInv, LockInv, TypeOK, SyncType, Ring
    <3>2. count[w_buf_next % NBufs] = 0
      BY <2>1, <3>1
         DEF TakeBlock, DrainPending, Draining, AckInv, LockInv, TypeOK, SemType
    <3> QED
      BY <2>1, <3>2 DEF TakeBlock, WriterOp, Goto, wproc
  <2>2. CASE SodAck(w) \/ SodFull(w) \/ EodAck(w) \/ PostFull(w) \/ Drain(w)
    BY <1>t, <2>2
       DEF SodAck, SodFull, EodAck, PostFull, Drain, Goto, NextReader
  <2>3. CASE SodSet(w) \/ EodSet(w) \/ Fill(w)
    BY <1>t, <2>3 DEF WriterOp, SodSet, EodSet, Fill, Goto, wproc
  <2>4. ASSUME \/ LockWrite(w) \/ UnlockWrite(w) \/ EnableEod(w)
               \/ DisableSod(w) \/ SetSoclockBuf(w) \/ ZeroNextWrite(w)
        PROVE  pc'[w] = pc[w] /\ ir'[w] = ir[w]
    BY <2>4 DEF LockWrite, UnlockWrite, EnableEod, DisableSod, SetSoclockBuf,
                ZeroNextWrite, wproc
  <2>5. ASSUME \/ \E b \in 0 .. MaxBuf, y \in 0 .. BufSz : EnableSod(w, b, y)
               \/ GetNextWrite(w)
        PROVE  ir'[w] = 0
    BY <1>t, <2>5
       DEF EnableSod, CallEnableSod, GetNextWrite, FirstReader
  <2>6. ASSUME NEW n \in 0 .. BufSz, MarkFilled(w, n)
        PROVE  ir'[w] = 0 \/ (pc'[w] = pc[w] /\ ir'[w] = ir[w])
    BY <1>t, <2>6 DEF MarkFilled, FirstReader
  <2> QED
    BY <2>1, <2>2, <2>3, <2>4, <2>5, <2>6 DEF CallOrStep, WriterOp
<1>6. pc'[w] = "clear" /\ count'[w_buf_next' % NBufs] = 0 => ir'[w] = 0
  <2>1. ASSUME pc[w] # "clear", pc'[w] = "clear"
        PROVE  ir'[w] = 0
    BY <1>t, <2>1
       DEF WriterOp, wproc, Goto, NextReader, FirstReader, CallOrStep,
           LockWrite, UnlockWrite, EnableEod, DisableSod, SetSoclockBuf,
           EnableSod, CallEnableSod, GetNextWrite, MarkFilled, ZeroNextWrite,
           SodAck, SodSet, SodFull, TakeBlock, EodAck, EodSet, Fill, PostFull,
           Drain
  <2>2. ASSUME pc[w] = "clear", pc'[w] = "clear"
        PROVE  Drain(w)
    BY <1>t, <2>2
       DEF Goto, CallOrStep, LockWrite, UnlockWrite,
           EnableEod, DisableSod, SetSoclockBuf, EnableSod, CallEnableSod,
           GetNextWrite, MarkFilled, ZeroNextWrite, SodAck, SodSet, SodFull,
           TakeBlock, EodAck, EodSet, Fill, PostFull, AckInv, LockInv, Control
  <2>3. ASSUME Drain(w), ~LastReader(w)
        PROVE  count'[w_buf_next' % NBufs] > 0
    BY <2>3 DEF Drain, Draining, wsync, AckInv, NeverReset
  <2>4. ASSUME Drain(w), LastReader(w)
        PROVE  ir'[w] = 0
    BY <1>t, <2>4 DEF Drain, NextReader
  <2> QED
    BY <2>1, <2>2, <2>3, <2>4
<1>7. \A v \in Writers : v # w /\ is_writer(w) => pc[v] = "idle"
  BY OnlyWriter DEF AckInv
<1>8. is_writer(w) \/ UNCHANGED <<count, w_buf_next>>
  BY WriterFrame DEF LockWrite, wsync
<1>9. \A v \in Writers :
        pc'[v] = "clear" /\ count'[w_buf_next' % NBufs] = 0 => ir'[v] = 0
  BY <1>1, <1>6, <1>7, <1>8 DEF WriterOp
<1>10. pc'[w] = "clear" => op'[w] \in {"get_next_write", "mark_filled"}
  <2>1. CASE SodFull(w)
    BY <1>t, <2>1 DEF SodFull, Goto, wproc
  <2>2. CASE ~SodFull(w)
    BY <1>t, <2>2
       DEF WriterOp, wproc, Goto, CallOrStep, LockWrite, UnlockWrite,
           EnableEod, DisableSod, SetSoclockBuf, EnableSod, CallEnableSod,
           GetNextWrite, MarkFilled, ZeroNextWrite, SodAck, SodSet, Drain,
           TakeBlock, EodAck, EodSet, Fill, PostFull
  <2> QED
    BY <2>1, <2>2
<1> QED
  BY <1>1, <1>2, <1>3, <1>4, <1>5, <1>9, <1>10 DEF WriterOp, is_writer

(* The writer has started and ended as many transfers as it counts. *)
LEMMA HistoryStep ==
  ASSUME AckInv, History, NEW w \in Writers, CallOrStep(w)
  PROVE  History'
<1>t. started \in Seq(Extent) /\ ended \in Seq(Extent) /\ w_xfer \in Nat
  BY DEF AckInv, LockInv, TypeOK, GhostType, SyncType
<1>1. CASE SodSet(w)
  <2>1. w_state = "DISCON" /\ w_state' = "WRITING"
    BY <1>1 DEF SodSet, Goto, AckInv, StatesAgree
  <2>2. Len(started') = Len(started) + 1
    BY <1>1, <1>t DEF SodSet
  <2> QED
    BY <1>1, <2>1, <2>2 DEF SodSet, History, Started
<1>2. CASE EodSet(w)
  <2>1. w_state = "WRITING" /\ w_state' = "DISCON"
    BY <1>2 DEF EodSet, Goto, AckInv, StatesAgree
  <2>2. Len(ended') = Len(ended) + 1
    BY <1>2, <1>t DEF EodSet
  <2> QED
    BY <1>2, <2>1, <2>2 DEF EodSet, History, Started
<1>3. CASE UNCHANGED <<w_state, w_xfer, xsync, started, ended>>
  BY <1>3 DEF History, Started
<1> QED
  BY <1>1, <1>2, <1>3, TableFrame

(* Only ipcbuf_mark_filled, once it fills the block, clears EndPending. *)
LEMMA EndPendingStep ==
  ASSUME AckInv, WriterOp, NEW w \in Writers, CallOrStep(w)
  PROVE  /\ EndPending(w) => EndPending(w)' \/ w_buf_curr' = w_buf_curr + 1
         /\ EodSet(w) => EndPending(w)'
         /\ w_buf_curr' \in {w_buf_curr, w_buf_curr + 1}
<1>t. /\ pc \in [Procs -> WriterPcs \cup ReaderPcs]
      /\ op \in [Writers -> {"none", "enable_sod", "get_next_write",
                             "mark_filled", "reset"}]
      /\ Writers \subseteq Procs
  BY DEF AckInv, LockInv, TypeOK, ProcType, WriterType, Procs
<1>1. EodSet(w) => EndPending(w)'
  BY <1>t DEF EodSet, Goto, wproc, WriterOp, EndPending
<1>2. w_buf_curr' \in {w_buf_curr, w_buf_curr + 1}
  BY DEF wsync, CallOrStep, LockWrite, UnlockWrite, EnableEod,
       DisableSod, SetSoclockBuf, EnableSod, CallEnableSod, GetNextWrite,
       MarkFilled, ZeroNextWrite, SodAck, SodSet, SodFull, Drain, TakeBlock,
       EodAck, EodSet, Fill, PostFull
<1>3. EndPending(w) => pc[w] # "idle" /\ is_writer(w)
  BY DEF EndPending, AckInv, LockInv, Control
<1>4. ASSUME EndPending(w)
      PROVE  Drain(w) \/ TakeBlock(w) \/ Fill(w)
  BY <1>3, <1>4
     DEF EndPending, Goto, CallOrStep, LockWrite, UnlockWrite, EnableEod,
         DisableSod, SetSoclockBuf, EnableSod, CallEnableSod, GetNextWrite,
         MarkFilled, ZeroNextWrite, SodAck, SodSet, SodFull, EodAck, EodSet,
         PostFull, is_writer, WriterStates
<1>5. Drain(w) /\ EndPending(w) => EndPending(w)'
  BY <1>t DEF Drain, EndPending, Goto
<1>6. TakeBlock(w) /\ EndPending(w) => EndPending(w)'
  BY <1>t DEF TakeBlock, EndPending, Goto
<1>7. Fill(w) => w_buf_curr' = w_buf_curr + 1
  BY DEF Fill
<1> QED
  BY <1>1, <1>2, <1>4, <1>5, <1>6, <1>7

(* The end of a transfer is raised no later than its last block is filled. *)
LEMMA EndsFilledStep ==
  ASSUME AckInv, WriterOp, EndsFilled, NEW w \in Writers, CallOrStep(w)
  PROVE  EndsFilled'
<1>t. /\ w_buf_curr \in Nat /\ ended \in Seq(Extent) /\ arg[w].nbytes \in Nat
  BY DEF AckInv, LockInv, TypeOK, GhostType, SyncType, WriterType
<1>1. \A n \in 1 .. Len(ended) : ended[n].buf \in Nat
  BY EntryTypes
<1>2. ASSUME NEW n \in 1 .. Len(ended)
      PROVE  \/ ended[n].buf < w_buf_curr'
             \/ ended[n].buf = w_buf_curr' /\ \E v \in Writers : EndPending(v)'
  <2>1. CASE ended[n].buf < w_buf_curr
    BY <2>1, <1>1, <1>t, EndPendingStep
  <2>2. ASSUME ended[n].buf = w_buf_curr, NEW v \in Writers, EndPending(v),
               v # w
        PROVE  EndPending(v)' /\ w_buf_curr' = w_buf_curr
    <3>1. EndPending(v)'
      BY <2>2, WriterFrame DEF OnlyMoves, EndPending, Procs
    <3>2. is_writer(v)
      BY <2>2 DEF EndPending, AckInv, LockInv, Control
    <3>3. ~is_writer(w)
      BY <2>2, <3>2 DEF AckInv, LockInv, Exclusive
    <3> QED
      BY <3>1, <3>3, WriterFrame DEF LockWrite, wsync
  <2>3. CASE ended[n].buf = w_buf_curr /\ EndPending(w)
    BY <2>3, <1>t, EndPendingStep
  <2> QED
    BY <2>1, <2>2, <2>3 DEF EndsFilled
<1>3. CASE EodSet(w)
  <2>1. /\ ended' = Append(ended, [buf |-> w_buf_curr, byte |-> arg[w].nbytes])
        /\ w_buf_curr' = w_buf_curr /\ EndPending(w)'
    BY <1>3, EndPendingStep DEF EodSet
  <2>2. \A n \in 1 .. Len(ended') :
          \/ n \in 1 .. Len(ended) /\ ended'[n] = ended[n]
          \/ ended'[n].buf = w_buf_curr
    BY <2>1, <1>t
  <2> QED
    BY <1>2, <2>1, <2>2 DEF EndsFilled
<1>4. CASE UNCHANGED ended
  BY <1>2, <1>4 DEF EndsFilled
<1>5. SodSet(w) => UNCHANGED ended
  BY DEF SodSet
<1> QED
  BY <1>3, <1>4, <1>5, TableFrame

(* What XferSlotValid says of one slot. *)
StartValid(s) ==
  \A n \in ReadStarted(s) + 1 .. Len(started) :
    /\ s_buf[(n - 1) % XFERS] = started[n].buf
    /\ s_byte[(n - 1) % XFERS] = started[n].byte

EndValid(s) ==
  \A n \in r_xfers[s] + 1 .. Len(ended) :
    /\ eod[(n - 1) % XFERS]
    /\ e_buf[(n - 1) % XFERS] = ended[n].buf
    /\ e_byte[(n - 1) % XFERS] = ended[n].byte

LEMMA SlotsValid ==
  NeverReset =>
    (XferSlotValid <=> \A s \in Slots : StartValid(s) /\ EndValid(s))
BY DEF NeverReset, Resetting, XferSlotValid, StartValid, EndValid

(* A transfer to be described at entry n has an entry of its own. *)
LEMMA OwnEntry ==
  ASSUME NEW n \in Nat, NEW m \in Nat, m < n, n < m + XFERS
  PROVE  m % XFERS # n % XFERS
<1> SUFFICES ASSUME m % XFERS = n % XFERS
             PROVE  FALSE
  OBVIOUS
<1>1. XFERS \in Nat \ {0} /\ m \in Int /\ n \in Int /\ m <= n
  BY SizesAssumption
<1>2. m = n
  BY <1>1, ModDistinct
<1> QED
  BY <1>2

(* The start of a transfer is written over no start a reader still needs. *)
LEMMA StartValidStep ==
  ASSUME AckInv, History, NEW s \in Slots, StartValid(s),
         NEW w \in Writers, SodSet(w)
  PROVE  StartValid(s)'
<1>t. /\ started \in Seq(Extent) /\ w_xfer \in Nat
      /\ s_buf \in [XferSlots -> Nat] /\ s_byte \in [XferSlots -> Nat]
      /\ r_xfers[s] \in Nat
  BY DEF AckInv, LockInv, TypeOK, GhostType, SyncType, XferType, ReadType
<1>1. /\ w_state = "DISCON" /\ Len(started) = w_xfer /\ pc[w] = "sod_set"
  BY DEF SodSet, Goto, AckInv, StatesAgree, History, Started
<1>2. SODACK[s] + SodTaken(s) + w_xfer - ReadStarted(s) = XFERS
  BY <1>1, Balances DEF AckInv, SodBalance, Started
<1>3. SodTaken(s) = 1 /\ SODACK[s] \in Nat /\ ReadStarted(s) \in Nat
  BY <1>1, AckTypes DEF SodTaken, AckInv
<1>4. w_xfer + 1 <= ReadStarted(s) + XFERS
  BY <1>2, <1>3, <1>t, SizesAssumption
<1>5. w_xfer % XFERS \in XferSlots
  BY <1>t, SlotOf
<1>6. /\ started' = Append(started, [buf |-> arg[w].buf, byte |-> arg[w].nbytes])
      /\ s_buf' = [s_buf EXCEPT ![w_xfer % XFERS] = arg[w].buf]
      /\ s_byte' = [s_byte EXCEPT ![w_xfer % XFERS] = arg[w].nbytes]
      /\ UNCHANGED rsync
  BY DEF SodSet
<1>7. ReadStarted(s)' = ReadStarted(s)
  BY <1>6 DEF ReadStarted, rsync
<1>8. Len(started') = w_xfer + 1
  BY <1>t, <1>1, <1>6
<1> SUFFICES ASSUME NEW n \in ReadStarted(s) + 1 .. w_xfer + 1,
                    NEW k, k = (n - 1) % XFERS
             PROVE  /\ s_buf'[k] = started'[n].buf
                    /\ s_byte'[k] = started'[n].byte
  BY <1>7, <1>8 DEF StartValid
<1>9. CASE n = w_xfer + 1
  <2>1. started'[n] = [buf |-> arg[w].buf, byte |-> arg[w].nbytes]
    BY <1>t, <1>1, <1>6, <1>9
  <2>2. k = w_xfer % XFERS
    BY <1>9, <1>t
  <2>3. s_buf'[k] = arg[w].buf /\ s_byte'[k] = arg[w].nbytes
    BY <1>t, <1>5, <1>6, <2>2
  <2> QED
    BY <2>1, <2>3
<1>10. CASE n # w_xfer + 1
  <2>1. /\ n - 1 \in Nat /\ n - 1 < w_xfer /\ w_xfer < n - 1 + XFERS
    BY <1>3, <1>4, <1>10, <1>t, SizesAssumption
  <2>2. k # w_xfer % XFERS /\ k \in XferSlots
    BY <2>1, <1>t, OwnEntry, SlotOf
  <2>a. n \in 1 .. w_xfer /\ n \in ReadStarted(s) + 1 .. w_xfer
    BY <1>3, <1>10, <1>t
  <2>3. started'[n] = started[n] /\ n \in ReadStarted(s) + 1 .. Len(started)
    BY <1>t, <1>1, <1>6, <2>a
  <2>4. /\ s_buf'[k] = s_buf[k]
        /\ s_byte'[k] = s_byte[k]
    BY <1>t, <1>6, <2>2
  <2>5. /\ s_buf[k] = started[n].buf
        /\ s_byte[k] = started[n].byte
    BY <2>3 DEF StartValid
  <2> QED
    BY <2>3, <2>4, <2>5
<1> QED
  BY <1>9, <1>10

(* The end of a transfer is written over no end a reader still needs. *)
LEMMA EndValidStep ==
  ASSUME AckInv, WriterOp, History, NEW s \in Slots, EndValid(s),
         NEW w \in Writers, EodSet(w)
  PROVE  EndValid(s)'
<1>t. /\ ended \in Seq(Extent) /\ w_xfer \in Nat
      /\ eod \in [XferSlots -> BOOLEAN]
      /\ e_buf \in [XferSlots -> Nat] /\ e_byte \in [XferSlots -> Nat]
      /\ r_xfers[s] \in Nat
  BY DEF AckInv, LockInv, TypeOK, GhostType, SyncType, XferType, ReadType
<1>1. Len(ended) = w_xfer /\ pc[w] = "eod_set" /\ is_writer(w)
  BY DEF EodSet, Goto, History, AckInv, LockInv, Control
<1>2. xfer[w] = w_xfer % XFERS
  BY <1>1 DEF WriterOp
<1>3. EODACK[s] + EodTaken(s) + w_xfer - r_xfers[s] = XFERS
  BY <1>1, Balances DEF AckInv, EodBalance
<1>4. EodTaken(s) = 1 /\ EODACK[s] \in Nat
  BY <1>1, AckTypes DEF EodTaken, AckInv
<1>5. w_xfer + 1 <= r_xfers[s] + XFERS
  <2>1. w_xfer \in Nat /\ r_xfers[s] \in Nat /\ XFERS \in Nat
    BY <1>t, SizesAssumption
  <2> QED
    BY <1>3, <1>4, <2>1
<1>6. w_xfer % XFERS \in XferSlots
  BY <1>t, SlotOf
<1>7. /\ ended' = Append(ended, [buf |-> w_buf_curr, byte |-> arg[w].nbytes])
      /\ e_buf' = [e_buf EXCEPT ![w_xfer % XFERS] = w_buf_curr]
      /\ e_byte' = [e_byte EXCEPT ![w_xfer % XFERS] = arg[w].nbytes]
      /\ eod' = [eod EXCEPT ![w_xfer % XFERS] = TRUE]
      /\ UNCHANGED r_xfers
  BY <1>2 DEF EodSet, rsync
<1>8. Len(ended') = w_xfer + 1
  BY <1>t, <1>1, <1>7
<1> SUFFICES ASSUME NEW n \in r_xfers[s] + 1 .. w_xfer + 1,
                    NEW k, k = (n - 1) % XFERS
             PROVE  /\ eod'[k]
                    /\ e_buf'[k] = ended'[n].buf
                    /\ e_byte'[k] = ended'[n].byte
  BY <1>7, <1>8 DEF EndValid
<1>9. CASE n = w_xfer + 1
  <2>1. ended'[n] = [buf |-> w_buf_curr, byte |-> arg[w].nbytes]
    BY <1>t, <1>1, <1>7, <1>9
  <2>2. k = w_xfer % XFERS
    BY <1>9, <1>t
  <2>3. eod'[k] /\ e_buf'[k] = w_buf_curr /\ e_byte'[k] = arg[w].nbytes
    BY <1>t, <1>6, <1>7, <2>2
  <2> QED
    BY <2>1, <2>3
<1>10. CASE n # w_xfer + 1
  <2>1. /\ n - 1 \in Nat /\ n - 1 < w_xfer /\ w_xfer < n - 1 + XFERS
    BY <1>5, <1>10, <1>t, SizesAssumption
  <2>2. k # w_xfer % XFERS /\ k \in XferSlots
    BY <2>1, <1>t, OwnEntry, SlotOf
  <2>3. ended'[n] = ended[n] /\ n \in r_xfers[s] + 1 .. Len(ended)
    BY <1>t, <1>1, <1>7, <1>10
  <2>4. /\ eod'[k] = eod[k]
        /\ e_buf'[k] = e_buf[k]
        /\ e_byte'[k] = e_byte[k]
    BY <1>t, <1>7, <2>2
  <2>5. /\ eod[k]
        /\ e_buf[k] = ended[n].buf
        /\ e_byte[k] = ended[n].byte
    BY <2>3 DEF EndValid
  <2> QED
    BY <2>3, <2>4, <2>5
<1> QED
  BY <1>9, <1>10

(* The entries of the transfers a reader has still to start or to end stay    *)
(* valid when the writer takes a step.                                       *)
LEMMA XferSlotStep ==
  ASSUME AckInv, AckInv', WriterOp, History, EndsFilled, XferSlotValid,
         NEW w \in Writers, CallOrStep(w)
  PROVE  XferSlotValid'
<1>1. \A s \in Slots : StartValid(s) /\ EndValid(s)
  BY SlotsValid DEF AckInv
<1>2. UNCHANGED rsync
  BY WriterFrame DEF rsync
<1> SUFFICES ASSUME NEW s \in Slots
             PROVE  StartValid(s)' /\ EndValid(s)'
  BY DEF XferSlotValid, StartValid, EndValid
<1>3. CASE SodSet(w)
  <2>1. StartValid(s)'
    BY <1>1, <1>3, StartValidStep
  <2>2. UNCHANGED <<ended, e_buf, e_byte>>
    BY <1>3 DEF SodSet
  <2>3. CASE w_buf_curr = 0
    <3>1. is_writer(w) /\ pc[w] = "sod_set"
      BY <1>3 DEF SodSet, Goto, AckInv, LockInv, Control
    <3>2. \A v \in Writers : ~EndPending(v)
      BY <3>1, OnlyWriter DEF AckInv, EndPending
    <3>3. 1 .. Len(ended) = {}
      BY <2>3, <3>2, EntryTypes DEF EndsFilled
    <3>4. r_xfers[s] + 1 .. Len(ended) = {}
      <4>1. r_xfers[s] \in Nat /\ Len(ended) \in Nat
        BY DEF AckInv, LockInv, TypeOK, ReadType, GhostType
      <4> QED
        BY <3>3, <4>1
    <3> QED
      BY <2>1, <2>2, <3>4, <1>2 DEF EndValid, rsync
  <2>4. CASE w_buf_curr # 0
    <3>1. UNCHANGED eod
      BY <1>3, <2>4 DEF SodSet, SodFlag
    <3> QED
      BY <1>1, <1>2, <2>1, <2>2, <3>1 DEF EndValid, rsync
  <2> QED
    BY <2>3, <2>4
<1>4. CASE EodSet(w)
  <2>1. EndValid(s)'
    BY <1>1, <1>4, EndValidStep
  <2>2. UNCHANGED <<started, s_buf, s_byte>>
    BY <1>4 DEF EodSet
  <2> QED
    BY <1>1, <1>2, <2>1, <2>2 DEF StartValid, ReadStarted, rsync
<1>5. CASE UNCHANGED <<w_state, w_xfer, xsync, started, ended>>
  BY <1>1, <1>2, <1>5
     DEF StartValid, EndValid, ReadStarted, rsync, xsync
<1> QED
  BY <1>3, <1>4, <1>5, TableFrame

(* A reader only takes transfers off the list of those it has to start or    *)
(* end.                                                                      *)
LEMMA ReaderKeepsTable ==
  ASSUME AckInv, AckInv', TableInv, NEW r \in Readers, ReadStep(r)
  PROVE  TableInv'
<1>1. UNCHANGED <<wsync, xsync, count, wproc, started, ended>>
  BY ReaderFrame DEF ghost
<1>2. \A v \in Writers : pc'[v] = pc[v] /\ state'[v] = state[v] /\ xfer'[v] = xfer[v]
  BY ReaderFrame, ProcessAssumption DEF OnlyMoves, Procs
<1>3. WriterOp'
  BY <1>1, <1>2 DEF TableInv, WriterOp, wproc, wsync, is_writer
<1>4. History' /\ EndsFilled'
  BY <1>1, <1>2
     DEF TableInv, History, Started, EndsFilled, EndPending, wsync, wproc
<1>t. /\ r_xfers \in [Slots -> Nat] /\ r_states \in [Slots -> {"DISCON", "READING"}]
      /\ started \in Seq(Extent) /\ ended \in Seq(Extent)
  BY DEF AckInv, LockInv, TypeOK, ReadType, GhostType
<1>u. /\ r_xfers' \in [Slots -> Nat]
      /\ r_states' \in [Slots -> {"DISCON", "READING"}]
  BY DEF AckInv, LockInv, TypeOK, ReadType
<1>5. ASSUME NEW s \in Slots
      PROVE  r_xfers'[s] >= r_xfers[s] /\ ReadStarted(s)' >= ReadStarted(s)
  <2>1. CASE StartXfer(r)
    <3>1. r_states[iread[r]] = "DISCON" /\ iread[r] \in Slots
      BY <1>t, <2>1 DEF StartXfer, Goto, AckInv, StatesAgree, LockInv, Control,
                 Connected, InsidePcs
    <3> QED
      BY <1>t, <2>1, <3>1 DEF StartXfer, ReadStarted
  <2>2. CASE Advance(r)
    <3>1. r_states[iread[r]] = "READING" /\ iread[r] \in Slots
      BY <1>t, <2>2 DEF Advance, Goto, AckInv, StatesAgree, LockInv, Control,
                 Connected, InsidePcs
    <3> QED
      BY <1>t, <2>2, <3>1 DEF Advance, ReadStarted
  <2>3. CASE UNCHANGED <<r_xfers, r_states>>
    BY <1>t, <2>3 DEF ReadStarted
  <2>4. StartXfer(r) \/ Advance(r) \/ UNCHANGED <<r_xfers, r_states>>
    BY DEF rsync, ReadStep, ReaderWork, LockRead, Connect, ConnectFailed,
           Unlocked, GetNextRead, GetBytes, MarkCleared, ResetRead, UnlockRead
  <2> QED
    BY <2>1, <2>2, <2>3, <2>4
<1>6. ASSUME NEW s \in Slots
      PROVE  StartValid(s)' /\ EndValid(s)'
  <2>1. StartValid(s) /\ EndValid(s)
    BY SlotsValid DEF TableInv, AckInv
  <2>2. /\ r_xfers[s] \in Nat /\ ReadStarted(s) \in Nat
        /\ r_xfers'[s] \in Nat /\ ReadStarted(s)' \in Nat
        /\ Len(started) \in Nat /\ Len(ended) \in Nat
    BY <1>t, <1>u DEF ReadStarted
  <2>3. /\ ReadStarted(s)' + 1 .. Len(started)
             \subseteq ReadStarted(s) + 1 .. Len(started)
        /\ r_xfers'[s] + 1 .. Len(ended) \subseteq r_xfers[s] + 1 .. Len(ended)
    BY <1>5, <2>2
  <2> QED
    BY <1>1, <2>1, <2>3 DEF StartValid, EndValid, xsync
<1>7. XferSlotValid'
  BY <1>6 DEF XferSlotValid, StartValid, EndValid
<1> QED
  BY <1>3, <1>4, <1>7 DEF TableInv

-----------------------------------------------------------------------------
(***************************************************************************)
(* TableInv is inductive.                                                  *)
(***************************************************************************)

(* Every step keeps the table. *)
LEMMA TableStep ==
  ASSUME MaxReset = 0, TableInv, [Next]_vars
  PROVE  TableInv'
<1>1. AckInv /\ AckInv'
  BY AckNext DEF TableInv
<1>2. ASSUME NEW w \in Writers, CallOrStep(w)
      PROVE  TableInv'
  <2>1. WriterOp'
    BY <1>1, <1>2, WriterOpStep DEF TableInv
  <2>2. History'
    BY <1>1, <1>2, HistoryStep DEF TableInv
  <2>3. EndsFilled'
    BY <1>1, <1>2, EndsFilledStep DEF TableInv
  <2>4. XferSlotValid'
    BY <1>1, <1>2, XferSlotStep DEF TableInv
  <2> QED
    BY <1>1, <2>1, <2>2, <2>3, <2>4 DEF TableInv
<1>3. ASSUME NEW r \in Readers, ReadStep(r)
      PROVE  TableInv'
  BY <1>1, <1>3, ReaderKeepsTable
<1>4. CASE UNCHANGED vars
  <2>1. WriterOp' /\ History' /\ EndsFilled'
    BY <1>4 DEF TableInv, WriterOp, History, Started, EndsFilled, EndPending,
         is_writer, vars, wsync, wproc, ghost
  <2>2. XferSlotValid'
    BY <1>4 DEF TableInv, XferSlotValid, Resetting, ReadStarted,
         vars, wsync, xsync, rsync, ghost
  <2> QED
    BY <1>1, <2>1, <2>2 DEF TableInv
<1> QED
  BY <1>1, <1>2, <1>3, <1>4, StepSplit

(* The table is empty to begin with. *)
LEMMA TableInit == Init => TableInv
<1> SUFFICES ASSUME Init
             PROVE  TableInv
  OBVIOUS
<1>1. AckInv
  BY AckInit
<1>2. \A w \in Writers : pc[w] = "idle" /\ state[w] = "VIEWER" /\ ir[w] = 0
  BY DEF Init, Procs
<1>3. WriterOp
  BY <1>2 DEF WriterOp, is_writer, WriterStates
<1>4. Len(started) = 0 /\ Len(ended) = 0 /\ w_xfer = 0 /\ w_state = "DISCON"
  BY DEF Init
<1>5. History /\ EndsFilled
  BY <1>4 DEF History, Started, EndsFilled
<1>6. \A s \in Slots : r_xfers[s] = 0 /\ ReadStarted(s) = 0
  BY DEF Init, ReadStarted
<1>7. XferSlotValid
  BY <1>4, <1>6 DEF XferSlotValid
<1> QED
  BY <1>1, <1>3, <1>5, <1>7 DEF TableInv

(* TableInv holds in every reachable state when ipcbuf_reset is not called. *)
THEOREM TableInvariant ==
  ASSUME MaxReset = 0
  PROVE  Spec => []TableInv
<1>1. TableInv /\ [Next]_vars => TableInv'
  BY TableStep
<1> QED
  BY TableInit, <1>1, PTL DEF Spec

(* Whatever the number of readers and of entries, and however far the readers *)
(* lag behind, ipcbuf_enable_sod and ipcbuf_mark_filled never write over an   *)
(* entry of s_buf, s_byte, eod, e_buf or e_byte that ipcbuf_get_next_read or  *)
(* ipcbuf_mark_cleared has still to read.                                    *)
THEOREM TableDescribesTransfers ==
  ASSUME MaxReset = 0
  PROVE  Spec => []XferSlotValid
<1>1. TableInv => XferSlotValid
  BY DEF TableInv
<1> QED
  BY TableInvariant, <1>1, PTL

-----------------------------------------------------------------------------
(***************************************************************************)
(* The transfers follow each other without overlapping, and the writer never *)
(* has more blocks open than the ring can give: LayoutInv is inductive.       *)
(***************************************************************************)

(* The types of what the writer reads and writes. *)
LEMMA WriterTypes ==
  ASSUME AckInv
  PROVE  /\ pc \in [Procs -> WriterPcs \cup ReaderPcs]
         /\ state \in [Procs -> {"VIEWER"} \cup WriterStates \cup ReaderStates]
         /\ op \in [Writers -> {"none", "enable_sod", "get_next_write",
                                "mark_filled", "reset"}]
         /\ arg \in [Writers -> [buf : Nat, nbytes : Nat]]
         /\ ir \in [Writers -> Slots]
         /\ Writers \subseteq Procs
         /\ w_buf_curr \in Nat /\ w_buf_next \in Nat /\ w_xfer \in Nat
         /\ w_state \in {"DISCON", "WRITING"}
         /\ started \in Seq(Extent) /\ ended \in Seq(Extent)
         /\ Len(started) \in Nat /\ Len(ended) \in Nat
         /\ NBufs \in Nat \ {0} /\ XFERS \in Nat \ {0} /\ MaxOpen \in Nat
         /\ Ring = 0 .. NBufs - 1
         /\ \A w \in Writers : arg[w].buf \in Nat /\ arg[w].nbytes \in Nat
<1>1. \A a \in [buf : Nat, nbytes : Nat] : a.buf \in Nat /\ a.nbytes \in Nat
  OBVIOUS
<1>2. arg \in [Writers -> [buf : Nat, nbytes : Nat]]
  BY DEF AckInv, LockInv, TypeOK, WriterType
<1>3. \A w \in Writers : arg[w].buf \in Nat /\ arg[w].nbytes \in Nat
  BY <1>1, <1>2
<1>4. started \in Seq(Extent) /\ ended \in Seq(Extent)
  BY DEF AckInv, LockInv, TypeOK, GhostType
<1>5. Len(started) \in Nat /\ Len(ended) \in Nat
  BY <1>4
<1> QED
  BY <1>2, <1>3, <1>4, <1>5, SizesAssumption, BoundsAssumption
     DEF AckInv, LockInv, TypeOK, ProcType, WriterType, SyncType, Procs, Ring

(* A writer that takes any step but ipcbuf_lock_write's is the writer. *)
LEMMA WriterSteps ==
  ASSUME AckInv, NEW w \in Writers, CallOrStep(w), ~LockWrite(w)
  PROVE  /\ is_writer(w)
         /\ \A v \in Writers : v # w => pc[v] = "idle" /\ ~is_writer(v)
<1>1. is_writer(w)
  BY WriterFrame
<1> QED
  BY <1>1, OnlyWriter DEF AckInv, is_writer, WriterStates

(* Those that count. *)
LEMMA Numbers ==
  ASSUME AckInv
  PROVE  /\ w_buf_curr \in Nat /\ w_buf_next \in Nat /\ w_xfer \in Nat
         /\ Len(started) \in Nat /\ Len(ended) \in Nat
BY WriterTypes

(* Between two transfers as many were ended as started. *)
LEMMA HistoryLengths ==
  ASSUME AckInv, History
  PROVE  /\ w_state = "DISCON" => Len(started) = Len(ended)
         /\ w_state = "WRITING" => Len(started) = Len(ended) + 1
         /\ Len(ended) <= Len(started)
BY WriterTypes DEF History, Started

(* Transfers end in the order in which they started. *)
LEMMA EndsIncrease ==
  ASSUME AckInv, History, Ordered, NEW n \in 1 .. Len(ended),
         NEW m \in 1 .. n
  PROVE  ended[m].buf <= ended[n].buf
<1>1. n \in 1 .. Len(started) /\ n \in Nat /\ m \in Nat
  BY HistoryLengths, WriterTypes
<1>2. ended[m].buf \in Nat /\ ended[n].buf \in Nat /\ started[n].buf \in Nat
  BY <1>1, EntryTypes, WriterTypes
<1>3. CASE m = n
  BY <1>2, <1>3
<1>4. CASE m # n
  <2>1. m \in 1 .. n - 1
    BY <1>1, <1>4
  <2>2. ended[m].buf < started[n].buf
    BY <1>1, <2>1 DEF Ordered
  <2>3. started[n].buf <= ended[n].buf
    BY DEF Ordered
  <2> QED
    BY <1>2, <2>2, <2>3
<1> QED
  BY <1>3, <1>4

(* While no end of data waits for its block, every transfer has ended in a    *)
(* block that is filled.                                                     *)
LEMMA EndsBehind ==
  ASSUME AckInv, EndsFilled, NEW w \in Writers, is_writer(w), ~EndPending(w)
  PROVE  \A n \in 1 .. Len(ended) : ended[n].buf < w_buf_curr
<1>1. \A v \in Writers : ~EndPending(v)
  BY OnlyWriter DEF AckInv, EndPending
<1> QED
  BY <1>1 DEF EndsFilled

-----------------------------------------------------------------------------
(***************************************************************************)
(* The parts of LayoutInv.                                                 *)
(***************************************************************************)

(* A transfer is started beyond the end of the last one, and ended no earlier *)
(* than it started.                                                         *)
LEMMA OrderedStep ==
  ASSUME LayoutInv, NEW w \in Writers, CallOrStep(w)
  PROVE  Ordered'
<1> USE DEF LayoutInv, TableInv
<1>1. CASE SodSet(w)
  <2>1. pc[w] = "sod_set" /\ is_writer(w) /\ w_state = "DISCON"
    BY <1>1, WriterSteps DEF SodSet, Goto, LockWrite, AckInv, StatesAgree
  <2>2. PlaceOf(w)
    BY <2>1 DEF WriterPlace
  <2>3. /\ started' = Append(started, [buf |-> arg[w].buf, byte |-> arg[w].nbytes])
        /\ UNCHANGED <<ended, w_buf_curr>>
    BY <1>1 DEF SodSet
  <2>4. Len(started) = Len(ended)
    BY <2>1, HistoryLengths
  <2>5. \A n \in 1 .. Len(started') :
          \/ n \in 1 .. Len(started) /\ started'[n] = started[n]
          \/ n = Len(started) + 1 /\ started'[n].buf = arg[w].buf
    BY <2>3, WriterTypes
  <2>6. \A n \in 1 .. Len(started) : started'[n] = started[n]
    BY <2>3, WriterTypes
  <2>7. ASSUME NEW n \in 1 .. Len(started')
        PROVE  /\ started'[n].buf <= w_buf_curr
               /\ \A m \in 1 .. n - 1 : ended[m].buf < started'[n].buf
    <3>1. CASE n \in 1 .. Len(started) /\ started'[n] = started[n]
      BY <3>1 DEF Ordered
    <3>2. CASE n = Len(started) + 1 /\ started'[n].buf = arg[w].buf
      <4>1. 1 .. n - 1 = 1 .. Len(ended)
        BY <3>2, <2>4, WriterTypes
      <4> QED
        BY <2>1, <2>2, <3>2, <4>1 DEF PlaceOf
    <3> QED
      BY <2>5, <3>1, <3>2
  <2>8. \A n \in 1 .. Len(ended) : started'[n].buf <= ended[n].buf
    BY <2>4, <2>6 DEF Ordered
  <2> QED
    BY <2>3, <2>7, <2>8 DEF Ordered
<1>2. CASE EodSet(w)
  <2>1. w_state = "WRITING"
    BY <1>2 DEF EodSet, Goto, AckInv, StatesAgree
  <2>2. /\ ended' = Append(ended, [buf |-> w_buf_curr, byte |-> arg[w].nbytes])
        /\ UNCHANGED <<started, w_buf_curr>>
    BY <1>2 DEF EodSet
  <2>3. Len(started) = Len(ended) + 1
    BY <2>1, HistoryLengths
  <2>4. \A n \in 1 .. Len(ended') :
          \/ n \in 1 .. Len(ended) /\ ended'[n] = ended[n]
          \/ n \in 1 .. Len(started) /\ ended'[n].buf = w_buf_curr
    BY <2>2, <2>3, WriterTypes
  <2>5. \A n \in 1 .. Len(started) : \A m \in 1 .. n - 1 : ended'[m] = ended[m]
    BY <2>2, <2>3, WriterTypes
  <2>6. \A n \in 1 .. Len(ended') : started[n].buf <= ended'[n].buf
    BY <2>4 DEF Ordered
  <2> QED
    BY <2>2, <2>5, <2>6 DEF Ordered
<1>3. CASE UNCHANGED <<w_state, w_xfer, xsync, started, ended>>
  <2>1. w_buf_curr' \in {w_buf_curr, w_buf_curr + 1}
    BY EndPendingStep
  <2>2. \A n \in 1 .. Len(started) : started[n].buf <= w_buf_curr
                                    /\ started[n].buf \in Nat
    BY EntryTypes DEF Ordered
  <2>3. w_buf_curr \in Nat
    BY Numbers
  <2>4. \A n \in 1 .. Len(started) : started[n].buf <= w_buf_curr'
    BY <2>1, <2>2, <2>3
  <2> QED
    BY <1>3, <2>4 DEF Ordered
<1> QED
  BY <1>1, <1>2, <1>3, TableFrame

(* A transfer slot that is used again shows no end, or an earlier one. *)
LEMMA OpenEntryStep ==
  ASSUME LayoutInv, NEW w \in Writers, CallOrStep(w)
  PROVE  OpenEntry'
<1> USE DEF LayoutInv, TableInv
<1>t. /\ eod \in [XferSlots -> BOOLEAN] /\ e_buf \in [XferSlots -> Nat]
      /\ w_xfer % XFERS \in XferSlots
  BY WriterTypes, SlotOf DEF AckInv, LockInv, TypeOK, XferType
<1>1. CASE SodSet(w)
  <2>1. pc[w] = "sod_set" /\ is_writer(w)
    BY <1>1, WriterSteps DEF SodSet, Goto, LockWrite
  <2>2. PlaceOf(w)
    BY <2>1 DEF WriterPlace
  <2>3. /\ started' = Append(started, [buf |-> arg[w].buf, byte |-> arg[w].nbytes])
        /\ eod' = SodFlag(w_xfer % XFERS)
        /\ UNCHANGED <<ended, w_xfer, e_buf>>
    BY <1>1 DEF SodSet
  <2>4. started'[Len(started')].buf = arg[w].buf
    BY <2>3, WriterTypes
  <2>5. ASSUME eod'[w_xfer % XFERS]
        PROVE  e_buf[w_xfer % XFERS] < arg[w].buf
    <3>1. w_buf_curr # 0
      BY <1>t, <2>3, <2>5 DEF SodFlag
    <3>2. arg[w].buf > 0 /\ \A n \in 1 .. Len(ended) : ended[n].buf < arg[w].buf
      BY <2>1, <2>2, <3>1 DEF PlaceOf
    <3> QED
      BY <1>t, <3>2, WriterTypes DEF OpenEntry
  <2> QED
    BY <2>3, <2>4, <2>5 DEF OpenEntry
<1>2. CASE EodSet(w)
  <2>1. xfer[w] \in XferSlots
    BY DEF AckInv, LockInv, TypeOK, ProcType, Procs
  <2>2. /\ ended' = Append(ended, [buf |-> w_buf_curr, byte |-> arg[w].nbytes])
        /\ e_buf' = [e_buf EXCEPT ![xfer[w]] = w_buf_curr]
        /\ w_state' = "DISCON"
    BY <1>2 DEF EodSet
  <2>3. /\ Len(ended) + 1 \in 1 .. Len(ended')
        /\ ended'[Len(ended) + 1].buf = w_buf_curr
        /\ \A n \in 1 .. Len(ended) : n \in 1 .. Len(ended') /\ ended'[n] = ended[n]
    BY <2>2, WriterTypes
  <2>4. \A x \in XferSlots : e_buf'[x] = e_buf[x] \/ e_buf'[x] = w_buf_curr
    BY <1>t, <2>1, <2>2
  <2>5. \A x \in XferSlots :
          e_buf'[x] = 0 \/ \E n \in 1 .. Len(ended') : e_buf'[x] = ended'[n].buf
    BY <2>3, <2>4 DEF OpenEntry
  <2> QED
    BY <2>2, <2>5 DEF OpenEntry
<1>3. CASE UNCHANGED <<w_state, w_xfer, xsync, started, ended>>
  BY <1>3 DEF OpenEntry, xsync
<1> QED
  BY <1>1, <1>2, <1>3, TableFrame

(* What remains to be shown of the place of the writer that takes a step. *)
LEMMA WriterPlaceMoves ==
  ASSUME AckInv, AckInv', NEW w \in Writers, is_writer(w), OnlyMoves(w),
         is_writer(w)' => PlaceOf(w)' /\ RoomOf(w)'
  PROVE  WriterPlace'
<1>1. \A v \in Writers : v # w => ~is_writer(v)'
  BY OnlyWriter DEF AckInv, OnlyMoves, Procs, is_writer, WriterStates
<1> QED
  BY <1>1 DEF WriterPlace

(* A step that leaves the writer's place alone. *)
LEMMA QuietPlace ==
  ASSUME NEW w \in Writers, PlaceOf(w), RoomOf(w),
         UNCHANGED <<w_buf_curr, w_buf_next, w_state, started, ended, pc, op,
                     arg>>
  PROVE  PlaceOf(w)' /\ RoomOf(w)'
BY DEF PlaceOf, RoomOf

(* Start of data is raised on a block of the ring, beyond the last transfer.  *)
LEMMA SodPlace ==
  ASSUME RingClients, LayoutInv, NEW w \in Writers, pc[w] = "idle",
         is_writer(w), NEW b \in Nat, NEW y \in Nat, NEW caller,
         b <= w_buf_curr, b > w_buf_next - NBufs, b > 0 \/ w_buf_curr = 0,
         \A n \in 1 .. Len(ended) : ended[n].buf < b,
         caller = "get_next_write" => w_buf_next - w_buf_curr < MaxOpen,
         CallEnableSod(w, caller, b, y)
  PROVE  PlaceOf(w)' /\ RoomOf(w)'
<1> USE DEF LayoutInv, TableInv
<1>1. /\ pc'[w] = "sod_ack" /\ op'[w] = caller /\ arg'[w].buf = b
      /\ UNCHANGED <<w_buf_curr, w_buf_next, w_state, started, ended>>
  BY WriterTypes DEF CallEnableSod, Goto, wsync, ghost
<1>2. w_buf_next - w_buf_curr < NBufs
  BY DEF WriterPlace, RoomOf
<1> QED
  BY <1>1, <1>2 DEF PlaceOf, RoomOf

(* The writer's place is kept by every step of its own. *)
LEMMA WriterPlaceStep ==
  ASSUME RingClients, LayoutInv, AckInv', NEW w \in Writers, CallOrStep(w)
  PROVE  WriterPlace'
<1> USE DEF LayoutInv, TableInv
<1>t. /\ pc \in [Procs -> WriterPcs \cup ReaderPcs]
      /\ op \in [Writers -> {"none", "enable_sod", "get_next_write",
                             "mark_filled", "reset"}]
      /\ arg \in [Writers -> [buf : Nat, nbytes : Nat]]
      /\ Writers \subseteq Procs
      /\ w_buf_curr \in Nat /\ w_buf_next \in Nat
      /\ started \in Seq(Extent) /\ ended \in Seq(Extent)
      /\ Len(started) \in Nat /\ Len(ended) \in Nat
      /\ NBufs \in Nat \ {0} /\ MaxOpen \in Nat /\ MaxOpen < NBufs
      /\ arg[w].buf \in Nat /\ arg[w].nbytes \in Nat
  BY WriterTypes DEF RingClients
<1>l. ASSUME LockWrite(w)
      PROVE  WriterPlace'
  <2>1. \A v \in Writers : ~is_writer(v)
    BY <1>l DEF LockWrite, AckInv, LockInv, LocksHeld
  <2>2. \A v \in Writers : v # w => ~is_writer(v)'
    BY <2>1, WriterFrame DEF OnlyMoves, Procs, is_writer
  <2>3. pc'[w] = "idle" /\ UNCHANGED <<w_buf_curr, w_buf_next>>
    BY <1>l DEF LockWrite, wsync
  <2>4. PlaceOf(w)' /\ RoomOf(w)'
    BY <2>1, <2>3 DEF PlaceOf, RoomOf, OpenBlocks
  <2> QED
    BY <2>2, <2>4 DEF WriterPlace
<1> SUFFICES ASSUME ~LockWrite(w)
             PROVE  PlaceOf(w)' /\ RoomOf(w)'
  BY <1>l, WriterFrame, WriterPlaceMoves
<1>w. /\ is_writer(w) /\ PlaceOf(w) /\ RoomOf(w)
      /\ \A v \in Writers : v # w => pc[v] = "idle" /\ ~is_writer(v)
  BY WriterSteps DEF WriterPlace
<1>1. CASE UnlockWrite(w) \/ EnableEod(w) \/ DisableSod(w) \/ SetSoclockBuf(w)
           \/ ZeroNextWrite(w)
  <2>1. UNCHANGED <<w_buf_curr, w_buf_next, w_state, started, ended, pc, op, arg>>
    BY <1>1 DEF UnlockWrite, EnableEod, DisableSod, SetSoclockBuf,
                ZeroNextWrite, wsync, wproc, ghost
  <2> QED
    BY <1>w, <2>1, QuietPlace
<1>2. ASSUME NEW b \in 0 .. MaxBuf, NEW y \in 0 .. BufSz, EnableSod(w, b, y)
      PROVE  PlaceOf(w)' /\ RoomOf(w)'
  <2>1. /\ SodRequested(b) /\ AtLeastSodMinbuf(w, b)
        /\ CallEnableSod(w, "enable_sod", b, y) /\ pc[w] = "idle"
    BY <1>2 DEF EnableSod, CallEnableSod, SodAccepted, Goto
  <2>2. b \in Nat /\ y \in Nat
    BY SizesAssumption, BoundsAssumption
  <2>3. b <= w_buf_curr /\ (b > 0 \/ w_buf_curr = 0)
    BY <2>1 DEF SodRequested, RingClients
  <2>4. soclock_buf[w] \in Nat
    BY DEF AckInv, LockInv, TypeOK, WriterType
  <2>5. b > w_buf_next - NBufs
    BY <1>t, <2>1, <2>2, <2>4 DEF AtLeastSodMinbuf
  <2>6. ASSUME NEW n \in 1 .. Len(ended)
        PROVE  ended[n].buf < b
    <3>1. ended # <<>> /\ Len(ended) \in 1 .. Len(ended) /\ n \in 1 .. Len(ended)
      BY <1>t
    <3>2. ended[Len(ended)].buf < b
      BY <2>1, <2>2, <3>1, EntryTypes DEF SodRequested, RingClients
    <3>3. ended[n].buf <= ended[Len(ended)].buf
      BY <3>1, EndsIncrease
    <3> QED
      BY <2>2, <3>1, <3>2, <3>3, EntryTypes
  <2> QED
    BY <1>w, <2>1, <2>2, <2>3, <2>5, <2>6, SodPlace
<1>3. CASE GetNextWrite(w)
  <2>1. pc[w] = "idle" /\ w_buf_next - w_buf_curr < MaxOpen
    BY <1>3 DEF GetNextWrite
  <2>2. CASE CallEnableSod(w, "get_next_write", w_buf_curr, 0)
    <3>1. \A n \in 1 .. Len(ended) : ended[n].buf < w_buf_curr
      BY <1>w, <2>1, EndsBehind DEF EndPending
    <3>2. w_buf_curr > w_buf_next - NBufs
      BY <1>t, <2>1
    <3>3. w_buf_curr > 0 \/ w_buf_curr = 0
      BY <1>t
    <3>4. 0 \in Nat /\ w_buf_curr \in Nat /\ w_buf_curr <= w_buf_curr
      BY <1>t
    <3> QED
      BY <1>w, <2>1, <2>2, <3>1, <3>2, <3>3, <3>4, SodPlace
  <2>3. CASE /\ Goto(w, "idle", "clear")
             /\ op' = [op EXCEPT ![w] = "get_next_write"]
             /\ UNCHANGED wsync
    BY <1>t, <2>1, <2>3 DEF Goto, wsync, PlaceOf, RoomOf
  <2> QED
    BY <1>3, <2>2, <2>3 DEF GetNextWrite
<1>4. CASE SodAck(w)
  <2>1. /\ pc[w] = "sod_ack" /\ pc'[w] \in {"sod_ack", "sod_set"}
        /\ UNCHANGED <<w_buf_curr, w_buf_next, w_state, started, ended, op, arg>>
    BY <1>4, <1>t DEF SodAck, Goto, wsync, ghost
  <2> QED
    BY <1>w, <2>1 DEF PlaceOf, RoomOf
<1>5. CASE SodSet(w)
  <2>1. /\ pc[w] = "sod_set" /\ pc'[w] = "sod_full" /\ w_state' = "WRITING"
        /\ started' = Append(started, [buf |-> arg[w].buf, byte |-> arg[w].nbytes])
        /\ UNCHANGED <<w_buf_curr, w_buf_next, op, arg>>
    BY <1>5, <1>t DEF SodSet, Goto, wproc
  <2>2. started'[Len(started')].buf = arg[w].buf
    BY <1>t, <2>1
  <2> QED
    BY <1>w, <2>1, <2>2 DEF PlaceOf, RoomOf
<1>6. CASE SodFull(w)
  <2>1. /\ pc[w] = "sod_full" /\ pc'[w] \in {"sod_full", "clear", "idle"}
        /\ pc'[w] = "clear" => op[w] = "get_next_write"
        /\ UNCHANGED <<w_buf_curr, w_buf_next, w_state, started, ended, op, arg>>
    BY <1>6, <1>t DEF SodFull, Goto, wsync, ghost
  <2> QED
    BY <1>w, <2>1 DEF PlaceOf, RoomOf
<1>7. CASE Drain(w)
  <2>1. /\ pc[w] = "clear" /\ pc'[w] = "clear"
        /\ UNCHANGED <<w_buf_curr, w_buf_next, w_state, started, ended, op, arg>>
    BY <1>7, <1>t DEF Drain, Goto, wsync, ghost
  <2> QED
    BY <1>w, <2>1 DEF PlaceOf, RoomOf
<1>8. CASE TakeBlock(w)
  <2>1. /\ pc[w] = "clear" /\ pc'[w] = IF op[w] = "mark_filled" THEN "fill" ELSE "idle"
        /\ w_buf_next' = w_buf_next + 1
        /\ UNCHANGED <<w_buf_curr, w_state, started, ended, op, arg>>
    BY <1>8, <1>t DEF TakeBlock, Goto, wproc
  <2>2. op[w] = "mark_filled" \/ op[w] = "get_next_write"
    BY <2>1 DEF WriterOp
  <2>3. PlaceOf(w)'
    BY <1>w, <1>t, <2>1 DEF PlaceOf, OpenBlocks
  <2>4. RoomOf(w)'
    BY <1>w, <1>t, <2>1, <2>2 DEF RoomOf
  <2> QED
    BY <2>3, <2>4
<1>9. ASSUME NEW n \in 0 .. BufSz, MarkFilled(w, n)
      PROVE  PlaceOf(w)' /\ RoomOf(w)'
  <2>1. /\ pc[w] = "idle" /\ FillRequested(w, n)
        /\ UNCHANGED <<w_buf_next, w_state, started, ended>>
    BY <1>9 DEF MarkFilled, ghost
  <2>2. CASE w_buf_curr' = w_buf_curr + 1 /\ UNCHANGED pc
    BY <1>w, <1>t, <2>1, <2>2 DEF PlaceOf, RoomOf
  <2>3. CASE /\ state[w] # "WRITER"
             /\ Goto(w, "idle", IF state[w] = "WCHANGE" \/ n < BufSz
                                  THEN "eod_ack" ELSE "fill")
             /\ arg' = [arg EXCEPT ![w] = [buf |-> w_buf_curr, nbytes |-> n]]
             /\ UNCHANGED w_buf_curr
    <3>1. arg'[w].nbytes = n
      BY <1>t, <2>3
    <3>2. w_buf_curr < w_buf_next \/ (n = 0 /\ state[w] = "WCHANGE")
      BY <2>1 DEF FillRequested
    <3>3. state[w] = "WCHANGE" \/ state[w] = "WRITING"
      BY <1>w, <2>3 DEF is_writer, WriterStates
    <3>4. pc'[w] = IF state[w] = "WCHANGE" \/ n < BufSz THEN "eod_ack" ELSE "fill"
      BY <1>t, <2>3 DEF Goto
    <3>5. state[w] = "WRITING" => w_state = "WRITING"
      BY DEF AckInv, StatesAgree
    <3>6. PlaceOf(w)'
      BY <2>1, <2>3, <3>1, <3>2, <3>3, <3>4, <3>5 DEF PlaceOf
    <3>7. RoomOf(w)'
      BY <1>w, <2>1, <2>3, <3>4 DEF RoomOf
    <3> QED
      BY <3>6, <3>7
  <2> QED
    BY <1>9, <2>2, <2>3 DEF MarkFilled
<1>10. CASE EodAck(w)
  <2>1. /\ pc[w] = "eod_ack" /\ pc'[w] \in {"eod_ack", "eod_set"}
        /\ UNCHANGED <<w_buf_curr, w_buf_next, w_state, started, ended, op, arg>>
    BY <1>10, <1>t DEF EodAck, Goto, wsync, ghost
  <2> QED
    BY <1>w, <2>1 DEF PlaceOf, RoomOf
<1>11. CASE EodSet(w)
  <2>1. /\ pc[w] = "eod_set"
        /\ pc'[w] = IF arg[w].nbytes = 0 THEN "clear" ELSE "fill"
        /\ ended' = Append(ended, [buf |-> w_buf_curr, byte |-> arg[w].nbytes])
        /\ UNCHANGED <<w_buf_curr, w_buf_next, op, arg>>
    BY <1>11, <1>t DEF EodSet, Goto, wproc
  <2>2. ended' # <<>> /\ ended'[Len(ended')].buf = w_buf_curr
    BY <1>t, <2>1
  <2>3. op[w] = "mark_filled"
    BY <2>1 DEF WriterOp
  <2>4. PlaceOf(w)'
    BY <1>w, <1>t, <2>1, <2>2 DEF PlaceOf
  <2>5. RoomOf(w)'
    BY <1>w, <2>1, <2>3 DEF RoomOf
  <2> QED
    BY <2>4, <2>5
<1>12. CASE Fill(w)
  <2>1. /\ pc[w] = "fill" /\ pc'[w] = "full" /\ w_buf_curr' = w_buf_curr + 1
        /\ UNCHANGED <<w_buf_next>>
    BY <1>12, <1>t DEF Fill, Goto
  <2> QED
    BY <1>w, <1>t, <2>1 DEF PlaceOf, RoomOf, OpenBlocks
<1>13. CASE PostFull(w)
  <2>1. /\ pc[w] = "full" /\ pc'[w] \in {"full", "idle"}
        /\ UNCHANGED <<w_buf_curr, w_buf_next>>
    BY <1>13, <1>t DEF PostFull, Goto, wsync
  <2> QED
    BY <1>w, <2>1 DEF PlaceOf, RoomOf
<1> QED
  BY <1>1, <1>2, <1>3, <1>4, <1>5, <1>6, <1>7, <1>8, <1>9, <1>10, <1>11,
     <1>12, <1>13 DEF CallOrStep

(* The writer opens no more blocks than the ring has. *)
LEMMA OpenBlocksStep ==
  ASSUME RingClients, LayoutInv, AckInv', NEW w \in Writers, CallOrStep(w)
  PROVE  OpenBlocks'
<1> USE DEF LayoutInv, TableInv
<1>t. /\ w_buf_curr \in Nat /\ w_buf_next \in Nat
      /\ NBufs \in Nat \ {0} /\ MaxOpen \in Nat /\ MaxOpen < NBufs
      /\ w_buf_curr' \in Nat /\ w_buf_next' \in Nat
  BY WriterTypes DEF RingClients, AckInv, LockInv, TypeOK, SyncType
<1>1. /\ w_buf_curr <= w_buf_next /\ w_buf_next - w_buf_curr <= NBufs
      /\ is_writer(w) /\ pc[w] # "fill" => w_buf_next - w_buf_curr < NBufs
  BY DEF OpenBlocks, WriterPlace, RoomOf
<1>2. CASE TakeBlock(w)
  <2>1. pc[w] = "clear" /\ is_writer(w) /\ w_buf_next' = w_buf_next + 1
        /\ UNCHANGED <<w_buf_curr, state>>
    BY <1>2, WriterSteps DEF TakeBlock, Goto, LockWrite
  <2>2. is_writer(w)'
    BY <2>1 DEF is_writer
  <2> QED
    BY <1>t, <1>1, <2>1, <2>2 DEF OpenBlocks
<1>3. CASE Fill(w)
  <2>1. /\ pc[w] = "fill" /\ is_writer(w) /\ w_buf_curr' = w_buf_curr + 1
        /\ UNCHANGED <<w_buf_next, state>>
    BY <1>3, WriterSteps DEF Fill, Goto, LockWrite
  <2>2. w_buf_curr < w_buf_next
    BY <2>1 DEF WriterPlace, PlaceOf
  <2> QED
    BY <1>t, <1>1, <2>1, <2>2 DEF OpenBlocks
<1>4. ASSUME NEW n \in 0 .. BufSz, MarkFilled(w, n)
      PROVE  OpenBlocks'
  <2>1. /\ pc[w] = "idle" /\ is_writer(w)
        /\ UNCHANGED <<w_buf_next, state>>
    BY <1>4 DEF MarkFilled
  <2>2. is_writer(w)'
    BY <2>1 DEF is_writer
  <2>3. CASE UNCHANGED w_buf_curr
    BY <1>1, <2>1, <2>2, <2>3 DEF OpenBlocks
  <2>4. CASE state[w] = "WRITER" /\ w_buf_curr' = w_buf_curr + 1
    <3>1. w_buf_curr < w_buf_next
      BY <1>4, <2>4 DEF MarkFilled, FillRequested
    <3> QED
      BY <1>t, <1>1, <2>1, <2>2, <2>4, <3>1 DEF OpenBlocks
  <2> QED
    BY <1>4, <2>3, <2>4 DEF MarkFilled
<1>5. CASE UNCHANGED <<w_buf_curr, w_buf_next>>
  <2>1. CASE UnlockWrite(w)
    BY <1>t, <1>5, <2>1 DEF UnlockWrite, OpenBlocks
  <2>2. CASE LockWrite(w)
    BY <1>5, <2>2 DEF LockWrite, AckInv, LockInv, LocksHeld, OpenBlocks
  <2>3. ASSUME ~UnlockWrite(w), ~LockWrite(w)
        PROVE  is_writer(w)'
    <3>1. is_writer(w)
      BY <2>3, WriterSteps
    <3> QED
      BY <2>3, <3>1, WriterTypes
         DEF CallOrStep, EnableEod, DisableSod, SetSoclockBuf, EnableSod,
             CallEnableSod, GetNextWrite, MarkFilled, ZeroNextWrite, SodAck,
             SodSet, SodFull, Drain, TakeBlock, EodAck, EodSet, Fill, PostFull,
             is_writer, WriterStates
  <2> QED
    BY <1>1, <1>5, <2>1, <2>2, <2>3 DEF OpenBlocks
<1>6. \/ TakeBlock(w) \/ Fill(w) \/ (\E n \in 0 .. BufSz : MarkFilled(w, n))
      \/ UNCHANGED <<w_buf_curr, w_buf_next>>
  BY DEF CallOrStep, LockWrite, UnlockWrite, EnableEod, DisableSod,
         SetSoclockBuf, EnableSod, CallEnableSod, GetNextWrite, ZeroNextWrite,
         SodAck, SodSet, SodFull, Drain, EodAck, EodSet, PostFull, wsync
<1> QED
  BY <1>2, <1>3, <1>4, <1>5, <1>6

(* No reader changes the layout. *)
LEMMA ReaderKeepsLayout ==
  ASSUME LayoutInv, AckInv', NEW r \in Readers, ReadStep(r)
  PROVE  LayoutInv'
<1> USE DEF LayoutInv
<1>1. TableInv'
  BY ReaderKeepsTable DEF TableInv
<1>2. UNCHANGED <<wsync, xsync, wproc, started, ended>>
  BY ReaderFrame DEF ghost, TableInv
<1>3. \A v \in Writers : pc'[v] = pc[v] /\ state'[v] = state[v]
  BY ReaderFrame, ProcessAssumption DEF OnlyMoves, Procs, TableInv
<1>4. Ordered' /\ OpenEntry'
  BY <1>2 DEF Ordered, OpenEntry, wsync, xsync
<1>5. WriterPlace' /\ OpenBlocks'
  BY <1>2, <1>3
     DEF WriterPlace, OpenBlocks, PlaceOf, RoomOf, is_writer, wsync, wproc
<1> QED
  BY <1>1, <1>4, <1>5

(* LayoutInv is inductive. *)
LEMMA LayoutStep ==
  ASSUME RingClients, LayoutInv, [Next]_vars
  PROVE  LayoutInv'
<1>1. MaxReset = 0 /\ TableInv /\ AckInv
  BY DEF RingClients, LayoutInv, TableInv
<1>2. TableInv' /\ AckInv'
  BY <1>1, TableStep, AckNext
<1>3. ASSUME NEW w \in Writers, CallOrStep(w)
      PROVE  LayoutInv'
  BY <1>2, <1>3, OrderedStep, OpenEntryStep, WriterPlaceStep, OpenBlocksStep
     DEF LayoutInv
<1>4. ASSUME NEW r \in Readers, ReadStep(r)
      PROVE  LayoutInv'
  BY <1>2, <1>4, ReaderKeepsLayout
<1>5. CASE UNCHANGED vars
  <2>1. Ordered' /\ OpenEntry'
    BY <1>5 DEF LayoutInv, Ordered, OpenEntry, vars, wsync, xsync, ghost
  <2>2. WriterPlace' /\ OpenBlocks'
    BY <1>5
       DEF LayoutInv, WriterPlace, OpenBlocks, PlaceOf, RoomOf, is_writer,
           vars, wsync, wproc, ghost
  <2> QED
    BY <1>2, <2>1, <2>2 DEF LayoutInv
<1> QED
  BY <1>1, <1>3, <1>4, <1>5, StepSplit

(* Initially there are no blocks and no transfers. *)
LEMMA LayoutInit == Init => LayoutInv
<1> SUFFICES ASSUME Init
             PROVE  LayoutInv
  OBVIOUS
<1>1. TableInv
  BY TableInit
<1>2. /\ w_buf_curr = 0 /\ w_buf_next = 0 /\ w_state = "DISCON"
      /\ Len(started) = 0 /\ Len(ended) = 0
  BY DEF Init
<1>3. \A v \in Writers : ~is_writer(v)
  BY DEF Init, Procs, is_writer, WriterStates
<1>4. \A x \in XferSlots : e_buf[x] = 0
  BY DEF Init
<1>5. Ordered /\ OpenEntry
  BY <1>2, <1>4 DEF Ordered, OpenEntry
<1>6. WriterPlace /\ OpenBlocks
  BY <1>2, <1>3, SizesAssumption DEF WriterPlace, OpenBlocks
<1> QED
  BY <1>1, <1>5, <1>6 DEF LayoutInv
=============================================================================
