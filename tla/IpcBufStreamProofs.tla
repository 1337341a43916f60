------------------------- MODULE IpcBufStreamProofs --------------------------
(***************************************************************************)
(* The ring buffer implements BlockStream: every step of the writer and of   *)
(* the readers is, seen through the mapping of IpcBufStream, one step of the  *)
(* stream of blocks or none.                                                *)
(*                                                                         *)
(* The mapping looks for the reader of a slot and at where it is.  Mapped     *)
(* says what it finds there, and that is all the steps need to know of it.    *)
(*                                                                         *)
(* The second theorem follows from RingInv alone: what count[] adds up to is  *)
(* the number of used blocks not taken back, and RingInv says where the       *)
(* tokens for them are.                                                      *)
(***************************************************************************)
EXTENDS IpcBufReadProofs, IpcBufStream

(* Nothing is passed to ipcbuf_enable_sod or ipcbuf_mark_filled that is       *)
(* larger than a block.                                                     *)
SizesFit == \A w \in Writers : arg[w].nbytes <= BufSz

StreamInv == RingInv /\ SizesFit

-----------------------------------------------------------------------------
(***************************************************************************)
(* What the mapping finds.                                                  *)
(***************************************************************************)
AtBlock == {"bytes", "hold", "cleared"}

(* The transfer that slot s is in, or waits for. *)
Xfer(s) == r_xfers[s] + 1

(* The reader of slot s, if it has one, has no block of a transfer.          *)
Between(s) == \A r \in Readers : iread[r] = s => pc[r] \notin AtBlock

(* Then it is due r_bufs, or the start of a transfer. *)
BetweenMapped ==
  \A s \in Slots :
    Between(s) =>
      /\ StreamView(s) = [held |-> FALSE]
      /\ StreamNext(s) = [xfer |-> Xfer(s),
                          buf |-> IF r_states[s] = "READING" THEN r_bufs[s]
                                                             ELSE -1]

(* A reader at its block is due that block; it holds it, with its own data,   *)
(* once ipcbuf_get_next_read has returned; and it is due the next one once it *)
(* has raised CLEAR.                                                        *)
InStream(r, s) ==
  /\ pc[r] \in {"bytes", "hold"} =>
       StreamNext(s) = [xfer |-> Xfer(s),
                        buf |-> IF started[Xfer(s)].buf = r_bufs[s]
                                THEN -1 ELSE r_bufs[s]]
  /\ pc[r] \in {"bytes", "cleared"} => StreamView(s) = [held |-> FALSE]
  /\ pc[r] = "hold" =>
       StreamView(s) = [held |-> TRUE, xfer |-> Xfer(s),
                        data |-> r_bufs[s], bytes |-> bytes[r]]
  /\ pc[r] = "cleared" =>
       StreamNext(s) = IF TrueLast(Xfer(s), r_bufs[s])
                       THEN [xfer |-> Xfer(s) + 1, buf |-> -1]
                       ELSE [xfer |-> Xfer(s), buf |-> r_bufs[s] + 1]

AtBlockMapped ==
  \A r \in Readers, s \in Slots : iread[r] = s => InStream(r, s)

(* No two processes are readers of one slot. *)
OneReader ==
  \A q, r \in Readers :
    Connected(r) /\ pc[q] \in AtBlock /\ iread[q] = iread[r] => q = r

Mapped == BetweenMapped /\ AtBlockMapped /\ OneReader

(* Mapped holds whenever RingInv does. *)
LEMMA MappingFinds == RingInv => Mapped
<1> SUFFICES ASSUME RingInv
             PROVE  Mapped
  OBVIOUS
<1>1. AckInv /\ ReadInv /\ LayoutInv /\ ReadPlace /\ KnowsBlock
  BY DEF RingInv, ReadInv, LayoutInv, TableInv
<1>2. ~Resetting
  BY <1>1 DEF AckInv, NeverReset, Resetting
<1>3. OneReader
  BY <1>1, HolderConnected
     DEF OneReader, AtBlock, HeldPcs, AckInv, LockInv, Exclusive
<1>4. BetweenMapped
  <2> SUFFICES ASSUME NEW s \in Slots, Between(s)
               PROVE  /\ StreamView(s) = [held |-> FALSE]
                      /\ StreamNext(s) =
                           [xfer |-> Xfer(s),
                            buf |-> IF r_states[s] = "READING" THEN r_bufs[s]
                                                               ELSE -1]
    BY DEF BetweenMapped
  <2>1. ~ReaderAt(s, {"cleared"}) /\ ~ReaderAt(s, {"bytes", "hold"})
    BY DEF Between, AtBlock, ReaderAt
  <2>2. ~(\E r \in Readers : iread[r] = s /\ pc[r] = "hold")
    BY DEF Between, AtBlock
  <2> QED
    BY <1>2, <2>1, <2>2 DEF StreamView, StreamNext, Xfer
<1>5. AtBlockMapped
  <2> SUFFICES ASSUME NEW r \in Readers, NEW s \in Slots, iread[r] = s
               PROVE  InStream(r, s)
    BY DEF AtBlockMapped
  <2>1. pc[r] \in AtBlock =>
          \A q \in Readers : iread[q] = s /\ pc[q] \in AtBlock => q = r
    BY <1>1, <1>3, HolderConnected DEF OneReader, AtBlock, HeldPcs
  <2>2. pc[r] \in AtBlock => r_states[s] = "READING"
    BY <1>1, ReaderInside DEF AtBlock
  <2>3. ASSUME pc[r] \in {"bytes", "hold"}
        PROVE  StreamNext(s) = [xfer |-> Xfer(s),
                                buf |-> IF started[Xfer(s)].buf = r_bufs[s]
                                        THEN -1 ELSE r_bufs[s]]
    <3>1. ~ReaderAt(s, {"cleared"}) /\ ReaderAt(s, {"bytes", "hold"})
      BY <2>1, <2>3 DEF AtBlock, ReaderAt
    <3>2. r_states[s] = "READING"
      BY <2>2, <2>3 DEF AtBlock
    <3> QED
      BY <1>2, <3>1, <3>2 DEF StreamNext, Xfer
  <2>4. ASSUME pc[r] \in {"bytes", "cleared"}
        PROVE  StreamView(s) = [held |-> FALSE]
    BY <2>1, <2>4 DEF AtBlock, StreamView
  <2>5. ASSUME pc[r] = "hold"
        PROVE  StreamView(s) = [held |-> TRUE, xfer |-> Xfer(s),
                                data |-> r_bufs[s], bytes |-> bytes[r]]
    <3>1. \A q \in Readers : iread[q] = s /\ pc[q] = "hold" <=> q = r
      BY <2>1, <2>5 DEF AtBlock
    <3>2. (CHOOSE q \in Readers : iread[q] = s /\ pc[q] = "hold") = r
      BY <3>1
    <3>3. mem[r_bufs[s] % NBufs] = r_bufs[s]
      BY <2>5, RingKeepsBlocks DEF BlockIntact
    <3> QED
      BY <3>1, <3>2, <3>3 DEF StreamView, Xfer
  <2>6. ASSUME pc[r] = "cleared"
        PROVE  StreamNext(s) = IF TrueLast(Xfer(s), r_bufs[s])
                               THEN [xfer |-> Xfer(s) + 1, buf |-> -1]
                               ELSE [xfer |-> Xfer(s), buf |-> r_bufs[s] + 1]
    <3>1. ReaderAt(s, {"cleared"})
      BY <2>6 DEF ReaderAt
    <3> QED
      BY <1>2, <3>1 DEF StreamNext, Xfer
  <2> QED
    BY <2>3, <2>4, <2>5, <2>6 DEF InStream
<1> QED
  BY <1>3, <1>4, <1>5 DEF Mapped

LEMMA MappingStaysTrue == RingInv' => Mapped'
BY MappingFinds, PTL

-----------------------------------------------------------------------------
(***************************************************************************)
(* The steps.                                                              *)
(***************************************************************************)

(* A slot whose reader stays where it is, if it is at a block, does not move  *)
(* in the stream.                                                           *)
LEMMA SlotStays ==
  ASSUME Mapped, Mapped', NEW s \in Slots,
         r_bufs'[s] = r_bufs[s], r_xfers'[s] = r_xfers[s],
         r_states'[s] = r_states[s],
         \A q \in Readers :
           iread'[q] = s /\ pc'[q] \in AtBlock
             <=> iread[q] = s /\ pc[q] \in AtBlock,
         \A q \in Readers :
           iread[q] = s /\ pc[q] \in AtBlock =>
             /\ pc'[q] = pc[q] /\ bytes'[q] = bytes[q]
             /\ started'[Xfer(s)] = started[Xfer(s)]
             /\ TrueLast(Xfer(s), r_bufs[s])' <=> TrueLast(Xfer(s), r_bufs[s])
  PROVE  StreamNext(s)' = StreamNext(s) /\ StreamView(s)' = StreamView(s)
<1>1. Xfer(s)' = Xfer(s)
  BY DEF Xfer
<1>2. CASE Between(s)
  <2>1. Between(s)'
    BY <1>2 DEF Between
  <2> QED
    BY <1>1, <1>2, <2>1 DEF Mapped, BetweenMapped
<1>3. CASE ~Between(s)
  <2>1. PICK q \in Readers : iread[q] = s /\ pc[q] \in AtBlock
    BY <1>3 DEF Between
  <2>2. /\ iread'[q] = s /\ pc'[q] = pc[q] /\ bytes'[q] = bytes[q]
        /\ started'[Xfer(s)] = started[Xfer(s)]
        /\ TrueLast(Xfer(s), r_bufs[s])' <=> TrueLast(Xfer(s), r_bufs[s])
    BY <2>1
  <2>3. InStream(q, s) /\ InStream(q, s)'
    BY <2>1, <2>2 DEF Mapped, AtBlockMapped
  <2>4. started'[Xfer(s)'] = started[Xfer(s)]
    BY <1>1, <2>2
  <2>5. StreamNext(s)' = StreamNext(s)
    BY <1>1, <2>1, <2>2, <2>3, <2>4 DEF AtBlock, InStream
  <2>6. StreamView(s)' = StreamView(s)
    BY <1>1, <2>1, <2>2, <2>3, <2>4 DEF AtBlock, InStream
  <2> QED
    BY <2>5, <2>6
<1> QED
  BY <1>2, <1>3

(* The writer moves no slot. *)
LEMMA WriterKeepsSlots ==
  ASSUME RingInv, RingInv', NEW w \in Writers, CallOrStep(w), NEW s \in Slots
  PROVE  StreamNext(s)' = StreamNext(s) /\ StreamView(s)' = StreamView(s)
<1>1. /\ AckInv /\ LayoutInv /\ ReadPlace /\ WriterOp
      /\ Mapped /\ Mapped'
  BY MappingFinds, MappingStaysTrue DEF RingInv, ReadInv, LayoutInv, TableInv
<1>2. /\ UNCHANGED <<rsync, iread, bytes>>
      /\ \A q \in Readers : pc'[q] = pc[q]
  BY <1>1, WriterKeepsReaders
<1>3. ASSUME NEW q \in Readers, iread[q] = s, pc[q] \in AtBlock
      PROVE  /\ started'[Xfer(s)] = started[Xfer(s)]
             /\ TrueLast(Xfer(s), r_bufs[s])' <=> TrueLast(Xfer(s), r_bufs[s])
  <2>1. PICK n : n = Xfer(s)
    OBVIOUS
  <2>2. /\ n \in 1 .. Len(started) /\ r_bufs[s] < w_buf_curr
        /\ r_bufs[s] \in Nat /\ r_xfers'[s] + 1 = n /\ r_bufs'[s] = r_bufs[s]
    BY <1>1, <1>2, <1>3, <2>1, ReaderInside, ReaderTypes
       DEF AtBlock, Xfer, rsync
  <2>3. /\ started'[n] = started[n]
        /\ Len(ended') \in Nat /\ Len(ended) <= Len(ended')
        /\ \A m \in 1 .. Len(ended) : ended'[m] = ended[m]
        /\ \A m \in 1 .. Len(ended') :
             m > Len(ended) => ended'[m].buf = w_buf_curr
    BY <1>1, <2>2, HistoryGrows
  <2>4. Len(ended) \in Nat /\ w_buf_curr \in Nat /\ n \in Nat /\ n >= 1
    BY <1>1, <2>2, Numbers
  <2>5. TrueLast(n, r_bufs[s]) <=> n <= Len(ended') /\ ended'[n].buf = r_bufs[s]
    <3>1. CASE n <= Len(ended)
      BY <2>3, <2>4, <3>1 DEF TrueLast
    <3>2. CASE n > Len(ended)
      BY <2>2, <2>3, <2>4, <3>2 DEF TrueLast
    <3> QED
      BY <2>4, <3>1, <3>2
  <2> QED
    BY <2>1, <2>2, <2>3, <2>5 DEF TrueLast, Xfer
<1> QED
  BY <1>1, <1>2, <1>3, SlotStays DEF rsync

(* A writer's step is the Start, Fill or End of the stream, or none of it. *)
LEMMA WriterStreams ==
  ASSUME RingInv, RingInv', SizesFit, NEW w \in Writers, CallOrStep(w)
  PROVE  [Stream!Next]_Stream!vars
<1>1. /\ AckInv /\ History /\ WriterPlace /\ StatesAgree
      /\ w_buf_curr' \in {w_buf_curr, w_buf_curr + 1} /\ w_buf_curr \in Nat
  BY EndPendingStep, Numbers
     DEF RingInv, ReadInv, LayoutInv, TableInv, AckInv
<1>2. /\ [s \in Slots |-> StreamNext(s)]' = [s \in Slots |-> StreamNext(s)]
      /\ [s \in Slots |-> StreamView(s)]' = [s \in Slots |-> StreamView(s)]
  BY WriterKeepsSlots
<1>3. CASE SodSet(w)
  <2>1. is_writer(w) /\ PlaceOf(w)
    BY <1>1, <1>3, WriterSteps DEF SodSet, Goto, WriterPlace, LockWrite
  <2>2. /\ arg[w].buf \in 0 .. w_buf_curr /\ arg[w].nbytes \in 0 .. BufSz
    BY <1>1, <1>3, <2>1, WriterTypes, SizesAssumption
       DEF SodSet, Goto, PlaceOf, SizesFit
  <2>3. Len(started) = Len(ended)
    BY <1>1, <1>3, HistoryLengths DEF SodSet, Goto, StatesAgree
  <2>4. /\ started' = Append(started, [buf |-> arg[w].buf,
                                       byte |-> arg[w].nbytes])
        /\ UNCHANGED <<w_buf_curr, ended>>
    BY <1>3 DEF SodSet
  <2>5. Stream!Start
    BY <1>2, <2>2, <2>3, <2>4 DEF Stream!Start
  <2> QED
    BY <2>5 DEF Stream!Next
<1>4. CASE EodSet(w)
  <2>1. arg[w].nbytes \in 0 .. BufSz
    BY <1>1, WriterTypes, SizesAssumption DEF SizesFit
  <2>2. Len(ended) < Len(started)
    <3>1. w_state = "WRITING"
      BY <1>1, <1>4 DEF EodSet, Goto, StatesAgree
    <3> QED
      BY <1>1, <3>1, HistoryLengths, Numbers
  <2>3. /\ ended' = Append(ended, [buf |-> w_buf_curr,
                                   byte |-> arg[w].nbytes])
        /\ UNCHANGED <<w_buf_curr, started>>
    BY <1>4 DEF EodSet
  <2>4. Stream!End
    BY <1>2, <2>1, <2>2, <2>3 DEF Stream!End
  <2> QED
    BY <2>4 DEF Stream!Next
<1>5. CASE UNCHANGED <<w_state, w_xfer, xsync, started, ended>>
  <2>1. CASE w_buf_curr' = w_buf_curr
    BY <1>2, <1>5, <2>1 DEF Stream!vars
  <2>2. CASE w_buf_curr' = w_buf_curr + 1
    <3>1. Stream!Fill
      BY <1>2, <1>5, <2>2 DEF Stream!Fill
    <3> QED
      BY <3>1 DEF Stream!Next
  <2> QED
    BY <1>1, <2>1, <2>2
<1> QED
  BY <1>3, <1>4, <1>5, TableFrame

(* The slots a reader is not at do not move when it does. *)
LEMMA OthersStay ==
  ASSUME RingInv, RingInv', NEW r \in Readers, ReadStep(r), NEW s \in Slots,
         pc[r] \in AtBlock => iread[r] # s,
         pc'[r] \in AtBlock => iread'[r] # s,
         r_bufs'[s] = r_bufs[s], r_xfers'[s] = r_xfers[s],
         r_states'[s] = r_states[s]
  PROVE  StreamNext(s)' = StreamNext(s) /\ StreamView(s)' = StreamView(s)
<1>1. AckInv /\ Mapped /\ Mapped'
  BY MappingFinds, MappingStaysTrue DEF RingInv, ReadInv, LayoutInv, TableInv
<1>2. /\ UNCHANGED <<started, ended>>
      /\ \A q \in Readers : q # r => /\ pc'[q] = pc[q] /\ iread'[q] = iread[q]
                                     /\ bytes'[q] = bytes[q]
  BY <1>1, ReaderFrame DEF ghost, OnlyMoves, Procs
<1>3. TrueLast(Xfer(s), r_bufs[s])' <=> TrueLast(Xfer(s), r_bufs[s])
  BY <1>2 DEF TrueLast, Xfer
<1>4. \A q \in Readers :
        iread'[q] = s /\ pc'[q] \in AtBlock
          <=> iread[q] = s /\ pc[q] \in AtBlock
  BY <1>2
<1>5. \A q \in Readers :
        iread[q] = s /\ pc[q] \in AtBlock =>
          /\ pc'[q] = pc[q] /\ bytes'[q] = bytes[q]
          /\ started'[Xfer(s)] = started[Xfer(s)]
  BY <1>2
<1> QED
  BY <1>1, <1>3, <1>4, <1>5, SlotStays

(* A connected reader that is not at a block finds its slot between blocks. *)
LEMMA AloneBetween ==
  ASSUME OneReader, NEW r \in Readers, Connected(r), pc[r] \notin AtBlock,
         NEW s, iread[r] = s
  PROVE  Between(s)
<1> SUFFICES ASSUME NEW q \in Readers, iread[q] = s, pc[q] \in AtBlock
             PROVE  FALSE
  BY DEF Between
<1> QED
  BY DEF OneReader

LEMMA AloneBetweenNext ==
  ASSUME OneReader', NEW r \in Readers, Connected(r)', pc'[r] \notin AtBlock,
         NEW s, iread'[r] = s
  PROVE  Between(s)'
<1> SUFFICES ASSUME NEW q \in Readers, iread'[q] = s, pc'[q] \in AtBlock
             PROVE  FALSE
  BY DEF Between
<1> QED
  BY DEF OneReader

(* One block of a reader, seen as Take and Release. *)
LEMMA ReaderStreams ==
  ASSUME RingInv, RingInv', NEW r \in Readers, ReadStep(r)
  PROVE  [Stream!Next]_Stream!vars
<1>1. /\ AckInv /\ AckInv' /\ LayoutInv /\ ReadPlace /\ StatesAgree
      /\ XferSlotValid /\ KnowsBlock /\ KnowsBlock'
      /\ Mapped /\ Mapped' /\ OneReader /\ OneReader'
  BY MappingFinds, MappingStaysTrue
     DEF RingInv, ReadInv, LayoutInv, TableInv, AckInv, Mapped
<1>2. UNCHANGED <<w_buf_curr, started, ended>>
  BY <1>1, ReaderFrame DEF wsync, ghost
<1>3. ASSUME \A s \in Slots : StreamNext(s)' = StreamNext(s)
                              /\ StreamView(s)' = StreamView(s)
      PROVE  UNCHANGED Stream!vars
  BY <1>2, <1>3 DEF Stream!vars
<1>t. pc \in [Procs -> WriterPcs \cup ReaderPcs] /\ r \in Procs
      /\ state \in [Procs -> {"VIEWER"} \cup WriterStates \cup ReaderStates]
  BY <1>1, ReaderTypes
<1>4. CASE /\ UNCHANGED <<rsync, FULL, CLEAR, start_byte, bytes>>
           /\ pc[r] \notin HeldPcs /\ pc'[r] \notin HeldPcs
  <2>1. /\ pc[r] \notin AtBlock /\ pc'[r] \notin AtBlock
        /\ UNCHANGED <<r_bufs, r_xfers, r_states>>
    BY <1>4 DEF AtBlock, HeldPcs, rsync
  <2> QED
    BY <1>3, <2>1, OthersStay
<1>5. ASSUME \/ GetNextRead(r) \/ StartXfer(r) \/ GetBytes(r)
                \/ MarkCleared(r) \/ Advance(r),
             Connected(r), Connected(r)', iread[r] \in Slots, UNCHANGED iread,
             NEW s \in Slots, s = iread[r], NEW n, n = Xfer(s)
      PROVE  [Stream!Next]_Stream!vars
  <2>1. \A t \in Slots : t # s => /\ r_bufs'[t] = r_bufs[t]
                                  /\ r_xfers'[t] = r_xfers[t]
                                  /\ r_states'[t] = r_states[t]
    BY <1>1, <1>5, ReaderTypes
       DEF GetNextRead, StartXfer, GetBytes, MarkCleared, Advance, rsync
  <2>2. \A t \in Slots : t # s => StreamNext(t)' = StreamNext(t)
                                  /\ StreamView(t)' = StreamView(t)
    BY <1>5, <2>1, OthersStay
  <2>3. /\ pc[r] \notin AtBlock =>
             /\ StreamView(s) = [held |-> FALSE]
             /\ StreamNext(s) = [xfer |-> n,
                                 buf |-> IF r_states[s] = "READING"
                                         THEN r_bufs[s] ELSE -1]
        /\ InStream(r, s)
    BY <1>1, <1>5, AloneBetween DEF Mapped, BetweenMapped, AtBlockMapped
  <2>4. /\ pc'[r] \notin AtBlock =>
             /\ StreamView(s)' = [held |-> FALSE]
             /\ StreamNext(s)' = [xfer |-> Xfer(s)',
                                  buf |-> IF r_states'[s] = "READING"
                                          THEN r_bufs'[s] ELSE -1]
        /\ InStream(r, s)'
    BY <1>1, <1>5, AloneBetweenNext DEF Mapped, BetweenMapped, AtBlockMapped
  <2>5. (StreamNext(s)' = StreamNext(s) /\ StreamView(s)' = StreamView(s))
          => [Stream!Next]_Stream!vars
    BY <1>3, <2>2
  <2>6. CASE GetNextRead(r)
    <3>1. /\ pc[r] = "ready" /\ UNCHANGED <<r_bufs, r_xfers, r_states>>
          /\ pc'[r] = IF state[r] = "READER" THEN "start" ELSE "bytes"
          /\ state[r] \in {"READER", "READING"}
      BY <1>t, <2>6 DEF GetNextRead, Goto, rsync
    <3>2. Xfer(s)' = n
      BY <1>5, <3>1 DEF Xfer
    <3>3. CASE state[r] = "READER"
      BY <2>3, <2>4, <2>5, <3>1, <3>2, <3>3 DEF AtBlock
    <3>4. CASE state[r] = "READING"
      <4>1. r_states[s] = "READING" /\ ~Held(s)
        BY <1>1, <1>5, <3>1, <3>4, HeldBy DEF StatesAgree, HeldPcs
      <4>2. n \in 1 .. Len(started) /\ started[n].buf < r_bufs[s]
        <5>1. ReadPlaceOf(s, n)
          BY <1>1, <1>5 DEF ReadPlace, Xfer
        <5>2. r_xfers[s] \in Nat /\ Len(started) \in Nat
          BY <1>1, ReaderTypes, Numbers
        <5>3. n \in Nat /\ n >= 1
          BY <1>5, <5>2 DEF Xfer
        <5> QED
          BY <4>1, <5>1, <5>2, <5>3 DEF ReadPlaceOf
      <4>3. started[n].buf # r_bufs[s]
        <5>1. started[n].buf \in Nat /\ r_bufs[s] \in Nat
          BY <1>1, <4>2, EntryTypes, ReaderTypes
        <5> QED
          BY <4>2, <5>1
      <4>4. started'[Xfer(s)'].buf # r_bufs'[s]
        BY <1>2, <3>1, <3>2, <4>3
      <4> QED
        BY <2>3, <2>4, <2>5, <3>1, <3>2, <3>4, <4>1, <4>4 DEF AtBlock, InStream
    <3> QED
      BY <3>1, <3>3, <3>4
  <2>7. CASE StartXfer(r)
    <3>1. /\ pc[r] = "start" /\ pc'[r] = "bytes" /\ UNCHANGED r_xfers
          /\ r_bufs'[s] = s_buf[r_xfers[s] % XFERS]
      BY <1>1, <1>t, <1>5, <2>7, ReaderTypes DEF StartXfer, Goto
    <3>2. r_states[s] = "DISCON" /\ Held(s) /\ Xfer(s)' = n
      BY <1>1, <1>5, <3>1, HolderConnected, HeldBy DEF HeldPcs, Xfer
    <3>3. started[n].buf = s_buf[r_xfers[s] % XFERS]
      <4>1. n <= Len(started)
        BY <1>1, <1>5, <3>2 DEF ReadPlace, ReadPlaceOf, Xfer
      <4>2. r_xfers[s] \in Nat /\ Len(started) \in Nat /\ n = r_xfers[s] + 1
        BY <1>1, <1>5, ReaderTypes, Numbers DEF Xfer
      <4>3. n \in r_xfers[s] + 1 .. Len(started) /\ n - 1 = r_xfers[s]
        BY <4>1, <4>2
      <4>4. ReadStarted(s) = r_xfers[s] /\ ~Resetting
        BY <1>1, <3>2 DEF ReadStarted, AckInv, NeverReset, Resetting
      <4> QED
        BY <1>1, <4>3, <4>4 DEF XferSlotValid
    <3>4. started'[Xfer(s)'].buf = r_bufs'[s]
      BY <1>2, <3>1, <3>2, <3>3
    <3> QED
      BY <2>3, <2>4, <2>5, <3>1, <3>2, <3>4 DEF AtBlock, InStream
  <2>8. CASE GetBytes(r)
    <3>1. /\ pc[r] = "bytes" /\ pc'[r] = "hold"
          /\ UNCHANGED <<r_bufs, r_xfers, r_states>>
      BY <1>t, <2>8 DEF GetBytes, Goto, rsync
    <3>2. /\ n <= Len(started) /\ r_bufs[s] < w_buf_curr
      BY <1>1, <1>5, <3>1, ReaderInside, ReaderTypes, Numbers DEF Xfer
    <3>3. Xfer(s)' = n
      BY <1>5, <3>1 DEF Xfer
    <3>4. /\ StreamNext(s) = [xfer |-> n,
                              buf |-> IF started[n].buf = r_bufs[s]
                                      THEN -1 ELSE r_bufs[s]]
          /\ StreamNext(s)' = StreamNext(s)
          /\ StreamView(s) = [held |-> FALSE]
          /\ StreamView(s)' = [held |-> TRUE, xfer |-> n,
                               data |-> r_bufs[s], bytes |-> bytes'[r]]
      BY <1>2, <1>5, <2>3, <2>4, <3>1, <3>3 DEF InStream
    <3>5. bytes'[r] = TrueBytes(s)
      <4>1. bytes'[r] = TrueBytes(s)'
        BY <1>1, <1>5, <3>1 DEF KnowsBlock
      <4> QED
        BY <1>2, <3>1, <4>1 DEF TrueBytes
    <3>6. Stream!Due(s) = r_bufs[s]
      <4>1. r_bufs[s] \in Nat
        BY <1>1, ReaderTypes
      <4> QED
        BY <3>4, <4>1 DEF Stream!Due
    <3>7. Stream!Share(n, r_bufs[s]) = TrueBytes(s)
      BY <1>5 DEF Stream!Share, Stream!IsLast, TrueBytes, Xfer
    <3>8. [t \in Slots |-> StreamNext(t)]' = [t \in Slots |-> StreamNext(t)]
      BY <2>2, <3>4
    <3>9. [t \in Slots |-> StreamView(t)]'
            = [[t \in Slots |-> StreamView(t)] EXCEPT ![s] =
                 [held |-> TRUE, xfer |-> n, data |-> r_bufs[s],
                  bytes |-> TrueBytes(s)]]
      BY <2>2, <3>4, <3>5
    <3>10. StreamNext(s).xfer = n /\ StreamView(s) = [held |-> FALSE]
      BY <3>4
    <3>11. Stream!Take(s)
      BY <1>2, <3>2, <3>6, <3>7, <3>8, <3>9, <3>10
         DEF Stream!Take, Stream!None
    <3> QED
      BY <3>11 DEF Stream!Next
  <2>9. CASE MarkCleared(r)
    <3>1. /\ pc[r] = "hold" /\ pc'[r] = "cleared"
          /\ UNCHANGED <<r_bufs, r_xfers, r_states>>
      BY <1>t, <2>9 DEF MarkCleared, Goto, rsync
    <3>2. Xfer(s)' = n
      BY <1>5, <3>1 DEF Xfer
    <3>3. TrueLast(Xfer(s), r_bufs[s])' <=> TrueLast(n, r_bufs[s])
      BY <1>2, <3>1, <3>2 DEF TrueLast
    <3>4. /\ StreamNext(s) = [xfer |-> n,
                              buf |-> IF started[n].buf = r_bufs[s]
                                      THEN -1 ELSE r_bufs[s]]
          /\ StreamNext(s)' = IF TrueLast(n, r_bufs[s])
                              THEN [xfer |-> n + 1, buf |-> -1]
                              ELSE [xfer |-> n, buf |-> r_bufs[s] + 1]
          /\ StreamView(s).held
          /\ StreamView(s)' = [held |-> FALSE]
      BY <1>5, <2>3, <2>4, <3>1, <3>2, <3>3 DEF InStream
    <3>5. Stream!Due(s) = r_bufs[s]
      <4>1. r_bufs[s] \in Nat
        BY <1>1, ReaderTypes
      <4> QED
        BY <3>4, <4>1 DEF Stream!Due
    <3>6. StreamView(s) # [held |-> FALSE]
      BY <3>4
    <3>7. [t \in Slots |-> StreamView(t)]'
            = [[t \in Slots |-> StreamView(t)] EXCEPT ![s] = [held |-> FALSE]]
      BY <2>2, <3>4
    <3>8. [t \in Slots |-> StreamNext(t)]'
            = [[t \in Slots |-> StreamNext(t)] EXCEPT ![s] =
                 IF TrueLast(n, r_bufs[s])
                 THEN [xfer |-> n + 1, buf |-> -1]
                 ELSE [xfer |-> n, buf |-> r_bufs[s] + 1]]
      BY <2>2, <3>4
    <3>9. StreamNext(s).xfer = n
      BY <3>4
    <3>10. Stream!Release(s)
      BY <1>2, <3>5, <3>6, <3>7, <3>8, <3>9
         DEF Stream!Release, Stream!None, Stream!AtStart, Stream!IsLast,
             TrueLast
    <3> QED
      BY <3>10 DEF Stream!Next
  <2>10. CASE Advance(r)
    <3>1. pc[r] = "cleared" /\ pc'[r] = "ready"
      BY <1>t, <2>10 DEF Advance, Goto
    <3>2. /\ r_states[s] = "READING" /\ r_xfers[s] \in Nat
          /\ AtEod(r) <=> TrueLast(n, r_bufs[s])
      <4>1. r_states[s] = "READING" /\ r_xfers[s] \in Nat
        BY <1>1, <1>5, <3>1, ReaderInside, ReaderTypes
      <4>2. AtEod(r) <=> n <= Len(ended) /\ ended[n].buf = r_bufs[s]
        BY <1>5, <3>1, AtEodIff DEF Xfer, RingInv, ReadInv
      <4> QED
        BY <4>1, <4>2 DEF TrueLast
    <3>3. CASE AtEod(r)
      <4>1. r_states'[s] = "DISCON" /\ r_xfers'[s] = n
        BY <1>1, <1>5, <2>10, <3>3, ReaderTypes DEF Advance, Xfer
      <4> QED
        BY <2>3, <2>4, <2>5, <3>1, <3>2, <3>3, <4>1, <1>5
           DEF AtBlock, InStream, Xfer
    <3>4. CASE ~AtEod(r)
      <4>1. /\ r_states'[s] = "READING" /\ r_xfers'[s] = r_xfers[s]
            /\ r_bufs'[s] = r_bufs[s] + 1
        BY <1>1, <1>5, <2>10, <3>2, <3>4, ReaderTypes DEF Advance
      <4> QED
        BY <2>3, <2>4, <2>5, <3>1, <3>2, <3>4, <4>1, <1>5
           DEF AtBlock, InStream, Xfer
    <3> QED
      BY <3>3, <3>4
  <2> QED
    BY <1>5, <2>6, <2>7, <2>8, <2>9, <2>10
<1> QED
  BY <1>1, <1>4, <1>5, ReaderCases

-----------------------------------------------------------------------------
(* The bounds of the arguments are those their callers check. *)
LEMMA SizesFitStep ==
  ASSUME MaxReset = 0, AckInv, SizesFit, [Next]_vars
  PROVE  SizesFit'
<1>1. arg \in [Writers -> [buf : Nat, nbytes : Nat]] /\ BufSz \in Nat
  BY WriterTypes, SizesAssumption
<1>2. CASE UNCHANGED vars
  BY <1>2 DEF vars, wproc, SizesFit
<1>3. ASSUME NEW r \in Readers, ReadStep(r)
      PROVE  SizesFit'
  BY <1>3, ReaderFrame DEF wproc, SizesFit
<1>4. ASSUME NEW w \in Writers, CallOrStep(w)
      PROVE  SizesFit'
  <2>1. \A v \in Writers : v # w => arg'[v] = arg[v]
    BY <1>4, WriterFrame
  <2>2. arg'[w].nbytes <= BufSz
    <3>1. CASE UNCHANGED arg
      BY <3>1 DEF SizesFit
    <3>2. ASSUME NEW b, NEW y, NEW caller, CallEnableSod(w, caller, b, y)
          PROVE  arg'[w].nbytes <= BufSz
      BY <1>1, <3>2 DEF CallEnableSod, SodAccepted
    <3>3. ASSUME NEW k \in 0 .. BufSz, MarkFilled(w, k), arg' # arg
          PROVE  arg'[w].nbytes <= BufSz
      BY <1>1, <3>3 DEF MarkFilled
    <3>4. \/ UNCHANGED arg
          \/ \E b, y, caller : CallEnableSod(w, caller, b, y)
          \/ \E k \in 0 .. BufSz : MarkFilled(w, k) /\ arg' # arg
      BY <1>4
         DEF CallOrStep, LockWrite, UnlockWrite, EnableEod, DisableSod,
             SetSoclockBuf, EnableSod, GetNextWrite, ZeroNextWrite, SodAck,
             SodSet, SodFull, Drain, TakeBlock, EodAck, EodSet, Fill, PostFull,
             wproc
    <3> QED
      BY <3>1, <3>2, <3>3, <3>4
  <2> QED
    BY <2>1, <2>2 DEF SizesFit
<1> QED
  BY <1>2, <1>3, <1>4, StepSplit

LEMMA StreamStep ==
  ASSUME RingClients, StreamInv, [Next]_vars
  PROVE  StreamInv' /\ [Stream!Next]_Stream!vars
<1>1. /\ RingInv /\ RingInv' /\ SizesFit /\ AckInv /\ MaxReset = 0
  BY RingStep
     DEF StreamInv, RingClients, RingInv, ReadInv, LayoutInv, TableInv
<1>2. SizesFit'
  BY <1>1, SizesFitStep
<1>3. ASSUME UNCHANGED vars
      PROVE  UNCHANGED Stream!vars
  <2> USE <1>3 DEF vars, wsync, rsync, rproc, ghost
  <2>1. ASSUME NEW s \in Slots
        PROVE  StreamNext(s)' = StreamNext(s) /\ StreamView(s)' = StreamView(s)
    <3>1. /\ \A pcs : ReaderAt(s, pcs)' <=> ReaderAt(s, pcs)
          /\ Resetting' <=> Resetting
          /\ \A n, b : TrueLast(n, b)' <=> TrueLast(n, b)
      BY DEF ReaderAt, Resetting, TrueLast
    <3>2. StreamNext(s)' = StreamNext(s)
      BY <3>1 DEF StreamNext
    <3>3. StreamView(s)' = StreamView(s)
      BY DEF StreamView
    <3> QED
      BY <3>2, <3>3
  <2> QED
    BY <2>1 DEF Stream!vars
<1>4. [Stream!Next]_Stream!vars
  BY <1>1, <1>3, StepSplit, WriterStreams, ReaderStreams
<1> QED
  BY <1>1, <1>2, <1>4 DEF StreamInv

LEMMA StreamInit == Init => StreamInv /\ Stream!Init
<1> SUFFICES ASSUME Init
             PROVE  StreamInv /\ Stream!Init
  OBVIOUS
<1>1. RingInv /\ Mapped
  BY RingInit, MappingFinds
<1>2. SizesFit
  BY SizesAssumption DEF Init, SizesFit, NoArg
<1>3. \A s \in Slots : /\ StreamView(s) = [held |-> FALSE]
                       /\ StreamNext(s) = [xfer |-> 1, buf |-> -1]
  <2>1. \A s : Between(s)
    BY DEF Init, Between, AtBlock, Procs
  <2>2. \A s \in Slots : Xfer(s) = 1 /\ r_states[s] = "DISCON"
    BY DEF Init, Xfer
  <2> QED
    BY <1>1, <2>1, <2>2 DEF Mapped, BetweenMapped
<1>4. Stream!Init
  BY <1>3 DEF Init, Stream!Init, Stream!None, Stream!AtStart
<1> QED
  BY <1>1, <1>2, <1>4 DEF StreamInv

(* Every reader receives every transfer, in order, from its start to its end, *)
(* one block at a time, each with its own data and its true size, and only    *)
(* after the block was filled: for every number of processes, of reader       *)
(* slots, of blocks and of entries of the table, through every interleaving   *)
(* of the semaphore operations of ipcbuf.c.                                  *)
THEOREM RingDeliversStream ==
  ASSUME RingClients
  PROVE  Spec => StreamSpec
<1>1. Init => StreamInv /\ Stream!Init
  BY StreamInit
<1>2. StreamInv /\ [Next]_vars => StreamInv' /\ [Stream!Next]_Stream!vars
  BY StreamStep
<1> QED
  BY <1>1, <1>2, PTL DEF Spec, StreamSpec, Stream!Spec

-----------------------------------------------------------------------------
(* Induction without an operator parameter: the least counterexample. *)
LEMMA LeastMember ==
  ASSUME NEW T, T \subseteq Nat, T # {}
  PROVE  \E x \in T : \A y \in T : x <= y
<1>1. PICK x \in T : \A y \in T : ~(<<y, x>> \in OpToRel(<, Nat))
  BY NatLessThanWellFounded, WFMin, Zenon
<1>2. \A y \in T : <<y, x>> \in OpToRel(<, Nat) <=> y < x
  BY Zenon DEF OpToRel
<1>3. \A y \in T : ~(y < x)
  BY <1>1, <1>2
<1>4. x \in Nat /\ \A y \in T : y \in Nat
  OBVIOUS
<1> QED
  BY <1>3, <1>4

(* The sum TokensConserved speaks of, and the members of W that p maps to k. *)
Total(c) == FoldFunction(LAMBDA a, b : a + b, 0, c)
Fibre(W, p, k) == {b \in W : p[b] = k}

(* The sum of c over S, when each c[k] counts the members of W mapped to k.  *)
(* The fold's recursion has a solution, because Cardinality(In(s)) is one;   *)
(* whichever solution CHOOSE picks agrees with it, by the smallest set on     *)
(* which it would not.                                                       *)
LEMMA SumIsCount ==
  ASSUME NEW c, NEW S, DOMAIN c = S, IsFiniteSet(S),
         NEW W, IsFiniteSet(W), NEW p, 
         \A b \in W : p[b] \in S,
         \A k \in S : c[k] = Cardinality(Fibre(W, p, k))
  PROVE  Total(c) = Cardinality(W)
<1> DEFINE In(s) == {b \in W : p[b] \in s}
           step(g, s) == IF s = {} THEN 0
                         ELSE c[CHOOSE x \in s : TRUE] + g[s \ {CHOOSE x \in s : TRUE}]
           iter == CHOOSE g : g = [s \in SUBSET S |-> step(g, s)]
           total == [s \in SUBSET S |-> Cardinality(In(s))]
<1>1. Total(c) = iter[S]
  BY DEF Total, FoldFunction, FoldFunctionOnSet, MapThenFoldSet
<1>2. \A s \in SUBSET S : IsFiniteSet(In(s)) /\ Cardinality(In(s)) \in Nat
  BY FS_Subset, FS_CardinalityType
<1>3. ASSUME NEW s \in SUBSET S, NEW x \in s
      PROVE  Cardinality(In(s)) = c[x] + Cardinality(In(s \ {x}))
  <2>1. In(s) = In({x}) \cup In(s \ {x}) /\ In({x}) \cap In(s \ {x}) = {}
    OBVIOUS
  <2>2. In({x}) = Fibre(W, p, x)
    BY DEF Fibre
  <2> HIDE DEF In
  <2>3. /\ IsFiniteSet(In({x})) /\ Cardinality(In({x})) \in Nat
        /\ IsFiniteSet(In(s \ {x})) /\ Cardinality(In(s \ {x})) \in Nat
    BY <1>2
  <2>4. Cardinality(In(s)) = Cardinality(In({x})) + Cardinality(In(s \ {x})) - Cardinality(In({x}) \cap In(s \ {x}))
    BY <2>1, <2>3, FS_Union
  <2>5. Cardinality(In({x}) \cap In(s \ {x})) = 0
    BY <2>1, FS_EmptySet
  <2>6. c[x] = Cardinality(In({x}))
    BY <2>2
  <2> QED
    BY <2>3, <2>4, <2>5, <2>6
<1>4. total = [s \in SUBSET S |-> step(total, s)]
  <2>1. ASSUME NEW s \in SUBSET S PROVE Cardinality(In(s)) = step(total, s)
    <3>1. CASE s = {}
      BY <3>1, FS_EmptySet
    <3>2. CASE s # {}
      <4>1. PICK x \in s : x = CHOOSE y \in s : TRUE
        BY <3>2
      <4>2. total[s \ {x}] = Cardinality(In(s \ {x}))
        BY <4>1
      <4>3. step(total, s) = c[x] + total[s \ {x}]
        BY <3>2, <4>1
      <4> QED
        BY <1>3, <4>1, <4>2, <4>3
    <3> QED
      BY <3>1, <3>2
  <2> HIDE DEF step, In
  <2> QED
    BY <2>1
<1>5. iter = [s \in SUBSET S |-> step(iter, s)]
  BY <1>4
<1>6. \A s \in SUBSET S : iter[s] = Cardinality(In(s))
  <2> DEFINE Bad == {m \in Nat : \E s \in SUBSET S : Cardinality(s) = m /\ iter[s] # Cardinality(In(s))}
  <2> SUFFICES Bad = {}
    <3>1. \A s \in SUBSET S : Cardinality(s) \in Nat
      BY FS_Subset, FS_CardinalityType
    <3> QED
      BY <3>1
  <2> SUFFICES ASSUME Bad # {} PROVE FALSE
    OBVIOUS
  <2>1. PICK m \in Bad : \A k \in Bad : m <= k
    BY LeastMember
  <2>2. PICK s \in SUBSET S : Cardinality(s) = m /\ iter[s] # Cardinality(In(s))
    OBVIOUS
  <2> HIDE DEF iter
  <2>3. iter[s] = step(iter, s)
    BY <1>5
  <2>4. s # {}
    BY <2>2, <2>3, FS_EmptySet
  <2>5. PICK x \in s : x = CHOOSE y \in s : TRUE
    BY <2>4
  <2>6. iter[s] = c[x] + iter[s \ {x}]
    BY <2>3, <2>4, <2>5
  <2>7. Cardinality(s \ {x}) = m - 1 /\ Cardinality(s \ {x}) \in Nat /\ s \ {x} \in SUBSET S
    BY <2>2, <2>5, FS_RemoveElement, FS_Subset, FS_CardinalityType
  <2>8. m - 1 \notin Bad
    <3>1. m \in Nat /\ m - 1 \in Nat
      BY <2>7
    <3> HIDE DEF Bad
    <3> QED
      BY <2>1, <3>1
  <2>9. iter[s \ {x}] = Cardinality(In(s \ {x}))
    BY <2>7, <2>8
  <2> QED
    BY <1>3, <2>2, <2>5, <2>6, <2>9
<1> QED
  <2>1. In(S) = W
    OBVIOUS
  <2> HIDE DEF iter, In
  <2> QED
    BY <1>1, <1>6, <2>1

-----------------------------------------------------------------------------
(* Two adjoining stretches of the line. *)
LEMMA SplitAmong ==
  ASSUME NEW B, NEW from \in Int, NEW mid \in Int, NEW to \in Int,
         from <= mid, mid <= to
  PROVE  HowMany(B, from, to) = HowMany(B, from, mid) + HowMany(B, mid, to)
<1> DEFINE L == Among(B, from, mid)
           R == Among(B, mid, to)
<1>1. Among(B, from, to) = L \cup R /\ L \cap R = {}
  BY DEF Among
<1>2. /\ IsFiniteSet(L) /\ HowMany(B, from, mid) \in Nat
      /\ IsFiniteSet(R) /\ HowMany(B, mid, to) \in Nat
  BY AmongFinite
<1> HIDE DEF L, R
<1>3. Cardinality(L \cup R) = Cardinality(L) + Cardinality(R) - Cardinality(L \cap R)
  BY <1>2, FS_Union
<1>4. Cardinality(L \cap R) = 0
  BY <1>1, FS_EmptySet
<1>5. HowMany(B, from, mid) = Cardinality(L) /\ HowMany(B, mid, to) = Cardinality(R)
  BY DEF HowMany, L, R
<1> QED
  BY <1>1, <1>2, <1>3, <1>4, <1>5 DEF HowMany

(* Among n successive numbers every remainder occurs. *)
LEMMA PlaceTaken ==
  ASSUME NEW n \in Nat \ {0}, NEW a \in Int, NEW k \in 0 .. n - 1
  PROVE  \E b \in a .. a + n - 1 : b % n = k
<1> DEFINE q == (k - a) \div n
           r == (k - a) % n
<1>1. k - a \in Int
  OBVIOUS
<1>2. q \in Int /\ k - a = n * q + r /\ r \in 0 .. n - 1
  BY <1>1, ModQuotient, ModRange
<1> HIDE DEF q, r
<1>3. -q \in Int /\ n * (-q) = - (n * q)
  BY <1>2
<1>4. a + r \in Int /\ a + r = n * (-q) + k
  BY <1>2, <1>3
<1>5. ASSUME NEW j \in Int, NEW c \in Int, c = n * j + k
      PROVE  c % n = k
  BY <1>5
<1>6. (a + r) % n = k
  BY <1>3, <1>4, <1>5
<1> QED
  BY <1>2, <1>6

(* What count[] adds up to: the used blocks that were not taken back. *)
LEMMA SumOfCounts ==
  ASSUME RingInv
  PROVE  Total(count) = HowMany(UsedBlocks, DrainFrom, w_buf_curr)
<1> USE DEF RingInv, BlockInv
<1> DEFINE W == Among(UsedBlocks, DrainFrom, w_buf_curr)
           p == [b \in W |-> b % NBufs]
<1>1. /\ NBufs \in Nat \ {0} /\ w_buf_next \in Nat /\ w_buf_curr \in Nat
      /\ Oldest \in Int /\ w_buf_curr <= w_buf_next
      /\ DrainFrom \in {Oldest, Oldest + 1} /\ DrainFrom \in Int
      /\ count \in [Ring -> Nat] /\ Oldest = w_buf_next - NBufs
      /\ Ring = 0 .. NBufs - 1
  BY BlockTypes DEF Oldest, Ring
<1>2. IsFiniteSet(W) /\ IsFiniteSet(Ring)
  BY <1>1, AmongFinite, FS_Interval
<1>3. \A b \in W : b \in Oldest .. w_buf_next - 1
  BY <1>1 DEF Among
<1>4. \A b \in W : p[b] \in Ring
  BY <1>3, OwnPlace
<1>5. ASSUME NEW k \in Ring
      PROVE  count[k] = Cardinality(Fibre(W, p, k))
  <2>1. PICK b \in Oldest .. w_buf_next - 1 : b % NBufs = k
    <3>1. PICK b \in Oldest .. Oldest + NBufs - 1 : b % NBufs = k
      BY <1>1, PlaceTaken
    <3>2. b \in Oldest .. w_buf_next - 1
      <4>1. Oldest + NBufs - 1 = w_buf_next - 1
        BY <1>1
      <4> QED
        BY <4>1
    <3> QED
      BY <3>1, <3>2
  <2>2. {d \in W : p[d] = k} = IF b \in W THEN {b} ELSE {}
    BY <1>3, <2>1, OwnPlace
  <2>3. b \in W <=> b >= DrainFrom /\ b \in UsedBlocks
    BY <1>1, UsedRange DEF Among, ReadInv, LayoutInv, TableInv
  <2>4. count[k] = IF b \in W THEN 1 ELSE 0
    BY <2>1, <2>3 DEF Counts
  <2> QED
    BY <2>2, <2>4, FS_EmptySet, FS_Singleton DEF Fibre
<1>6. DOMAIN count = Ring
  BY <1>1
<1>7. Total(count) = Cardinality(W)
  <2>1. PICK P, Q : P = W /\ Q = p
    OBVIOUS
  <2>2. /\ IsFiniteSet(P)
        /\ \A b \in P : Q[b] \in Ring
        /\ \A k \in Ring : count[k] = Cardinality(Fibre(P, Q, k))
    BY <1>2, <1>4, <1>5, <2>1
  <2> HIDE DEF W, p
  <2>3. Total(count) = Cardinality(P)
    BY <1>2, <1>6, <2>2, SumIsCount
  <2> QED
    BY <2>1, <2>3
<1> QED
  BY <1>7 DEF HowMany

(* The tokens of a slot are the used blocks that were not taken back, those   *)
(* the reader is done with and those it is not.                             *)
LEMMA TokensOfSlot ==
  ASSUME RingInv, NEW s \in Slots
  PROVE  FULL[s] + InHand(s) + CLEAR[s] + Unposted(s) + Drained(s)
           = HowMany(UsedBlocks, DrainFrom, w_buf_curr)
<1> USE DEF RingInv, BlockInv, ReadInv, LayoutInv, TableInv
<1> DEFINE U == UsedBlocks
           D == NextDue(s)
           V == NextUncleared(s)
           C == w_buf_curr
<1>1. /\ D \in Nat /\ V \in Nat /\ V <= C /\ C \in Nat /\ DrainFrom \in Int
      /\ FULL[s] \in Nat /\ Unposted(s) \in Nat /\ CLEAR[s] \in Nat
      /\ Drained(s) \in {0, 1}
  BY UnclearedType, BlockTypes, UnpostedType, ReaderTypes
<1>2. FULL[s] + Unposted(s) + InHand(s) = HowMany(U, V, C)
  <2>1. FULL[s] + Unposted(s) + (IF Held(s) THEN 1 ELSE 0) = HowMany(U, D, C)
    BY DEF FullTokens
  <2>2. CASE Cleared(s)
    <3>1. PICK r \in Readers : iread[r] = s /\ pc[r] = "cleared"
      BY <2>2 DEF Cleared
    <3>2. Held(s) /\ D \in U /\ D < C
      BY <3>1, ReaderInside
    <3>3. InHand(s) = 0
      <4>1. Connected(r) /\ \A q \in Readers : iread[q] = s /\ pc[q] \in HeldPcs => q = r
        BY <3>1, HolderConnected DEF AckInv, LockInv, Exclusive, HeldPcs
      <4> QED
        BY <3>1, <4>1 DEF InHand, ReaderAt, HeldPcs
    <3>4. HowMany(U, D, C) = HowMany(U, D + 1, C) + 1
      BY <1>1, <3>2, FirstAmong
    <3>5. V = D + 1
      BY <2>2 DEF NextUncleared
    <3>6. HowMany(U, D + 1, C) \in Nat
      BY <1>1, AmongFinite
    <3> QED
      BY <1>1, <2>1, <3>2, <3>3, <3>4, <3>5, <3>6
  <2>3. CASE ~Cleared(s)
    <3>1. InHand(s) = IF Held(s) THEN 1 ELSE 0
      BY <2>3 DEF InHand, ReaderAt, Held, HeldPcs, Cleared
    <3>2. V = D
      BY <2>3 DEF NextUncleared
    <3> QED
      BY <1>1, <2>1, <3>1, <3>2
  <2> QED
    BY <2>2, <2>3
<1>3. CLEAR[s] + Drained(s) = HowMany(U, DrainFrom, V)
  BY DEF ClearTokens
<1>4. InHand(s) \in {0, 1}
  BY DEF InHand
<1>5. HowMany(U, V, C) + HowMany(U, DrainFrom, V) = HowMany(U, DrainFrom, C)
  <2>n. /\ HowMany(U, V, C) \in Nat /\ HowMany(U, DrainFrom, V) \in Nat
        /\ HowMany(U, DrainFrom, C) \in Nat
    BY <1>1, AmongFinite
  <2>1. CASE DrainFrom <= V
    <3>1. HowMany(U, DrainFrom, C) = HowMany(U, DrainFrom, V) + HowMany(U, V, C)
      BY <1>1, <2>1, SplitAmong
    <3> QED
      BY <2>n, <3>1
  <2>2. CASE V < DrainFrom
    <3>1. Among(U, V, DrainFrom) = {}
      BY DEF NoneLost
    <3>2. Among(U, V, C) = Among(U, DrainFrom, C)
      BY <1>1, <2>2, <3>1, SkipNone
    <3>3. Among(U, DrainFrom, V) = {}
      BY <1>1, <2>2 DEF Among
    <3>4. HowMany(U, DrainFrom, V) = 0
      BY <1>1, <3>3, AmongEmpty
    <3> QED
      BY <2>n, <3>2, <3>4 DEF HowMany
  <2> QED
    BY <1>1, <2>1, <2>2
<1>6. HowMany(U, V, C) \in Nat /\ HowMany(U, DrainFrom, V) \in Nat
  BY <1>1, AmongFinite
<1> QED
  BY <1>1, <1>2, <1>3, <1>4, <1>5, <1>6

(* No two writers are on their way at once. *)
LEMMA InFlightIs ==
  ASSUME RingInv, NEW s \in Slots
  PROVE  InFlight(s) = Unposted(s) + Drained(s)
<1> USE DEF RingInv, ReadInv, LayoutInv, TableInv
<1>1. ASSUME NEW v \in Writers, NEW w \in Writers,
             pc[v] \in {"sod_full", "full", "clear"},
             pc[w] \in {"sod_full", "full", "clear"}
      PROVE  v = w
  BY <1>1 DEF AckInv, LockInv, Control, Exclusive
<1>2. Unposted(s) \in Nat
  BY UnpostedType
<1>3. CASE \E w \in Writers : pc[w] = "clear" /\ s < ir[w]
  <2>1. Unposted(s) = 0 /\ Drained(s) = 1 /\ InFlight(s) = 1
    BY <1>1, <1>3 DEF Unposted, Drained, InFlight
  <2> QED
    BY <2>1
<1>4. CASE ~\E w \in Writers : pc[w] = "clear" /\ s < ir[w]
  <2>1. Drained(s) = 0
    BY <1>4 DEF Drained
  <2>2. CASE \E w \in Writers : pc[w] = "sod_full" /\ s >= ir[w]
    <3>1. ~\E w \in Writers : pc[w] = "full" /\ s >= ir[w]
      BY <1>1, <2>2
    <3> QED
      BY <1>2, <1>4, <2>1, <2>2, <3>1 DEF Unposted, InFlight
  <2>3. CASE /\ ~\E w \in Writers : pc[w] = "sod_full" /\ s >= ir[w]
             /\ \E w \in Writers : pc[w] = "full" /\ s >= ir[w]
    BY <1>2, <1>4, <2>1, <2>3 DEF Unposted, InFlight
  <2>4. CASE /\ ~\E w \in Writers : pc[w] = "sod_full" /\ s >= ir[w]
             /\ ~\E w \in Writers : pc[w] = "full" /\ s >= ir[w]
    BY <1>2, <1>4, <2>1, <2>4 DEF Unposted, InFlight
  <2> QED
    BY <2>2, <2>3, <2>4
<1> QED
  BY <1>3, <1>4

(* No token is lost and none is made up: what count[] says is pending is, for *)
(* every reader slot, in FULL, in the hands of the reader, in CLEAR, or in the *)
(* writer's, at every step of the loops of ipcbuf_enable_sod,                 *)
(* ipcbuf_mark_filled and ipcbuf_get_next_write over the readers.             *)
THEOREM RingConservesTokens ==
  ASSUME RingClients
  PROVE  Spec => []TokensConserved
<1>1. RingInv => TokensConserved
  <2> DEFINE total == Total(count)
  <2> SUFFICES ASSUME RingInv, NEW s \in Slots
               PROVE  FULL[s] + InHand(s) + CLEAR[s] + InFlight(s) = total
    BY DEF TokensConserved, Total
  <2>1. /\ FULL[s] \in Nat /\ CLEAR[s] \in Nat /\ InHand(s) \in Nat
        /\ Unposted(s) \in Nat /\ Drained(s) \in Nat
    <3>1. AckInv /\ LayoutInv
      BY DEF RingInv, ReadInv, LayoutInv, TableInv
    <3>2. FULL[s] \in Nat /\ CLEAR[s] \in Nat
      BY <3>1, ReaderTypes
    <3>3. Unposted(s) \in Nat
      BY <3>1, UnpostedType
    <3>4. InHand(s) \in Nat /\ Drained(s) \in Nat
      BY DEF InHand, Drained
    <3> QED
      BY <3>2, <3>3, <3>4
  <2>2. FULL[s] + InHand(s) + CLEAR[s] + Unposted(s) + Drained(s) = total
    BY TokensOfSlot, SumOfCounts
  <2>3. InFlight(s) = Unposted(s) + Drained(s)
    BY InFlightIs
  <2> HIDE DEF total
  <2> QED
    BY <2>1, <2>2, <2>3
<1> QED
  BY <1>1, RingInvariant, PTL
=============================================================================
