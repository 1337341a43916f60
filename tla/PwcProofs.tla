------------------------------ MODULE PwcProofs -----------------------------
(***************************************************************************)
(* Five theorems about the control of a primary write client, for every      *)
(* number of clients, commands, blocks and buffers.                          *)
(*                                                                         *)
(* ErrorsStay is an action property: all that has to be known of the state    *)
(* is that dada_pwc_t has its fields (Shape).                                *)
(*                                                                         *)
(* MainAwake holds if there is only one client.  Its inductive strengthening  *)
(* AwakeInv says in addition who may be waiting, and where the transfer       *)
(* thread is when it waits.                                                  *)
(*                                                                         *)
(* StateMatchesData needs to know, of every place where the transfer thread   *)
(* can be, how it has the data block open and what the state is there         *)
(* (MatchInv), and that no block is ever left open (NoBlocksOpen), so that    *)
(* closing the data block closes none.                                       *)
(*                                                                         *)
(* TypeOK has the strengthening TypeInv.  That no call on the Header Block    *)
(* fails needs that it is handed over only after it was taken (HeaderBlock).  *)
(* The types of the Data Block need that its table of transfers has a slot    *)
(* open exactly while its writer is WRITING (RingType); that no token count   *)
(* is negative follows from the guards of the waits.  The numbers of a        *)
(* transfer need to_write to be what is left up to the byte of the command,   *)
(* and 0 where the rest of a buffer is written (TransferType).                *)
(*                                                                         *)
(* ErrorsExplained holds for one client that keeps the rules (Careful).       *)
(* ExplainInv says, of every place of the transfer thread, where the handle   *)
(* is in the ring (Position) and that what has been commanded can still be    *)
(* carried out there (Posted), so that no call on either block fails.         *)
(***************************************************************************)
EXTENDS PwcMain, TLAPS, FiniteSetTheorems

Shape == "state" \in DOMAIN pwc /\ "command" \in DOMAIN pwc

(* What a step may do to the state: part of ErrorsStay. *)
Stays ==
  pwc.state \in Errors /\ pwc'.state # pwc.state =>
    m.pc = "handle" /\ m.command.code \in {"reset", "stop"}

-----------------------------------------------------------------------------
(* dada_pwc_set_state *)

(* It leaves dada_pwc_t with its fields, and the command in the slot alone. *)
LEMMA SetStateShape ==
  ASSUME NEW p, "state" \in DOMAIN p, "command" \in DOMAIN p, NEW new, NEW utc
  PROVE  LET q == dada_pwc_set_state(p, new, utc) IN
         /\ "state" \in DOMAIN q
         /\ "command" \in DOMAIN q
         /\ q.command = p.command
  BY DEF dada_pwc_set_state

(* An error state can be left for idle only. *)
LEMMA Refused ==
  ASSUME NEW p, p.state \in Errors, NEW new, new # "idle", NEW utc
  PROVE  dada_pwc_set_state(p, new, utc) = p
<1>1. ~MayChange(p.state, new)
  BY DEF MayChange, Errors
<1> QED
  BY <1>1 DEF dada_pwc_set_state

(* dada_pwc_main_process_error asks for an error state. *)
LEMMA ErrorStateIsError == \A state, rval : ErrorState(state, rval) # "idle"
  BY DEF ErrorState

(* The steps that set the state, other than for reset or stop. *)
LEMMA SetStateStays ==
  ASSUME Shape, NEW p, "state" \in DOMAIN p, "command" \in DOMAIN p,
         p.state = pwc.state, NEW new, new # "idle", NEW utc,
         SetState(p, new, utc)
  PROVE  Shape' /\ Stays
<1>1. Shape'
  BY SetStateShape DEF SetState, Shape
<1>2. Stays
  BY Refused DEF SetState, Stays
<1> QED
  BY <1>1, <1>2

LEMMA ErrorStays ==
  ASSUME Shape, NEW rval, NEW pc, Error(pwc, rval, pc)
  PROVE  Shape' /\ Stays
  BY SetStateStays, ErrorStateIsError DEF Error, Shape

(* ... and those that do not touch it. *)
LEMMA SameStays ==
  ASSUME Shape, "state" \in DOMAIN pwc', "command" \in DOMAIN pwc',
         pwc'.state = pwc.state
  PROVE  Shape' /\ Stays
  BY DEF Shape, Stays

LEMMA CommandGotShape ==
  ASSUME Shape
  PROVE  LET q == CommandGot(pwc) IN
         /\ "state" \in DOMAIN q
         /\ "command" \in DOMAIN q
         /\ q.state = pwc.state
  BY DEF CommandGot, Shape

-----------------------------------------------------------------------------
(* The clients never change the state. *)
LEMMA ClientStays ==
  ASSUME Shape, NEW c \in Clients, Send(c) \/ Command(c)
  PROVE  Shape' /\ Stays /\ pwc'.state = pwc.state
<1>1. ASSUME NEW cmd, NEW p, Begin(c, cmd, p),
             "state" \in DOMAIN p, "command" \in DOMAIN p, p.state = pwc.state
      PROVE  Shape' /\ Stays /\ pwc'.state = pwc.state
  BY <1>1, SameStays DEF Begin
<1>2. ASSUME Send(c) PROVE Shape' /\ Stays /\ pwc'.state = pwc.state
  <2>1. ASSUME NEW h \in Headers, cmd_header(c, h) PROVE Shape' /\ Stays /\ pwc'.state = pwc.state
    BY <2>1, <1>1 DEF cmd_header, Shape
  <2>2. ASSUME NEW n \in Durations, cmd_duration(c, n) PROVE Shape' /\ Stays /\ pwc'.state = pwc.state
    BY <2>2, <1>1 DEF cmd_duration, Shape
  <2>3. ASSUME NEW code, cmd_plain(c, code) PROVE Shape' /\ Stays /\ pwc'.state = pwc.state
    BY <2>3, <1>1 DEF cmd_plain, Shape
  <2>4. ASSUME NEW code, NEW u, cmd_dated(c, code, u) PROVE Shape' /\ Stays /\ pwc'.state = pwc.state
    BY <2>4, <1>1 DEF cmd_dated, Shape
  <2>5. ASSUME NEW u, cmd_start(c, u) PROVE Shape' /\ Stays /\ pwc'.state = pwc.state
    BY <2>5, <1>1 DEF cmd_start, Shape
  <2>6. ASSUME NEW u, cmd_set_utc_start(c, u) PROVE Shape' /\ Stays /\ pwc'.state = pwc.state
    BY <2>6, <1>1 DEF cmd_set_utc_start, Shape
  <2>7. ASSUME cmd_quit(c) PROVE Shape' /\ Stays /\ pwc'.state = pwc.state
    BY <2>7, <1>1 DEF cmd_quit, Shape
  <2> QED
    BY <1>2, <2>1, <2>2, <2>3, <2>4, <2>5, <2>6, <2>7 DEF Send, Sends
<1>3. ASSUME Command(c) PROVE Shape' /\ Stays /\ pwc'.state = pwc.state
  <2>1. CASE CommandWait(c) \/ CommandRefused(c)
    BY <2>1, SameStays DEF CommandWait, CommandRefused, Shape
  <2>2. CASE DurationSet(c)
    BY <2>2, SameStays DEF DurationSet, Shape
  <2>3. CASE dada_pwc_command_set(c)
    BY <2>3, SameStays DEF dada_pwc_command_set, Shape
  <2> QED
    BY <1>3, <2>1, <2>2, <2>3 DEF Command
<1> QED
  BY <1>2, <1>3

(* The transfer thread changes an error state for reset and stop only. *)
LEMMA MainStays ==
  ASSUME Shape, MainNext
  PROVE  Shape' /\ Stays
<1>1. CASE Exit \/ GetWait \/ HandleQuit \/ PollQuit \/ PollNone \/ PollDated
           \/ FetchNothing \/ NotReached \/ CheckStop
  BY <1>1, SameStays, CommandGotShape
  DEF Exit, GetWait, HandleQuit, PollQuit, PollNone, PollDated, FetchNothing,
      NotReached, CheckStop, Shape
<1>2. CASE Get \/ PollUtc
  BY <1>2, SameStays, CommandGotShape DEF Get, PollUtc
<1>3. CASE CheckFatal
  BY <1>3, SameStays DEF CheckFatal, Shape
<1>4. CASE Prepare
  BY <1>4, SameStays, SetStateStays, ErrorStateIsError DEF Prepare, Shape
<1>5. CASE HandleIdle
  BY <1>5, SetStateShape DEF HandleIdle, Handling, SetState, Shape, Stays
<1>6. CASE HandleHeader
  BY <1>6, SetStateStays DEF HandleHeader, Shape
<1>7. CASE HandleStart
  BY <1>7, SameStays, ErrorStays DEF HandleStart, Shape
<1>8. CASE HandleUnexpected \/ StartFails \/ FetchFails \/ CheckUnexpected
  BY <1>8, ErrorStays
  DEF HandleUnexpected, StartFails, FetchFails, CheckUnexpected
<1>9. CASE Start
  <2>1. PICK tells \in TellsUtc :
          LET utc == IF tells THEN Time0 ELSE Unknown
              p == [pwc EXCEPT !.utc_start = IF utc > 0 THEN utc ELSE @]
              new == IF m.command.code = "start" THEN "recording" ELSE "clocking"
          IN \/ SetState(p, new, utc)
             \/ SetState(p, ErrorState(p.state, "soft"), 0)
    BY <1>9 DEF Start
  <2> QED
    BY <2>1, SetStateStays, ErrorStateIsError DEF Shape
<1>10. CASE PollUnexpected
  BY <1>10, SetStateStays, CommandGotShape, ErrorStateIsError
  DEF PollUnexpected
<1>11. CASE \E size \in BufSizes : Fetch(size)
  BY <1>11, SameStays, SetStateStays DEF Fetch, Shape
<1>12. CASE Write
  <2>1. ASSUME NEW d, NEW rest, WriteStep(d, rest) PROVE Shape' /\ Stays
    BY <2>1, SameStays, ErrorStays DEF WriteStep, Shape
  <2> QED
    BY <1>12, <2>1 DEF Write
<1>13. CASE Written \/ Room
  BY <1>13, SameStays, ErrorStays DEF Written, Room, Shape
<1>14. ASSUME NEW n, NEW new, new # "idle", Rest(n, pwc, new)
       PROVE  Shape' /\ Stays
  BY <1>14, SetStateStays DEF Rest, Shape
<1>15. CASE RecStop
  BY <1>15, <1>14, ErrorStays DEF RecStop
<1>16. CASE RecStart
  <2>1. \/ SetState(pwc, ErrorState(pwc.state, "hard"), 0)
        \/ \E n : Rest(n, pwc, "recording")
    BY <1>16 DEF RecStart
  <2> QED
    BY <2>1, <1>14, SetStateStays, ErrorStateIsError DEF Shape
<1>17. CASE StopTransfer
  BY <1>17, SameStays, SetStateShape DEF StopTransfer, SetState, Shape, Stays
<1>18. CASE StopFails
  BY <1>18, SetStateStays, ErrorStateIsError DEF StopFails, Shape
<1> QED
  BY <1>1, <1>2, <1>3, <1>4, <1>5, <1>6, <1>7, <1>8, <1>9, <1>10, <1>11, <1>12,
     <1>13, <1>15, <1>16, <1>17, <1>18 DEF MainNext

LEMMA ReaderStays ==
  ASSUME Shape, ReaderNext
  PROVE  Shape' /\ Stays
  BY SameStays
  DEF ReaderNext, ReadHeader, ReadBlock, ReadEnds, MainUnchanged, pwcvars, Shape

(* An error state of the primary write client (dada_pwc_set_state,            *)
(* dada_pwc_main) is left only for a reset or stop command, whatever fails.    *)
THEOREM ErrorsOnlyReset == Spec => ErrorsStay
<1>1. Init => Shape
  BY DEF Init, InitPwc, Shape
<1>2. Shape /\ [Next]_vars => Shape' /\ Stays
  <2>1. Shape /\ UNCHANGED vars => Shape' /\ Stays
    BY SameStays DEF vars, pwcvars, Shape
  <2> QED
    BY <2>1, ClientStays, MainStays, ReaderStays DEF Next, ClientNext
<1> QED
  BY <1>1, <1>2, PTL DEF Spec, ErrorsStay, Stays

-----------------------------------------------------------------------------
OneClient == \A c, d \in Clients : c = d

AwakeInv ==
  /\ Shape
  /\ waiting \subseteq Clients \cup {Main}
  /\ Main \in waiting => m.pc = "get"
  /\ MainAwake

(* A signal wakes, it puts nobody to sleep; if only the transfer thread       *)
(* waits, it is the one that is woken.                                       *)
LEMMA SignalWakes ==
  ASSUME Signal
  PROVE  /\ waiting' \subseteq waiting
         /\ waiting \subseteq {Main} => Main \notin waiting'
  BY DEF Signal

LEMMA SetStateWakes ==
  ASSUME NEW p, NEW new, NEW utc, SetState(p, new, utc)
  PROVE  waiting' \subseteq waiting
  BY SignalWakes DEF SetState

LEMMA ErrorWakes ==
  ASSUME NEW rval, NEW pc, Error(pwc, rval, pc)
  PROVE  waiting' \subseteq waiting
  BY SetStateWakes DEF Error

(* The transfer thread goes to sleep in GetWait, and is awake in all it does. *)
LEMMA MainWakes ==
  ASSUME Main \in waiting => m.pc = "get", MainNext, ~GetWait
  PROVE  Main \notin waiting /\ waiting' \subseteq waiting
<1>1. Main \in waiting => m.pc = "get"
  OBVIOUS
<1>2. CASE Exit \/ Get
  BY <1>2 DEF Exit, Get
<1>3. CASE HandleQuit \/ PollQuit \/ PollNone \/ PollDated \/ FetchNothing
           \/ NotReached \/ CheckStop \/ CheckFatal
  BY <1>1, <1>3
  DEF HandleQuit, PollQuit, PollNone, PollDated, Polled, Polling, FetchNothing,
      NotReached, CheckStop, Checking, CheckFatal
<1>4. CASE PollUtc
  BY <1>1, <1>4, SignalWakes DEF PollUtc, Polled, Polling
<1>5. CASE Prepare \/ HandleIdle \/ HandleHeader \/ PollUnexpected \/ StopFails
  BY <1>1, <1>5, SetStateWakes
  DEF Prepare, HandleIdle, HandleHeader, Handling, PollUnexpected, Polled,
      Polling, StopFails
<1>6. CASE HandleStart
  BY <1>1, <1>6, ErrorWakes DEF HandleStart, Handling
<1>7. CASE HandleUnexpected \/ StartFails \/ FetchFails \/ CheckUnexpected
  BY <1>1, <1>7, ErrorWakes
  DEF HandleUnexpected, Handling, StartFails, FetchFails, CheckUnexpected,
      Checking
<1>8. CASE Start
  BY <1>1, <1>8, SetStateWakes DEF Start
<1>9. CASE \E size \in BufSizes : Fetch(size)
  BY <1>1, <1>9, SetStateWakes DEF Fetch
<1>10. CASE Write
  <2>1. ASSUME NEW d, NEW rest, WriteStep(d, rest)
        PROVE  waiting' \subseteq waiting
    BY <2>1, ErrorWakes DEF WriteStep
  <2> QED
    BY <1>1, <1>10, <2>1 DEF Write
<1>11. CASE Written \/ Room
  BY <1>1, <1>11, ErrorWakes DEF Written, Room
<1>12. ASSUME NEW n, NEW new, Rest(n, pwc, new)
       PROVE  waiting' \subseteq waiting
  BY <1>12, SetStateWakes DEF Rest
<1>13. CASE RecStop
  BY <1>1, <1>13, <1>12, ErrorWakes DEF RecStop, Checking
<1>14. CASE RecStart
  <2>1. m.pc = "check"
    BY <1>14 DEF RecStart, Checking
  <2>2. \/ SetState(pwc, ErrorState(pwc.state, "hard"), 0)
        \/ \E n : Rest(n, pwc, "recording")
    BY <1>14 DEF RecStart
  <2> QED
    BY <1>1, <2>1, <2>2, <1>12, SetStateWakes
<1>15. CASE StopTransfer
  BY <1>1, <1>15, SetStateWakes DEF StopTransfer
<1> QED
  BY <1>2, <1>3, <1>4, <1>5, <1>6, <1>7, <1>8, <1>9, <1>10, <1>11, <1>13, <1>14,
     <1>15 DEF MainNext

(* A client puts a command in the slot only if it is itself awake: with one   *)
(* client, nobody but the transfer thread can be waiting then.               *)
LEMMA ClientAwake ==
  ASSUME AwakeInv, OneClient, NEW c \in Clients, Send(c) \/ Command(c)
  PROVE  AwakeInv'
<1>1. Shape'
  BY ClientStays DEF AwakeInv
<1>2. m' = m
  BY DEF Send, Command, Others
<1>3. CASE dada_pwc_command_set(c)
  <2>1. waiting \subseteq {Main}
    BY <1>3, MainIsNoClient DEF dada_pwc_command_set, InCall, OneClient, AwakeInv
  <2>2. waiting' \subseteq waiting /\ Main \notin waiting'
    BY <2>1, <1>3, SignalWakes DEF dada_pwc_command_set
  <2> QED
    BY <1>1, <2>2 DEF AwakeInv, MainAwake
<1>4. CASE CommandWait(c)
  BY <1>1, <1>2, <1>4, MainIsNoClient DEF CommandWait, AwakeInv, MainAwake
<1>5. CASE CommandRefused(c)
  BY <1>1, <1>2, <1>5 DEF CommandRefused, AwakeInv, MainAwake
<1>6. CASE DurationSet(c)
  <2>1. waiting' = waiting /\ pwc.command.code = "none"
    BY <1>6 DEF DurationSet
  <2>2. pwc'.command.code = pwc.command.code
    BY <1>6 DEF DurationSet, AwakeInv, Shape
  <2> QED
    BY <1>1, <1>2, <2>1, <2>2 DEF AwakeInv, MainAwake
<1>7. CASE Send(c)
  <2>1. waiting' = waiting /\ pwc'.command = pwc.command
    BY <1>7
    DEF Send, Sends, cmd_header, cmd_duration, cmd_plain, cmd_dated, cmd_start,
        cmd_set_utc_start, cmd_quit, Begin, AwakeInv, Shape
  <2> QED
    BY <1>1, <1>2, <2>1 DEF AwakeInv, MainAwake
<1> QED
  BY <1>3, <1>4, <1>5, <1>6, <1>7 DEF Command

(* With a single connection to the command server, the transfer thread never  *)
(* sleeps in dada_pwc_command_get while there is a command for it.            *)
THEOREM OneClientAwake == OneClient => (Spec => []MainAwake)
<1> SUFFICES ASSUME OneClient PROVE Spec => []MainAwake
  OBVIOUS
<1>1. Init => AwakeInv
  BY DEF Init, InitPwc, AwakeInv, Shape, MainAwake
<1>2. ASSUME AwakeInv, [Next]_vars PROVE AwakeInv'
  <2>1. CASE UNCHANGED vars
    BY <1>2, <2>1 DEF vars, pwcvars, AwakeInv, Shape, MainAwake
  <2>2. CASE ClientNext
    BY <1>2, <2>2, ClientAwake DEF ClientNext
  <2>3. CASE ReaderNext
    BY <1>2, <2>3
    DEF ReaderNext, ReadHeader, ReadBlock, ReadEnds, MainUnchanged, pwcvars,
        AwakeInv, Shape, MainAwake
  <2>4. CASE GetWait
    BY <1>2, <2>4 DEF GetWait, AwakeInv, Shape, MainAwake
  <2>5. CASE MainNext /\ ~GetWait
    <3>1. Shape'
      BY <1>2, <2>5, MainStays DEF AwakeInv
    <3>2. Main \notin waiting'
      BY <1>2, <2>5, MainWakes DEF AwakeInv
    <3>3. waiting' \subseteq Clients \cup {Main}
      BY <1>2, <2>5, MainWakes DEF AwakeInv
    <3> QED
      BY <3>1, <3>2, <3>3 DEF AwakeInv, MainAwake
  <2> QED
    BY <1>2, <2>1, <2>2, <2>3, <2>4, <2>5 DEF Next
<1>3. AwakeInv => MainAwake
  BY DEF AwakeInv
<1> QED
  BY <1>1, <1>2, <1>3, PTL DEF Spec

-----------------------------------------------------------------------------
(* The transfer thread never holds blocks of the Data Block open            *)
(* (ipcio_open_block_write), and has seen every error of its handle.         *)
Handle(d) ==
  /\ "rdwrt" \in DOMAIN d
  /\ "buf_ptrs" \in DOMAIN d
  /\ "err" \in DOMAIN d
  /\ d.buf_ptrs = <<>>

ModeOf(d) == IF d.rdwrt = "W" THEN "recording" ELSE "clocking"

(* The mode of the handle when the thread is between two transfers, about to  *)
(* start one, and in one.                                                    *)
MatchInv ==
  /\ Shape
  /\ {"pc", "command"} \subseteq DOMAIN m
  /\ Handle(io) /\ ~io.err
  /\ m.pc \in {"get", "handle"} => io.rdwrt = "0"
  /\ m.pc = "start" =>
       /\ m.command.code \in {"clock", "start"}
       /\ io.rdwrt = IF m.command.code = "clock" THEN "w" ELSE "W"
  /\ m.pc \in Transferring \cup {"rest", "room"} => pwc.state = ModeOf(io)

(* e is the handle d after a call that leaves its mode alone. *)
Keeping(d, e) == Handle(e) /\ e.rdwrt = d.rdwrt

(* The loop over the open blocks does nothing: there are none. *)
LEMMA NoBlocksOpen ==
  ASSUME NEW d, d.buf_ptrs = <<>>
  PROVE  CloseBlocks(d) = d
<1> DEFINE F(iter, s) == IF s = {} THEN d ELSE
             ipcio_close_block_write(iter[s \ {Max(s)}], BufSz)
<1> DEFINE iter == CHOOSE g : g = [s \in SUBSET {} |-> F(g, s)]
<1>1. [s \in SUBSET {} |-> d] = [s \in SUBSET {} |-> F([t \in SUBSET {} |-> d], s)]
  BY DEF F
<1>2. iter = [s \in SUBSET {} |-> F(iter, s)]
  BY <1>1
<1>3. iter[{}] = d
  BY <1>2
<1>4. DOMAIN d.buf_ptrs = {}
  OBVIOUS
<1> QED
  BY <1>3, <1>4 DEF CloseBlocks, FoldLeft, MapThenFoldSet

-----------------------------------------------------------------------------
(* The calls of ipcbuf and ipcio.                                           *)
LEMMA EnableSodKeeps ==
  ASSUME NEW d, Handle(d), NEW b, NEW y
  PROVE  Keeping(d, ipcbuf_enable_sod(d, b, y))
  BY DEF Handle, Keeping, ipcbuf_enable_sod, Fail

LEMMA GetNextWriteKeeps ==
  ASSUME NEW d, Handle(d)
  PROVE  Keeping(d, ipcbuf_get_next_write(d))
<1>1. PICK e : e = IF d.state = "WCHANGE" THEN ipcbuf_enable_sod(d, d.w_buf_curr, 0)
                                          ELSE d
  OBVIOUS
<1>2. Keeping(d, e)
  BY <1>1, EnableSodKeeps DEF Keeping
<1>3. \/ ipcbuf_get_next_write(d) = e
      \/ \E b : ipcbuf_get_next_write(d)
           = [e EXCEPT !.CLEAR = @ - e.count[b], !.count[b] = 0, !.w_buf_next = @ + 1]
  BY <1>1 DEF ipcbuf_get_next_write
<1> QED
  BY <1>2, <1>3 DEF Keeping, Handle

LEMMA MarkFilledKeeps ==
  ASSUME NEW d, Handle(d), NEW n
  PROVE  Keeping(d, ipcbuf_mark_filled(d, n))
<1> DEFINE x == d.w_xfer + 1
           ended == [d EXCEPT !.xfers[x].e_buf = d.w_buf_curr,
                              !.xfers[x].e_byte = n,
                              !.xfers[x].eod = TRUE,
                              !.w_xfer = x,
                              !.state = "WRITER",
                              !.w_state = "DISCON"]
<1>1. Keeping(d, d) /\ Keeping(d, ended)
  BY DEF Keeping, Handle
<1>2. Keeping(d, ipcbuf_get_next_write(d)) /\ Keeping(d, ipcbuf_get_next_write(ended))
  BY <1>1, GetNextWriteKeeps DEF Keeping
<1>3. ASSUME NEW f, Keeping(d, f)
      PROVE  Keeping(d, [f EXCEPT !.count[d.w_buf_curr % NBufs] = @ + 1,
                                  !.w_buf_curr = @ + 1, !.FULL = @ + 1])
  BY <1>3 DEF Keeping, Handle
<1>4. Keeping(d, [d EXCEPT !.w_buf_curr = @ + 1])
  BY DEF Keeping, Handle
<1>5. \/ ipcbuf_mark_filled(d, n) = [d EXCEPT !.w_buf_curr = @ + 1]
      \/ \E f \in {d, ended, ipcbuf_get_next_write(d), ipcbuf_get_next_write(ended)} :
           ipcbuf_mark_filled(d, n)
             = [f EXCEPT !.count[d.w_buf_curr % NBufs] = @ + 1,
                         !.w_buf_curr = @ + 1, !.FULL = @ + 1]
  BY DEF ipcbuf_mark_filled
<1>6. \A f \in {d, ended, ipcbuf_get_next_write(d), ipcbuf_get_next_write(ended)} :
        Keeping(d, f)
  BY <1>1, <1>2
<1> QED
  BY <1>3, <1>4, <1>5, <1>6

LEMMA PendingSodKeeps ==
  ASSUME NEW d, Handle(d)
  PROVE  Keeping(d, ipcio_check_pending_sod(d))
<1>1. PICK e : e = ipcbuf_enable_sod(d, d.sod_buf, d.sod_byte)
  OBVIOUS
<1>2. Keeping(d, e)
  BY <1>1, EnableSodKeeps
<1>3. Keeping(d, [e EXCEPT !.sod_pending = FALSE])
  BY <1>2 DEF Keeping, Handle
<1> QED
  BY <1>1, <1>2, <1>3 DEF ipcio_check_pending_sod, Keeping

(* ipcio_open: the mode asked for, unless it fails. *)
LEMMA OpenMode ==
  ASSUME NEW d, Handle(d), ~d.err, NEW mode \in {"w", "W"}
  PROVE  LET e == ipcio_open(d, mode) IN
         /\ Handle(e)
         /\ ~e.err => e.rdwrt = mode
  BY DEF ipcio_open, Handle, Fail

(* ipcio_start, if it does not fail, has raised SOD or left it pending. *)
LEMMA StartMode ==
  ASSUME NEW d, Handle(d), ~d.err, NEW byte
  PROVE  LET e == ipcio_start(d, byte) IN
         /\ Handle(e)
         /\ ~e.err => d.rdwrt = "w" /\ e.rdwrt = "W"
<1>1. PICK p : p = [d EXCEPT !.sod_buf = byte \div BufSz, !.sod_byte = byte % BufSz,
                             !.sod_pending = TRUE, !.rdwrt = "W"]
  OBVIOUS
<1>2. Handle(p) /\ p.rdwrt = "W"
  BY <1>1 DEF Handle
<1>3. Keeping(p, ipcio_check_pending_sod(p))
  BY <1>2, PendingSodKeeps
<1>4. Handle(Fail(d)) /\ Fail(d).err
  BY DEF Handle, Fail
<1> QED
  BY <1>1, <1>2, <1>3, <1>4 DEF ipcio_start, Keeping

(* ipcio_stop goes back to clocking, if it does not fail. *)
LEMMA StopMode ==
  ASSUME NEW d, Handle(d), ~d.err
  PROVE  LET e == ipcio_stop(d) IN
         /\ Handle(e)
         /\ ~e.err => d.rdwrt = "W" /\ e.rdwrt = "w"
<1>1. CASE d.rdwrt # "W"
  BY <1>1 DEF ipcio_stop, Handle, Fail
<1>2. CASE d.rdwrt = "W" /\ d.state # "WRITING"
  BY <1>2 DEF ipcio_stop, Handle
<1>3. CASE d.rdwrt = "W" /\ d.state = "WRITING"
  <2>1. PICK e : e = EndOfData(d)
    OBVIOUS
  <2>2. ipcio_stop(d) = IF e.err THEN e ELSE Ended(e)
    BY <1>3, <2>1, NoBlocksOpen DEF ipcio_stop, IfOk, Handle
  <2>3. PICK c : c = [d EXCEPT !.state = "WCHANGE"]
    OBVIOUS
  <2>4. Handle(c)
    BY <2>3 DEF Handle
  <2>5. Handle(ipcbuf_mark_filled(c, d.bytes))
    BY <2>4, MarkFilledKeeps DEF Keeping
  <2>6. Handle(e)
    BY <2>1, <2>3, <2>5, PendingSodKeeps DEF EndOfData, Keeping
  <2>7. Handle(Ended(e)) /\ Ended(e).rdwrt = "w"
    BY <2>6 DEF Handle, Ended
  <2> QED
    BY <1>3, <2>2, <2>6, <2>7
<1> QED
  BY <1>1, <1>2, <1>3

(* ipcio_close leaves a handle that is not open, if it does not fail. *)
LEMMA CloseMode ==
  ASSUME NEW d, Handle(d), ~d.err
  PROVE  LET e == ipcio_close(d) IN
         /\ Handle(e)
         /\ ~e.err => e.rdwrt = "0"
<1>1. PICK s : s = IF d.rdwrt = "W" THEN ipcio_stop(d) ELSE d
  OBVIOUS
<1>2. Handle(s)
  BY <1>1, StopMode
<1>3. Handle(Closed(s)) /\ (~Closed(s).err => Closed(s).rdwrt = "0")
  BY <1>2 DEF Closed, Handle, Fail
<1> QED
  BY <1>1, <1>2, <1>3 DEF ipcio_close, IfOk

(* The steps of ipcio_write. *)
LEMMA WriteKeeps ==
  ASSUME NEW d, Handle(d), NEW vals
  PROVE  /\ Keeping(d, WriteFull(d))
         /\ Keeping(d, WriteGet(d))
         /\ Keeping(d, WriteCopy(d, vals))
<1>1. Keeping(d, WriteFull(d))
  <2>1. PICK e : e = IF d.marked_filled THEN d
                     ELSE ipcio_check_pending_sod(ipcbuf_mark_filled(d, d.bytes))
    OBVIOUS
  <2>2. Keeping(d, e)
    BY <2>1, MarkFilledKeeps, PendingSodKeeps DEF Keeping
  <2>3. Keeping(d, [e EXCEPT !.curbuf = NoBuf, !.bytes = 0, !.marked_filled = TRUE])
    BY <2>2 DEF Keeping, Handle
  <2> QED
    BY <2>1, <2>2, <2>3 DEF WriteFull
<1>2. Keeping(d, WriteGet(d))
  <2>1. PICK e : e = ipcbuf_get_next_write(d)
    OBVIOUS
  <2>2. Keeping(d, e)
    BY <2>1, GetNextWriteKeeps
  <2>3. Keeping(d, [e EXCEPT !.curbuf = d.w_buf_next % NBufs,
                             !.marked_filled = FALSE, !.bytes = 0])
    BY <2>2 DEF Keeping, Handle
  <2> QED
    BY <2>1, <2>2, <2>3 DEF WriteGet
<1>3. Keeping(d, WriteCopy(d, vals))
  BY DEF WriteCopy, Keeping, Handle
<1> QED
  BY <1>1, <1>2, <1>3

(* The caller has seen the error. *)
LEMMA OkKeeps ==
  ASSUME NEW d, Handle(d)
  PROVE  Keeping(d, Ok(d)) /\ ~Ok(d).err
  BY DEF Ok, Handle, Keeping

-----------------------------------------------------------------------------
(* Where MatchInv says nothing of the mode. *)
LEMMA MatchElsewhere ==
  ASSUME Shape', {"pc", "command"} \subseteq DOMAIN m', Handle(io'), ~io'.err,
         m'.pc \in {"stop", "fatal", "prepare", "exit", "last"}
  PROVE  MatchInv'
  BY DEF MatchInv, Transferring

(* A step inside a transfer. *)
LEMMA MatchInside ==
  ASSUME MatchInv, Shape', {"pc", "command"} \subseteq DOMAIN m',
         Keeping(io, io'), ~io'.err, pwc'.state = pwc.state,
         m.pc \in Transferring \cup {"rest", "room"},
         m'.pc \in Transferring \cup {"rest", "room"}
  PROVE  MatchInv'
  BY DEF MatchInv, Transferring, Keeping, ModeOf

(* A change of the state that dada_pwc_set_state permits. *)
LEMMA SetStateState ==
  ASSUME NEW p, "state" \in DOMAIN p, NEW new, NEW utc, SetState(p, new, utc),
         MayChange(p.state, new)
  PROVE  pwc'.state = new
  BY DEF SetState, dada_pwc_set_state

(* The rest of a buffer after a change of state. *)
LEMMA MatchRest ==
  ASSUME MatchInv, Shape', NEW n, {"pc", "command"} \subseteq DOMAIN n, NEW new,
         Rest(n, pwc, new), MayChange(pwc.state, new),
         Handle(io'), ~io'.err, new = ModeOf(io')
  PROVE  MatchInv'
<1>1. pwc'.state = new
  BY SetStateState DEF Rest, MatchInv, Shape
<1>2. {"pc", "command"} \subseteq DOMAIN m' /\ m'.pc = "room"
  BY DEF Rest
<1>3. ModeOf(io)' = ModeOf(io')
  BY DEF ModeOf
<1> QED
  BY <1>1, <1>2, <1>3 DEF MatchInv, Transferring

LEMMA ErrorElsewhere ==
  ASSUME MatchInv, NEW rval, NEW pc, Error(pwc, rval, pc)
  PROVE  {"pc", "command"} \subseteq DOMAIN m' /\ m'.pc = pc
  BY DEF Error, MatchInv

LEMMA BodyPc ==
  ASSUME NEW n, {"pc", "command"} \subseteq DOMAIN n
  PROVE  /\ {"pc", "command"} \subseteq DOMAIN Body(n)
         /\ Body(n).pc \in {"fetch", "check"}
  BY DEF Body

(* The clients do not touch the Data Block, nor the state. *)
LEMMA ClientMatch ==
  ASSUME MatchInv, NEW c \in Clients, Send(c) \/ Command(c)
  PROVE  MatchInv'
<1>1. Shape' /\ pwc'.state = pwc.state
  BY ClientStays DEF MatchInv
<1>2. m' = m /\ io' = io
  BY DEF Send, Command, Others, datavars
<1> QED
  BY <1>1, <1>2 DEF MatchInv, ModeOf, Handle

(* A reader takes tokens and gives them back. *)
LEMMA ReaderMatch ==
  ASSUME MatchInv, ReaderNext
  PROVE  MatchInv'
<1>1. pwc' = pwc /\ m' = m
  BY DEF ReaderNext, ReadHeader, ReadBlock, ReadEnds, MainUnchanged, pwcvars
<1>2. io' = io \/ io' = Cleared(Taken(io))
  BY DEF ReaderNext, ReadHeader, ReadBlock, ReadEnds
<1>3. Keeping(io, io') /\ ~io'.err
  BY <1>2 DEF MatchInv, Cleared, Taken, Keeping, Handle
<1>4. Shape'
  BY <1>1 DEF MatchInv, Shape
<1> QED
  BY <1>1, <1>3, <1>4 DEF MatchInv, ModeOf, Keeping

(* The transfer thread. *)
LEMMA MainMatch ==
  ASSUME MatchInv, MainNext
  PROVE  MatchInv'
<1>s. Shape'
  BY MainStays DEF MatchInv
<1>i. /\ Handle(io) /\ ~io.err /\ Keeping(io, io)
      /\ {"pc", "command"} \subseteq DOMAIN m
      /\ "state" \in DOMAIN pwc /\ "command" \in DOMAIN pwc
  BY DEF MatchInv, Keeping, Shape
<1>1. CASE Exit \/ CheckFatal \/ HandleQuit \/ StopFails \/ CheckStop \/ PollQuit
           \/ PollUnexpected \/ FetchNothing
  <2>1. io' = io
    BY <1>1
    DEF Exit, CheckFatal, HandleQuit, StopFails, CheckStop, PollQuit,
        PollUnexpected, FetchNothing, datavars
  <2>2. /\ {"pc", "command"} \subseteq DOMAIN m'
        /\ m'.pc \in {"stop", "fatal", "prepare", "exit", "last"}
    BY <1>1, <1>i
    DEF Exit, CheckFatal, HandleQuit, StopFails, CheckStop, PollQuit,
        PollUnexpected, FetchNothing
  <2> QED
    BY <1>s, <1>i, <2>1, <2>2, MatchElsewhere
<1>2. CASE StartFails \/ FetchFails \/ CheckUnexpected \/ HandleUnexpected
  <2>1. io' = io
    BY <1>2
    DEF StartFails, FetchFails, CheckUnexpected, HandleUnexpected, datavars
  <2>2. {"pc", "command"} \subseteq DOMAIN m' /\ m'.pc \in {"stop", "fatal"}
    BY <1>2, ErrorElsewhere
    DEF StartFails, FetchFails, CheckUnexpected, HandleUnexpected
  <2> QED
    BY <1>s, <1>i, <2>1, <2>2, MatchElsewhere
<1>3. CASE GetWait
  BY <1>s, <1>3 DEF GetWait, datavars, MatchInv, ModeOf, Handle
<1>4. CASE Get
  <2>1. /\ io' = io /\ m.pc = "get"
        /\ {"pc", "command"} \subseteq DOMAIN m' /\ m'.pc = "handle"
    BY <1>4, <1>i DEF Get, datavars
  <2> QED
    BY <1>s, <2>1 DEF MatchInv, Transferring, Handle
<1>5. CASE HandleIdle \/ HandleHeader
  <2>1. /\ io' = io /\ m.pc = "handle"
        /\ {"pc", "command"} \subseteq DOMAIN m' /\ m'.pc = "get"
    BY <1>5, <1>i DEF HandleIdle, HandleHeader, Handling
  <2> QED
    BY <1>s, <2>1 DEF MatchInv, Transferring, Handle
<1>6. CASE Prepare
  <2>1. PICK d : /\ d = IF io.rdwrt # "0" THEN ipcio_close(io) ELSE io
                 /\ io' = Ok(d)
                 /\ {"pc", "command"} \subseteq DOMAIN m'
                 /\ m'.pc = IF d.err THEN "fatal" ELSE "get"
    BY <1>6, <1>i DEF Prepare
  <2>2. Handle(d) /\ (~d.err => d.rdwrt = "0")
    BY <2>1, <1>i, CloseMode
  <2>3. Handle(io') /\ ~io'.err /\ io'.rdwrt = d.rdwrt
    BY <2>1, <2>2, OkKeeps DEF Keeping
  <2> QED
    BY <1>s, <2>1, <2>2, <2>3 DEF MatchInv, Transferring
<1>7. CASE HandleStart
  <2>1. m.command.code \in {"clock", "start"}
    BY <1>7 DEF HandleStart, Handling
  <2>2. PICK mode \in {"w", "W"} : mode = IF m.command.code = "clock" THEN "w" ELSE "W"
    OBVIOUS
  <2>3. PICK d : /\ d = ipcio_open(io, mode)
                 /\ io' = Ok(d)
                 /\ IF d.err THEN Error(pwc, "hard", "fatal")
                             ELSE m' = [m EXCEPT !.pc = "start"]
    BY <1>7, <2>2 DEF HandleStart
  <2>4. Handle(d) /\ (~d.err => d.rdwrt = mode)
    BY <2>3, <1>i, OpenMode
  <2>5. Handle(io') /\ ~io'.err /\ io'.rdwrt = d.rdwrt
    BY <2>3, <2>4, OkKeeps DEF Keeping
  <2>6. CASE d.err
    BY <1>s, <2>3, <2>5, <2>6, ErrorElsewhere, MatchElsewhere
  <2>7. CASE ~d.err
    <3>1. /\ {"pc", "command"} \subseteq DOMAIN m' /\ m'.pc = "start"
          /\ m'.command = m.command
      BY <1>i, <2>3, <2>7
    <3> QED
      BY <1>s, <2>1, <2>2, <2>4, <2>5, <2>7, <3>1 DEF MatchInv, Transferring
  <2> QED
    BY <2>6, <2>7
<1>8. CASE Start
  <2>1. io' = ipcbuf_set_soclock_buf(io)
    BY <1>8 DEF Start
  <2>2. Keeping(io, io') /\ ~io'.err
    BY <1>i, <2>1 DEF ipcbuf_set_soclock_buf, Keeping, Handle
  <2>3. PICK new : new = IF m.command.code = "start" THEN "recording" ELSE "clocking"
    OBVIOUS
  <2>4. /\ {"pc", "command"} \subseteq DOMAIN m'
        /\ \/ m'.pc = "stop"
           \/ /\ m'.pc = "loop"
              /\ \E p, utc : /\ "state" \in DOMAIN p
                             /\ MayChange(p.state, new)
                             /\ SetState(p, new, utc)
    BY <1>8, <1>i, <2>3 DEF Start
  <2>5. m'.pc = "loop" => pwc'.state = new
    BY <2>4, SetStateState
  <2>6. new = ModeOf(io')
    BY <1>8, <2>2, <2>3 DEF Start, MatchInv, Keeping, ModeOf
  <2>7. ModeOf(io)' = ModeOf(io')
    BY DEF ModeOf
  <2> QED
    BY <1>s, <2>2, <2>4, <2>5, <2>6, <2>7 DEF MatchInv, Transferring, Keeping
<1>9. CASE PollNone \/ PollUtc \/ PollDated
  <2>1. io' = io /\ m.pc = "loop"
    BY <1>9 DEF PollNone, PollUtc, PollDated, Polled, Polling, datavars
  <2>2. pwc'.state = pwc.state
    BY <1>9, <1>i, CommandGotShape DEF PollNone, PollUtc, PollDated, Shape
  <2>3. \E n : {"pc", "command"} \subseteq DOMAIN n /\ m' = Body(n)
    BY <1>9, <1>i DEF PollNone, PollUtc, PollDated
  <2>4. {"pc", "command"} \subseteq DOMAIN m' /\ m'.pc \in {"fetch", "check"}
    BY <2>3, BodyPc
  <2> QED
    BY <1>s, <1>i, <2>1, <2>2, <2>4, MatchInside DEF Transferring
<1>10. CASE \E size \in BufSizes : Fetch(size)
  <2>1. io' = io /\ m.pc = "fetch"
    BY <1>10 DEF Fetch
  <2>2. /\ {"pc", "command"} \subseteq DOMAIN m'
        /\ \/ m'.pc = "stop"
           \/ m'.pc = "write" /\ pwc' = pwc
    BY <1>10, <1>i DEF Fetch
  <2> QED
    BY <1>s, <1>i, <2>1, <2>2, MatchInside, MatchElsewhere DEF Transferring
<1>11. CASE Write
  <2>1. PICK d, rest : WriteStep(d, rest) /\ Keeping(io, d)
    BY <1>11, <1>i, WriteKeeps DEF Write
  <2>2. Keeping(io, io') /\ ~io'.err
    BY <2>1, OkKeeps DEF WriteStep, Keeping
  <2>3. m.pc \in {"write", "rest", "last"}
    BY <1>11 DEF Write
  <2>4. \/ {"pc", "command"} \subseteq DOMAIN m' /\ m'.pc = "stop"
        \/ m' = m /\ pwc' = pwc
    BY <2>1, ErrorElsewhere DEF WriteStep
  <2> QED
    BY <1>s, <1>i, <2>2, <2>3, <2>4, MatchInside, MatchElsewhere
    DEF Transferring, Keeping
<1>12. CASE Written \/ Room
  <2>1. io' = io
    BY <1>12 DEF Written, Room, datavars
  <2>2. \/ {"pc", "command"} \subseteq DOMAIN m' /\ m'.pc = "stop"
        \/ /\ {"pc", "command"} \subseteq DOMAIN m' /\ pwc' = pwc
           /\ m.pc \in {"write", "rest", "room"}
           /\ m'.pc \in {"check", "loop", "rest"}
    BY <1>12, <1>i, ErrorElsewhere DEF Written, Room
  <2> QED
    BY <1>s, <1>i, <2>1, <2>2, MatchInside, MatchElsewhere DEF Transferring
<1>13. CASE NotReached
  <2>1. /\ io' = io /\ pwc' = pwc /\ m.pc = "check"
        /\ {"pc", "command"} \subseteq DOMAIN m' /\ m'.pc = "loop"
    BY <1>13, <1>i DEF NotReached, datavars
  <2> QED
    BY <1>s, <1>i, <2>1, MatchInside DEF Transferring
<1>14. CASE RecStop
  <2>1. PICK d : /\ d = ipcio_stop(io)
                 /\ io' = Ok(d)
                 /\ IF d.err THEN Error(pwc, "fatal", "stop")
                             ELSE Rest(m, pwc, "clocking")
    BY <1>14 DEF RecStop
  <2>2. Handle(d) /\ (~d.err => io.rdwrt = "W" /\ d.rdwrt = "w")
    BY <1>i, <2>1, StopMode
  <2>3. Handle(io') /\ ~io'.err /\ io'.rdwrt = d.rdwrt
    BY <2>1, <2>2, OkKeeps DEF Keeping
  <2>4. CASE d.err
    BY <1>s, <2>1, <2>3, <2>4, ErrorElsewhere, MatchElsewhere
  <2>5. CASE ~d.err
    <3>1. pwc.state = "recording"
      BY <1>14, <2>2, <2>5
      DEF RecStop, Checking, MatchInv, ModeOf, Transferring
    <3>2. MayChange(pwc.state, "clocking") /\ ModeOf(io') = "clocking"
      BY <2>2, <2>3, <2>5, <3>1 DEF MayChange, ModeOf
    <3> QED
      BY <1>s, <1>i, <2>1, <2>3, <2>5, <3>2, MatchRest
  <2> QED
    BY <2>4, <2>5
<1>15. CASE RecStart
  <2>1. PICK byte, d, n :
          /\ d = ipcio_start(io, byte)
          /\ io' = Ok(d)
          /\ {"pc", "command"} \subseteq DOMAIN n
          /\ IF d.err THEN m' = [n EXCEPT !.pc = "stop"]
                      ELSE Rest(n, pwc, "recording")
    BY <1>15, <1>i DEF RecStart
  <2>2. Handle(d) /\ (~d.err => io.rdwrt = "w" /\ d.rdwrt = "W")
    BY <1>i, <2>1, StartMode
  <2>3. Handle(io') /\ ~io'.err /\ io'.rdwrt = d.rdwrt
    BY <2>1, <2>2, OkKeeps DEF Keeping
  <2>4. CASE d.err
    <3>1. {"pc", "command"} \subseteq DOMAIN m' /\ m'.pc = "stop"
      BY <2>1, <2>4
    <3> QED
      BY <1>s, <2>3, <3>1, MatchElsewhere
  <2>5. CASE ~d.err
    <3>1. pwc.state = "clocking"
      BY <1>15, <2>2, <2>5
      DEF RecStart, Checking, MatchInv, ModeOf, Transferring
    <3>2. MayChange(pwc.state, "recording") /\ ModeOf(io') = "recording"
      BY <2>2, <2>3, <2>5, <3>1 DEF MayChange, ModeOf
    <3> QED
      BY <1>s, <2>1, <2>3, <2>5, <3>2, MatchRest
  <2> QED
    BY <2>4, <2>5
<1>16. CASE StopTransfer
  <2>1. /\ io' = Ok(ipcio_close(io))
        /\ {"pc", "command"} \subseteq DOMAIN m' /\ m'.pc = "fatal"
    BY <1>16, <1>i DEF StopTransfer
  <2>2. Handle(io') /\ ~io'.err
    BY <1>i, <2>1, CloseMode, OkKeeps DEF Keeping
  <2> QED
    BY <1>s, <2>1, <2>2, MatchElsewhere
<1> QED
  BY <1>1, <1>2, <1>3, <1>4, <1>5, <1>6, <1>7, <1>8, <1>9, <1>10, <1>11, <1>12,
     <1>13, <1>14, <1>15, <1>16 DEF MainNext

LEMMA MatchInit ==
  ASSUME Init
  PROVE  MatchInv
<1>1. "rdwrt" \in DOMAIN InitIo /\ "buf_ptrs" \in DOMAIN InitIo /\ "err" \in DOMAIN InitIo
      /\ InitIo.buf_ptrs = <<>> /\ ~InitIo.err
  BY DEF InitIo
<1>2. Handle(io) /\ ~io.err
  BY <1>1, OpenMode DEF Init, ipcio_open, Handle
<1>3. Shape /\ {"pc", "command"} \subseteq DOMAIN m /\ m.pc = "prepare"
  BY DEF Init, InitPwc, Shape
<1> QED
  BY <1>2, <1>3 DEF MatchInv, Transferring

LEMMA MatchNext == MatchInv /\ [Next]_vars => MatchInv'
<1>1. MatchInv /\ UNCHANGED vars => MatchInv'
  BY DEF vars, pwcvars, datavars, MatchInv, Shape, Handle, ModeOf
<1> QED
  BY <1>1, ClientMatch, MainMatch, ReaderMatch DEF Next, ClientNext

(* The state a client is told is that of the Data Block, whatever it sends and *)
(* whatever fails: recording while bytes are flagged valid, clocking while     *)
(* they are not (dada_pwc_main_transfer_data), and a header is awaited only    *)
(* with the block closed (dada_pwc_main_prepare).                            *)
THEOREM StateIsThatOfData == Spec => []StateMatchesData
<1>1. MatchInv => StateMatchesData
  BY DEF MatchInv, StateMatchesData, ModeOf
<1> QED
  BY <1>1, MatchInit, MatchNext, PTL DEF Spec

-----------------------------------------------------------------------------
(* The handle of the Data Block and the ring under it.  A transfer that was   *)
(* started and has not ended is the last entry of the table, and the writer   *)
(* of the ring is then flagged as WRITING; one that is to be started with the *)
(* next block (WCHANGE) has no byte of it yet.                               *)
RingFields ==
  {"rdwrt", "bytes", "sod_pending", "sod_buf", "sod_byte", "buf_ptrs", "curbuf",
   "state", "soclock_buf", "w_state", "w_buf_curr", "w_buf_next", "w_xfer", "xfers",
   "count", "FULL", "CLEAR", "err"}

XferType ==
  [s_buf : Int, s_byte : Int, eod : BOOLEAN, e_buf : Nat, e_byte : Int]

(* The part that ipcbuf_mark_filled disturbs while it ends a transfer, ... *)
Counters(d) ==
  /\ RingFields \subseteq DOMAIN d
  /\ d.buf_ptrs = <<>>
  /\ d.bytes \in 0 .. BufSz
  /\ d.sod_buf \in Int /\ d.sod_byte \in Int /\ d.soclock_buf \in Nat
  /\ d.w_buf_curr \in Nat /\ d.w_buf_next \in Int
  /\ d.count \in [Ring -> Nat]
  /\ d.FULL \in Nat /\ d.CLEAR \in Nat
  /\ d.w_xfer \in Nat /\ d.xfers \in Seq(XferType)

(* ... and the rest of it. *)
RingType(d) ==
  /\ Counters(d)
  /\ \/ d.w_state = "DISCON" /\ Len(d.xfers) = d.w_xfer
     \/ d.w_state = "WRITING" /\ Len(d.xfers) = d.w_xfer + 1
  /\ d.state \in {"WRITER", "WCHANGE"} => d.w_state = "DISCON"
  /\ d.state = "WRITING" => d.w_state = "WRITING"
  /\ d.state = "WCHANGE" => d.bytes = 0 /\ d.curbuf = NoBuf

(* The Header Block is handed over block by block: its writer is WRITING from  *)
(* the first ipcbuf_get_next_write on, which dada_pwc_main_prepare calls.     *)
HeaderFields == {"state", "err", "w_buf_curr", "w_buf_next", "soclock_buf"}

HeaderOpen(h) ==
  HeaderFields \subseteq DOMAIN h /\ ~h.err /\ h.state = "WRITING"

HeaderBlock ==
  \/ HeaderOpen(hb)
  \/ /\ HeaderFields \subseteq DOMAIN hb /\ ~hb.err
     /\ hb.state = "WCHANGE" /\ m.pc \in {"prepare", "exit"}
     /\ hb.w_buf_curr = 0 /\ hb.w_buf_next = 0 /\ hb.soclock_buf = 0

(* The times and bytes of the commands. *)
CommandCodes ==
  {"none", "header", "duration", "clock", "start", "set_utc_start", "rec_start",
   "rec_stop", "stop", "reset", "exit"}

CommandType == [code : CommandCodes, utc : Nat, byte_count : Nat]

PwcType(p) ==
  /\ {"state", "command", "utc_start", "bytes_per_second"} \subseteq DOMAIN p
  /\ p.state \in States
  /\ p.command \in CommandType
  /\ p.utc_start \in Nat
  /\ p.bytes_per_second \in Nat

ControlType ==
  /\ PwcType(pwc)
  /\ call \in [Clients -> CommandType]
  /\ waiting \subseteq Clients \cup {Main}
  /\ Main \in waiting => m.pc = "get"

(* The bytes that the transfer thread has still to write before the state     *)
(* changes: no buffer takes it beyond, and none are left when it changes.     *)
TransferType ==
  /\ {"pc", "command", "total", "transit", "to_write", "buffer", "buffer_size",
      "buf_bytes"} \subseteq DOMAIN m
  /\ m.command \in CommandType
  /\ m.total \in Nat /\ m.transit \in Nat /\ m.to_write \in Nat
  /\ m.buffer \in Int
  /\ m.to_write # 0 => m.total + m.to_write = m.transit
  /\ m.pc \in Transferring \cup {"room", "rest"} =>
       m.buffer_size \in Nat /\ m.buf_bytes \in 0 .. m.buffer_size
  /\ m.pc = "write" /\ m.to_write # 0 => m.buf_bytes <= m.to_write
  /\ m.pc \in {"room", "rest"} => m.to_write = 0

DataType == RingType(io) /\ ~io.err /\ src \in Nat /\ todo \in Seq(Int)

TypeInv == ControlType /\ TransferType /\ DataType /\ HeaderBlock

(* The number of blocks that lie in place k of the ring. *)
LEMMA CountBlocks ==
  ASSUME NEW from \in Int, NEW to \in Int, NEW k
  PROVE  Cardinality({n \in from .. to : n % NBufs = k}) \in Nat
<1>1. IsFiniteSet(from .. to)
  BY FS_Interval
<1>2. {n \in from .. to : n % NBufs = k} \subseteq from .. to
  OBVIOUS
<1> QED
  BY <1>1, <1>2, FS_Subset, FS_CardinalityType

(* ipcbuf_enable_sod on a block that is filled, or is the next to be. *)
LEMMA EnableSodType ==
  ASSUME NEW d, RingType(d), NEW b \in Int, b <= d.w_buf_curr, NEW y \in Int
  PROVE  LET e == ipcbuf_enable_sod(d, b, y) IN
         /\ RingType(e)
         /\ e.bytes = d.bytes
         /\ ~e.err /\ ~d.err => e.state = "WRITING"
<1> DEFINE e == ipcbuf_enable_sod(d, b, y)
<1>1. CASE e = Fail(d)
  <2>1. RingType(Fail(d)) /\ Fail(d).bytes = d.bytes /\ Fail(d).err
    BY DEF Fail, RingType, Counters, RingFields
  <2> QED
    BY <1>1, <2>1
<1>2. CASE e # Fail(d)
  <2> DEFINE x == [s_buf |-> b, s_byte |-> y, eod |-> d.w_buf_curr # 0,
                   e_buf |-> 0, e_byte |-> 0]
             c == [k \in Ring |-> d.count[k] +
                     Cardinality({n \in b .. d.w_buf_curr - 1 : n % NBufs = k})]
  <2>1. /\ d.state \in {"WRITER", "WCHANGE"}
        /\ e = [d EXCEPT !.xfers = Append(d.xfers, x), !.count = c,
                         !.FULL = d.FULL + d.w_buf_curr - b,
                         !.state = "WRITING", !.w_state = "WRITING"]
    BY <1>2 DEF ipcbuf_enable_sod, RingType, Counters, RingFields
  <2>2. c \in [Ring -> Nat]
    <3>1. d.w_buf_curr - 1 \in Int /\ d.count \in [Ring -> Nat]
      BY DEF RingType, Counters
    <3>2. ASSUME NEW k \in Ring
          PROVE  Cardinality({n \in b .. d.w_buf_curr - 1 : n % NBufs = k}) \in Nat
      BY <3>1, CountBlocks
    <3>3. ASSUME NEW k \in Ring PROVE c[k] \in Nat
      BY <3>1, <3>2
    <3> QED
      BY <3>3
  <2>3. /\ Append(d.xfers, x) \in Seq(XferType)
        /\ Len(Append(d.xfers, x)) = d.w_xfer + 1
    BY <2>1 DEF RingType, Counters, XferType
  <2> HIDE DEF x, c
  <2>4. d.FULL + d.w_buf_curr - b \in Nat
    BY DEF RingType, Counters
  <2>5. Counters(e) /\ e.bytes = d.bytes
    BY <2>1, <2>2, <2>3, <2>4 DEF RingType, Counters, RingFields
  <2>6. /\ e.w_state = "WRITING" /\ e.state = "WRITING"
        /\ Len(e.xfers) = e.w_xfer + 1
    BY <2>1, <2>3 DEF RingType, Counters, RingFields
  <2> QED
    BY <2>5, <2>6 DEF RingType
<1> QED
  BY <1>1, <1>2

(* The place of a block in the ring. *)
LEMMA PlaceInRing ==
  ASSUME NEW n \in Int
  PROVE  n % NBufs \in Ring
  BY IoSizes DEF Ring

(* ipcbuf_get_next_write takes the tokens that were waited for. *)
LEMMA GetNextWriteType ==
  ASSUME NEW d, RingType(d), GetReady(d)
  PROVE  LET e == ipcbuf_get_next_write(d) IN
         /\ RingType(e)
         /\ ~e.err => e.state # "WCHANGE"
         /\ d.state # "WCHANGE" =>
              /\ e.state = d.state /\ e.w_state = d.w_state
              /\ e.bytes = d.bytes
<1> DEFINE b == d.w_buf_next % NBufs
<1>b. b \in Ring
  BY PlaceInRing DEF RingType, Counters
<1>1. PICK e : e = IF d.state = "WCHANGE" THEN ipcbuf_enable_sod(d, d.w_buf_curr, 0)
                                          ELSE d
  OBVIOUS
<1>2. /\ RingType(e)
      /\ e.bytes = d.bytes
      /\ e.CLEAR = d.CLEAR
      /\ e.count[b] = d.count[b]
      /\ d.state # "WCHANGE" => e = d
      /\ d.state = "WCHANGE" /\ ~e.err => e.state = "WRITING"
  <2>1. CASE d.state # "WCHANGE"
    BY <1>1, <2>1
  <2>2. CASE d.state = "WCHANGE"
    <3>1. d.w_buf_curr \in Int
      BY DEF RingType, Counters
    <3>2. RingType(e) /\ e.bytes = d.bytes
      BY <1>1, <2>2, <3>1, EnableSodType
    <3>3. e = Fail(d) \/ e # Fail(d)
      OBVIOUS
    <3>4. CASE e = Fail(d)
      BY <2>2, <3>2, <3>4 DEF Fail, RingType, Counters, RingFields
    <3>5. CASE e # Fail(d)
      <4>1. {n \in d.w_buf_curr .. d.w_buf_curr - 1 : n % NBufs = b} = {}
        BY <3>1
      <4>2. Cardinality({n \in d.w_buf_curr .. d.w_buf_curr - 1 : n % NBufs = b}) = 0
        BY <4>1, FS_EmptySet
      <4>3. /\ e.CLEAR = d.CLEAR /\ e.state = "WRITING"
            /\ e.count[b] = d.count[b] +
                 Cardinality({n \in d.w_buf_curr .. d.w_buf_curr - 1 : n % NBufs = b})
        BY <1>1, <1>b, <2>2, <3>5
        DEF ipcbuf_enable_sod, RingType, Counters, RingFields
      <4>4. d.count[b] \in Nat
        BY <1>b DEF RingType, Counters
      <4> QED
        BY <2>2, <3>2, <4>2, <4>3, <4>4
    <3> QED
      BY <3>4, <3>5
  <2> QED
    BY <2>1, <2>2
<1>3. CASE e.err
  <2>1. ipcbuf_get_next_write(d) = e
    BY <1>1, <1>3 DEF ipcbuf_get_next_write
  <2> QED
    BY <1>2, <2>1
<1>4. CASE ~e.err
  <2> DEFINE g == [e EXCEPT !.CLEAR = @ - e.count[b], !.count[b] = 0,
                            !.w_buf_next = @ + 1]
  <2>1. ipcbuf_get_next_write(d) = g
    BY <1>1, <1>4 DEF ipcbuf_get_next_write
  <2>2. e.CLEAR - e.count[b] \in Nat
    <3>1. d.CLEAR \in Nat /\ d.count[b] \in Nat
      BY <1>b DEF RingType, Counters
    <3>2. d.CLEAR >= d.count[b]
      BY DEF GetReady
    <3> QED
      BY <1>2, <3>1, <3>2
  <2>3. [e.count EXCEPT ![b] = 0] \in [Ring -> Nat]
    BY <1>2, <1>b DEF RingType, Counters
  <2>4. Counters(g)
    <3>1. /\ g.CLEAR = e.CLEAR - e.count[b]
          /\ g.count = [e.count EXCEPT ![b] = 0]
          /\ g.w_buf_next = e.w_buf_next + 1
      BY <1>2 DEF RingType, Counters, RingFields
    <3>2. /\ DOMAIN g = DOMAIN e
          /\ g.buf_ptrs = e.buf_ptrs /\ g.bytes = e.bytes
          /\ g.sod_buf = e.sod_buf /\ g.sod_byte = e.sod_byte
          /\ g.soclock_buf = e.soclock_buf /\ g.w_buf_curr = e.w_buf_curr
          /\ g.FULL = e.FULL /\ g.w_xfer = e.w_xfer /\ g.xfers = e.xfers
      BY <1>2 DEF RingType, Counters, RingFields
    <3>3. g.CLEAR \in Nat /\ g.count \in [Ring -> Nat]
      BY <2>2, <2>3, <3>1
    <3> HIDE DEF g
    <3>4. Counters(e)
      BY <1>2 DEF RingType
    <3>5. g.w_buf_next \in Int
      BY <3>1, <3>4 DEF Counters
    <3> QED
      BY <3>2, <3>3, <3>4, <3>5 DEF Counters
  <2>5. /\ g.state = e.state /\ g.w_state = e.w_state /\ g.bytes = e.bytes
        /\ g.curbuf = e.curbuf /\ g.xfers = e.xfers /\ g.w_xfer = e.w_xfer
    BY <1>2 DEF RingType, Counters, RingFields
  <2> QED
    BY <1>2, <2>1, <2>4, <2>5 DEF RingType
<1> QED
  BY <1>3, <1>4

(* ipcio_check_pending_sod: the block of the start of data is filled. *)
LEMMA PendingSodType ==
  ASSUME NEW d, RingType(d)
  PROVE  RingType(ipcio_check_pending_sod(d))
<1>1. PICK e : e = ipcbuf_enable_sod(d, d.sod_buf, d.sod_byte)
  OBVIOUS
<1>2. CASE d.sod_pending /\ PendingFilled(d)
  <2>1. d.sod_buf \in Int /\ d.sod_byte \in Int /\ d.sod_buf <= d.w_buf_curr
    BY <1>2 DEF PendingFilled, RingType, Counters
  <2>2. RingType(e)
    BY <1>1, <2>1, EnableSodType
  <2>3. RingType([e EXCEPT !.sod_pending = FALSE])
    BY <2>2 DEF RingType, Counters, RingFields
  <2> QED
    BY <1>1, <1>2, <2>2, <2>3 DEF ipcio_check_pending_sod
<1>3. CASE ~(d.sod_pending /\ PendingFilled(d))
  BY <1>3 DEF ipcio_check_pending_sod
<1> QED
  BY <1>2, <1>3

(* One more block is filled and, if it is in a transfer, counted. *)
LEMMA CountFilled ==
  ASSUME NEW d, RingType(d), NEW b \in Ring
  PROVE  RingType([d EXCEPT !.count[b] = @ + 1, !.w_buf_curr = @ + 1,
                            !.FULL = @ + 1])
<1> DEFINE g == [d EXCEPT !.count[b] = @ + 1, !.w_buf_curr = @ + 1,
                          !.FULL = @ + 1]
<1>1. [d.count EXCEPT ![b] = @ + 1] \in [Ring -> Nat]
  BY DEF RingType, Counters
<1>2. Counters(g)
  <2>c. g.count = [d.count EXCEPT ![b] = @ + 1]
    BY DEF RingType, Counters, RingFields
  <2>1. /\ g.w_buf_curr = d.w_buf_curr + 1 /\ g.FULL = d.FULL + 1
        /\ DOMAIN g = DOMAIN d
        /\ g.buf_ptrs = d.buf_ptrs /\ g.bytes = d.bytes
        /\ g.sod_buf = d.sod_buf /\ g.sod_byte = d.sod_byte
        /\ g.soclock_buf = d.soclock_buf /\ g.w_buf_next = d.w_buf_next
        /\ g.CLEAR = d.CLEAR /\ g.w_xfer = d.w_xfer /\ g.xfers = d.xfers
    BY DEF RingType, Counters, RingFields
  <2>2. Counters(d)
    BY DEF RingType
  <2>3. g.count \in [Ring -> Nat]
    BY <1>1, <2>c
  <2>n. d.w_buf_curr \in Int /\ d.FULL \in Nat
    BY <2>2 DEF Counters
  <2> HIDE DEF g
  <2>4. g.w_buf_curr \in Int /\ g.FULL \in Nat
    BY <2>1, <2>n
  <2> QED
    BY <2>1, <2>2, <2>3, <2>4 DEF Counters
<1>3. /\ g.state = d.state /\ g.w_state = d.w_state /\ g.bytes = d.bytes
      /\ g.curbuf = d.curbuf /\ g.xfers = d.xfers /\ g.w_xfer = d.w_xfer
  BY DEF RingType, Counters, RingFields
<1> QED
  BY <1>2, <1>3 DEF RingType

(* ipcbuf_mark_filled of a whole block, inside a transfer or outside of one. *)
LEMMA MarkFilledType ==
  ASSUME NEW d, RingType(d), d.state # "WCHANGE"
  PROVE  RingType(ipcbuf_mark_filled(d, BufSz))
<1>0. d.w_buf_curr \in Int
  BY DEF RingType, Counters
<1>1. d.w_buf_curr % NBufs \in Ring /\ d.w_buf_curr + 1 \in Int
  BY <1>0, PlaceInRing
<1>2. CASE d.state = "WRITER"
  <2>1. ipcbuf_mark_filled(d, BufSz) = [d EXCEPT !.w_buf_curr = @ + 1]
    BY <1>2 DEF ipcbuf_mark_filled
  <2> QED
    BY <1>1, <2>1 DEF RingType, Counters, RingFields
<1>3. CASE d.state # "WRITER"
  <2>1. ~(BufSz < BufSz)
    BY IoSizes
  <2>2. PICK b \in Ring : b = d.w_buf_curr % NBufs
    BY <1>1
  <2>3. PICK g : g = [d EXCEPT !.count[b] = @ + 1, !.w_buf_curr = @ + 1,
                               !.FULL = @ + 1]
    OBVIOUS
  <2>4. ipcbuf_mark_filled(d, BufSz) = g
    BY <1>3, <2>1, <2>2, <2>3 DEF ipcbuf_mark_filled
  <2>5. RingType(g)
    BY <2>3, CountFilled
  <2> QED
    BY <2>4, <2>5
<1> QED
  BY <1>2, <1>3

(* End of data is raised on the block that is being filled; without a byte in *)
(* it, that block is taken too, for which ipcio_stop waits.                  *)
LEMMA EndOfDataType ==
  ASSUME NEW d, RingType(d), d.state = "WRITING", d.bytes = 0 => GetReady(d)
  PROVE  RingType(EndOfData(d))
<1> DEFINE c == [d EXCEPT !.state = "WCHANGE"]
           x == d.w_xfer + 1
           e == [c EXCEPT !.xfers[x].e_buf = c.w_buf_curr,
                          !.xfers[x].e_byte = d.bytes,
                          !.xfers[x].eod = TRUE,
                          !.w_xfer = x,
                          !.state = "WRITER",
                          !.w_state = "DISCON"]
           f == IF d.bytes = 0 THEN ipcbuf_get_next_write(e) ELSE e
<1>0. d.w_buf_curr \in Nat
  BY DEF RingType, Counters
<1>1. d.w_state = "WRITING" /\ Len(d.xfers) = x /\ x \in Nat
  BY DEF RingType, Counters
<1>2. RingType(e) /\ e.count = d.count /\ e.CLEAR = d.CLEAR
      /\ e.w_buf_next = d.w_buf_next /\ e.bytes = d.bytes /\ e.state = "WRITER"
  <2> DEFINE X == [d.xfers EXCEPT ![x].e_buf = d.w_buf_curr,
                                  ![x].e_byte = d.bytes,
                                  ![x].eod = TRUE]
  <2>1. d.xfers[x] \in XferType /\ d.xfers \in Seq(XferType)
    BY <1>1 DEF RingType, Counters
  <2>b. d.bytes \in Int
    BY IoSizes DEF RingType, Counters
  <2>2. [d.xfers[x] EXCEPT !.e_buf = d.w_buf_curr, !.e_byte = d.bytes, !.eod = TRUE]
          \in XferType
    BY <1>0, <2>1, <2>b DEF XferType
  <2>3. X = [d.xfers EXCEPT ![x] = [d.xfers[x] EXCEPT !.e_buf = d.w_buf_curr,
                                    !.e_byte = d.bytes, !.eod = TRUE]]
    BY <1>1 DEF RingType, Counters
  <2>4. X \in Seq(XferType) /\ Len(X) = Len(d.xfers)
    <3> DEFINE r == [d.xfers[x] EXCEPT !.e_buf = d.w_buf_curr,
                                       !.e_byte = d.bytes, !.eod = TRUE]
    <3>1. r \in XferType /\ X = [d.xfers EXCEPT ![x] = r]
      BY <2>2, <2>3
    <3>2. x \in 1 .. Len(d.xfers)
      BY <1>1 DEF RingType, Counters
    <3> HIDE DEF r, X
    <3> QED
      BY <2>1, <3>1, <3>2
  <2>5. e.xfers = X
    BY DEF RingType, Counters, RingFields
  <2>6. /\ e.w_state = "DISCON" /\ e.state = "WRITER" /\ e.w_xfer = x
        /\ DOMAIN e = DOMAIN d
        /\ e.buf_ptrs = d.buf_ptrs /\ e.bytes = d.bytes
        /\ e.sod_buf = d.sod_buf /\ e.sod_byte = d.sod_byte
        /\ e.soclock_buf = d.soclock_buf /\ e.w_buf_curr = d.w_buf_curr
        /\ e.w_buf_next = d.w_buf_next /\ e.count = d.count
        /\ e.FULL = d.FULL /\ e.CLEAR = d.CLEAR
    BY DEF RingType, Counters, RingFields
  <2> HIDE DEF X, e
  <2> QED
    BY <1>1, <2>4, <2>5, <2>6 DEF RingType, Counters
<1>3. RingType(f)
  <2> HIDE DEF e
  <2>1. d.bytes = 0 => GetReady(e)
    BY <1>2 DEF GetReady
  <2> QED
    BY <1>2, <2>1, GetNextWriteType
<1>4. d.w_buf_curr % NBufs \in Ring
  BY <1>0, PlaceInRing
<1>5. PICK b \in Ring : b = d.w_buf_curr % NBufs
  BY <1>4
<1>6. PICK g : g = [f EXCEPT !.count[b] = @ + 1, !.w_buf_curr = @ + 1,
                             !.FULL = @ + 1]
  <2> HIDE DEF f
  <2> QED
    OBVIOUS
<1>7. RingType(g)
  <2> HIDE DEF f
  <2> QED
    BY <1>3, <1>6, CountFilled
<1>8. ipcbuf_mark_filled(c, d.bytes) = g
  <2>1. /\ c.state = "WCHANGE" /\ c.w_buf_curr = d.w_buf_curr
        /\ c.w_xfer = d.w_xfer
    BY DEF RingType, Counters, RingFields
  <2> HIDE DEF c
  <2>2. PICK h : h = f
    OBVIOUS
  <2>3. ipcbuf_mark_filled(c, d.bytes) =
          [h EXCEPT !.count[b] = @ + 1, !.w_buf_curr = @ + 1, !.FULL = @ + 1]
    BY <1>5, <2>1, <2>2 DEF ipcbuf_mark_filled
  <2> HIDE DEF f
  <2> QED
    BY <1>6, <2>2, <2>3
<1> QED
  BY <1>7, <1>8, PendingSodType DEF EndOfData

-----------------------------------------------------------------------------
(* ipcio_open, ipcio_start, ipcio_stop and ipcio_close. *)
LEMMA OpenType ==
  ASSUME NEW d, RingType(d), NEW mode \in {"w", "W"}
  PROVE  RingType(ipcio_open(d, mode))
<1>1. 0 \in 0 .. BufSz
  BY IoSizes
<1> QED
  BY <1>1 DEF ipcio_open, Fail, RingType, Counters, RingFields

LEMMA StartType ==
  ASSUME NEW d, RingType(d), NEW byte \in Int
  PROVE  RingType(ipcio_start(d, byte))
<1>1. byte \div BufSz \in Int /\ byte % BufSz \in Int
  BY IoSizes
<1>2. PICK p : p = [d EXCEPT !.sod_buf = byte \div BufSz, !.sod_byte = byte % BufSz,
                             !.sod_pending = TRUE, !.rdwrt = "W"]
  OBVIOUS
<1>3. RingType(p)
  BY <1>1, <1>2 DEF RingType, Counters, RingFields
<1>4. RingType(Fail(d))
  BY DEF Fail, RingType, Counters, RingFields
<1> QED
  BY <1>2, <1>3, <1>4, PendingSodType DEF ipcio_start

LEMMA StopType ==
  ASSUME NEW d, RingType(d), StopReady(d)
  PROVE  RingType(ipcio_stop(d))
<1>1. CASE d.rdwrt # "W"
  BY <1>1 DEF ipcio_stop, Fail, RingType, Counters, RingFields
<1>2. CASE d.rdwrt = "W" /\ d.state # "WRITING"
  <2>1. ipcio_stop(d) = [d EXCEPT !.rdwrt = "w"]
    BY <1>2 DEF ipcio_stop
  <2> QED
    BY <2>1 DEF RingType, Counters, RingFields
<1>3. CASE d.rdwrt = "W" /\ d.state = "WRITING"
  <2>1. CloseBlocks(d) = d
    BY NoBlocksOpen DEF RingType, Counters
  <2>2. PICK e : e = EndOfData(d)
    OBVIOUS
  <2>3. RingType(e)
    BY <1>3, <2>1, <2>2, EndOfDataType DEF StopReady
  <2>4. RingType(Ended(e))
    BY <2>3 DEF Ended, RingType, Counters, RingFields
  <2>5. ipcio_stop(d) = IF e.err THEN e ELSE Ended(e)
    BY <1>3, <2>1, <2>2 DEF ipcio_stop, IfOk
  <2> QED
    BY <2>3, <2>4, <2>5
<1> QED
  BY <1>1, <1>2, <1>3

LEMMA CloseType ==
  ASSUME NEW d, RingType(d), StopReady(d)
  PROVE  RingType(ipcio_close(d))
<1>1. PICK s : s = IF d.rdwrt = "W" THEN ipcio_stop(d) ELSE d
  OBVIOUS
<1>2. RingType(s)
  BY <1>1, StopType
<1>3. RingType(Closed(s))
  <2>1. CASE s.rdwrt = "w" /\ s.w_xfer > 0
    <3>1. PICK next : next = s.xfers[s.w_xfer].e_buf + 1
      OBVIOUS
    <3>2. s.xfers[s.w_xfer] \in XferType
      BY <1>2, <2>1 DEF RingType, Counters
    <3>3. next \in Nat
      BY <3>1, <3>2 DEF XferType
    <3>4. Closed(s) = [s EXCEPT !.w_buf_curr = next, !.w_buf_next = next,
                                !.state = "VIEWER", !.rdwrt = "0"]
      BY <2>1, <3>1 DEF Closed
    <3> QED
      BY <1>2, <3>3, <3>4 DEF RingType, Counters, RingFields
  <2>2. CASE ~(s.rdwrt = "w" /\ s.w_xfer > 0)
    BY <1>2, <2>2 DEF Closed, Fail, RingType, Counters, RingFields
  <2> QED
    BY <2>1, <2>2
<1> QED
  BY <1>1, <1>2, <1>3 DEF ipcio_close, IfOk

(* ipcbuf_set_soclock_buf reads the end of the last transfer that has ended. *)
LEMMA SoclockType ==
  ASSUME NEW d, RingType(d)
  PROVE  RingType(ipcbuf_set_soclock_buf(d))
<1>1. CASE d.w_xfer > 0
  <2>1. d.xfers[d.w_xfer] \in XferType
    BY <1>1 DEF RingType, Counters
  <2>2. PICK b \in Nat : b = d.xfers[d.w_xfer].e_buf + 1
    BY <2>1 DEF XferType
  <2>3. ipcbuf_set_soclock_buf(d) = [d EXCEPT !.soclock_buf = b]
    BY <1>1, <2>2 DEF ipcbuf_set_soclock_buf
  <2> QED
    BY <2>2, <2>3 DEF RingType, Counters, RingFields
<1>2. CASE ~(d.w_xfer > 0)
  <2>1. ipcbuf_set_soclock_buf(d) = [d EXCEPT !.soclock_buf = 0]
    BY <1>2 DEF ipcbuf_set_soclock_buf
  <2> QED
    BY <2>1 DEF RingType, Counters, RingFields
<1> QED
  BY <1>1, <1>2

(* The steps of ipcio_write. *)
LEMMA WriteFullType ==
  ASSUME NEW d, RingType(d), d.bytes = BufSz
  PROVE  RingType(WriteFull(d))
<1>1. d.state # "WCHANGE"
  BY IoSizes DEF RingType, Counters
<1>2. PICK e : e = IF d.marked_filled THEN d
                   ELSE ipcio_check_pending_sod(ipcbuf_mark_filled(d, d.bytes))
  OBVIOUS
<1>3. RingType(e)
  BY <1>1, <1>2, MarkFilledType, PendingSodType
<1>4. 0 \in 0 .. BufSz
  BY IoSizes
<1>5. RingType([e EXCEPT !.curbuf = NoBuf, !.bytes = 0, !.marked_filled = TRUE])
  BY <1>3, <1>4 DEF RingType, Counters, RingFields
<1> QED
  BY <1>2, <1>3, <1>5 DEF WriteFull

LEMMA WriteGetType ==
  ASSUME NEW d, RingType(d), GetReady(d)
  PROVE  RingType(WriteGet(d))
<1>1. PICK e : e = ipcbuf_get_next_write(d)
  OBVIOUS
<1>2. RingType(e) /\ (~e.err => e.state # "WCHANGE")
  BY <1>1, GetNextWriteType
<1>3. 0 \in 0 .. BufSz
  BY IoSizes
<1>4. ~e.err => RingType([e EXCEPT !.curbuf = d.w_buf_next % NBufs,
                                   !.marked_filled = FALSE, !.bytes = 0])
  BY <1>2, <1>3 DEF RingType, Counters, RingFields
<1> QED
  BY <1>1, <1>2, <1>4 DEF WriteGet

LEMMA WriteCopyType ==
  ASSUME NEW d, RingType(d), d.curbuf # NoBuf, NEW vals, Len(vals) \in Nat
  PROVE  RingType(WriteCopy(d, vals))
<1>1. d.bytes + Space(d, vals) \in 0 .. BufSz
  BY IoSizes DEF Space, RingType, Counters
<1>2. PICK s : s = Space(d, vals)
  OBVIOUS
<1>3. PICK mem : mem = Store(d.mem, d.curbuf, d.bytes, SubSeq(vals, 1, s))
  OBVIOUS
<1>4. WriteCopy(d, vals) = [d EXCEPT !.mem = mem, !.bytes = @ + s]
  BY <1>2, <1>3 DEF WriteCopy
<1> QED
  BY <1>1, <1>2, <1>4 DEF RingType, Counters, RingFields

(* The caller sees the error; the reader takes tokens and gives them back. *)
LEMMA OkType ==
  ASSUME NEW d, RingType(d)
  PROVE  RingType(Ok(d)) /\ ~Ok(d).err
  BY DEF Ok, RingType, Counters, RingFields

LEMMA TokenType ==
  ASSUME NEW d, RingType(d), d.FULL > 0
  PROVE  RingType(Cleared(Taken(d))) /\ Cleared(Taken(d)).err = d.err
  BY DEF Cleared, Taken, RingType, Counters, RingFields

-----------------------------------------------------------------------------
(* The commands. *)
LEMMA ProductNat ==
  ASSUME NEW a \in Nat, NEW b \in Nat
  PROVE  a * b \in Nat
  OBVIOUS

LEMMA RoundNat ==
  ASSUME NEW code, NEW n \in Nat
  PROVE  Round(code, n) \in Nat
<1>1. CASE Resolution > 1
  <2>1. Resolution \in Nat /\ n \div Resolution \in Nat
    BY <1>1, PwcSizes
  <2>2. (n \div Resolution) * Resolution \in Nat
    BY <2>1, ProductNat
  <2> QED
    BY <1>1, <2>1, <2>2 DEF Round
<1>2. CASE ~(Resolution > 1)
  BY <1>2 DEF Round
<1> QED
  BY <1>1, <1>2

(* dada_pwc_command_set_byte_count counts from UTC_START. *)
LEMMA ByteCountType ==
  ASSUME NEW p, PwcType(p), NEW code \in CommandCodes, NEW utc \in Nat
  PROVE  dada_pwc_command_set_byte_count(p, code, utc) \in CommandType
<1>1. CASE utc = 0 \/ utc < p.utc_start
  BY <1>1 DEF dada_pwc_command_set_byte_count, NoCommand, CommandType
<1>2. CASE ~(utc = 0 \/ utc < p.utc_start)
  <2>1. utc - p.utc_start \in Nat /\ p.bytes_per_second \in Nat
    BY <1>2 DEF PwcType
  <2>2. Round(code, (utc - p.utc_start) * p.bytes_per_second) \in Nat
    BY <2>1, ProductNat, RoundNat
  <2> QED
    BY <1>2, <2>2 DEF dada_pwc_command_set_byte_count, CommandType
<1> QED
  BY <1>1, <1>2

LEMMA NoCommandType == NoCommand \in CommandType
  BY DEF NoCommand, CommandType, CommandCodes

(* What a client sends. *)
LEMMA SendType ==
  ASSUME ControlType, NEW c \in Clients, Sends(c)
  PROVE  PwcType(pwc') /\ call' \in [Clients -> CommandType] /\ waiting' = waiting
<1> DEFINE Goal == PwcType(pwc') /\ call' \in [Clients -> CommandType]
                     /\ waiting' = waiting
<1>i. PwcType(pwc) /\ call \in [Clients -> CommandType] /\ Utcs \subseteq Nat
  BY PwcSizes DEF ControlType
<1>1. ASSUME NEW cmd \in CommandType, NEW p, PwcType(p), Begin(c, cmd, p)
      PROVE  Goal
  BY <1>1, <1>i DEF Begin
<1>2. ASSUME NEW h \in Headers, cmd_header(c, h) PROVE Goal
  <2>1. PwcType([pwc EXCEPT !.bytes_per_second = Bps, !.header = h])
    BY <1>i, PwcSizes DEF PwcType
  <2>2. [NoCommand EXCEPT !.code = "header"] \in CommandType
    BY DEF NoCommand, CommandType, CommandCodes
  <2>3. PICK p, cmd : /\ p = [pwc EXCEPT !.bytes_per_second = Bps, !.header = h]
                      /\ cmd = [NoCommand EXCEPT !.code = "header"]
    OBVIOUS
  <2>4. Begin(c, cmd, p)
    BY <1>2, <2>3 DEF cmd_header
  <2> QED
    BY <1>1, <2>1, <2>2, <2>3, <2>4
<1>3. ASSUME NEW n \in Durations, cmd_duration(c, n) PROVE Goal
  <2>1. PICK cmd : cmd = [NoCommand EXCEPT !.code = "duration", !.byte_count = n]
    OBVIOUS
  <2>2. cmd \in CommandType
    BY <2>1, PwcSizes DEF NoCommand, CommandType, CommandCodes
  <2>3. Begin(c, cmd, pwc)
    BY <1>3, <2>1 DEF cmd_duration
  <2> QED
    BY <1>1, <1>i, <2>2, <2>3
<1>4. ASSUME NEW code \in CommandCodes, cmd_plain(c, code) PROVE Goal
  <2>1. PICK cmd : cmd = [NoCommand EXCEPT !.code = code]
    OBVIOUS
  <2>2. cmd \in CommandType
    BY <2>1 DEF NoCommand, CommandType, CommandCodes
  <2>3. Begin(c, cmd, pwc)
    BY <1>4, <2>1 DEF cmd_plain
  <2> QED
    BY <1>1, <1>i, <2>2, <2>3
<1>5. ASSUME NEW code \in CommandCodes, NEW u \in Utcs, cmd_dated(c, code, u) PROVE Goal
  <2>1. PICK cmd : cmd = dada_pwc_command_set_byte_count(pwc, code, u)
    OBVIOUS
  <2>2. cmd \in CommandType
    BY <2>1, <1>i, ByteCountType
  <2>3. Begin(c, cmd, pwc)
    BY <1>5, <2>1 DEF cmd_dated
  <2> QED
    BY <1>1, <1>i, <2>2, <2>3
<1>6. ASSUME NEW u \in Utcs, cmd_start(c, u) PROVE Goal
  <2>1. PICK cmd : cmd = [code |-> "start", utc |-> u,
                          byte_count |-> pwc.command.byte_count]
    OBVIOUS
  <2>2. cmd \in CommandType
    BY <2>1, <1>i DEF PwcType, CommandType, CommandCodes
  <2>3. Begin(c, cmd, pwc)
    BY <1>6, <2>1 DEF cmd_start
  <2> QED
    BY <1>1, <1>i, <2>2, <2>3
<1>7. ASSUME NEW u \in Utcs, cmd_set_utc_start(c, u) PROVE Goal
  <2>1. PICK p : p = [pwc EXCEPT !.utc_start = u]
    OBVIOUS
  <2>2. PwcType(p)
    BY <2>1, <1>i DEF PwcType
  <2>3. PICK cmd : cmd = IF CanConvert(p, u)
                           THEN dada_pwc_command_set_byte_count(p, "set_utc_start", u)
                           ELSE NoCommand
    OBVIOUS
  <2>4. dada_pwc_command_set_byte_count(p, "set_utc_start", u) \in CommandType
    BY <1>i, <2>2, ByteCountType DEF CommandCodes
  <2>5. cmd \in CommandType
    BY <2>3, <2>4, NoCommandType
  <2>6. Begin(c, cmd, p)
    BY <1>7, <2>1, <2>3 DEF cmd_set_utc_start
  <2> QED
    BY <1>1, <2>2, <2>5, <2>6
<1>8. ASSUME cmd_quit(c) PROVE Goal
  <2>1. PICK p, cmd : /\ p = [pwc EXCEPT !.quit = TRUE]
                      /\ cmd = [NoCommand EXCEPT !.code = "exit"]
    OBVIOUS
  <2>2. cmd \in CommandType /\ PwcType(p)
    BY <2>1, <1>i DEF NoCommand, CommandType, CommandCodes, PwcType
  <2>3. Begin(c, cmd, p)
    BY <1>8, <2>1 DEF cmd_quit
  <2> QED
    BY <1>1, <2>2, <2>3
<1> QED
  BY <1>2, <1>3, <1>4, <1>5, <1>6, <1>7, <1>8 DEF Sends, CommandCodes

LEMMA ClientType ==
  ASSUME TypeInv, NEW c \in Clients, Send(c) \/ Command(c)
  PROVE  TypeInv'
<1>1. UNCHANGED <<io, todo, hb, m, src>>
  BY DEF Send, Command, Others, datavars
<1>2. TransferType' /\ DataType' /\ HeaderBlock'
  BY <1>1
  DEF TypeInv, TransferType, Transferring, DataType, RingType, Counters,
      HeaderBlock, HeaderOpen
<1>3. ControlType'
  <2>i. PwcType(pwc) /\ call \in [Clients -> CommandType]
        /\ waiting \subseteq Clients \cup {Main}
        /\ (Main \in waiting => m.pc = "get")
    BY DEF TypeInv, ControlType
  <2>1. CASE Send(c)
    <3>1. PwcType(pwc') /\ call' \in [Clients -> CommandType] /\ waiting' = waiting
      BY <2>1, SendType DEF Send, TypeInv
    <3> QED
      BY <1>1, <2>i, <3>1 DEF ControlType, PwcType
  <2>2. ASSUME call' = [call EXCEPT ![c] = NoCommand]
        PROVE  call' \in [Clients -> CommandType]
    BY <2>i, <2>2, NoCommandType
  <2>3. CASE CommandWait(c)
    <3>1. pwc' = pwc /\ call' = call /\ waiting' = waiting \cup {c} /\ c # Main
      BY <2>3, MainIsNoClient DEF CommandWait
    <3> QED
      BY <1>1, <2>i, <3>1 DEF ControlType, PwcType
  <2>4. CASE CommandRefused(c)
    <3>1. pwc' = pwc /\ waiting' = waiting /\ call' \in [Clients -> CommandType]
      BY <2>2, <2>4 DEF CommandRefused, Returns
    <3> QED
      BY <1>1, <2>i, <3>1 DEF ControlType, PwcType
  <2>5. CASE DurationSet(c)
    <3>1. waiting' = waiting /\ call' \in [Clients -> CommandType]
      BY <2>2, <2>5 DEF DurationSet, Returns
    <3>2. [code |-> "none", utc |-> pwc.command.utc,
           byte_count |-> call[c].byte_count] \in CommandType
      BY <2>i DEF PwcType, CommandType, CommandCodes
    <3>3. PwcType(pwc')
      BY <2>5, <2>i, <3>2 DEF DurationSet, PwcType
    <3> QED
      BY <1>1, <2>i, <3>1, <3>3 DEF ControlType, PwcType
  <2>6. CASE dada_pwc_command_set(c)
    <3>1. waiting' \subseteq waiting /\ call' \in [Clients -> CommandType]
      BY <2>2, <2>6, SignalWakes DEF dada_pwc_command_set, Returns
    <3>2. PwcType(pwc')
      BY <2>6, <2>i DEF dada_pwc_command_set, PwcType
    <3> QED
      BY <1>1, <2>i, <3>1, <3>2 DEF ControlType, PwcType
  <2> QED
    BY <2>1, <2>3, <2>4, <2>5, <2>6 DEF Command
<1> QED
  BY <1>2, <1>3 DEF TypeInv

(* The read client takes blocks that were handed over. *)
LEMMA ReaderType ==
  ASSUME TypeInv, ReaderNext
  PROVE  TypeInv'
<1>1. UNCHANGED <<pwc, waiting, call, todo, m, src>>
  BY DEF ReaderNext, ReadHeader, ReadBlock, ReadEnds, MainUnchanged, pwcvars, ghost
<1>2. ControlType' /\ TransferType'
  BY <1>1 DEF TypeInv, ControlType, PwcType, TransferType, Transferring
<1>3. io' = io \/ (io.FULL > 0 /\ io' = Cleared(Taken(io)))
  BY DEF ReaderNext, ReadHeader, ReadBlock, ReadEnds, ReadReady
<1>4. RingType(io') /\ ~io'.err
  BY <1>3, TokenType DEF TypeInv, DataType
<1>5. DataType'
  BY <1>1, <1>4 DEF TypeInv, DataType, RingType, Counters
<1>6. hb' = hb \/ hb' = HB!Cleared(HB!Taken(hb))
  BY DEF ReaderNext, ReadHeader, ReadBlock, ReadEnds
<1>7. HeaderBlock'
  BY <1>1, <1>6
  DEF TypeInv, HeaderBlock, HeaderOpen, HeaderFields, HB!Cleared, HB!Taken
<1> QED
  BY <1>2, <1>5, <1>7 DEF TypeInv

-----------------------------------------------------------------------------
(* dada_pwc_set_state, as the transfer thread uses it. *)
LEMMA SetStateType ==
  ASSUME NEW p, PwcType(p), NEW new \in States, NEW utc \in Nat, SetState(p, new, utc)
  PROVE  PwcType(pwc')
  BY DEF SetState, dada_pwc_set_state, PwcType

LEMMA ErrorStateType ==
  ASSUME NEW state \in States, NEW rval
  PROVE  ErrorState(state, rval) \in States
  BY DEF ErrorState, States, Errors

LEMMA ErrorType ==
  ASSUME PwcType(pwc), NEW rval, NEW pc, Error(pwc, rval, pc)
  PROVE  PwcType(pwc')
  BY SetStateType, ErrorStateType DEF Error, PwcType

LEMMA CommandGotType ==
  ASSUME PwcType(pwc)
  PROVE  PwcType(CommandGot(pwc))
<1>1. [pwc.command EXCEPT !.code = "none", !.byte_count = 0] \in CommandType
  BY DEF PwcType, CommandType, CommandCodes
<1>2. CommandGot(pwc)
        = [pwc EXCEPT !.command = [pwc.command EXCEPT !.code = "none", !.byte_count = 0]]
  BY DEF CommandGot, PwcType
<1> QED
  BY <1>1, <1>2 DEF PwcType

LEMMA MainPwc ==
  ASSUME TypeInv, MainNext
  PROVE  PwcType(pwc')
<1>i. PwcType(pwc) /\ pwc.state \in States
  BY DEF TypeInv, ControlType, PwcType
<1>s. {"idle", "prepared", "clocking", "recording", "fatal_error"} \subseteq States
  BY DEF States, Errors
<1>1. CASE Exit \/ GetWait \/ HandleQuit \/ PollQuit \/ PollNone \/ FetchNothing
           \/ NotReached \/ CheckStop
  BY <1>1, <1>i
  DEF Exit, GetWait, HandleQuit, PollQuit, PollNone, FetchNothing, NotReached,
      CheckStop, PwcType
<1>2. CASE Get \/ PollUtc \/ PollDated
  BY <1>2, <1>i, CommandGotType DEF Get, PollUtc, PollDated
<1>3. CASE CheckFatal
  BY <1>3, <1>i DEF CheckFatal, PwcType
<1>4. CASE Prepare
  <2>1. pwc' = pwc \/ SetState(pwc, ErrorState(pwc.state, "hard"), 0)
    BY <1>4 DEF Prepare
  <2> QED
    BY <1>i, <2>1, SetStateType, ErrorStateType
<1>5. CASE HandleIdle \/ HandleHeader
  <2>1. SetState(pwc, "idle", 0) \/ SetState(pwc, "prepared", 0)
    BY <1>5 DEF HandleIdle, HandleHeader
  <2> QED
    BY <1>i, <1>s, <2>1, SetStateType
<1>6. CASE HandleStart \/ Room \/ Written
  <2>1. pwc' = pwc \/ \E rval, pc : Error(pwc, rval, pc)
    BY <1>6 DEF HandleStart, Room, Written
  <2> QED
    BY <1>i, <2>1, ErrorType
<1>7. CASE HandleUnexpected \/ StartFails \/ FetchFails \/ CheckUnexpected
  BY <1>i, <1>7, ErrorType
  DEF HandleUnexpected, StartFails, FetchFails, CheckUnexpected
<1>8. CASE Start
  <2>1. PICK tells \in TellsUtc : 
          LET utc == IF tells THEN Time0 ELSE Unknown
              p == [pwc EXCEPT !.utc_start = IF utc > 0 THEN utc ELSE @]
              new == IF m.command.code = "start" THEN "recording" ELSE "clocking"
          IN \/ SetState(p, new, utc)
             \/ SetState(p, ErrorState(p.state, "soft"), 0)
    BY <1>8 DEF Start
  <2>2. PICK utc : utc = IF tells THEN Time0 ELSE Unknown
    OBVIOUS
  <2>3. utc \in Nat
    BY <2>2, MainSizes
    DEF Time0, Unknown, TypeInv, TransferType, CommandType
  <2>4. PICK p : p = [pwc EXCEPT !.utc_start = IF utc > 0 THEN utc ELSE @]
    OBVIOUS
  <2>5. PwcType(p) /\ p.state \in States
    BY <1>i, <2>3, <2>4 DEF PwcType
  <2>6. PICK new \in States :
          \/ SetState(p, new, utc)
          \/ SetState(p, ErrorState(p.state, "soft"), 0)
    BY <1>s, <2>1, <2>2, <2>4
  <2> QED
    BY <2>3, <2>5, <2>6, SetStateType, ErrorStateType
<1>9. CASE PollUnexpected
  <2>1. SetState(CommandGot(pwc), ErrorState(pwc.state, "hard"), 0)
    BY <1>9 DEF PollUnexpected
  <2> QED
    BY <1>i, <2>1, CommandGotType, SetStateType, ErrorStateType
<1>10. CASE \E size \in BufSizes : Fetch(size)
  <2>1. pwc' = pwc \/ SetState(pwc, "fatal_error", 0)
    BY <1>10 DEF Fetch
  <2> QED
    BY <1>i, <1>s, <2>1, SetStateType
<1>11. CASE Write
  <2>1. PICK d, rest : WriteStep(d, rest)
    BY <1>11 DEF Write
  <2>2. pwc' = pwc \/ \E rval, pc : Error(pwc, rval, pc)
    BY <2>1 DEF WriteStep
  <2> QED
    BY <1>i, <2>2, ErrorType
<1>12. CASE RecStop
  <2>1. SetState(pwc, "clocking", 0) \/ \E rval, pc : Error(pwc, rval, pc)
    BY <1>12 DEF RecStop, Rest
  <2> QED
    BY <1>i, <1>s, <2>1, SetStateType, ErrorType
<1>13. CASE RecStart
  <2>1. \/ SetState(pwc, "recording", 0)
        \/ SetState(pwc, ErrorState(pwc.state, "hard"), 0)
    BY <1>13 DEF RecStart, Rest
  <2> QED
    BY <1>i, <1>s, <2>1, SetStateType, ErrorStateType
<1>14. CASE StopTransfer
  <2>1. \/ pwc' = pwc
        \/ SetState(pwc, "idle", 0) \/ SetState(pwc, "fatal_error", 0)
    BY <1>14 DEF StopTransfer
  <2> QED
    BY <1>i, <1>s, <2>1, SetStateType
<1>15. CASE StopFails
  <2>1. SetState(pwc, ErrorState(pwc.state, "hard"), 0)
    BY <1>15 DEF StopFails
  <2> QED
    BY <1>i, <2>1, SetStateType, ErrorStateType
<1> QED
  BY <1>1, <1>2, <1>3, <1>4, <1>5, <1>6, <1>7, <1>8, <1>9, <1>10, <1>11, <1>12,
     <1>13, <1>14, <1>15 DEF MainNext

LEMMA MainCalls ==
  ASSUME MainNext
  PROVE  call' = call
  BY DEF MainNext, NoClient, Exit, Prepare, GetWait, Get, HandleIdle, HandleHeader,
     HandleStart, HandleUnexpected, HandleQuit, Handling, Start, StartFails,
     PollQuit, PollNone, PollUtc, PollDated, PollUnexpected, Polled, Polling,
     Fetch, FetchFails, FetchNothing, Write, WriteStep, Written, NotReached,
     RecStop, RecStart, CheckStop, CheckUnexpected, Checking, Room, StopTransfer,
     StopFails, CheckFatal

LEMMA MainControl ==
  ASSUME TypeInv, MainNext
  PROVE  ControlType'
<1>1. PwcType(pwc')
  BY MainPwc
<1>2. call' = call
  BY MainCalls
<1>3. CASE GetWait
  BY <1>1, <1>2, <1>3 DEF GetWait, TypeInv, ControlType, PwcType
<1>4. CASE ~GetWait
  <2>1. Main \notin waiting /\ waiting' \subseteq waiting
    BY <1>4, MainWakes DEF TypeInv, ControlType
  <2> QED
    BY <1>1, <1>2, <2>1 DEF TypeInv, ControlType, PwcType
<1> QED
  BY <1>3, <1>4

(* The transfer thread keeps, of one Header Block after the other, one open. *)
LEMMA HeaderGot ==
  ASSUME HeaderBlock
  PROVE  HeaderOpen(HB!ipcbuf_get_next_write(hb))
<1>0. 0 < NHdr /\ ~(1 < 1) /\ 0 <= 1
  BY MainSizes
<1>1. CASE hb.state = "WRITING"
  <2>1. ~hb.err /\ HeaderFields \subseteq DOMAIN hb
    BY DEF HeaderBlock, HeaderOpen
  <2>2. PICK b : HB!ipcbuf_get_next_write(hb)
          = [hb EXCEPT !.CLEAR = @ - hb.count[b], !.count[b] = 0, !.w_buf_next = @ + 1]
    BY <1>1, <2>1 DEF HB!ipcbuf_get_next_write
  <2> QED
    BY <1>1, <2>1, <2>2 DEF HeaderOpen, HeaderFields
<1>2. CASE hb.state # "WRITING"
  <2>1. /\ HeaderFields \subseteq DOMAIN hb /\ ~hb.err /\ hb.state = "WCHANGE"
        /\ hb.w_buf_curr = 0 /\ hb.w_buf_next = 0 /\ hb.soclock_buf = 0
    BY <1>2 DEF HeaderBlock, HeaderOpen
  <2>2. PICK e : e = HB!ipcbuf_enable_sod(hb, hb.w_buf_curr, 0)
    OBVIOUS
  <2>3. HeaderOpen(e)
    BY <1>0, <2>1, <2>2
    DEF HB!ipcbuf_enable_sod, HB!ipcbuf_get_sod_minbuf, HB!Unsigned, HeaderOpen, HeaderFields
  <2>4. PICK b : HB!ipcbuf_get_next_write(hb)
          = [e EXCEPT !.CLEAR = @ - e.count[b], !.count[b] = 0, !.w_buf_next = @ + 1]
    BY <2>1, <2>2, <2>3 DEF HB!ipcbuf_get_next_write, HeaderOpen
  <2> QED
    BY <2>3, <2>4 DEF HeaderOpen, HeaderFields
<1> QED
  BY <1>1, <1>2

LEMMA HeaderFilled ==
  ASSUME NEW h, HeaderOpen(h), NEW b
  PROVE  HeaderOpen(Publish(h, b))
<1>1. ~(1 < 1)
  OBVIOUS
<1>2. PICK k : HB!ipcbuf_mark_filled(h, 1)
        = [h EXCEPT !.count[k] = @ + 1, !.w_buf_curr = @ + 1, !.FULL = @ + 1]
  BY <1>1 DEF HB!ipcbuf_mark_filled, HeaderOpen
<1>3. HeaderOpen(HB!ipcbuf_mark_filled(h, 1))
  BY <1>2 DEF HeaderOpen, HeaderFields
<1> QED
  BY <1>3 DEF Publish

LEMMA HeaderWritten ==
  ASSUME NEW h, HeaderOpen(h), NEW b, NEW x
  PROVE  /\ HeaderOpen([h EXCEPT !.mem[b][0] = x])
         /\ HeaderOpen([h EXCEPT !.mem[b][0].utc = x])
  BY DEF HeaderOpen, HeaderFields

LEMMA MainHeader ==
  ASSUME TypeInv, MainNext
  PROVE  HeaderBlock'
<1>i. HeaderBlock /\ (m.pc \notin {"prepare", "exit"} => HeaderOpen(hb))
  BY DEF TypeInv, HeaderBlock
<1>1. ASSUME HeaderOpen(hb') PROVE HeaderBlock'
  BY <1>1 DEF HeaderBlock, HeaderOpen
<1>2. CASE Prepare
  BY <1>1, <1>2, <1>i, HeaderGot DEF Prepare
<1>3. CASE Exit
  <2>1. hb' = hb /\ m' = [m EXCEPT !.pc = "exit"]
    BY <1>3 DEF Exit, datavars
  <2>2. m'.pc = "exit"
    BY <2>1 DEF TypeInv, TransferType
  <2> QED
    BY <1>i, <2>1, <2>2 DEF HeaderBlock, HeaderOpen
<1>4. CASE GetWait \/ Get \/ HandleIdle \/ HandleStart \/ HandleUnexpected
           \/ HandleQuit \/ StartFails \/ PollQuit \/ PollNone \/ PollDated
           \/ PollUnexpected \/ FetchFails \/ FetchNothing \/ Write \/ Written
           \/ NotReached \/ RecStop \/ CheckStop \/ CheckUnexpected \/ Room
           \/ StopTransfer \/ StopFails \/ CheckFatal
  <2>1. hb' = hb
    BY <1>4
    DEF GetWait, Get, HandleIdle, HandleStart, HandleUnexpected, HandleQuit,
        StartFails, PollQuit, PollNone, PollDated, PollUnexpected, FetchFails,
        FetchNothing, Write, WriteStep, Written, NotReached, RecStop, CheckStop,
        CheckUnexpected, Room, StopTransfer, StopFails, CheckFatal, datavars
  <2>2. m.pc \notin {"prepare", "exit"}
    BY <1>4
    DEF GetWait, Get, HandleIdle, HandleStart, HandleUnexpected, HandleQuit,
        Handling, StartFails, PollQuit, PollNone, PollDated, PollUnexpected,
        Polled, Polling, FetchFails, FetchNothing, Write, Written, NotReached,
        RecStop, CheckStop, CheckUnexpected, Checking, Room, StopTransfer,
        StopFails, CheckFatal
  <2> QED
    BY <1>i, <1>1, <2>1, <2>2
<1>5. CASE HandleHeader
  <2>1. HeaderOpen(hb)
    BY <1>5, <1>i DEF HandleHeader, Handling
  <2> QED
    BY <1>1, <1>5, <2>1, HeaderWritten DEF HandleHeader
<1>6. CASE Start
  <2>1. HeaderOpen(hb)
    BY <1>6, <1>i DEF Start
  <2>2. PICK utc, h : h = SetUtc(hb, utc) /\ (hb' = Publish(h, m.header) \/ hb' = h)
    BY <1>6 DEF Start
  <2>3. HeaderOpen(h)
    BY <2>1, <2>2, HeaderWritten DEF SetUtc
  <2> QED
    BY <1>1, <2>2, <2>3, HeaderFilled
<1>7. CASE PollUtc
  <2>1. HeaderOpen(hb)
    BY <1>7, <1>i DEF PollUtc, Polled, Polling
  <2>2. PICK h : /\ h = SetUtc(hb, pwc.command.utc)
                 /\ hb' = hb \/ hb' = Publish(h, m.header) \/ hb' = h
    BY <1>7 DEF PollUtc
  <2>3. HeaderOpen(h)
    BY <2>1, <2>2, HeaderWritten DEF SetUtc
  <2> QED
    BY <1>1, <2>1, <2>2, <2>3, HeaderFilled
<1>8. CASE \E size \in BufSizes : Fetch(size)
  <2>1. HeaderOpen(hb) /\ (hb' = hb \/ hb' = Publish(hb, m.header))
    BY <1>8, <1>i DEF Fetch
  <2> QED
    BY <1>1, <2>1, HeaderFilled
<1>9. CASE RecStart
  <2>1. PICK b, head, g, h :
          /\ g = HB!ipcbuf_get_next_write(hb)
          /\ h = [g EXCEPT !.mem[b][0] = head]
          /\ hb' = h \/ hb' = Publish(h, b)
    BY <1>9 DEF RecStart
  <2>2. HeaderOpen(g)
    BY <1>i, <2>1, HeaderGot
  <2>3. HeaderOpen(h)
    BY <2>1, <2>2, HeaderWritten
  <2> QED
    BY <1>1, <2>1, <2>3, HeaderFilled
<1> QED
  BY <1>2, <1>3, <1>4, <1>5, <1>6, <1>7, <1>8, <1>9 DEF MainNext

(* The Data Block, and the samples that are still to be written to it. *)
LEMMA MainData ==
  ASSUME TypeInv, MainNext
  PROVE  DataType'
<1>i. /\ RingType(io) /\ ~io.err /\ src \in Nat /\ todo \in Seq(Int)
      /\ TransferType
  BY DEF TypeInv, DataType
<1>o. ASSUME NEW d, RingType(d), io' = Ok(d) PROVE RingType(io') /\ ~io'.err
  BY <1>o, OkType
<1>q. ASSUME RingType(io') /\ ~io'.err, src' \in Nat, todo' \in Seq(Int)
      PROVE  DataType'
  BY <1>q DEF DataType, RingType, Counters
<1>e. <<>> \in Seq(Int)
  OBVIOUS
<1>1. CASE Exit \/ GetWait \/ Get \/ HandleIdle \/ HandleHeader \/ HandleUnexpected
           \/ HandleQuit \/ StartFails \/ PollQuit \/ PollNone \/ PollUtc \/ PollDated
           \/ PollUnexpected \/ FetchFails \/ Written
           \/ NotReached \/ CheckStop \/ CheckUnexpected \/ StopFails \/ CheckFatal
  <2>1. io' = io /\ todo' = todo /\ src' = src
    BY <1>1
    DEF Exit, GetWait, Get, HandleIdle, HandleHeader, HandleUnexpected, Handling,
        HandleQuit, StartFails, PollQuit, PollNone, PollUtc, PollDated,
        PollUnexpected, FetchFails, Written, NotReached, CheckStop, CheckUnexpected,
        StopFails, CheckFatal, datavars, ghost
  <2> QED
    BY <1>i, <1>q, <2>1
<1>2. CASE Prepare
  <2>1. PICK d : /\ d = IF io.rdwrt # "0" THEN ipcio_close(io) ELSE io
                 /\ io' = Ok(d)
                 /\ io.rdwrt # "0" => StopReady(io)
                 /\ todo' = todo /\ src' = src
    BY <1>2 DEF Prepare, ghost
  <2>2. RingType(d)
    BY <1>i, <2>1, CloseType
  <2> QED
    BY <1>i, <1>o, <1>q, <2>1, <2>2
<1>3. CASE HandleStart
  <2>1. PICK mode \in {"w", "W"} : mode = IF m.command.code = "clock" THEN "w" ELSE "W"
    OBVIOUS
  <2>2. io' = Ok(ipcio_open(io, mode)) /\ todo' = todo /\ src' = src
    BY <1>3, <2>1 DEF HandleStart, Handling, ghost
  <2>3. RingType(ipcio_open(io, mode))
    BY <1>i, OpenType
  <2> QED
    BY <1>i, <1>o, <1>q, <2>2, <2>3
<1>4. CASE Start
  <2>1. io' = ipcbuf_set_soclock_buf(io) /\ todo' = todo /\ src' = src
    BY <1>4 DEF Start
  <2>2. RingType(io')
    BY <1>i, <2>1, SoclockType
  <2>3. io'.err = io.err
    BY <1>i, <2>1 DEF ipcbuf_set_soclock_buf, RingType, Counters, RingFields
  <2> QED
    BY <1>i, <1>q, <2>1, <2>2, <2>3
<1>5. ASSUME NEW size \in BufSizes, Fetch(size)
      PROVE  DataType'
  <2>1. size \in Nat
    BY MainSizes
  <2>2. PICK bytes : /\ bytes = IF m.transit # 0 /\ size > m.to_write THEN m.to_write
                                                                       ELSE size
                     /\ todo' = todo \/ todo' = [i \in 1 .. bytes |-> src + i]
                     /\ src' = src + size
                     /\ io' = io
    BY <1>5 DEF Fetch
  <2>3. bytes \in Nat
    BY <1>i, <2>1, <2>2 DEF TransferType
  <2>4. [i \in 1 .. bytes |-> src + i] \in Seq(Int)
    BY <1>i, <2>3
  <2>5. todo' \in Seq(Int)
    BY <1>i, <2>2, <2>4
  <2>6. src' \in Nat
    BY <1>i, <2>1, <2>2
  <2>7. RingType(io') /\ ~io'.err
    BY <1>i, <2>2
  <2> QED
    BY <1>q, <2>5, <2>6, <2>7
<1>6. CASE FetchNothing
  <2>1. io' = io /\ src' = src /\ todo' = <<Junk>>
    BY <1>6 DEF FetchNothing
  <2>2. todo' \in Seq(Int)
    BY <2>1 DEF Junk
  <2> QED
    BY <1>i, <1>q, <2>1, <2>2
<1>7. CASE Write
  <2>1. ASSUME NEW d, RingType(d), NEW rest \in Seq(Int), WriteStep(d, rest)
        PROVE  DataType'
    <3>1. io' = Ok(d) /\ src' = src /\ (todo' = <<>> \/ todo' = rest)
      BY <2>1 DEF WriteStep, ghost
    <3> QED
      BY <1>i, <1>e, <1>o, <1>q, <2>1, <3>1
  <2>2. CASE io.bytes = BufSz /\ WriteStep(WriteFull(io), todo)
    BY <1>i, <2>1, <2>2, WriteFullType
  <2>3. CASE GetReady(io) /\ WriteStep(WriteGet(io), todo)
    BY <1>i, <2>1, <2>3, WriteGetType
  <2>4. CASE /\ io.curbuf # NoBuf
             /\ WriteStep(WriteCopy(io, todo),
                          SubSeq(todo, Space(io, todo) + 1, Len(todo)))
    <3>1. Len(todo) \in Nat
      BY <1>i
    <3>2. Space(io, todo) \in Nat
      BY <1>i, <3>1, IoSizes DEF Space, RingType, Counters
    <3>3. SubSeq(todo, Space(io, todo) + 1, Len(todo)) \in Seq(Int)
      BY <1>i, <3>1, <3>2
    <3>4. RingType(WriteCopy(io, todo))
      BY <1>i, <2>4, <3>1, WriteCopyType
    <3> QED
      BY <2>1, <2>4, <3>3, <3>4
  <2> QED
    BY <1>7, <2>2, <2>3, <2>4 DEF Write
<1>8. ASSUME NEW k, NEW from \in Int, k \in Nat,
             todo' = [i \in 1 .. k |-> LET v == from + i - 1 IN
                                       IF v <= src THEN v ELSE Junk]
      PROVE  todo' \in Seq(Int)
  BY <1>8, <1>i DEF Junk
<1>9. CASE RecStop \/ RecStart
  <2>1. m.pc = "check"
    BY <1>9 DEF RecStop, RecStart, Checking
  <2>2. PICK k \in Nat, from \in Int :
          k = m.buffer_size - m.buf_bytes /\ from = m.buffer + m.buf_bytes
    BY <1>i, <2>1 DEF TransferType, Transferring
  <2>3. \/ todo' = todo
        \/ todo' = [i \in 1 .. k |-> LET v == from + i - 1 IN
                                     IF v <= src THEN v ELSE Junk]
    <3>1. CASE RecStop
      BY <2>2, <3>1 DEF RecStop, Rest
    <3>2. CASE RecStart
      BY <1>i, <2>2, <3>2 DEF RecStart, Rest, TransferType
    <3> QED
      BY <1>9, <3>1, <3>2
  <2>4. todo' \in Seq(Int)
    BY <1>i, <1>8, <2>3
  <2>5. src' = src
    BY <1>9 DEF RecStop, RecStart, ghost
  <2>6. RingType(io') /\ ~io'.err
    <3>1. CASE RecStop
      BY <1>i, <1>o, <3>1, StopType DEF RecStop
    <3>2. CASE RecStart
      <4>1. PICK byte : /\ io' = Ok(ipcio_start(io, byte))
                        /\ \/ byte = ipcio_get_start_minimum(io)
                           \/ byte = StartByte(io, m.command)
        BY <3>2 DEF RecStart
      <4>2. io.w_buf_next \in Int /\ io.soclock_buf \in Int
        BY <1>i DEF RingType, Counters
      <4>3. m.command.byte_count \in Nat /\ BufSz \in Int /\ NBufs \in Int
        BY <1>i, IoSizes DEF TransferType, CommandType
      <4>4. ipcbuf_get_sod_minbuf(io) \in Int
        BY <4>2, <4>3 DEF ipcbuf_get_sod_minbuf, Unsigned
      <4>5. byte \in Int
        BY <4>1, <4>2, <4>3, <4>4 DEF ipcio_get_start_minimum, StartByte
      <4> QED
        BY <1>i, <1>o, <4>1, <4>5, StartType
    <3> QED
      BY <1>9, <3>1, <3>2
  <2> QED
    BY <1>i, <1>q, <2>4, <2>5, <2>6
<1>10. CASE Room
  <2>1. io' = io /\ src' = src /\ (todo' = todo \/ todo' = <<>>)
    BY <1>10 DEF Room, ghost
  <2> QED
    BY <1>e, <1>i, <1>q, <2>1
<1>11. CASE StopTransfer
  <2>1. StopReady(io) /\ io' = Ok(ipcio_close(io)) /\ todo' = todo /\ src' = src
    BY <1>11 DEF StopTransfer, ghost
  <2> QED
    BY <1>i, <1>o, <1>q, <2>1, CloseType
<1> QED
  BY <1>1, <1>2, <1>3, <1>4, <1>5, <1>6, <1>7, <1>9, <1>10, <1>11 DEF MainNext

(* The main loop.  In most of its steps only its place changes. *)
LEMMA PlaceType ==
  ASSUME TransferType, NEW pc,
         \/ m' = [m EXCEPT !.pc = pc]
         \/ m' = [m EXCEPT !.pc = pc, !.header_valid = FALSE],
         pc \in Transferring \cup {"room", "rest"} =>
           m.pc \in Transferring \cup {"room", "rest"},
         pc # "write",
         pc \in {"room", "rest"} => m.to_write = 0
  PROVE  TransferType'
<1>1. /\ m'.pc = pc /\ m'.command = m.command /\ m'.total = m.total
      /\ m'.transit = m.transit /\ m'.to_write = m.to_write
      /\ m'.buffer = m.buffer
      /\ m'.buffer_size = m.buffer_size /\ m'.buf_bytes = m.buf_bytes
      /\ DOMAIN m' = DOMAIN m
  BY DEF TransferType
<1> QED
  BY <1>1 DEF TransferType, Transferring

LEMMA ErrorPlace ==
  ASSUME TransferType, NEW rval, NEW pc \in {"stop", "fatal"}, Error(pwc, rval, pc)
  PROVE  TransferType'
  BY PlaceType DEF Error, Transferring

(* The thread goes on to the next buffer, or to the change of the state. *)
LEMMA BodyType ==
  ASSUME NEW n, m' = Body(n),
         {"pc", "command", "total", "transit", "to_write", "buffer", "buffer_size",
          "buf_bytes"} \subseteq DOMAIN n,
         n.command \in CommandType,
         n.total \in Nat, n.transit \in Nat, n.to_write \in Nat, n.buffer \in Int,
         n.to_write # 0 => n.total + n.to_write = n.transit,
         n.buffer_size \in Nat, n.buf_bytes \in 0 .. n.buffer_size
  PROVE  TransferType'
<1>1. m'.pc \in {"fetch", "check"}
  BY DEF Body
<1>2. /\ m'.command = n.command /\ m'.total = n.total
      /\ m'.transit = n.transit /\ m'.to_write = n.to_write
      /\ m'.buffer = n.buffer
      /\ m'.buffer_size = n.buffer_size /\ m'.buf_bytes = n.buf_bytes
      /\ DOMAIN m' = DOMAIN n
  BY DEF Body
<1> QED
  BY <1>1, <1>2 DEF TransferType, Transferring

(* The rest of a buffer: nothing is left to be written before the change. *)
LEMMA RestType ==
  ASSUME NEW n, NEW new, Rest(n, pwc, new),
         {"pc", "command", "total", "transit", "to_write", "buffer", "buffer_size",
          "buf_bytes"} \subseteq DOMAIN n,
         n.command \in CommandType,
         n.total \in Nat, n.to_write = 0, n.buffer \in Int,
         n.buffer_size \in Nat, n.buf_bytes \in 0 .. n.buffer_size
  PROVE  TransferType'
<1>1. /\ m'.pc = "room" /\ m'.command = n.command /\ m'.total = n.total
      /\ m'.transit = 0 /\ m'.to_write = 0
      /\ m'.buffer = n.buffer + n.buf_bytes
      /\ m'.buffer_size = n.buffer_size
      /\ m'.buf_bytes = n.buffer_size - n.buf_bytes
      /\ DOMAIN m' = DOMAIN n
  BY DEF Rest
<1>2. n.buffer_size - n.buf_bytes \in 0 .. n.buffer_size
  OBVIOUS
<1> QED
  BY <1>1, <1>2 DEF TransferType, Transferring

(* When the byte of the last command is reached, nothing is left to write. *)
LEMMA ReachedAll ==
  ASSUME TransferType, Reached
  PROVE  m.to_write = 0
  BY DEF TransferType, Reached

LEMMA MainTransfer ==
  ASSUME TypeInv, MainNext
  PROVE  TransferType'
<1>i. TransferType /\ pwc.command \in CommandType
  BY DEF TypeInv, ControlType, PwcType
<1>f. /\ {"pc", "command", "total", "transit", "to_write", "buffer", "buffer_size",
          "buf_bytes"} \subseteq DOMAIN m
      /\ m.command \in CommandType
      /\ m.total \in Nat /\ m.transit \in Nat /\ m.to_write \in Nat
      /\ m.buffer \in Int
      /\ m.to_write # 0 => m.total + m.to_write = m.transit
  BY <1>i DEF TransferType
<1>b. ASSUME m.pc \in Transferring \cup {"room", "rest"}
      PROVE  m.buffer_size \in Nat /\ m.buf_bytes \in 0 .. m.buffer_size
  BY <1>b, <1>i DEF TransferType
<1>1. CASE GetWait
  BY <1>1, <1>i DEF GetWait, TransferType, Transferring
<1>2. CASE Exit \/ HandleIdle \/ HandleHeader \/ HandleQuit \/ PollQuit
           \/ NotReached \/ StopTransfer \/ StopFails \/ CheckFatal \/ Prepare
  <2>1. ASSUME NEW pc, pc \in {"exit", "get", "stop", "fatal", "prepare"}
        PROVE  pc \notin Transferring \cup {"room", "rest"}
    BY <2>1 DEF Transferring
  <2>2. CASE Exit \/ HandleQuit
    BY <2>1, <2>2, <1>i, PlaceType DEF Exit, HandleQuit
  <2>3. CASE HandleIdle \/ HandleHeader
    BY <2>1, <2>3, <1>i, PlaceType DEF HandleIdle, HandleHeader
  <2>4. CASE PollQuit
    BY <2>1, <2>4, <1>i, PlaceType DEF PollQuit
  <2>5. CASE StopTransfer \/ StopFails
    BY <2>1, <2>5, <1>i, PlaceType DEF StopTransfer, StopFails
  <2>6. CASE CheckFatal
    BY <2>1, <2>6, <1>i, PlaceType DEF CheckFatal
  <2>7. CASE NotReached
    <3>1. /\ m.pc = "check" /\ m'.pc = "loop" /\ m'.command = m.command
          /\ m'.total = m.total
          /\ m'.transit = m.transit /\ m'.to_write = m.to_write
          /\ m'.buffer = m.buffer
          /\ m'.buffer_size = m.buffer_size /\ m'.buf_bytes = m.buf_bytes
          /\ DOMAIN m' = DOMAIN m
      BY <1>f, <2>7 DEF NotReached
    <3>2. m.buffer_size \in Nat /\ m.buf_bytes \in 0 .. m.buffer_size
      BY <1>b, <3>1 DEF Transferring
    <3> QED
      BY <1>f, <3>1, <3>2 DEF TransferType, Transferring
  <2>8. CASE Prepare
    <3>1. /\ m'.pc \in {"fatal", "get"} /\ m'.command = m.command
          /\ m'.total = m.total
          /\ m'.transit = m.transit /\ m'.to_write = m.to_write
          /\ m'.buffer = m.buffer /\ DOMAIN m' = DOMAIN m
      BY <1>f, <2>8 DEF Prepare
    <3> QED
      BY <1>f, <3>1 DEF TransferType, Transferring
  <2> QED
    BY <1>2, <2>2, <2>3, <2>4, <2>5, <2>6, <2>7, <2>8
<1>3. CASE HandleUnexpected \/ StartFails \/ FetchFails \/ CheckUnexpected
  BY <1>3, <1>i, ErrorPlace
  DEF HandleUnexpected, StartFails, FetchFails, CheckUnexpected
<1>4. CASE HandleStart
  <2>1. \/ Error(pwc, "hard", "fatal")
        \/ m' = [m EXCEPT !.pc = "start"]
    BY <1>4 DEF HandleStart
  <2> QED
    BY <2>1, <1>i, ErrorPlace, PlaceType DEF Transferring
<1>5. CASE Get
  <2>1. /\ m'.pc = "handle" /\ m'.command = pwc.command /\ m'.total = m.total
        /\ m'.transit = m.transit /\ m'.to_write = m.to_write
        /\ m'.buffer = m.buffer /\ DOMAIN m' = DOMAIN m
    BY <1>5, <1>f DEF Get
  <2> QED
    BY <1>i, <1>f, <2>1 DEF TransferType, Transferring
<1>6. CASE Start
  <2>1. PICK n \in Nat : n = m.command.byte_count
    BY <1>f DEF CommandType
  <2>a. PICK tells \in TellsUtc :
          LET h == SetUtc(hb, IF tells THEN Time0 ELSE Unknown)
              starts == m.command.code = "start"
              k == [m EXCEPT !.header_valid = IF starts THEN Valid(h, m.header) ELSE @,
                             !.utc_start_set = tells,
                             !.total = 0,
                             !.transit = m.command.byte_count,
                             !.to_write = m.command.byte_count,
                             !.buffer_size = 0,
                             !.buf_bytes = 0]
          IN m' = [k EXCEPT !.pc = "loop"] \/ m' = [k EXCEPT !.pc = "stop"]
    BY <1>6 DEF Start
  <2>b. PICK x : x = IF m.command.code = "start"
                     THEN Valid(SetUtc(hb, IF tells THEN Time0 ELSE Unknown), m.header)
                     ELSE m.header_valid
    OBVIOUS
  <2>s. PICK k : /\ k = [m EXCEPT !.header_valid = x, !.utc_start_set = tells,
                                  !.total = 0, !.transit = m.command.byte_count,
                                  !.to_write = m.command.byte_count,
                                  !.buffer_size = 0, !.buf_bytes = 0]
                 /\ m' = [k EXCEPT !.pc = "loop"] \/ m' = [k EXCEPT !.pc = "stop"]
    BY <2>a, <2>b
  <2>2. /\ m'.pc \in {"loop", "stop"} /\ m'.command = m.command /\ m'.total = 0
        /\ m'.transit = n /\ m'.to_write = n
        /\ m'.buffer = m.buffer /\ m'.buffer_size = 0 /\ m'.buf_bytes = 0
        /\ DOMAIN m' = DOMAIN m
    BY <1>f, <2>1, <2>s
  <2> QED
    BY <1>f, <2>1, <2>2 DEF TransferType, Transferring
<1>7. CASE PollNone
  <2>1. m' = Body(m) /\ m.pc = "loop"
    BY <1>7 DEF PollNone, Polling
  <2> QED
    BY <1>b, <1>f, <2>1, BodyType DEF Transferring
<1>8. CASE PollUtc
  <2>1. m.pc = "loop"
    BY <1>8 DEF PollUtc, Polled, Polling
  <2>2. PICK k, n, x : /\ k = [m EXCEPT !.command = pwc.command, !.utc_start_set = TRUE]
                       /\ n = k \/ n = [k EXCEPT !.header_valid = x]
                       /\ m' = Body(n)
    BY <1>8 DEF PollUtc
  <2>3. /\ n.command = pwc.command /\ n.total = m.total
        /\ n.transit = m.transit /\ n.to_write = m.to_write
        /\ n.buffer = m.buffer
        /\ n.buffer_size = m.buffer_size /\ n.buf_bytes = m.buf_bytes
        /\ DOMAIN n = DOMAIN m
    BY <1>f, <2>2
  <2> QED
    BY <1>b, <1>f, <1>i, <2>1, <2>2, <2>3, BodyType DEF Transferring
<1>9. CASE PollDated
  <2>1. m.pc = "loop"
    BY <1>9 DEF PollDated, Polled, Polling
  <2>2. PICK bytes \in Nat : bytes = pwc.command.byte_count
    BY <1>i DEF CommandType
  <2>3. PICK now \in Nat : now = IF m.total = 0 THEN 1 ELSE m.total
    BY <1>f
  <2>4. PICK n : /\ m' = Body(n)
                 /\ \/ /\ bytes > m.total
                       /\ n = [m EXCEPT !.command = pwc.command, !.transit = bytes,
                                        !.to_write = bytes - m.total]
                    \/ n = [m EXCEPT !.command = pwc.command, !.total = now,
                                     !.transit = now, !.to_write = 0]
    BY <1>9, <1>f, <2>2, <2>3 DEF PollDated
  <2>5. /\ n.command = pwc.command
        /\ \/ /\ bytes > m.total /\ n.total = m.total /\ n.transit = bytes
              /\ n.to_write = bytes - m.total
           \/ n.total = now /\ n.transit = now /\ n.to_write = 0
        /\ n.buffer = m.buffer
        /\ n.buffer_size = m.buffer_size /\ n.buf_bytes = m.buf_bytes
        /\ DOMAIN n = DOMAIN m
    BY <1>f, <2>4
  <2>6. /\ n.total \in Nat /\ n.transit \in Nat /\ n.to_write \in Nat
        /\ n.to_write # 0 => n.total + n.to_write = n.transit
    BY <1>f, <2>5
  <2>7. m.buffer_size \in Nat /\ m.buf_bytes \in 0 .. m.buffer_size
    BY <1>b, <2>1 DEF Transferring
  <2> QED
    BY <1>f, <1>i, <2>4, <2>5, <2>6, <2>7, BodyType
<1>10. CASE PollUnexpected
  <2>1. /\ m'.pc = "stop" /\ m'.command = pwc.command /\ m'.total = m.total
        /\ m'.transit = m.transit /\ m'.to_write = m.to_write
        /\ m'.buffer = m.buffer /\ DOMAIN m' = DOMAIN m
    BY <1>10, <1>f DEF PollUnexpected
  <2> QED
    BY <1>i, <1>f, <2>1 DEF TransferType, Transferring
<1>11. ASSUME NEW size \in BufSizes, Fetch(size)
       PROVE  TransferType'
  <2>1. size \in Nat
    BY MainSizes
  <2>2. PICK bytes : bytes = IF m.transit # 0 /\ size > m.to_write THEN m.to_write
                                                                  ELSE size
    OBVIOUS
  <2>3. /\ m'.pc \in {"stop", "write"} /\ m'.command = m.command
        /\ m'.total = m.total
        /\ m'.transit = m.transit /\ m'.to_write = m.to_write
        /\ m'.buffer = src + 1 /\ m'.buffer_size = size /\ m'.buf_bytes = bytes
        /\ DOMAIN m' = DOMAIN m
    BY <1>11, <1>f, <2>2 DEF Fetch
  <2>4. bytes \in 0 .. size /\ (m.to_write # 0 => bytes <= m.to_write)
    BY <1>f, <2>1, <2>2
  <2>5. src \in Nat
    BY DEF TypeInv, DataType
  <2> QED
    BY <1>f, <2>1, <2>3, <2>4, <2>5 DEF TransferType, Transferring
<1>12. CASE FetchNothing
  <2>1. /\ m'.pc = "last" /\ m'.command = m.command /\ m'.total = m.total
        /\ m'.transit = m.transit /\ m'.to_write = m.to_write
        /\ m'.buffer = m.buffer /\ DOMAIN m' = DOMAIN m
    BY <1>12, <1>f DEF FetchNothing
  <2> QED
    BY <1>f, <2>1 DEF TransferType, Transferring
<1>13. CASE Write
  <2>1. PICK d, rest : WriteStep(d, rest)
    BY <1>13 DEF Write
  <2>2. m' = m \/ \E rval : Error(pwc, rval, "stop")
    BY <2>1 DEF WriteStep
  <2>3. CASE m' = m
    BY <1>i, <2>3 DEF TransferType, Transferring
  <2> QED
    BY <1>i, <2>2, <2>3, ErrorPlace
<1>14. CASE Written
  <2>1. CASE /\ m.pc = "write"
             /\ m' = [m EXCEPT !.pc = "check", !.total = @ + m.buf_bytes,
                               !.to_write = IF @ # 0 THEN @ - m.buf_bytes ELSE 0]
    <3>1. m.buffer_size \in Nat /\ m.buf_bytes \in 0 .. m.buffer_size
          /\ (m.to_write # 0 => m.buf_bytes <= m.to_write)
      BY <1>i, <2>1 DEF TransferType, Transferring
    <3>2. /\ m'.pc = "check" /\ m'.command = m.command
          /\ m'.total = m.total + m.buf_bytes
          /\ m'.transit = m.transit
          /\ m'.to_write = IF m.to_write # 0 THEN m.to_write - m.buf_bytes ELSE 0
          /\ m'.buffer = m.buffer
          /\ m'.buffer_size = m.buffer_size /\ m'.buf_bytes = m.buf_bytes
          /\ DOMAIN m' = DOMAIN m
      BY <1>f, <2>1
    <3> QED
      BY <1>f, <3>1, <3>2 DEF TransferType, Transferring
  <2>2. CASE m.pc = "rest" /\ m' = [m EXCEPT !.pc = "loop", !.total = @ + m.buf_bytes]
    <3>1. m.buffer_size \in Nat /\ m.buf_bytes \in 0 .. m.buffer_size
          /\ m.to_write = 0
      BY <1>i, <2>2 DEF TransferType, Transferring
    <3>2. /\ m'.pc = "loop" /\ m'.command = m.command
          /\ m'.total = m.total + m.buf_bytes
          /\ m'.transit = m.transit /\ m'.to_write = m.to_write
          /\ m'.buffer = m.buffer
          /\ m'.buffer_size = m.buffer_size /\ m'.buf_bytes = m.buf_bytes
          /\ DOMAIN m' = DOMAIN m
      BY <1>f, <2>2
    <3> QED
      BY <1>f, <3>1, <3>2 DEF TransferType, Transferring
  <2> QED
    BY <1>14, <1>i, <2>1, <2>2, ErrorPlace DEF Written
<1>15. CASE RecStop
  <2>1. m.pc = "check" /\ m.to_write = 0
    BY <1>15, <1>i, ReachedAll DEF RecStop, Checking
  <2>2. Error(pwc, "fatal", "stop") \/ Rest(m, pwc, "clocking")
    BY <1>15 DEF RecStop
  <2>3. m.buffer_size \in Nat /\ m.buf_bytes \in 0 .. m.buffer_size
    BY <1>b, <2>1 DEF Transferring
  <2> QED
    BY <1>f, <1>i, <2>1, <2>2, <2>3, ErrorPlace, RestType
<1>16. CASE RecStart
  <2>1. m.pc = "check" /\ m.to_write = 0
    BY <1>16, <1>i, ReachedAll DEF RecStart, Checking
  <2>2. m.buffer_size \in Nat /\ m.buf_bytes \in 0 .. m.buffer_size
    BY <1>b, <2>1 DEF Transferring
  <2>3. PICK bytes, b : 
          /\ bytes = IF StartByte(io, m.command) < ipcio_get_start_minimum(io)
                     THEN ipcio_get_start_minimum(io) - io.soclock_buf * BufSz
                     ELSE m.command.byte_count
          /\ LET n == [m EXCEPT !.header = b, !.command.byte_count = bytes] IN
             \/ m' = [n EXCEPT !.pc = "stop"]
             \/ Rest([n EXCEPT !.header_valid = TRUE], pwc, "recording")
    BY <1>16 DEF RecStart
  <2>4. bytes \in Nat
    <3>1. io.w_buf_next \in Int /\ io.soclock_buf \in Int
      BY DEF TypeInv, DataType, RingType, Counters
    <3>2. m.command.byte_count \in Nat /\ BufSz \in Int /\ NBufs \in Int
      BY <1>f, IoSizes DEF CommandType
    <3>3. ipcbuf_get_sod_minbuf(io) \in Int
      BY <3>1, <3>2 DEF ipcbuf_get_sod_minbuf, Unsigned
    <3>4. PICK least \in Int, origin \in Int :
            /\ least = ipcio_get_start_minimum(io)
            /\ origin = io.soclock_buf * BufSz
      BY <3>1, <3>2, <3>3 DEF ipcio_get_start_minimum
    <3> QED
      BY <2>3, <3>2, <3>4 DEF StartByte
  <2>5. PICK n : /\ n = [m EXCEPT !.header = b, !.command.byte_count = bytes]
                 /\ \/ m' = [n EXCEPT !.pc = "stop"]
                    \/ Rest([n EXCEPT !.header_valid = TRUE], pwc, "recording")
    BY <2>3
  <2>6. [m.command EXCEPT !.byte_count = bytes] \in CommandType
    BY <1>f, <2>4 DEF CommandType
  <2>7. /\ n.command \in CommandType /\ n.total = m.total
        /\ n.transit = m.transit /\ n.to_write = m.to_write
        /\ n.buffer = m.buffer
        /\ n.buffer_size = m.buffer_size /\ n.buf_bytes = m.buf_bytes
        /\ DOMAIN n = DOMAIN m
    BY <1>f, <2>5, <2>6
  <2>8. CASE m' = [n EXCEPT !.pc = "stop"]
    <3>1. /\ m'.pc = "stop" /\ m'.command \in CommandType /\ m'.total = m.total
          /\ m'.transit = m.transit /\ m'.to_write = m.to_write
          /\ m'.buffer = m.buffer /\ DOMAIN m' = DOMAIN m
      BY <1>f, <2>7, <2>8
    <3> QED
      BY <1>f, <3>1 DEF TransferType, Transferring
  <2>9. CASE Rest([n EXCEPT !.header_valid = TRUE], pwc, "recording")
    <3>1. PICK k : k = [n EXCEPT !.header_valid = TRUE]
      OBVIOUS
    <3>2. /\ k.command \in CommandType /\ k.total = m.total
          /\ k.to_write = m.to_write /\ k.buffer = m.buffer
          /\ k.buffer_size = m.buffer_size /\ k.buf_bytes = m.buf_bytes
          /\ DOMAIN k = DOMAIN m
      BY <1>f, <2>7, <3>1
    <3> QED
      BY <1>f, <2>1, <2>2, <2>9, <3>1, <3>2, RestType
  <2> QED
    BY <2>5, <2>8, <2>9
<1>17. CASE CheckStop
  <2>1. m.pc = "check" /\ m.to_write = 0
    BY <1>17, <1>i, ReachedAll DEF CheckStop, Checking
  <2>2. /\ m'.pc = "stop" /\ m'.command = m.command /\ m'.total = m.total
        /\ m'.transit = 0 /\ m'.to_write = 0
        /\ m'.buffer = m.buffer /\ DOMAIN m' = DOMAIN m
    BY <1>17, <1>f, <2>1 DEF CheckStop
  <2> QED
    BY <1>f, <2>2 DEF TransferType, Transferring
<1>18. CASE Room
  <2>1. m.pc = "room" /\ m.to_write = 0
    BY <1>18, <1>i DEF Room, TransferType
  <2>2. Error(pwc, "fatal", "stop") \/ m' = [m EXCEPT !.pc = "rest"]
    BY <1>18 DEF Room
  <2> QED
    BY <1>i, <2>1, <2>2, ErrorPlace, PlaceType
<1> QED
  BY <1>1, <1>2, <1>3, <1>4, <1>5, <1>6, <1>7, <1>8, <1>9, <1>10, <1>11, <1>12,
     <1>13, <1>14, <1>15, <1>16, <1>17, <1>18 DEF MainNext

LEMMA TypeInit ==
  ASSUME Init
  PROVE  TypeInv
<1>1. ControlType
  BY NoCommandType DEF Init, InitPwc, ControlType, PwcType, States
<1>2. TransferType
  BY NoCommandType DEF Init, TransferType, Transferring
<1>3. PICK d : d = InitIo
  OBVIOUS
<1>4. RingType(d) /\ ~d.err
  BY <1>3, IoSizes DEF InitIo, RingType, Counters, RingFields
<1>5. RingType(ipcio_open(d, "W"))
  BY <1>4, OpenType
<1>6. ~ipcio_open(d, "W").err
  BY <1>4 DEF ipcio_open, RingType, Counters, RingFields
<1>7. DataType
  BY <1>3, <1>5, <1>6 DEF Init, DataType
<1>8. HeaderBlock
  BY DEF Init, HB!InitIo, HeaderBlock, HeaderFields
<1> QED
  BY <1>1, <1>2, <1>7, <1>8 DEF TypeInv

LEMMA TypeNext == TypeInv /\ [Next]_vars => TypeInv'
<1>1. ASSUME TypeInv, UNCHANGED vars PROVE TypeInv'
  BY <1>1
  DEF vars, pwcvars, datavars, ghost, TypeInv, ControlType, PwcType, TransferType,
      Transferring, DataType, RingType, Counters, HeaderBlock, HeaderOpen
<1>2. ASSUME TypeInv, MainNext PROVE TypeInv'
  BY <1>2, MainControl, MainTransfer, MainData, MainHeader DEF TypeInv
<1> QED
  BY <1>1, <1>2, ClientType, ReaderType DEF Next, ClientNext

(* The variables keep their types, whatever the clients send and whatever     *)
(* fails.  In particular, the bytes that dada_pwc_main_transfer_data has still *)
(* to write before the state changes are those up to the byte of the command, *)
(* no more of a buffer is written than it holds, the tokens of the Data Block *)
(* are never negative, and no call of ipcbuf on the Header Block fails.       *)
THEOREM PwcMainTypes == Spec => []TypeOK
<1>1. TypeInv => TypeOK
  <2> SUFFICES ASSUME TypeInv PROVE TypeOK
    OBVIOUS
  <2>1. ~hb.err
    BY DEF TypeInv, HeaderBlock, HeaderOpen
  <2>2. /\ pwc.state \in States /\ pwc.command.byte_count \in Nat
        /\ waiting \subseteq Clients \cup {Main}
    BY DEF TypeInv, ControlType, PwcType, CommandType
  <2>3. io.bytes \in 0 .. BufSz /\ io.FULL \in Nat /\ io.CLEAR \in Nat /\ ~io.err
    BY DEF TypeInv, DataType, RingType, Counters
  <2> QED
    BY <2>1, <2>2, <2>3 DEF TypeOK, TypeInv, TransferType
<1> QED
  BY <1>1, TypeInit, TypeNext, PTL DEF Spec

-----------------------------------------------------------------------------
(* Where the handle is in the ring. *)
HeldBlocks(d) == IF d.curbuf # NoBuf /\ ~d.marked_filled THEN 1 ELSE 0

(* The handle holds a block that it has handed over already: recording has    *)
(* stopped inside the block, and what is clocked next goes after its last byte. *)
Over(d) == d.marked_filled /\ (d.curbuf # NoBuf \/ d.bytes # 0)

(* In a transfer: the block the handle holds is the one after those filled,   *)
(* and a start is pending only until its block is filled.                     *)
Position(d) ==
  /\ d.w_buf_next = d.w_buf_curr + HeldBlocks(d)
  /\ d.marked_filled \/ d.bytes = 0 \/ d.curbuf # NoBuf
  /\ d.soclock_buf <= d.w_buf_curr
  /\ d.rdwrt \in {"w", "W"}
  /\ d.rdwrt = "w" => d.state = "WRITER" /\ ~d.sod_pending
  /\ d.rdwrt = "W" =>
       /\ ~Over(d)
       /\ IF d.sod_pending
            THEN /\ d.state = "WRITER"
                 /\ d.soclock_buf <= d.sod_buf /\ d.w_buf_curr <= d.sod_buf
                 /\ d.sod_byte <= BufSz
            ELSE d.state \in {"WCHANGE", "WRITING"}

(* Between two transfers: the next block is the one after the last end of data. *)
AtOrigin(d) ==
  /\ d.w_buf_next = d.w_buf_curr
  /\ d.w_buf_curr = IF d.w_xfer > 0 THEN d.xfers[d.w_xfer].e_buf + 1 ELSE 0
  /\ ~d.sod_pending

Shut(d) == AtOrigin(d) /\ d.rdwrt = "0" /\ d.w_state = "DISCON"

Opened(d) ==
  /\ AtOrigin(d)
  /\ d.curbuf = NoBuf /\ d.bytes = 0
  /\ d.rdwrt \in {"w", "W"}
  /\ d.state = IF d.rdwrt = "W" THEN "WCHANGE" ELSE "WRITER"

(* May the transfer be stopped?  Data flow, or have flowed. *)
StopsWell(d) == IF d.rdwrt = "W" THEN d.state = "WRITING" ELSE d.w_xfer > 0

(* No block is held without a byte in it, but inside ipcio_write. *)
BetweenWrites(d) == d.bytes = 0 => d.curbuf = NoBuf

Sound(d) == RingType(d) /\ "marked_filled" \in DOMAIN d /\ ~d.err

LEMMA OpenSound ==
  ASSUME NEW d, Sound(d), Shut(d), NEW mode \in {"w", "W"}
  PROVE  LET e == ipcio_open(d, mode) IN Sound(e) /\ Opened(e) /\ e.rdwrt = mode
<1>0. PICK e : e = ipcio_open(d, mode)
  OBVIOUS
<1>1. RingType(e)
  BY <1>0, OpenType DEF Sound
<1>2. /\ ~e.err /\ "marked_filled" \in DOMAIN e /\ e.rdwrt = mode
      /\ e.state = IF mode = "W" THEN "WCHANGE" ELSE "WRITER"
      /\ e.curbuf = NoBuf /\ e.bytes = 0
      /\ e.w_buf_next = d.w_buf_next /\ e.w_buf_curr = d.w_buf_curr
      /\ e.w_xfer = d.w_xfer /\ e.xfers = d.xfers /\ e.sod_pending = d.sod_pending
  BY <1>0 DEF ipcio_open, Sound, Shut, RingType, Counters, RingFields
<1> QED
  BY <1>0, <1>1, <1>2 DEF Sound, Opened, Shut, AtOrigin

LEMMA SoclockSound ==
  ASSUME NEW d, Sound(d), Opened(d)
  PROVE  LET e == ipcbuf_set_soclock_buf(d)
         IN Sound(e) /\ Position(e) /\ BetweenWrites(e) /\ ~Over(e) /\ e.rdwrt = d.rdwrt
<1>0. PICK e : e = ipcbuf_set_soclock_buf(d)
  OBVIOUS
<1>1. RingType(e)
  BY <1>0, SoclockType DEF Sound
<1>2. /\ e.err = d.err /\ DOMAIN e = DOMAIN d /\ e.rdwrt = d.rdwrt
      /\ e.state = d.state /\ e.curbuf = d.curbuf /\ e.bytes = d.bytes
      /\ e.w_buf_next = d.w_buf_next /\ e.w_buf_curr = d.w_buf_curr
      /\ e.sod_pending = d.sod_pending /\ e.marked_filled = d.marked_filled
      /\ e.soclock_buf = IF d.w_xfer > 0 THEN d.xfers[d.w_xfer].e_buf + 1 ELSE 0
  BY <1>0 DEF ipcbuf_set_soclock_buf, Sound, RingType, Counters, RingFields
<1>3. d.w_buf_curr \in Int
  BY DEF Sound, RingType, Counters
<1> QED
  BY <1>0, <1>1, <1>2, <1>3
  DEF Sound, Opened, AtOrigin, Position, Over, HeldBlocks, BetweenWrites

(* e is d after a call in which the transfer goes on as it was. *)
GoesOn(d, e) ==
  /\ Sound(e) /\ Position(e)
  /\ e.rdwrt = d.rdwrt
  /\ StopsWell(d) => StopsWell(e)
  /\ Over(e) => Over(d)

(* ipcbuf_enable_sod is accepted. *)
LEMMA EnableSodAccepted ==
  ASSUME NEW d, Sound(d), NEW b \in Int, NEW y \in Int,
         d.state \in {"WRITER", "WCHANGE"}, b <= d.w_buf_next, y <= BufSz,
         d.soclock_buf <= b, d.w_buf_next - NBufs + 1 <= b
  PROVE  LET e == ipcbuf_enable_sod(d, b, y) IN
         /\ ~e.err /\ DOMAIN e = DOMAIN d /\ e.state = "WRITING"
         /\ e.rdwrt = d.rdwrt /\ e.curbuf = d.curbuf /\ e.bytes = d.bytes
         /\ e.w_buf_next = d.w_buf_next /\ e.w_buf_curr = d.w_buf_curr
         /\ e.sod_pending = d.sod_pending /\ e.marked_filled = d.marked_filled
         /\ e.soclock_buf = d.soclock_buf /\ e.w_xfer = d.w_xfer
         /\ e.sod_buf = d.sod_buf /\ e.sod_byte = d.sod_byte
<1>1. b >= ipcbuf_get_sod_minbuf(d)
  <2>1. d.w_buf_next \in Int /\ d.soclock_buf \in Nat /\ NBufs \in Nat
    BY IoSizes DEF Sound, RingType, Counters
  <2> QED
    BY <2>1 DEF ipcbuf_get_sod_minbuf, Unsigned
<1>2. PICK xf, ct, fl : ipcbuf_enable_sod(d, b, y) =
        [d EXCEPT !.xfers = xf, !.count = ct, !.FULL = fl,
                  !.state = "WRITING", !.w_state = "WRITING"]
  BY <1>1 DEF ipcbuf_enable_sod
<1> QED
  BY <1>2 DEF Sound, RingType, Counters, RingFields

(* ipcio_check_pending_sod. *)
LEMMA PendingAccepted ==
  ASSUME NEW d, Sound(d),
         d.sod_pending /\ PendingFilled(d) =>
           /\ d.state \in {"WRITER", "WCHANGE"}
           /\ d.soclock_buf <= d.sod_buf /\ d.sod_byte <= BufSz
           /\ d.w_buf_curr <= d.w_buf_next
           /\ d.w_buf_next - NBufs + 1 <= d.sod_buf
  PROVE  LET e == ipcio_check_pending_sod(d) IN
         /\ ~e.err /\ DOMAIN e = DOMAIN d
         /\ e.rdwrt = d.rdwrt /\ e.curbuf = d.curbuf /\ e.bytes = d.bytes
         /\ e.w_buf_next = d.w_buf_next /\ e.w_buf_curr = d.w_buf_curr
         /\ e.marked_filled = d.marked_filled /\ e.soclock_buf = d.soclock_buf
         /\ e.sod_buf = d.sod_buf /\ e.sod_byte = d.sod_byte
         /\ e.w_xfer = d.w_xfer
         /\ \/ /\ e.state = d.state /\ e.sod_pending = d.sod_pending
               /\ e.sod_pending => e.w_buf_curr <= e.sod_buf
            \/ e.state = "WRITING" /\ ~e.sod_pending /\ d.sod_pending
<1>i. /\ d.w_buf_curr \in Int /\ d.sod_buf \in Int /\ d.sod_byte \in Int
      /\ NBufs \in Nat /\ d.w_buf_next \in Int
  BY IoSizes DEF Sound, RingType, Counters
<1>1. CASE d.sod_pending /\ PendingFilled(d)
  <2>0. PICK e : e = ipcbuf_enable_sod(d, d.sod_buf, d.sod_byte)
    OBVIOUS
  <2>1. d.sod_buf <= d.w_buf_next /\ d.w_buf_next - NBufs + 1 <= d.sod_buf
    BY <1>i, <1>1 DEF PendingFilled
  <2>2. /\ ~e.err /\ DOMAIN e = DOMAIN d /\ e.state = "WRITING"
        /\ e.rdwrt = d.rdwrt /\ e.curbuf = d.curbuf /\ e.bytes = d.bytes
        /\ e.w_buf_next = d.w_buf_next /\ e.w_buf_curr = d.w_buf_curr
        /\ e.marked_filled = d.marked_filled /\ e.soclock_buf = d.soclock_buf
        /\ e.sod_buf = d.sod_buf /\ e.sod_byte = d.sod_byte /\ e.w_xfer = d.w_xfer
    BY <1>i, <1>1, <2>0, <2>1, EnableSodAccepted
  <2>3. PICK p : p = ipcio_check_pending_sod(d)
    OBVIOUS
  <2>4. p = [e EXCEPT !.sod_pending = FALSE]
    BY <1>1, <2>0, <2>2, <2>3 DEF ipcio_check_pending_sod
  <2>5. RingFields \subseteq DOMAIN e /\ "marked_filled" \in DOMAIN e
    BY <2>2 DEF Sound, RingType, Counters
  <2>6. /\ ~p.err /\ DOMAIN p = DOMAIN d /\ p.state = "WRITING" /\ ~p.sod_pending
        /\ p.rdwrt = d.rdwrt /\ p.curbuf = d.curbuf /\ p.bytes = d.bytes
        /\ p.w_buf_next = d.w_buf_next /\ p.w_buf_curr = d.w_buf_curr
        /\ p.marked_filled = d.marked_filled /\ p.soclock_buf = d.soclock_buf
        /\ p.sod_buf = d.sod_buf /\ p.sod_byte = d.sod_byte /\ p.w_xfer = d.w_xfer
    BY <2>2, <2>4, <2>5 DEF RingFields
  <2> QED
    BY <1>1, <2>3, <2>6
<1>2. CASE ~(d.sod_pending /\ PendingFilled(d))
  <2>1. ipcio_check_pending_sod(d) = d
    BY <1>2 DEF ipcio_check_pending_sod
  <2>2. d.sod_pending => d.w_buf_curr <= d.sod_buf
    BY <1>i, <1>2 DEF PendingFilled
  <2> QED
    BY <2>1, <2>2 DEF Sound
<1> QED
  BY <1>1, <1>2

(* A full block is marked filled.  If it is the one a pending start was waiting *)
(* for, it must still be one that ipcbuf_enable_sod accepts: in a ring of one   *)
(* block it is not.                                                         *)
LEMMA WriteFullSound ==
  ASSUME NEW d, Sound(d), NBufs > 1, Position(d), d.bytes = BufSz
  PROVE  GoesOn(d, WriteFull(d)) /\ BetweenWrites(WriteFull(d))
<1>i. /\ d.w_buf_curr \in Int /\ d.sod_buf \in Int /\ d.bytes # 0
      /\ BufSz \in Nat /\ d.state # "WCHANGE" /\ d.w_buf_next \in Int
      /\ d.soclock_buf \in Int
  BY IoSizes DEF Sound, RingType, Counters
<1>0. PICK w : w = WriteFull(d)
  OBVIOUS
<1>t. RingType(w)
  BY <1>0, WriteFullType DEF Sound
<1>1. CASE d.marked_filled
  <2>1. w = [d EXCEPT !.curbuf = NoBuf, !.bytes = 0, !.marked_filled = TRUE]
    BY <1>0, <1>1 DEF WriteFull, Sound
  <2>2. /\ ~w.err /\ "marked_filled" \in DOMAIN w
        /\ w.curbuf = NoBuf /\ w.bytes = 0 /\ w.marked_filled
        /\ w.rdwrt = d.rdwrt /\ w.state = d.state /\ w.w_xfer = d.w_xfer
        /\ w.w_buf_next = d.w_buf_next /\ w.w_buf_curr = d.w_buf_curr
        /\ w.soclock_buf = d.soclock_buf /\ w.sod_pending = d.sod_pending
        /\ w.sod_buf = d.sod_buf /\ w.sod_byte = d.sod_byte
    BY <2>1 DEF Sound, RingType, Counters, RingFields
  <2> QED
    BY <1>0, <1>1, <1>i, <1>t, <2>2
    DEF GoesOn, Sound, Position, HeldBlocks, Over, StopsWell, BetweenWrites
<1>2. CASE ~d.marked_filled
  <2>h. d.curbuf # NoBuf /\ d.w_buf_next = d.w_buf_curr + 1
    BY <1>2, <1>i DEF Position, HeldBlocks
  <2>0. PICK g : g = ipcbuf_mark_filled(d, BufSz)
    OBVIOUS
  <2>1. /\ ~g.err /\ DOMAIN g = DOMAIN d /\ g.state = d.state
        /\ g.rdwrt = d.rdwrt /\ g.curbuf = d.curbuf /\ g.bytes = d.bytes
        /\ g.w_buf_next = d.w_buf_next /\ g.w_buf_curr = d.w_buf_curr + 1
        /\ g.sod_pending = d.sod_pending /\ g.marked_filled = d.marked_filled
        /\ g.soclock_buf = d.soclock_buf /\ g.w_xfer = d.w_xfer
        /\ g.sod_buf = d.sod_buf /\ g.sod_byte = d.sod_byte
    <3>1. ~(BufSz < BufSz)
      BY <1>i
    <3>2. CASE d.state = "WRITER"
      <4>1. g = [d EXCEPT !.w_buf_curr = @ + 1]
        BY <2>0, <3>2 DEF ipcbuf_mark_filled
      <4> QED
        BY <4>1 DEF Sound, RingType, Counters, RingFields
    <3>3. CASE d.state # "WRITER"
      <4>1. PICK ct : g = [d EXCEPT !.count = ct, !.w_buf_curr = @ + 1, !.FULL = @ + 1]
        <5>1. PICK b : b = d.w_buf_curr % NBufs
          OBVIOUS
        <5>2. g = [d EXCEPT !.count[b] = @ + 1, !.w_buf_curr = @ + 1, !.FULL = @ + 1]
          BY <1>i, <2>0, <3>1, <3>3, <5>1 DEF ipcbuf_mark_filled
        <5> QED
          BY <5>2
      <4> QED
        BY <4>1 DEF Sound, RingType, Counters, RingFields
    <3> QED
      BY <3>2, <3>3
  <2>2. Sound(g)
    BY <1>i, <2>0, <2>1, MarkFilledType DEF Sound
  <2>3. PICK e : e = ipcio_check_pending_sod(g)
    OBVIOUS
  <2>4. g.sod_pending => /\ g.state \in {"WRITER", "WCHANGE"}
                         /\ g.soclock_buf <= g.sod_buf /\ g.sod_byte <= BufSz
                         /\ g.w_buf_curr <= g.w_buf_next
                         /\ g.w_buf_next - NBufs + 1 <= g.sod_buf
    BY <1>i, <2>h, <2>1, IoSizes DEF Position
  <2>5. /\ ~e.err /\ DOMAIN e = DOMAIN g
        /\ e.rdwrt = g.rdwrt
        /\ e.w_buf_next = g.w_buf_next /\ e.w_buf_curr = g.w_buf_curr
        /\ e.soclock_buf = g.soclock_buf
        /\ e.sod_buf = g.sod_buf /\ e.sod_byte = g.sod_byte /\ e.w_xfer = g.w_xfer
        /\ \/ /\ e.state = g.state /\ e.sod_pending = g.sod_pending
              /\ e.sod_pending => e.w_buf_curr <= e.sod_buf
           \/ e.state = "WRITING" /\ ~e.sod_pending /\ g.sod_pending
    BY <1>i, <2>h, <2>1, <2>2, <2>3, <2>4, PendingAccepted
  <2>6. w = [e EXCEPT !.curbuf = NoBuf, !.bytes = 0, !.marked_filled = TRUE]
    BY <1>0, <1>2, <2>0, <2>3, <2>5 DEF WriteFull
  <2>7. RingFields \subseteq DOMAIN e /\ "marked_filled" \in DOMAIN e
    BY <2>1, <2>5 DEF Sound, RingType, Counters
  <2>8. /\ ~w.err /\ "marked_filled" \in DOMAIN w
        /\ w.curbuf = NoBuf /\ w.bytes = 0 /\ w.marked_filled
        /\ w.rdwrt = e.rdwrt /\ w.state = e.state /\ w.w_xfer = e.w_xfer
        /\ w.w_buf_next = e.w_buf_next /\ w.w_buf_curr = e.w_buf_curr
        /\ w.soclock_buf = e.soclock_buf /\ w.sod_pending = e.sod_pending
        /\ w.sod_buf = e.sod_buf /\ w.sod_byte = e.sod_byte
    BY <2>5, <2>6, <2>7 DEF RingFields
  <2>9. Sound(w) /\ BetweenWrites(w) /\ ~Over(w)
    BY <1>t, <2>8 DEF Sound, BetweenWrites, Over
  <2>10. w.rdwrt = d.rdwrt /\ (StopsWell(d) => StopsWell(w))
    BY <2>1, <2>5, <2>8 DEF Position, StopsWell
  <2>11. Position(w)
    BY <1>i, <2>h, <2>1, <2>5, <2>8, <2>9 DEF Position, HeldBlocks
  <2> QED
    BY <1>0, <2>9, <2>10, <2>11 DEF GoesOn
<1> QED
  BY <1>0, <1>1, <1>2

(* The next block is obtained; the first of a transfer that was opened to     *)
(* write raises SOD.                                                        *)
LEMMA WriteGetSound ==
  ASSUME NEW d, Sound(d), Position(d), d.curbuf = NoBuf, GetReady(d)
  PROVE  GoesOn(d, WriteGet(d))
<1>i. /\ d.w_buf_curr \in Int /\ d.w_buf_next \in Int /\ d.soclock_buf \in Int
      /\ NBufs \in Nat \ {0} /\ BufSz \in Nat
  BY IoSizes DEF Sound, RingType, Counters
<1>h. d.w_buf_next = d.w_buf_curr
  BY <1>i DEF Position, HeldBlocks
<1>0. PICK w : w = WriteGet(d)
  OBVIOUS
<1>t. RingType(w)
  BY <1>0, WriteGetType DEF Sound
<1>1. PICK e : e = IF d.state = "WCHANGE" THEN ipcbuf_enable_sod(d, d.w_buf_curr, 0)
                                          ELSE d
  OBVIOUS
<1>2. /\ ~e.err /\ DOMAIN e = DOMAIN d
      /\ e.state = IF d.state = "WCHANGE" THEN "WRITING" ELSE d.state
      /\ e.rdwrt = d.rdwrt /\ e.w_xfer = d.w_xfer
      /\ e.w_buf_next = d.w_buf_next /\ e.w_buf_curr = d.w_buf_curr
      /\ e.soclock_buf = d.soclock_buf /\ e.sod_pending = d.sod_pending
      /\ e.sod_buf = d.sod_buf /\ e.sod_byte = d.sod_byte
  <2>1. CASE d.state = "WCHANGE"
    <3>1. /\ d.w_buf_curr <= d.w_buf_next /\ 0 <= BufSz /\ d.soclock_buf <= d.w_buf_curr
          /\ d.w_buf_next - NBufs + 1 <= d.w_buf_curr
      BY <1>i, <1>h DEF Position
    <3> QED
      BY <1>i, <1>1, <2>1, <3>1, EnableSodAccepted
  <2>2. CASE d.state # "WCHANGE"
    BY <1>1, <2>2 DEF Sound
  <2> QED
    BY <2>1, <2>2
<1>f. RingFields \subseteq DOMAIN e /\ "marked_filled" \in DOMAIN e
  BY <1>2 DEF Sound, RingType, Counters
<1>3. PICK ct, cl, b : w = [e EXCEPT !.CLEAR = cl, !.count = ct,
                                     !.w_buf_next = @ + 1,
                                     !.curbuf = b, !.marked_filled = FALSE, !.bytes = 0]
                       /\ b \in Ring
  <2>1. PICK b : b = d.w_buf_next % NBufs
    OBVIOUS
  <2>2. b \in Ring
    BY <1>i, <2>1, PlaceInRing
  <2>3. PICK g : g = [e EXCEPT !.CLEAR = @ - e.count[b], !.count[b] = 0,
                               !.w_buf_next = @ + 1]
    OBVIOUS
  <2>4. ipcbuf_get_next_write(d) = g
    BY <1>1, <1>2, <2>1, <2>3 DEF ipcbuf_get_next_write
  <2>5. ~g.err
    BY <1>2, <1>f, <2>3 DEF RingFields
  <2>6. w = [g EXCEPT !.curbuf = b, !.marked_filled = FALSE, !.bytes = 0]
    BY <1>0, <2>1, <2>4, <2>5 DEF WriteGet
  <2>7. PICK cl, ct : cl = e.CLEAR - e.count[b] /\ ct = [e.count EXCEPT ![b] = 0]
    OBVIOUS
  <2>8. w = [e EXCEPT !.CLEAR = cl, !.count = ct, !.w_buf_next = @ + 1,
                      !.curbuf = b, !.marked_filled = FALSE, !.bytes = 0]
    BY <1>f, <2>3, <2>6, <2>7 DEF RingFields
  <2> QED
    BY <2>2, <2>8
<1>4. /\ ~w.err /\ "marked_filled" \in DOMAIN w /\ w.state = e.state
      /\ w.rdwrt = e.rdwrt /\ w.w_xfer = e.w_xfer
      /\ w.w_buf_next = e.w_buf_next + 1 /\ w.w_buf_curr = e.w_buf_curr
      /\ w.soclock_buf = e.soclock_buf /\ w.sod_pending = e.sod_pending
      /\ w.sod_buf = e.sod_buf /\ w.sod_byte = e.sod_byte
      /\ w.curbuf = b /\ w.bytes = 0 /\ w.marked_filled = FALSE
  BY <1>2, <1>3, <1>f DEF RingFields
<1>5. b # NoBuf
  BY <1>3, <1>i DEF Ring, NoBuf
<1>6. Sound(w) /\ ~Over(w) /\ HeldBlocks(w) = 1
  BY <1>t, <1>4, <1>5 DEF Sound, Over, HeldBlocks
<1>7. w.rdwrt = d.rdwrt /\ (StopsWell(d) => StopsWell(w))
  BY <1>2, <1>4 DEF StopsWell
<1>8. Position(w)
  BY <1>i, <1>h, <1>2, <1>4, <1>6 DEF Position
<1> QED
  BY <1>0, <1>6, <1>7, <1>8 DEF GoesOn

(* Bytes are copied into the block. *)
LEMMA WriteCopySound ==
  ASSUME NEW d, Sound(d), Position(d), d.curbuf # NoBuf, d.bytes # BufSz,
         NEW vals \in Seq(Int), vals # <<>>
  PROVE  GoesOn(d, WriteCopy(d, vals)) /\ BetweenWrites(WriteCopy(d, vals))
<1>i. /\ d.bytes \in 0 .. BufSz /\ BufSz \in Nat /\ Len(vals) \in Nat /\ Len(vals) > 0
  BY IoSizes DEF Sound, RingType, Counters
<1>0. PICK w : w = WriteCopy(d, vals)
  OBVIOUS
<1>t. RingType(w)
  BY <1>0, <1>i, WriteCopyType DEF Sound
<1>1. PICK s, mem : s = Space(d, vals) /\ w = [d EXCEPT !.mem = mem, !.bytes = @ + s]
  BY <1>0 DEF WriteCopy
<1>2. s > 0 /\ s \in Nat
  BY <1>i, <1>1 DEF Space
<1>3. /\ ~w.err /\ "marked_filled" \in DOMAIN w /\ w.state = d.state
      /\ w.rdwrt = d.rdwrt /\ w.w_xfer = d.w_xfer
      /\ w.w_buf_next = d.w_buf_next /\ w.w_buf_curr = d.w_buf_curr
      /\ w.soclock_buf = d.soclock_buf /\ w.sod_pending = d.sod_pending
      /\ w.sod_buf = d.sod_buf /\ w.sod_byte = d.sod_byte
      /\ w.curbuf = d.curbuf /\ w.marked_filled = d.marked_filled
      /\ w.bytes = d.bytes + s
  BY <1>1 DEF Sound, RingType, Counters, RingFields
<1>4. w.bytes # 0
  BY <1>i, <1>2, <1>3
<1>5. Sound(w) /\ HeldBlocks(w) = HeldBlocks(d) /\ (Over(w) => Over(d))
  BY <1>t, <1>3 DEF Sound, HeldBlocks, Over
<1>6. Position(w) /\ (StopsWell(d) => StopsWell(w))
  BY <1>3, <1>5 DEF Position, StopsWell
<1> QED
  BY <1>0, <1>3, <1>4, <1>5, <1>6 DEF GoesOn, BetweenWrites

(* ipcio_start: the start is raised, or left pending for a block to come. *)
LEMMA StartSound ==
  ASSUME NEW d, Sound(d), NBufs > 1, Position(d), ~Over(d), d.rdwrt = "w",
         NEW byte \in Int, byte >= ipcio_get_start_minimum(d)
  PROVE  LET e == ipcio_start(d, byte)
         IN /\ Sound(e) /\ Position(e) /\ e.rdwrt = "W"
            /\ BetweenWrites(d) => BetweenWrites(e)
<1>i. /\ d.w_buf_curr \in Int /\ d.w_buf_next \in Int /\ d.soclock_buf \in Int
      /\ NBufs \in Nat /\ BufSz \in Nat /\ BufSz > 0
      /\ d.w_buf_curr <= d.w_buf_next /\ d.soclock_buf <= d.w_buf_curr
      /\ d.state = "WRITER"
  BY IoSizes DEF Sound, RingType, Counters, Position, HeldBlocks
<1>1. PICK b, y : b = byte \div BufSz /\ y = byte % BufSz
  OBVIOUS
<1>2. PICK k : k = ipcbuf_get_sod_minbuf(d)
  OBVIOUS
<1>3. k \in Int /\ d.soclock_buf <= k /\ d.w_buf_next - NBufs + 1 <= k
  BY <1>i, <1>2 DEF ipcbuf_get_sod_minbuf, Unsigned
<1>4. b \in Int /\ y \in 0 .. BufSz - 1 /\ byte = BufSz * b + y
  BY <1>i, <1>1
<1>5. k <= b
  <2>1. k * BufSz <= byte
    BY <1>2 DEF ipcio_get_start_minimum
  <2>2. ASSUME b + 1 <= k PROVE FALSE
    <3>1. PICK q \in Nat : k = b + 1 + q
      <4>1. k - (b + 1) \in Nat
        BY <1>3, <1>4, <2>2
      <4> QED
        BY <1>3, <1>4, <4>1
    <3>2. k * BufSz = BufSz * b + BufSz + q * BufSz
      BY <1>i, <1>4, <3>1
    <3>3. q * BufSz \in Nat
      BY <1>i, <3>1, ProductNat
    <3>4. PICK u \in Int : u = BufSz * b
      BY <1>i, <1>4
    <3>5. byte = u + y /\ k * BufSz = u + BufSz + q * BufSz
      BY <1>4, <3>2, <3>4
    <3> QED
      BY <1>i, <1>4, <2>1, <3>3, <3>4, <3>5
  <2> QED
    BY <1>3, <1>4, <2>2
<1>6. PICK p : p = [d EXCEPT !.sod_buf = b, !.sod_byte = y, !.sod_pending = TRUE,
                             !.rdwrt = "W"]
  OBVIOUS
<1>7. /\ DOMAIN p = DOMAIN d /\ p.err = d.err /\ p.state = d.state
      /\ p.rdwrt = "W" /\ p.w_xfer = d.w_xfer
      /\ p.w_buf_next = d.w_buf_next /\ p.w_buf_curr = d.w_buf_curr
      /\ p.soclock_buf = d.soclock_buf /\ p.sod_pending
      /\ p.sod_buf = b /\ p.sod_byte = y
      /\ p.curbuf = d.curbuf /\ p.bytes = d.bytes /\ p.marked_filled = d.marked_filled
  BY <1>6 DEF Sound, RingType, Counters, RingFields
<1>8. Sound(p)
  <2>1. RingType(p)
    BY <1>4, <1>6 DEF Sound, RingType, Counters, RingFields
  <2> QED
    BY <1>7, <2>1 DEF Sound
<1>9. PICK e : e = ipcio_check_pending_sod(p)
  OBVIOUS
<1>10. e = ipcio_start(d, byte)
  BY <1>1, <1>6, <1>9 DEF ipcio_start
<1>11. RingType(e)
  BY <1>10, StartType DEF Sound
<1>12. /\ ~e.err /\ DOMAIN e = DOMAIN p
       /\ e.rdwrt = p.rdwrt /\ e.curbuf = p.curbuf /\ e.bytes = p.bytes
       /\ e.w_buf_next = p.w_buf_next /\ e.w_buf_curr = p.w_buf_curr
       /\ e.marked_filled = p.marked_filled /\ e.soclock_buf = p.soclock_buf
       /\ e.sod_buf = p.sod_buf /\ e.sod_byte = p.sod_byte
       /\ \/ /\ e.state = p.state /\ e.sod_pending = p.sod_pending
             /\ e.sod_pending => e.w_buf_curr <= e.sod_buf
          \/ e.state = "WRITING" /\ ~e.sod_pending
  <2>1. /\ p.state \in {"WRITER", "WCHANGE"}
        /\ p.soclock_buf <= p.sod_buf /\ p.sod_byte <= BufSz
        /\ p.w_buf_curr <= p.w_buf_next
        /\ p.w_buf_next - NBufs + 1 <= p.sod_buf
    BY <1>i, <1>3, <1>4, <1>5, <1>7
  <2> QED
    BY <1>8, <1>9, <2>1, PendingAccepted
<1>13. Sound(e) /\ ~Over(e) /\ HeldBlocks(e) = HeldBlocks(d)
       /\ (BetweenWrites(d) => BetweenWrites(e))
  BY <1>7, <1>11, <1>12 DEF Sound, Over, HeldBlocks, BetweenWrites
<1>14. e.soclock_buf <= e.sod_buf /\ e.sod_byte <= BufSz
  BY <1>i, <1>3, <1>4, <1>5, <1>7, <1>12
<1>15. Position(e)
  BY <1>i, <1>7, <1>12, <1>13, <1>14 DEF Position
<1> QED
  BY <1>7, <1>10, <1>12, <1>13, <1>15

(* ipcio_stop inside a recording: the handle keeps the block it was filling,  *)
(* which has been handed over.                                              *)
LEMMA StopSound ==
  ASSUME NEW d, Sound(d), Position(d), BetweenWrites(d), StopReady(d),
         d.rdwrt = "W", d.state = "WRITING"
  PROVE  LET e == ipcio_stop(d)
         IN /\ Sound(e) /\ Position(e) /\ BetweenWrites(e)
            /\ e.rdwrt = "w" /\ e.w_xfer = d.w_xfer + 1 /\ e.w_state = "DISCON"
<1>i. /\ d.w_buf_curr \in Int /\ d.w_buf_next \in Int /\ d.soclock_buf \in Int
      /\ d.w_xfer \in Nat /\ d.bytes \in 0 .. BufSz /\ BufSz \in Nat /\ BufSz > 0
      /\ ~d.sod_pending /\ ~Over(d) /\ ~d.err
  BY IoSizes DEF Sound, RingType, Counters, Position
<1>0. PICK e : e = ipcio_stop(d)
  OBVIOUS
<1>t. RingType(e)
  BY <1>0, StopType DEF Sound
<1>1. CloseBlocks(d) = d
  BY NoBlocksOpen DEF Sound, RingType, Counters
<1>2. PICK g : g = EndOfData(d)
  OBVIOUS
<1>3. /\ ~g.err /\ DOMAIN g = DOMAIN d
      /\ g.state = "WRITER" /\ g.w_state = "DISCON" /\ g.w_xfer = d.w_xfer + 1
      /\ g.curbuf = d.curbuf /\ g.bytes = d.bytes
      /\ g.w_buf_curr = d.w_buf_curr + 1
      /\ g.w_buf_next = IF d.bytes = 0 THEN d.w_buf_next + 1 ELSE d.w_buf_next
      /\ ~g.sod_pending /\ g.soclock_buf = d.soclock_buf
  <2> DEFINE c == [d EXCEPT !.state = "WCHANGE"]
             x == d.w_xfer + 1
             h == [c EXCEPT !.xfers[x].e_buf = c.w_buf_curr,
                            !.xfers[x].e_byte = d.bytes,
                            !.xfers[x].eod = TRUE,
                            !.w_xfer = x,
                            !.state = "WRITER",
                            !.w_state = "DISCON"]
             f == IF d.bytes = 0 THEN ipcbuf_get_next_write(h) ELSE h
  <2>1. /\ DOMAIN h = DOMAIN d /\ h.state = "WRITER" /\ h.w_state = "DISCON"
        /\ h.w_xfer = d.w_xfer + 1 /\ h.bytes = d.bytes /\ h.err = d.err
        /\ h.w_buf_curr = d.w_buf_curr /\ h.w_buf_next = d.w_buf_next
        /\ h.curbuf = d.curbuf
        /\ h.sod_pending = d.sod_pending /\ h.soclock_buf = d.soclock_buf
    BY DEF Sound, RingType, Counters, RingFields
  <2>2. /\ c.state = "WCHANGE" /\ c.w_buf_curr = d.w_buf_curr
        /\ c.w_xfer = d.w_xfer /\ c.bytes = d.bytes
    BY DEF Sound, RingType, Counters, RingFields
  <2>3. PICK b : b = d.w_buf_curr % NBufs
    OBVIOUS
  <2>4. PICK p : p = ipcbuf_mark_filled(c, d.bytes)
    OBVIOUS
  <2>5. p = [f EXCEPT !.count[b] = @ + 1, !.w_buf_curr = @ + 1, !.FULL = @ + 1]
    <3> HIDE DEF c
    <3>1. PICK q : q = f
      OBVIOUS
    <3>2. ipcbuf_mark_filled(c, d.bytes) =
            [q EXCEPT !.count[b] = @ + 1, !.w_buf_curr = @ + 1, !.FULL = @ + 1]
      BY <2>2, <2>3, <3>1 DEF ipcbuf_mark_filled
    <3> HIDE DEF f
    <3> QED
      BY <2>4, <3>1, <3>2
  <2>6. g = ipcio_check_pending_sod(p)
    BY <1>2, <2>4 DEF EndOfData
  <2> HIDE DEF c, x, h
  <2>7. /\ DOMAIN f = DOMAIN d /\ f.state = "WRITER" /\ f.w_state = "DISCON"
        /\ f.w_xfer = d.w_xfer + 1 /\ f.bytes = d.bytes /\ ~f.err
        /\ f.w_buf_curr = d.w_buf_curr
        /\ f.w_buf_next = IF d.bytes = 0 THEN d.w_buf_next + 1 ELSE d.w_buf_next
        /\ f.curbuf = d.curbuf
        /\ ~f.sod_pending /\ f.soclock_buf = d.soclock_buf
    <3>1. CASE d.bytes = 0
      <4>1. PICK k : k = h.w_buf_next % NBufs
        OBVIOUS
      <4>2. f = [h EXCEPT !.CLEAR = @ - h.count[k], !.count[k] = 0,
                          !.w_buf_next = @ + 1]
        BY <1>i, <2>1, <3>1, <4>1 DEF ipcbuf_get_next_write
      <4>3. PICK q : q = f
        OBVIOUS
      <4>4. q = [h EXCEPT !.CLEAR = @ - h.count[k], !.count[k] = 0,
                          !.w_buf_next = @ + 1]
        BY <4>2, <4>3
      <4> HIDE DEF f
      <4>5. /\ DOMAIN q = DOMAIN h /\ q.state = h.state /\ q.w_state = h.w_state
            /\ q.w_xfer = h.w_xfer /\ q.bytes = h.bytes /\ q.err = h.err
            /\ q.w_buf_curr = h.w_buf_curr /\ q.w_buf_next = h.w_buf_next + 1
            /\ q.curbuf = h.curbuf
            /\ q.sod_pending = h.sod_pending /\ q.soclock_buf = h.soclock_buf
        BY <2>1, <4>4 DEF Sound, RingType, Counters, RingFields
      <4> QED
        BY <1>i, <2>1, <3>1, <4>3, <4>5
    <3>2. CASE d.bytes # 0
      BY <1>i, <2>1, <3>2
    <3> QED
      BY <3>1, <3>2
  <2> HIDE DEF f
  <2>8. /\ DOMAIN p = DOMAIN d /\ p.state = "WRITER" /\ p.w_state = "DISCON"
        /\ p.w_xfer = d.w_xfer + 1 /\ p.bytes = d.bytes /\ ~p.err
        /\ p.w_buf_curr = d.w_buf_curr + 1
        /\ p.w_buf_next = f.w_buf_next
        /\ p.curbuf = d.curbuf
        /\ ~p.sod_pending /\ p.soclock_buf = d.soclock_buf
    BY <2>5, <2>7 DEF Sound, RingType, Counters, RingFields
  <2>9. g = p
    BY <2>6, <2>8 DEF ipcio_check_pending_sod
  <2> QED
    BY <2>7, <2>8, <2>9
<1>4. e = Ended(g)
  BY <1>0, <1>1, <1>2, <1>3 DEF ipcio_stop, IfOk
<1>5. /\ ~e.err /\ DOMAIN e = DOMAIN d /\ e.rdwrt = "w" /\ e.marked_filled
      /\ e.state = "WRITER" /\ e.w_state = "DISCON" /\ e.w_xfer = d.w_xfer + 1
      /\ e.curbuf = (IF d.bytes = BufSz THEN NoBuf ELSE d.curbuf)
      /\ e.bytes = d.bytes
      /\ e.w_buf_curr = g.w_buf_curr /\ e.w_buf_next = g.w_buf_next
      /\ ~e.sod_pending /\ e.soclock_buf = d.soclock_buf
  <2>1. RingFields \subseteq DOMAIN g /\ "marked_filled" \in DOMAIN g
    BY <1>3 DEF Sound, RingType, Counters
  <2> QED
    BY <1>3, <1>4, <2>1 DEF Ended, RingFields
<1>6. Sound(e) /\ BetweenWrites(e)
  BY <1>i, <1>t, <1>5 DEF Sound, BetweenWrites
<1>7. e.w_buf_next = e.w_buf_curr /\ HeldBlocks(e) = 0 /\ e.soclock_buf <= e.w_buf_curr
  <2>1. CASE d.bytes = 0
    <3>1. d.w_buf_next = d.w_buf_curr
      BY <1>i, <2>1 DEF Position, HeldBlocks, BetweenWrites
    <3> QED
      BY <1>i, <1>3, <1>5, <2>1, <3>1 DEF HeldBlocks, Position
  <2>2. CASE d.bytes # 0
    <3>1. d.curbuf # NoBuf /\ ~d.marked_filled
      BY <1>i, <2>2 DEF Position, Over
    <3>2. d.w_buf_next = d.w_buf_curr + 1
      BY <3>1 DEF Position, HeldBlocks
    <3> QED
      BY <1>i, <1>3, <1>5, <2>2, <3>2 DEF HeldBlocks, Position
  <2> QED
    BY <2>1, <2>2
<1>8. Position(e)
  BY <1>i, <1>5, <1>7, <1>3 DEF Position
<1> QED
  BY <1>0, <1>5, <1>6, <1>8

(* ipcio_close: of a transfer, or of the handle as Prepare first finds it.    *)
Fresh(d) == Opened(d) /\ d.rdwrt = "W" /\ d.w_xfer = 0 /\ d.w_state = "DISCON"

LEMMA CloseSound ==
  ASSUME NEW d, Sound(d), StopReady(d),
         Fresh(d) \/ (Position(d) /\ BetweenWrites(d) /\ StopsWell(d))
  PROVE  LET e == ipcio_close(d) IN Sound(e) /\ Shut(e)
<1>0. PICK e : e = ipcio_close(d)
  OBVIOUS
<1>t. RingType(e)
  BY <1>0, CloseType DEF Sound
<1>1. PICK s : s = IF d.rdwrt = "W" THEN ipcio_stop(d) ELSE d
  OBVIOUS
<1>2. ~s.err => e = Closed(s)
  BY <1>0, <1>1 DEF ipcio_close, IfOk
<1>3. CASE Fresh(d)
  <2>1. s = [d EXCEPT !.rdwrt = "w"]
    BY <1>1, <1>3 DEF Fresh, Opened, ipcio_stop
  <2>2. /\ ~s.err /\ DOMAIN s = DOMAIN d /\ s.rdwrt = "w" /\ s.w_xfer = 0
        /\ s.w_state = "DISCON" /\ AtOrigin(s)
    BY <1>3, <2>1 DEF Fresh, Opened, AtOrigin, Sound, RingType, Counters, RingFields
  <2>3. e = [s EXCEPT !.state = "VIEWER", !.rdwrt = "0"]
    BY <1>2, <2>2 DEF Closed
  <2>4. /\ ~e.err /\ "marked_filled" \in DOMAIN e /\ e.rdwrt = "0"
        /\ e.w_state = "DISCON" /\ AtOrigin(e)
    BY <2>2, <2>3 DEF AtOrigin, Sound, RingType, Counters, RingFields
  <2> QED
    BY <1>0, <1>t, <2>4 DEF Sound, Shut
<1>4. CASE Position(d) /\ BetweenWrites(d) /\ StopsWell(d)
  <2>1. /\ Sound(s) /\ s.rdwrt = "w" /\ s.w_xfer > 0 /\ s.w_state = "DISCON"
        /\ ~s.sod_pending
    <3>1. CASE d.rdwrt = "W"
      <4>1. d.w_xfer \in Nat
        BY DEF Sound, RingType, Counters
      <4> QED
        BY <1>1, <1>4, <3>1, <4>1, StopSound DEF StopsWell, Position
    <3>2. CASE d.rdwrt # "W"
      BY <1>1, <1>4, <3>2 DEF StopsWell, Position, Sound, RingType
    <3> QED
      BY <3>1, <3>2
  <2>2. PICK next : next = s.xfers[s.w_xfer].e_buf + 1
    OBVIOUS
  <2>3. e = [s EXCEPT !.w_buf_curr = next, !.w_buf_next = next,
                      !.state = "VIEWER", !.rdwrt = "0"]
    BY <1>2, <2>1, <2>2 DEF Closed, Sound
  <2>4. /\ ~e.err /\ "marked_filled" \in DOMAIN e /\ e.rdwrt = "0"
        /\ e.w_state = "DISCON" /\ ~e.sod_pending
        /\ e.w_buf_curr = next /\ e.w_buf_next = next
        /\ e.xfers = s.xfers /\ e.w_xfer = s.w_xfer
    BY <2>1, <2>3 DEF Sound, RingType, Counters, RingFields
  <2> QED
    BY <1>0, <1>t, <2>1, <2>2, <2>4 DEF Sound, Shut, AtOrigin
<1> QED
  BY <1>3, <1>4

(* The reader takes a block and gives it back. *)
LEMMA TokenSound ==
  ASSUME NEW d, Sound(d), d.FULL > 0
  PROVE  LET e == Cleared(Taken(d)) IN
         /\ Sound(e)
         /\ \A f \in RingFields \ {"FULL", "CLEAR"} : e[f] = d[f]
         /\ e.marked_filled = d.marked_filled
<1>0. PICK e : e = Cleared(Taken(d))
  OBVIOUS
<1>1. RingType(e)
  BY <1>0, TokenType DEF Sound
<1>2. DOMAIN e = DOMAIN d /\ \A f \in DOMAIN d \ {"FULL", "CLEAR"} : e[f] = d[f]
  BY <1>0 DEF Cleared, Taken
<1>3. RingFields \subseteq DOMAIN d /\ "marked_filled" \in DOMAIN d
  BY DEF Sound, RingType, Counters
<1>4. \A f \in RingFields \ {"FULL", "CLEAR"} : e[f] = d[f]
  BY <1>2, <1>3
<1>5. e.marked_filled = d.marked_filled /\ e.err = d.err
  BY <1>2, <1>3 DEF RingFields
<1> QED
  BY <1>0, <1>1, <1>2, <1>3, <1>4, <1>5 DEF Sound

-----------------------------------------------------------------------------
(* The Header Block: a place that was given a header has a UTC_START.         *)
Memory(h) ==
  /\ {"mem", "w_buf_next"} \subseteq DOMAIN h
  /\ DOMAIN h.mem = 0 .. NHdr - 1
  /\ \A b \in 0 .. NHdr - 1 : 0 \in DOMAIN h.mem[b]
  /\ h.w_buf_next \in Nat

Given(h, b) == b \in 0 .. NHdr - 1 /\ "utc" \in DOMAIN h.mem[b][0]

LEMMA MemoryGot ==
  ASSUME HeaderBlock, Memory(hb)
  PROVE  LET e == HB!ipcbuf_get_next_write(hb) IN Memory(e) /\ e.mem = hb.mem
<1>0. 0 < NHdr /\ 0 <= 1
  BY MainSizes
<1>1. PICK g : g = HB!ipcbuf_get_next_write(hb)
  OBVIOUS
<1>2. CASE hb.state = "WRITING"
  <2>1. ~hb.err
    BY DEF HeaderBlock, HeaderOpen
  <2>2. PICK b : g = [hb EXCEPT !.CLEAR = @ - hb.count[b], !.count[b] = 0,
                                !.w_buf_next = @ + 1]
    BY <1>1, <1>2, <2>1 DEF HB!ipcbuf_get_next_write
  <2>3. g.mem = hb.mem /\ g.w_buf_next = hb.w_buf_next + 1 /\ DOMAIN g = DOMAIN hb
    BY <2>2 DEF Memory
  <2> QED
    BY <1>1, <2>3 DEF Memory
<1>3. CASE hb.state # "WRITING"
  <2>1. /\ HeaderFields \subseteq DOMAIN hb /\ ~hb.err /\ hb.state = "WCHANGE"
        /\ hb.w_buf_curr = 0 /\ hb.w_buf_next = 0 /\ hb.soclock_buf = 0
    BY <1>3 DEF HeaderBlock, HeaderOpen
  <2>2. PICK e : e = HB!ipcbuf_enable_sod(hb, hb.w_buf_curr, 0)
    OBVIOUS
  <2>3. PICK xf, ct, fl :
          e = [hb EXCEPT !.xfers = xf, !.count = ct, !.FULL = fl,
                         !.state = "WRITING", !.w_state = "WRITING"]
    <3>1. /\ hb.state \in {"WRITER", "WCHANGE"} /\ hb.w_buf_curr <= hb.w_buf_next
          /\ hb.w_buf_curr >= HB!ipcbuf_get_sod_minbuf(hb) /\ 0 <= 1
      BY <1>0, <2>1 DEF HB!ipcbuf_get_sod_minbuf, HB!Unsigned
    <3> QED
      BY <2>2, <3>1 DEF HB!ipcbuf_enable_sod
  <2>4. /\ ~e.err /\ e.mem = hb.mem /\ e.w_buf_next = hb.w_buf_next
        /\ DOMAIN e = DOMAIN hb
    BY <2>1, <2>3 DEF Memory, HeaderFields
  <2>5. PICK b : g = [e EXCEPT !.CLEAR = @ - e.count[b], !.count[b] = 0,
                               !.w_buf_next = @ + 1]
    BY <1>1, <2>1, <2>2, <2>4 DEF HB!ipcbuf_get_next_write
  <2>6. g.mem = hb.mem /\ g.w_buf_next = hb.w_buf_next + 1 /\ DOMAIN g = DOMAIN hb
    BY <2>4, <2>5 DEF Memory
  <2> QED
    BY <1>1, <2>6 DEF Memory
<1> QED
  BY <1>2, <1>3

LEMMA MemoryPublished ==
  ASSUME NEW h, HeaderOpen(h), Memory(h), NEW b
  PROVE  LET e == Publish(h, b) IN Memory(e) /\ e.mem = h.mem
<1>1. ~(1 < 1)
  OBVIOUS
<1>2. PICK g : g = HB!ipcbuf_mark_filled(h, 1)
  OBVIOUS
<1>3. PICK k : g = [h EXCEPT !.count[k] = @ + 1, !.w_buf_curr = @ + 1, !.FULL = @ + 1]
  BY <1>1, <1>2 DEF HB!ipcbuf_mark_filled, HeaderOpen
<1>4. g.mem = h.mem /\ g.w_buf_next = h.w_buf_next /\ DOMAIN g = DOMAIN h
  BY <1>3 DEF Memory
<1>5. Memory(g)
  BY <1>4 DEF Memory
<1> QED
  BY <1>2, <1>4, <1>5 DEF Publish

(* A header is copied to a place, ... *)
LEMMA MemoryWritten ==
  ASSUME NEW h, Memory(h), NEW b \in 0 .. NHdr - 1, NEW x, "utc" \in DOMAIN x
  PROVE  LET e == [h EXCEPT !.mem[b][0] = x] IN Memory(e) /\ Given(e, b)
<1>1. PICK e : e = [h EXCEPT !.mem[b][0] = x]
  OBVIOUS
<1>2. PICK mm : mm = [h.mem EXCEPT ![b][0] = x]
  OBVIOUS
<1>3. e.mem = mm /\ e.w_buf_next = h.w_buf_next /\ DOMAIN e = DOMAIN h
  BY <1>1, <1>2 DEF Memory
<1>4. DOMAIN mm = DOMAIN h.mem /\ \A k \in DOMAIN mm : DOMAIN mm[k] = DOMAIN h.mem[k]
  BY <1>2
<1>5. mm[b][0] = x
  BY <1>2 DEF Memory
<1>6. Memory(e)
  BY <1>3, <1>4 DEF Memory
<1>7. Given(e, b)
  BY <1>3, <1>5 DEF Given
<1> QED
  BY <1>1, <1>6, <1>7

(* ... and its UTC_START is set. *)
LEMMA MemoryDated ==
  ASSUME NEW h, Memory(h), Given(h, m.header), NEW utc
  PROVE  LET e == SetUtc(h, utc) IN
         /\ Memory(e) /\ Given(e, m.header)
         /\ utc # Unknown => Valid(e, m.header)
<1>1. PICK b : b = m.header
  OBVIOUS
<1>2. PICK e : e = [h EXCEPT !.mem[b][0].utc = utc]
  OBVIOUS
<1>3. PICK mm : mm = [h.mem EXCEPT ![b][0].utc = utc]
  OBVIOUS
<1>4. e.mem = mm /\ e.w_buf_next = h.w_buf_next /\ DOMAIN e = DOMAIN h
  BY <1>2, <1>3 DEF Memory
<1>5. DOMAIN mm = DOMAIN h.mem /\ \A k \in DOMAIN mm : DOMAIN mm[k] = DOMAIN h.mem[k]
  BY <1>3
<1>6. mm[b][0] = [h.mem[b][0] EXCEPT !.utc = utc]
  BY <1>1, <1>3 DEF Memory, Given
<1>7. "utc" \in DOMAIN mm[b][0] /\ mm[b][0].utc = utc
  BY <1>1, <1>6 DEF Given
<1>8. Memory(e)
  BY <1>4, <1>5 DEF Memory
<1>9. Given(e, b) /\ (utc # Unknown => Valid(e, b))
  BY <1>1, <1>4, <1>7 DEF Given, Valid
<1> QED
  BY <1>1, <1>2, <1>8, <1>9 DEF SetUtc

LEMMA MemoryCleared ==
  ASSUME NEW h, Memory(h)
  PROVE  LET e == HB!Cleared(HB!Taken(h)) IN Memory(e) /\ e.mem = h.mem
<1>1. PICK e : e = HB!Cleared(HB!Taken(h))
  OBVIOUS
<1>2. e.mem = h.mem /\ e.w_buf_next = h.w_buf_next /\ DOMAIN e = DOMAIN h
  BY <1>1 DEF Memory, HB!Cleared, HB!Taken
<1> QED
  BY <1>1, <1>2 DEF Memory

-----------------------------------------------------------------------------
(* One client, which keeps the rules "any", "toggle", "short" and "timed".     *)
Careful ==
  /\ OneClient
  /\ {"any", "toggle", "short", "timed"} \cap Slips = {}
  /\ NBufs > 1

Fields ==
  /\ "quit" \in DOMAIN pwc
  /\ {"header", "header_valid", "utc_start_set"} \subseteq DOMAIN m

InTransfer == Transferring \cup {"room", "rest"}

(* A command that may be carried out whatever bytes are written before it. *)
Dated(cmd) ==
  /\ m.utc_start_set
  /\ \/ cmd.code = "rec_start" /\ pwc.state = "clocking" /\ ~m.header_valid
     \/ cmd.code = "rec_stop" /\ pwc.state = "recording" /\ StopsWell(io)
     \/ cmd.code = "stop" /\ StopsWell(io)

Prepares(cmd) ==
  \/ cmd.code = "header" /\ pwc.state = "idle"
  \/ cmd.code \in {"clock", "start"} /\ pwc.state = "prepared" /\ cmd.byte_count = 0

(* A command in the slot, or one that a client is about to put there, is one   *)
(* that the transfer thread will still be able to carry out when it gets it.  *)
Posted(cmd) ==
  \/ m.pc = "get" /\ Prepares(cmd)
  \/ m.pc = "get" /\ cmd.code = "exit" /\ pwc.quit
  \/ /\ m.pc \in Transferring /\ m.transit = 0
     /\ Dated(cmd) \/ (cmd.code = "set_utc_start" /\ cmd.utc # 0)

Posts ==
  /\ IF pwc.command.code = "none" THEN pwc.command.byte_count = 0
                                  ELSE Posted(pwc.command)
  /\ \A c \in Clients : call[c] # NoCommand =>
       pwc.command.code = "none" /\ Posted(call[c])

(* Between two transfers: the Data Block is shut, and prepared means that a   *)
(* header has been copied.                                                  *)
Resting ==
  /\ m.pc \in {"prepare", "fatal"}
  /\ ~pwc.quit
  /\ pwc.state = "idle"
  /\ Shut(io) \/ Fresh(io)

Waiting ==
  /\ m.pc \in {"get", "handle"}
  /\ Shut(io)
  /\ pwc.state \in {"idle", "prepared"}
  /\ m.header \in 0 .. NHdr - 1
  /\ pwc.state = "prepared" => Given(hb, m.header)
  /\ m.pc = "handle" /\ ~pwc.quit => Prepares(m.command)

Starting ==
  /\ m.pc = "start"
  /\ ~pwc.quit
  /\ pwc.state = "prepared"
  /\ m.command.byte_count = 0
  /\ Opened(io)
  /\ Given(hb, m.header)

(* In a transfer; an end of data inside a block, or a start of data known to   *)
(* the header, mean that the header has been handed over.                    *)
InFlight ==
  /\ m.pc \in InTransfer
  /\ ~pwc.quit
  /\ Given(hb, m.header)
  /\ Position(io)
  /\ pwc.state = "recording" /\ m.utc_start_set => m.header_valid
  /\ Over(io) => m.header_valid
  /\ m.transit # 0 => Dated(m.command)
  /\ m.pc \in {"room", "rest"} => m.transit = 0
  /\ todo = <<>> => BetweenWrites(io)

Stopping ==
  /\ m.pc = "stop"
  /\ ~pwc.quit
  /\ pwc.state = ModeOf(io)
  /\ Position(io) /\ BetweenWrites(io) /\ StopsWell(io)

Alive ==
  /\ pwc.state \notin Errors
  /\ Sound(io) /\ Memory(hb)
  /\ Posts
  /\ Resting \/ Waiting \/ Starting \/ InFlight \/ Stopping
  /\ m.pc \notin {"write", "room", "rest"} => todo = <<>>

(* The Data Block was full before UTC_START was known. *)
Dead ==
  /\ pwc.state = "fatal_error" /\ ~m.utc_start_set
  /\ m.pc \in {"stop", "fatal"} \/ (m.pc \in {"prepare", "exit"} /\ pwc.quit)

(* What is to be written does not fit, and UTC_START is unknown. *)
NoRoom ==
  /\ m.pc \in {"fetch", "room"}
  /\ pwc'.state = "fatal_error"
  /\ ~m.utc_start_set
  /\ ipcio_space_left(io) < m'.buf_bytes

Gone == m.pc = "exit" /\ pwc.state \notin Errors

Explained == failed \/ Dead \/ Gone \/ Alive

ExplainInv == TypeInv /\ MatchInv /\ Fields /\ Explained

(* No command is on its way. *)
Quiet ==
  /\ pwc.command.code = "none" /\ pwc.command.byte_count = 0
  /\ \A c \in Clients : call[c] = NoCommand

LEMMA QuietPosts == Quiet => Posts
  BY DEF Quiet, Posts

LEMMA QuietPostsNext == Quiet' => Posts'
  BY DEF Quiet, Posts

(* A command that waits in the slot is the only one. *)
LEMMA QuietCalls ==
  ASSUME Posts, pwc.command.code # "none"
  PROVE  Posted(pwc.command) /\ \A c \in Clients : call[c] = NoCommand
  BY DEF Posts

LEMMA QuietElsewhere ==
  ASSUME Posts,
         \/ m.pc \notin {"get"} \cup Transferring
         \/ m.pc # "get" /\ m.transit # 0
  PROVE  Quiet
  BY DEF Posts, Posted, Quiet

(* What has been posted stays so while the transfer goes on. *)
LEMMA PostsStay ==
  ASSUME Posts, m.pc \in Transferring, m'.pc \in Transferring,
         pwc' = pwc, call' = call,
         m'.transit = m.transit, m'.utc_start_set = m.utc_start_set,
         pwc.state = "clocking" /\ m'.header_valid => m.header_valid,
         StopsWell(io) => StopsWell(io)'
  PROVE  Posts'
<1>0. "get" \notin Transferring
  BY DEF Transferring
<1>1. ASSUME NEW cmd, Posted(cmd) PROVE Posted(cmd)'
  BY <1>0, <1>1 DEF Posted, Dated
<1> QED
  BY <1>1 DEF Posts

(* A step after which the transfer is where it was. *)
LEMMA FlightStays ==
  ASSUME Alive, InFlight, m'.pc \in InTransfer,
         pwc'.state = pwc.state, pwc'.quit = pwc.quit,
         m'.header = m.header, m'.utc_start_set = m.utc_start_set,
         m'.transit = m.transit, m'.command = m.command,
         m.header_valid => m'.header_valid,
         pwc.state = "clocking" /\ m'.header_valid => m.header_valid,
         Memory(hb'), hb'.mem = hb.mem,
         GoesOn(io, io'),
         m'.pc \in {"room", "rest"} => m.transit = 0,
         todo' = <<>> => BetweenWrites(io'),
         m'.pc \in {"write", "room", "rest"} \/ todo' = <<>>,
         Posts'
  PROVE  Alive'
<1>1. StopsWell(io) => StopsWell(io)'
  BY DEF GoesOn, StopsWell
<1>2. Given(hb, m.header)'
  BY DEF InFlight, Given
<1>3. m.transit # 0 => Dated(m.command)'
  BY <1>1 DEF InFlight, Dated
<1>4. Position(io') /\ (Over(io') => Over(io)) /\ Sound(io')
  BY DEF GoesOn
<1>5. InFlight'
  BY <1>2, <1>3, <1>4 DEF InFlight, Position, Over, HeldBlocks, BetweenWrites
<1> QED
  BY <1>4, <1>5 DEF Alive, Sound, RingType, Counters, Memory

(* The slot is empty and the thread at rest, about to start, or stopping. *)
LEMMA SetStateIs ==
  ASSUME NEW p, {"state", "quit", "command"} \subseteq DOMAIN p, NEW new, NEW utc,
         SetState(p, new, utc), MayChange(p.state, new)
  PROVE  pwc'.state = new /\ pwc'.quit = p.quit /\ pwc'.command = p.command
  BY DEF SetState, dada_pwc_set_state

LEMMA CommandGotIs ==
  ASSUME PwcType(pwc), "quit" \in DOMAIN pwc
  PROVE  LET p == CommandGot(pwc) IN
         /\ p.state = pwc.state /\ p.quit = pwc.quit
         /\ p.command.code = "none" /\ p.command.byte_count = 0
         /\ DOMAIN p = DOMAIN pwc
<1>1. {"code", "byte_count"} \subseteq DOMAIN pwc.command
  BY DEF PwcType, CommandType
<1> QED
  BY <1>1 DEF CommandGot, PwcType

(* The caller of a call that did not fail finds what the call left. *)
Kept(d, e) ==
  /\ Sound(e)
  /\ \A f \in RingFields \ {"FULL", "CLEAR", "err"} : e[f] = d[f]
  /\ e.marked_filled = d.marked_filled

LEMMA OkKept ==
  ASSUME NEW d, Sound(d)
  PROVE  Kept(d, Ok(d))
<1>0. PICK e : e = Ok(d)
  OBVIOUS
<1>1. RingType(e) /\ ~e.err
  BY <1>0, OkType DEF Sound
<1>2. DOMAIN e = DOMAIN d /\ \A f \in DOMAIN d \ {"err"} : e[f] = d[f]
  BY <1>0 DEF Ok
<1>3. RingFields \subseteq DOMAIN d /\ "marked_filled" \in DOMAIN d
  BY DEF Sound, RingType, Counters
<1>4. \A f \in RingFields \ {"FULL", "CLEAR", "err"} : e[f] = d[f]
  BY <1>2, <1>3
<1>5. e.marked_filled = d.marked_filled
  BY <1>2, <1>3 DEF RingFields
<1> QED
  BY <1>0, <1>1, <1>2, <1>3, <1>4, <1>5 DEF Kept, Sound

LEMMA TokenKept ==
  ASSUME NEW d, Sound(d), d.FULL > 0
  PROVE  Kept(d, Cleared(Taken(d)))
  BY TokenSound DEF Kept

LEMMA KeptFields ==
  ASSUME NEW d, NEW e, Kept(d, e)
  PROVE  /\ e.rdwrt = d.rdwrt /\ e.bytes = d.bytes /\ e.curbuf = d.curbuf
         /\ e.state = d.state /\ e.w_state = d.w_state /\ e.w_xfer = d.w_xfer
         /\ e.xfers = d.xfers /\ e.w_buf_curr = d.w_buf_curr
         /\ e.w_buf_next = d.w_buf_next /\ e.soclock_buf = d.soclock_buf
         /\ e.sod_pending = d.sod_pending /\ e.sod_buf = d.sod_buf
         /\ e.sod_byte = d.sod_byte /\ e.marked_filled = d.marked_filled
<1> USE DEF Kept, RingFields
<1>1. /\ e["rdwrt"] = d["rdwrt"] /\ e["bytes"] = d["bytes"]
      /\ e["curbuf"] = d["curbuf"] /\ e["state"] = d["state"]
      /\ e["w_state"] = d["w_state"] /\ e["w_xfer"] = d["w_xfer"]
  OBVIOUS
<1>2. /\ e["xfers"] = d["xfers"] /\ e["w_buf_curr"] = d["w_buf_curr"]
      /\ e["w_buf_next"] = d["w_buf_next"] /\ e["soclock_buf"] = d["soclock_buf"]
  OBVIOUS
<1>3. /\ e["sod_pending"] = d["sod_pending"] /\ e["sod_buf"] = d["sod_buf"]
      /\ e["sod_byte"] = d["sod_byte"]
  OBVIOUS
<1> QED
  BY <1>1, <1>2, <1>3

LEMMA KeptSound ==
  ASSUME NEW d, NEW e, Kept(d, e)
  PROVE  /\ Sound(e) /\ e.rdwrt = d.rdwrt
         /\ Position(d) => Position(e)
         /\ BetweenWrites(d) => BetweenWrites(e)
         /\ StopsWell(d) => StopsWell(e)
         /\ Over(e) => Over(d)
         /\ Shut(d) => Shut(e)
         /\ Opened(d) => Opened(e)
         /\ Fresh(d) => Fresh(e)
         /\ \A c : GoesOn(c, d) => GoesOn(c, e)
<1>1. /\ e.rdwrt = d.rdwrt /\ e.bytes = d.bytes /\ e.curbuf = d.curbuf
      /\ e.state = d.state /\ e.w_state = d.w_state /\ e.w_xfer = d.w_xfer
      /\ e.xfers = d.xfers /\ e.w_buf_curr = d.w_buf_curr
      /\ e.w_buf_next = d.w_buf_next /\ e.soclock_buf = d.soclock_buf
      /\ e.sod_pending = d.sod_pending /\ e.sod_buf = d.sod_buf
      /\ e.sod_byte = d.sod_byte /\ e.marked_filled = d.marked_filled
  BY KeptFields
<1>2. Sound(e)
  BY DEF Kept
<1>3. (Position(d) => Position(e)) /\ (Over(e) => Over(d))
      /\ (BetweenWrites(d) => BetweenWrites(e)) /\ (StopsWell(d) => StopsWell(e))
  BY <1>1 DEF Position, Over, HeldBlocks, BetweenWrites, StopsWell
<1>4. (Shut(d) => Shut(e)) /\ (Opened(d) => Opened(e)) /\ (Fresh(d) => Fresh(e))
  BY <1>1 DEF Shut, Opened, Fresh, AtOrigin
<1>5. ASSUME NEW c, GoesOn(c, d) PROVE GoesOn(c, e)
  BY <1>1, <1>2, <1>3, <1>5 DEF GoesOn
<1> QED
  BY <1>1, <1>2, <1>3, <1>4, <1>5

(* No step takes a field away. *)
LEMMA MainFields ==
  ASSUME TypeInv, Fields, MainNext
  PROVE  Fields'
<1> DEFINE Local(n) == {"header", "header_valid", "utc_start_set"} \subseteq DOMAIN n
           Shared(p) == "quit" \in DOMAIN p
<1>i. Local(m) /\ Shared(pwc)
  BY DEF Fields
<1>q. ASSUME Local(m'), Shared(pwc') PROVE Fields'
  BY <1>q DEF Fields
<1>b. ASSUME NEW n, Local(n) PROVE Local(Body(n))
  BY <1>b DEF Body
<1>s. ASSUME NEW p, Shared(p), NEW new, NEW utc, SetState(p, new, utc)
      PROVE  Shared(pwc')
  BY <1>s DEF SetState, dada_pwc_set_state
<1>g. Shared(CommandGot(pwc))
  BY <1>i DEF CommandGot
<1>e. ASSUME NEW rval, NEW pc, Error(pwc, rval, pc) PROVE Fields'
  BY <1>e, <1>i, <1>q, <1>s DEF Error
<1>p. ASSUME pwc' = pwc, NEW n, Local(n), NEW pc, m' = [n EXCEPT !.pc = pc]
      PROVE  Fields'
  BY <1>p, <1>i, <1>q
<1>1. CASE Exit \/ HandleQuit \/ PollQuit \/ NotReached \/ GetWait
  BY <1>1, <1>i, <1>q DEF Exit, HandleQuit, PollQuit, NotReached, GetWait
<1>2. CASE HandleUnexpected \/ StartFails \/ FetchFails \/ CheckUnexpected
  BY <1>2, <1>e DEF HandleUnexpected, StartFails, FetchFails, CheckUnexpected
<1>3. CASE StopTransfer
  <2>1. Shared(pwc')
    BY <1>3, <1>i, <1>s DEF StopTransfer
  <2> QED
    BY <1>3, <1>i, <1>q, <2>1 DEF StopTransfer
<1>4. CASE StopFails
  <2>1. Shared(pwc')
    BY <1>4, <1>i, <1>s DEF StopFails
  <2> QED
    BY <1>4, <1>i, <1>q, <2>1 DEF StopFails
<1>5. CASE CheckFatal \/ FetchNothing \/ CheckStop
  BY <1>5, <1>i, <1>q DEF CheckFatal, FetchNothing, CheckStop
<1>6. CASE Prepare
  <2>1. Shared(pwc')
    BY <1>6, <1>i, <1>s DEF Prepare
  <2> QED
    BY <1>6, <1>i, <1>q, <2>1 DEF Prepare
<1>7. CASE Get
  BY <1>7, <1>g, <1>i, <1>q DEF Get
<1>8. CASE HandleIdle \/ HandleHeader
  <2>1. Shared(pwc')
    BY <1>8, <1>i, <1>s DEF HandleIdle, HandleHeader
  <2> QED
    BY <1>8, <1>i, <1>q, <2>1 DEF HandleIdle, HandleHeader
<1>9. CASE HandleStart
  <2>1. (\E rval, pc : Error(pwc, rval, pc)) \/ (m' = [m EXCEPT !.pc = "start"] /\ pwc' = pwc)
    BY <1>9 DEF HandleStart
  <2> QED
    BY <1>e, <1>p, <1>i, <2>1
<1>10. CASE Start
  <2>1. PICK p, new, utc : Shared(p) /\ SetState(p, new, utc)
    BY <1>10, <1>i DEF Start
  <2>2. Shared(pwc')
    BY <1>s, <2>1
  <2>3. Local(m')
    BY <1>10, <1>i DEF Start
  <2> QED
    BY <1>q, <2>2, <2>3
<1>11. CASE PollNone
  BY <1>11, <1>b, <1>i, <1>q DEF PollNone
<1>12. CASE PollUtc
  <2>1. PICK n : Local(n) /\ m' = Body(n)
    BY <1>12, <1>i DEF PollUtc
  <2>2. pwc' = CommandGot(pwc)
    BY <1>12 DEF PollUtc
  <2> QED
    BY <1>b, <1>g, <1>q, <2>1, <2>2
<1>13. CASE PollDated
  <2>1. PICK n : Local(n) /\ m' = Body(n)
    BY <1>13, <1>i DEF PollDated
  <2>2. pwc' = CommandGot(pwc)
    BY <1>13 DEF PollDated
  <2> QED
    BY <1>b, <1>g, <1>q, <2>1, <2>2
<1>14. CASE PollUnexpected
  <2>1. Shared(pwc')
    BY <1>14, <1>g, <1>s DEF PollUnexpected
  <2> QED
    BY <1>14, <1>i, <1>q, <2>1 DEF PollUnexpected
<1>15. ASSUME NEW size, Fetch(size) PROVE Fields'
  <2>1. Shared(pwc')
    BY <1>15, <1>i, <1>s DEF Fetch
  <2>2. Local(m')
    BY <1>15, <1>i DEF Fetch
  <2> QED
    BY <1>q, <2>1, <2>2
<1>16. CASE Write
  <2>1. PICK d, rest : WriteStep(d, rest)
    BY <1>16 DEF Write
  <2>2. (\E rval, pc : Error(pwc, rval, pc)) \/ (m' = m /\ pwc' = pwc)
    BY <2>1 DEF WriteStep
  <2> QED
    BY <1>e, <1>i, <1>q, <2>2
<1>17. CASE Written
  <2>1. (\E rval, pc : Error(pwc, rval, pc)) \/ (Local(m') /\ pwc' = pwc)
    BY <1>17, <1>i DEF Written
  <2> QED
    BY <1>e, <1>i, <1>q, <2>1
<1>18. ASSUME NEW n, Local(n), NEW new, Rest(n, pwc, new) PROVE Fields'
  <2>1. Local(m') /\ SetState(pwc, new, 0)
    BY <1>18 DEF Rest
  <2> QED
    BY <1>i, <1>q, <1>s, <2>1
<1>19. CASE RecStop
  <2>1. (\E rval, pc : Error(pwc, rval, pc)) \/ Rest(m, pwc, "clocking")
    BY <1>19 DEF RecStop
  <2> QED
    BY <1>e, <1>i, <1>18, <2>1
<1>20. CASE RecStart
  <2>1. \/ \E rval : SetState(pwc, rval, 0) /\ Local(m')
        \/ \E n : Local(n) /\ Rest(n, pwc, "recording")
    BY <1>20, <1>i DEF RecStart
  <2> QED
    BY <1>i, <1>q, <1>s, <1>18, <2>1
<1>21. CASE Room
  <2>1. (\E rval, pc : Error(pwc, rval, pc)) \/ (m' = [m EXCEPT !.pc = "rest"] /\ pwc' = pwc)
    BY <1>21 DEF Room
  <2> QED
    BY <1>e, <1>p, <1>i, <2>1
<1> QED
  BY <1>1, <1>2, <1>3, <1>4, <1>5, <1>6, <1>7, <1>8, <1>9, <1>10, <1>11, <1>12,
     <1>13, <1>14, <1>15, <1>16, <1>17, <1>19, <1>20, <1>21 DEF MainNext

LEMMA ClientFields ==
  ASSUME Fields, NEW c \in Clients, Send(c) \/ Command(c)
  PROVE  Fields'
<1>1. m' = m
  BY DEF Send, Command, Others
<1>2. ASSUME NEW cmd, NEW p, "quit" \in DOMAIN p, Begin(c, cmd, p)
      PROVE  "quit" \in DOMAIN pwc'
  BY <1>2 DEF Begin
<1>3. CASE Send(c)
  <2>1. PICK cmd, p : "quit" \in DOMAIN p /\ Begin(c, cmd, p)
    BY <1>3
    DEF Send, Sends, cmd_header, cmd_duration, cmd_plain, cmd_dated, cmd_start,
        cmd_set_utc_start, cmd_quit, Fields
  <2> QED
    BY <1>1, <1>2, <2>1 DEF Fields
<1>4. CASE Command(c)
  BY <1>1, <1>4
  DEF Command, CommandWait, CommandRefused, DurationSet, dada_pwc_command_set, Fields
<1> QED
  BY <1>3, <1>4

LEMMA ReaderFields ==
  ASSUME Fields, ReaderNext
  PROVE  Fields'
  BY DEF ReaderNext, ReadHeader, ReadBlock, ReadEnds, MainUnchanged, pwcvars, Fields

(* A failure of the instrument is not forgotten. *)
LEMMA FailedStays ==
  ASSUME failed, Next
  PROVE  failed'
<1>1. CASE ClientNext \/ ReaderNext
  BY <1>1
  DEF ClientNext, Send, Command, Others, ReaderNext, ReadHeader, ReadBlock, ReadEnds,
      MainUnchanged, ghost
<1>2. CASE MainNext
  BY <1>2
  DEF MainNext, Exit, Prepare, GetWait, Get, HandleIdle, HandleHeader,
     HandleStart, HandleUnexpected, HandleQuit, Handling, Start, StartFails,
     PollQuit, PollNone, PollUtc, PollDated, PollUnexpected, Polled, Polling,
     Fetch, FetchFails, FetchNothing, Write, WriteStep, Written, NotReached,
     RecStop, RecStart, CheckStop, CheckUnexpected, Checking, Room, StopTransfer,
     StopFails, CheckFatal, ghost
<1> QED
  BY <1>1, <1>2 DEF Next

(* No step leads from an error over UTC_START to another state. *)
LEMMA DeadMain ==
  ASSUME TypeInv, Fields, Dead, MainNext
  PROVE  failed' \/ Dead'
<1>i. /\ {"pc", "utc_start_set"} \subseteq DOMAIN m
      /\ {"state", "quit"} \subseteq DOMAIN pwc
  BY DEF TypeInv, TransferType, ControlType, PwcType, Fields
<1>1. CASE StopTransfer
  <2>1. pwc' = pwc /\ m' = [m EXCEPT !.pc = "fatal", !.header_valid = FALSE]
    BY <1>1 DEF StopTransfer, Dead, Errors
  <2> QED
    BY <1>i, <2>1 DEF Dead
<1>2. CASE StopFails
  BY <1>2 DEF StopFails
<1>3. CASE CheckFatal
  BY <1>3, <1>i DEF CheckFatal, Dead
<1>4. CASE Exit
  BY <1>4, <1>i DEF Exit, Dead
<1>5. CASE Prepare
  BY <1>5 DEF Prepare, Dead
<1>6. m.pc \in {"stop", "fatal", "prepare", "exit"}
  BY DEF Dead
<1>7. CASE GetWait \/ Get \/ HandleIdle \/ HandleHeader \/ HandleStart
           \/ HandleUnexpected \/ HandleQuit \/ Start \/ StartFails \/ PollQuit
           \/ PollNone \/ PollUtc \/ PollDated \/ PollUnexpected
           \/ FetchFails \/ FetchNothing \/ Write \/ Written \/ NotReached
           \/ RecStop \/ RecStart \/ CheckStop \/ CheckUnexpected \/ Room
           \/ \E size \in BufSizes : Fetch(size)
  BY <1>6, <1>7
  DEF GetWait, Get, HandleIdle, HandleHeader, HandleStart, HandleUnexpected,
      HandleQuit, Handling, Start, StartFails, PollQuit, PollNone, PollUtc,
      PollDated, PollUnexpected, Polled, Polling, FetchFails, FetchNothing, Write,
      Written, NotReached, RecStop, RecStart, CheckStop, CheckUnexpected, Checking,
      Room, Fetch
<1> QED
  BY <1>1, <1>2, <1>3, <1>4, <1>5, <1>7 DEF MainNext

LEMMA GoneMain ==
  ASSUME Gone, MainNext
  PROVE  FALSE
  BY DEF Gone, MainNext, Exit, Prepare, GetWait, Get, HandleIdle, HandleHeader,
     HandleStart, HandleUnexpected, HandleQuit, Handling, Start, StartFails,
     PollQuit, PollNone, PollUtc, PollDated, PollUnexpected, Polled, Polling,
     Fetch, FetchFails, FetchNothing, Write, Written, NotReached,
     RecStop, RecStart, CheckStop, CheckUnexpected, Checking, Room, StopTransfer,
     StopFails, CheckFatal

LEMMA CommandKeeps ==
  ASSUME TypeInv, Fields, NEW c, Command(c)
  PROVE  pwc'.state = pwc.state /\ pwc'.quit = pwc.quit
<1>1. {"state", "quit"} \subseteq DOMAIN pwc
  BY DEF TypeInv, ControlType, PwcType, Fields
<1>2. pwc' = pwc \/ \E cmd : pwc' = [pwc EXCEPT !.command = cmd]
  BY DEF Command, CommandWait, CommandRefused, DurationSet, dada_pwc_command_set
<1> QED
  BY <1>1, <1>2

(* A client that keeps the rules sends nothing then. *)
LEMMA EndedOthers ==
  ASSUME Careful, TypeInv, Fields, Dead \/ Gone,
         ReaderNext \/ \E c \in Clients : Send(c) \/ Command(c)
  PROVE  Dead' \/ Gone'
<1>1. CASE ReaderNext
  <2>1. m' = m /\ pwc' = pwc
    BY <1>1 DEF ReaderNext, ReadHeader, ReadBlock, ReadEnds, MainUnchanged, pwcvars
  <2> QED
    BY <2>1 DEF Dead, Gone
<1>2. ASSUME NEW c \in Clients, Send(c) PROVE FALSE
  <2>1. m.pc \in {"get"} \cup Transferring
    BY <1>2 DEF Send, MaySend, Keeps, Careful
  <2> QED
    BY <2>1 DEF Transferring, Dead, Gone
<1>3. ASSUME NEW c \in Clients, Command(c) PROVE Dead' \/ Gone'
  <2>1. m' = m
    BY <1>3 DEF Command, Others
  <2>2. pwc'.state = pwc.state /\ pwc'.quit = pwc.quit
    BY <1>3, CommandKeeps
  <2> QED
    BY <2>1, <2>2 DEF Dead, Gone
<1> QED
  BY <1>1, <1>2, <1>3

-----------------------------------------------------------------------------
(* A step that leaves the transfer thread where it is. *)
LEMMA AliveStays ==
  ASSUME Alive, m' = m, todo' = todo,
         pwc'.state = pwc.state,
         (pwc'.quit = pwc.quit) \/ (Waiting /\ m.pc = "get"),
         Memory(hb'), hb'.mem = hb.mem, Kept(io, io'), Posts'
  PROVE  Alive'
<1>1. /\ Sound(io') /\ io'.rdwrt = io.rdwrt
      /\ Position(io) => Position(io')
      /\ BetweenWrites(io) => BetweenWrites(io')
      /\ StopsWell(io) => StopsWell(io')
      /\ Over(io') => Over(io)
      /\ Shut(io) => Shut(io')
      /\ Opened(io) => Opened(io')
      /\ Fresh(io) => Fresh(io')
  BY KeptSound
<1>2. /\ Sound(io)' = Sound(io') /\ Position(io)' = Position(io')
      /\ BetweenWrites(io)' = BetweenWrites(io') /\ StopsWell(io)' = StopsWell(io')
      /\ Over(io)' = Over(io') /\ Shut(io)' = Shut(io') /\ Opened(io)' = Opened(io')
      /\ Fresh(io)' = Fresh(io') /\ ModeOf(io)' = ModeOf(io') /\ Memory(hb)' = Memory(hb')
  BY DEF Sound, RingType, Counters, Position, HeldBlocks, BetweenWrites, StopsWell, Over,
     Shut, Opened, AtOrigin, Fresh, ModeOf, Memory
<1>3. ModeOf(io') = ModeOf(io)
  BY <1>1 DEF ModeOf
<1>4. ASSUME NEW b, Given(hb, b) PROVE Given(hb, b)'
  BY <1>4 DEF Given
<1>5. ASSUME NEW cmd, Dated(cmd) PROVE Dated(cmd)'
  BY <1>1, <1>2, <1>5 DEF Dated
<1>6. ASSUME NEW cmd, Prepares(cmd) PROVE Prepares(cmd)'
  BY <1>6 DEF Prepares
<1>7. CASE Resting
  <2>1. Resting'
    BY <1>1, <1>2, <1>7 DEF Resting, Waiting
  <2> QED
    BY <1>1, <1>2, <2>1 DEF Alive
<1>8. CASE Waiting
  <2>1. Given(hb, m.header) => Given(hb, m.header)'
    BY <1>4
  <2>2. Prepares(m.command) => Prepares(m.command)'
    BY <1>6
  <2>3. Waiting'
    BY <1>1, <1>2, <1>8, <2>1, <2>2 DEF Waiting
  <2> QED
    BY <1>1, <1>2, <2>3 DEF Alive
<1>9. CASE Starting
  <2>1. Given(hb, m.header)'
    BY <1>4, <1>9 DEF Starting
  <2>2. Starting'
    BY <1>1, <1>2, <1>9, <2>1 DEF Starting, Waiting
  <2> QED
    BY <1>1, <1>2, <2>2 DEF Alive
<1>10. CASE InFlight
  <2>1. Given(hb, m.header)'
    BY <1>4, <1>10 DEF InFlight
  <2>2. m.transit # 0 => Dated(m.command)'
    BY <1>5, <1>10 DEF InFlight
  <2>3. "get" \notin InTransfer
    BY DEF InTransfer, Transferring
  <2>4. InFlight'
    BY <1>1, <1>2, <1>10, <2>1, <2>2, <2>3 DEF InFlight, Waiting
  <2> QED
    BY <1>1, <1>2, <2>4 DEF Alive
<1>11. CASE Stopping
  <2>1. Stopping'
    BY <1>1, <1>2, <1>3, <1>11 DEF Stopping, Waiting
  <2> QED
    BY <1>1, <1>2, <2>1 DEF Alive
<1> QED
  BY <1>7, <1>8, <1>9, <1>10, <1>11 DEF Alive

LEMMA SoundKept ==
  ASSUME NEW d, Sound(d)
  PROVE  Kept(d, d)
  BY DEF Kept

(* The read client. *)
LEMMA AliveReader ==
  ASSUME Alive, ReaderNext
  PROVE  Alive'
<1>1. UNCHANGED <<pwc, call, todo, m>>
  BY DEF ReaderNext, ReadHeader, ReadBlock, ReadEnds, MainUnchanged, pwcvars
<1>2. Sound(io) /\ Memory(hb)
  BY DEF Alive
<1>3. Memory(hb') /\ hb'.mem = hb.mem
  <2>1. hb' = hb \/ hb' = HB!Cleared(HB!Taken(hb))
    BY DEF ReaderNext, ReadHeader, ReadBlock, ReadEnds
  <2> QED
    BY <1>2, <2>1, MemoryCleared
<1>4. Kept(io, io')
  <2>1. io' = io \/ (io.FULL > 0 /\ io' = Cleared(Taken(io)))
    BY DEF ReaderNext, ReadHeader, ReadBlock, ReadEnds, ReadReady
  <2> QED
    BY <1>2, <2>1, SoundKept, TokenKept
<1>5. Posts'
  <2>1. StopsWell(io) => StopsWell(io)'
    BY <1>4, KeptFields DEF StopsWell
  <2>2. ASSUME NEW cmd, Posted(cmd) PROVE Posted(cmd)'
    BY <1>1, <2>1, <2>2 DEF Posted, Prepares, Dated
  <2> QED
    BY <1>1, <2>2 DEF Alive, Posts
<1> QED
  BY <1>1, <1>3, <1>4, <1>5, AliveStays

(* The commands of the client: what it has sent is accepted, ... *)
LEMMA AliveCommand ==
  ASSUME Careful, TypeInv, Fields, Alive, NEW c \in Clients, Command(c)
  PROVE  Alive'
<1>1. m' = m /\ todo' = todo /\ io' = io /\ hb' = hb
  BY DEF Command, Others, datavars
<1>2. Kept(io, io') /\ Memory(hb') /\ hb'.mem = hb.mem
  BY <1>1, SoundKept DEF Alive
<1>3. pwc'.state = pwc.state /\ pwc'.quit = pwc.quit
  BY CommandKeeps
<1>4. ASSUME NEW cmd, Posted(cmd) PROVE Posted(cmd)' /\ cmd.code \notin {"none", "duration"}
  BY <1>1, <1>3, <1>4 DEF Posted, Prepares, Dated, StopsWell
<1>5. Posts /\ call \in [Clients -> CommandType]
  BY DEF Alive, TypeInv, ControlType
<1>6. Posts'
  <2>1. CASE CommandWait(c)
    BY <1>4, <1>5, <2>1 DEF CommandWait, Posts
  <2>2. CASE CommandRefused(c)
    BY <1>4, <1>5, <2>2 DEF CommandRefused, Returns, Posts
  <2>3. CASE DurationSet(c)
    BY <1>4, <1>5, <2>3 DEF DurationSet, InCall, Posts
  <2>4. CASE dada_pwc_command_set(c)
    <3>1. Posted(call[c])
      BY <1>5, <2>4 DEF dada_pwc_command_set, InCall, Posts
    <3>2. pwc'.command = call[c]
      BY <2>4 DEF dada_pwc_command_set, TypeInv, ControlType, PwcType
    <3>3. Posted(pwc.command)' /\ pwc'.command.code # "none"
      <4>1. PICK cmd : cmd = call[c]
        OBVIOUS
      <4>2. Posted(cmd)
        BY <3>1, <4>1
      <4>3. Posted(cmd)' /\ cmd.code # "none"
        BY <1>4, <4>2
      <4> QED
        BY <3>2, <4>1, <4>3 DEF Posted, Prepares, Dated
    <3>4. \A d \in Clients : call'[d] = NoCommand
      BY <1>5, <2>4 DEF dada_pwc_command_set, Returns, Careful, OneClient
    <3> QED
      BY <3>2, <3>3, <3>4 DEF Posts
  <2> QED
    BY <2>1, <2>2, <2>3, <2>4 DEF Command
<1> QED
  BY <1>1, <1>2, <1>3, <1>6, AliveStays

(* Where the transfer thread is when a client may send: the state the client  *)
(* sees says which of the two.                                              *)
LEMMA SendsWhere ==
  ASSUME Alive, MatchInv, m.pc \in {"get"} \cup Transferring
  PROVE  \/ Waiting /\ m.pc = "get" /\ pwc.state \in {"idle", "prepared"}
         \/ /\ InFlight /\ m.pc \in Transferring
            /\ pwc.state = ModeOf(io) /\ pwc.state \in {"clocking", "recording"}
<1>1. "get" \notin InTransfer
  BY DEF InTransfer, Transferring
<1>2. CASE m.pc = "get"
  BY <1>1, <1>2 DEF Alive, Resting, Waiting, Starting, InFlight, Stopping
<1>3. CASE m.pc \in Transferring
  <2>1. InFlight
    BY <1>3 DEF Alive, Resting, Waiting, Starting, Stopping, Transferring
  <2> QED
    BY <1>3, <2>1 DEF MatchInv, ModeOf
<1> QED
  BY <1>2, <1>3

(* ... and what a client that keeps the rules sends. *)
LEMMA AliveSend ==
  ASSUME Careful, TypeInv, MatchInv, Fields, Alive, NEW c \in Clients, Send(c)
  PROVE  Alive'
<1>1. m' = m /\ todo' = todo /\ io' = io /\ hb' = hb
  BY DEF Send, Others, datavars
<1>2. Kept(io, io') /\ Memory(hb') /\ hb'.mem = hb.mem
  BY <1>1, SoundKept DEF Alive
<1>3. /\ call \in [Clients -> CommandType] /\ Utcs \subseteq Nat
      /\ {"state", "command", "utc_start", "bytes_per_second", "quit"}
           \subseteq DOMAIN pwc
      /\ Posts /\ pwc.state \notin Errors
  BY PwcSizes DEF Alive, TypeInv, ControlType, PwcType, Fields
<1>4. PICK cmd : cmd = call'[c]
  OBVIOUS
<1>5. /\ m.pc \in {"get"} \cup Transferring
      /\ m.transit = 0 \/ m.pc = "get"
      /\ pwc.command.code = "none" /\ pwc.command.byte_count = 0
      /\ cmd # NoCommand /\ Accepted(cmd.code, pwc.state)
      /\ cmd.code = "stop" => pwc.state \in {"clocking", "recording"}
      /\ cmd.code \in {"rec_start"} \cup Stops => m.utc_start_set
      /\ cmd.code = "rec_start" => ~m.header_valid
      /\ cmd.code \in Stops =>
           IF pwc.state = "recording" THEN io.state = "WRITING" ELSE io.w_xfer > 0
      /\ cmd.code # "duration"
  <2>1. Keeps("any") /\ Keeps("toggle") /\ Keeps("short") /\ Keeps("timed")
    BY DEF Careful, Keeps
  <2>2. MaySend(cmd)
    BY <1>4 DEF Send
  <2> QED
    BY <1>3, <2>1, <2>2 DEF MaySend, Posts
<1>6. \/ Waiting /\ m.pc = "get" /\ pwc.state \in {"idle", "prepared"}
      \/ /\ InFlight /\ m.pc \in Transferring
         /\ pwc.state = ModeOf(io) /\ pwc.state \in {"clocking", "recording"}
  BY <1>5, SendsWhere
<1> DEFINE Goal == /\ pwc'.state = pwc.state /\ pwc'.command = pwc.command
                   /\ \A d \in Clients : call'[d] # NoCommand => call'[d] = cmd
                   /\ (pwc'.quit = pwc.quit) \/ (Waiting /\ m.pc = "get")
                   /\ Posted(cmd)'
<1>7. ASSUME NEW x, NEW p, Begin(c, x, p), {"state", "command", "quit"} \subseteq DOMAIN p,
             p.state = pwc.state, p.command = pwc.command
      PROVE  /\ cmd = x /\ pwc' = p
             /\ pwc'.state = pwc.state /\ pwc'.command = pwc.command
             /\ \A d \in Clients : call'[d] # NoCommand => call'[d] = cmd
  BY <1>3, <1>4, <1>7 DEF Begin, Careful, OneClient
<1>8. StopsWell(io) <=> IF io.rdwrt = "W" THEN io.state = "WRITING" ELSE io.w_xfer > 0
  BY DEF StopsWell
<1>9. ASSUME NEW h \in Headers, cmd_header(c, h) PROVE Goal
  <2>1. PICK x, p : /\ x = [NoCommand EXCEPT !.code = "header"]
                    /\ p = [pwc EXCEPT !.bytes_per_second = Bps, !.header = h]
    OBVIOUS
  <2>2. /\ {"state", "command", "quit"} \subseteq DOMAIN p
        /\ p.state = pwc.state /\ p.command = pwc.command /\ p.quit = pwc.quit
    BY <1>3, <2>1
  <2>3. Begin(c, x, p)
    BY <1>9, <2>1 DEF cmd_header
  <2>c. x.code = "header"
    BY <2>1 DEF NoCommand
  <2>4. cmd.code = "header"
    BY <1>7, <2>2, <2>3, <2>c
  <2>5. pwc.state = "idle"
    BY <1>5, <2>4 DEF Accepted
  <2>6. m.pc = "get" /\ pwc'.state = "idle"
    BY <1>6, <1>7, <2>2, <2>3, <2>5
  <2>7. Posted(cmd)'
    BY <1>1, <2>4, <2>6 DEF Posted, Prepares
  <2> QED
    BY <1>7, <2>2, <2>3, <2>7
<1>10. ASSUME NEW code \in {"clock", "reset"}, cmd_plain(c, code) PROVE Goal
  <2>1. PICK x : x = [NoCommand EXCEPT !.code = code]
    OBVIOUS
  <2>2. Begin(c, x, pwc)
    BY <1>10, <2>1 DEF cmd_plain
  <2>c. x.code = code /\ x.byte_count = 0
    BY <2>1 DEF NoCommand
  <2>3. cmd.code = code /\ cmd.byte_count = 0
    BY <1>3, <1>7, <2>2, <2>c
  <2>4. code = "clock" /\ pwc.state = "prepared"
    BY <1>3, <1>5, <2>3 DEF Accepted, Errors
  <2>5. m.pc = "get" /\ pwc'.state = "prepared"
    BY <1>3, <1>6, <1>7, <2>2, <2>4
  <2>6. Posted(cmd)'
    BY <1>1, <2>3, <2>4, <2>5 DEF Posted, Prepares
  <2> QED
    BY <1>3, <1>7, <2>2, <2>6
<1>11. ASSUME NEW code \in {"rec_start", "rec_stop", "stop"}, NEW u \in Utcs,
              cmd_dated(c, code, u)
       PROVE  Goal
  <2>1. PICK x : x = dada_pwc_command_set_byte_count(pwc, code, u)
    OBVIOUS
  <2>2. Begin(c, x, pwc)
    BY <1>11, <2>1 DEF cmd_dated
  <2>3. x.code = code
    BY <2>1 DEF dada_pwc_command_set_byte_count, NoCommand
  <2>4. cmd.code = code /\ pwc' = pwc
    BY <1>3, <1>7, <2>2, <2>3
  <2>5. pwc.state \in {"clocking", "recording"}
    BY <1>5, <2>4 DEF Accepted
  <2>6. InFlight /\ m.pc \in Transferring /\ pwc.state = ModeOf(io)
    BY <1>6, <2>5
  <2>7. m.transit = 0 /\ m.utc_start_set
    BY <1>5, <2>4, <2>6 DEF Transferring, Stops
  <2>8. code \in Stops => StopsWell(io)
    <3>1. io.rdwrt = "W" <=> pwc.state = "recording"
      BY <2>6 DEF ModeOf
    <3> QED
      BY <1>5, <1>8, <2>4, <3>1
  <2>9. Dated(cmd)
    BY <1>5, <2>4, <2>5, <2>7, <2>8 DEF Dated, Accepted, Stops
  <2>10. Dated(cmd)'
    BY <1>1, <2>4, <2>9 DEF Dated, StopsWell
  <2>11. Posted(cmd)'
    BY <1>1, <2>6, <2>7, <2>10 DEF Posted
  <2> QED
    BY <1>3, <1>7, <2>2, <2>4, <2>11
<1>12. ASSUME NEW u \in Utcs, cmd_start(c, u) PROVE Goal
  <2>1. PICK x : x = [code |-> "start", utc |-> u, byte_count |-> pwc.command.byte_count]
    OBVIOUS
  <2>2. Begin(c, x, pwc)
    BY <1>12, <2>1 DEF cmd_start
  <2>3. cmd.code = "start" /\ cmd.byte_count = 0
    BY <1>3, <1>5, <1>7, <2>1, <2>2
  <2>4. pwc.state = "prepared"
    BY <1>5, <2>3 DEF Accepted
  <2>5. m.pc = "get" /\ pwc'.state = "prepared"
    BY <1>3, <1>6, <1>7, <2>2, <2>4
  <2>6. Posted(cmd)'
    BY <1>1, <2>3, <2>4, <2>5 DEF Posted, Prepares
  <2> QED
    BY <1>3, <1>7, <2>2, <2>6
<1>13. ASSUME NEW u \in Utcs, cmd_set_utc_start(c, u) PROVE Goal
  <2>1. PICK p : p = [pwc EXCEPT !.utc_start = u]
    OBVIOUS
  <2>2. /\ {"state", "command", "quit"} \subseteq DOMAIN p
        /\ p.state = pwc.state /\ p.command = pwc.command /\ p.quit = pwc.quit
        /\ p.utc_start = u
    BY <1>3, <2>1
  <2>3. PICK x : x = IF CanConvert(p, u)
                       THEN dada_pwc_command_set_byte_count(p, "set_utc_start", u)
                       ELSE NoCommand
    OBVIOUS
  <2>4. Begin(c, x, p) /\ u # 0
    BY <1>13, <2>1, <2>3 DEF cmd_set_utc_start
  <2>5. cmd = x
    BY <1>7, <2>2, <2>4
  <2>6. cmd = dada_pwc_command_set_byte_count(p, "set_utc_start", u)
    BY <1>5, <2>3, <2>5
  <2>7. ~(u = 0 \/ u < p.utc_start)
    BY <1>3, <2>2, <2>4
  <2>8. cmd.code = "set_utc_start" /\ cmd.utc = u
    BY <2>6, <2>7 DEF dada_pwc_command_set_byte_count
  <2>9. pwc.state \in {"clocking", "recording"}
    BY <1>5, <2>8 DEF Accepted
  <2>10. m.pc \in Transferring /\ m.transit = 0
    BY <1>5, <1>6, <2>9 DEF Transferring
  <2>11. Posted(cmd)'
    BY <1>1, <2>4, <2>8, <2>10 DEF Posted
  <2> QED
    BY <1>7, <2>2, <2>4, <2>11
<1>14. ASSUME cmd_quit(c) PROVE Goal
  <2>1. PICK x, p : /\ x = [NoCommand EXCEPT !.code = "exit"]
                    /\ p = [pwc EXCEPT !.quit = TRUE]
    OBVIOUS
  <2>2. /\ {"state", "command", "quit"} \subseteq DOMAIN p
        /\ p.state = pwc.state /\ p.command = pwc.command /\ p.quit = TRUE
    BY <1>3, <2>1
  <2>3. Begin(c, x, p)
    BY <1>14, <2>1 DEF cmd_quit
  <2>c. x.code = "exit"
    BY <2>1 DEF NoCommand
  <2>4. cmd.code = "exit"
    BY <1>7, <2>2, <2>3, <2>c
  <2>5. pwc.state = "idle"
    BY <1>5, <2>4 DEF Accepted
  <2>6. Waiting /\ m.pc = "get" /\ pwc'.quit = TRUE
    BY <1>6, <1>7, <2>2, <2>3, <2>5
  <2>7. Posted(cmd)'
    BY <1>1, <2>4, <2>6 DEF Posted
  <2> QED
    BY <1>7, <2>2, <2>3, <2>6, <2>7
<1>15. Goal
  <2>1. Sends(c)
    BY DEF Send
  <2>2. ASSUME NEW n \in Durations, cmd_duration(c, n) PROVE FALSE
    <3>1. PICK x : x = [NoCommand EXCEPT !.code = "duration", !.byte_count = n]
      OBVIOUS
    <3>2. x.code = "duration"
      BY <3>1 DEF NoCommand
    <3>3. cmd = x
      BY <1>3, <1>7, <2>2, <3>1 DEF cmd_duration
    <3> QED
      BY <1>5, <3>2, <3>3
  <2> HIDE DEF Goal
  <2> QED
    BY <2>1, <2>2, <1>9, <1>10, <1>11, <1>12, <1>13, <1>14 DEF Sends
<1>16. Posts'
  BY <1>5, <1>15 DEF Posts, Posted, Prepares, Dated
<1> QED
  BY <1>1, <1>2, <1>15, <1>16, AliveStays

LEMMA AliveWhere ==
  ASSUME Alive
  PROVE  /\ m.pc \in {"prepare", "fatal"} => Resting
         /\ m.pc \in {"get", "handle"} => Waiting
         /\ m.pc = "start" => Starting
         /\ m.pc \in InTransfer => InFlight
         /\ m.pc = "stop" => Stopping
         /\ m.pc \notin {"last", "exit"}
  BY DEF Alive, Resting, Waiting, Starting, InFlight, Stopping, InTransfer, Transferring

LEMMA Primed ==
  /\ Sound(io)' = Sound(io') /\ Position(io)' = Position(io')
  /\ BetweenWrites(io)' = BetweenWrites(io') /\ StopsWell(io)' = StopsWell(io')
  /\ Over(io)' = Over(io') /\ Shut(io)' = Shut(io') /\ Opened(io)' = Opened(io')
  /\ Fresh(io)' = Fresh(io') /\ ModeOf(io)' = ModeOf(io') /\ Memory(hb)' = Memory(hb')
  BY DEF Sound, RingType, Counters, Position, HeldBlocks, BetweenWrites, StopsWell, Over,
     Shut, Opened, AtOrigin, Fresh, ModeOf, Memory

LEMMA QuietStays ==
  ASSUME Quiet, pwc'.command = pwc.command, call' = call
  PROVE  Posts'
  BY QuietPostsNext DEF Quiet

LEMMA QuietGot ==
  ASSUME Posts, pwc.command.code # "none", TypeInv, Fields,
         pwc' = CommandGot(pwc), call' = call
  PROVE  /\ Posted(pwc.command) /\ Posts'
         /\ pwc'.state = pwc.state /\ pwc'.quit = pwc.quit
<1>1. /\ pwc'.command.code = "none" /\ pwc'.command.byte_count = 0
      /\ pwc'.state = pwc.state /\ pwc'.quit = pwc.quit
  BY CommandGotIs DEF TypeInv, ControlType, Fields
<1>2. Posted(pwc.command) /\ \A c \in Clients : call[c] = NoCommand
  BY QuietCalls
<1>3. Quiet'
  BY <1>1, <1>2 DEF Quiet
<1> QED
  BY <1>1, <1>2, <1>3, QuietPostsNext

(* What the lemmas on the steps of the transfer thread start from. *)
Ground == Careful /\ TypeInv /\ MatchInv /\ Fields /\ Alive

LEMMA GroundFacts ==
  ASSUME Ground
  PROVE  /\ {"pc", "command", "total", "transit", "to_write", "buffer", "buffer_size",
             "buf_bytes", "header", "header_valid", "utc_start_set"} \subseteq DOMAIN m
         /\ {"state", "command", "utc_start", "quit"} \subseteq DOMAIN pwc
         /\ Sound(io) /\ Memory(hb) /\ Posts
         /\ m.pc \notin {"write", "room", "rest"} => todo = <<>>
         /\ m.pc # "prepare" => HeaderOpen(hb)
  BY AliveWhere
  DEF Ground, Alive, Fields, TypeInv, TransferType, ControlType, PwcType, HeaderBlock

LEMMA AlivePrepare ==
  ASSUME Ground, Prepare
  PROVE  Alive'
<1>1. /\ Sound(io) /\ Memory(hb) /\ Resting /\ todo = <<>> /\ m.pc = "prepare"
      /\ {"pc", "header"} \subseteq DOMAIN m
  BY GroundFacts, AliveWhere DEF Prepare, Ground
<1>2. Quiet
  BY <1>1, QuietElsewhere DEF Ground, Alive, Transferring
<1>3. PICK d : /\ d = IF io.rdwrt # "0" THEN ipcio_close(io) ELSE io
               /\ io' = Ok(d)
               /\ m' = [m EXCEPT !.pc = IF d.err THEN "fatal" ELSE "get",
                                 !.header = hb.w_buf_next % NHdr]
               /\ ~d.err => pwc' = pwc
  BY DEF Prepare
<1>4. io.rdwrt # "0" => StopReady(io)
  BY DEF Prepare
<1>5. Sound(d) /\ Shut(d)
  <2>1. CASE io.rdwrt # "0"
    <3>1. Fresh(io)
      BY <1>1, <2>1 DEF Resting, Shut
    <3> QED
      BY <1>1, <1>3, <1>4, <2>1, <3>1, CloseSound
  <2>2. CASE io.rdwrt = "0"
    BY <1>1, <1>3, <2>2 DEF Resting, Fresh, Opened
  <2> QED
    BY <2>1, <2>2
<1>6. Sound(io') /\ Shut(io')
  BY <1>3, <1>5, OkKept, KeptSound
<1>7. Memory(hb')
  BY <1>1, MemoryGot DEF Prepare, Ground, TypeInv
<1>8. m'.pc = "get" /\ m'.header = hb.w_buf_next % NHdr /\ pwc' = pwc
  BY <1>1, <1>3, <1>5 DEF Sound
<1>9. m'.header \in 0 .. NHdr - 1
  BY <1>1, <1>8, MainSizes DEF Memory
<1>10. Posts'
  BY <1>2, <1>8, QuietStays DEF Prepare, NoClient
<1>11. Waiting'
  BY <1>1, <1>6, <1>8, <1>9, Primed DEF Waiting, Resting
<1>12. todo' = todo
  BY DEF Prepare
<1> QED
  BY <1>1, <1>6, <1>7, <1>8, <1>10, <1>11, <1>12, Primed DEF Alive, Ground

LEMMA GoneExit ==
  ASSUME Ground, Exit \/ HandleQuit
  PROVE  Gone'
  BY GroundFacts DEF Exit, HandleQuit, Gone, Ground, Alive

LEMMA AliveGetWait ==
  ASSUME Ground, GetWait
  PROVE  Alive'
<1>1. UNCHANGED <<pwc, call, todo, m, io, hb>>
  BY DEF GetWait, NoClient, datavars
<1>2. Kept(io, io') /\ Memory(hb') /\ hb'.mem = hb.mem
  BY <1>1, GroundFacts, SoundKept
<1>3. Posts'
  BY <1>1, GroundFacts DEF Posts, Posted, Prepares, Dated, StopsWell
<1> QED
  BY <1>1, <1>2, <1>3, AliveStays DEF Ground

LEMMA AliveGet ==
  ASSUME Ground, Get
  PROVE  Alive'
<1>1. /\ Sound(io) /\ Memory(hb) /\ Posts /\ Waiting /\ todo = <<>> /\ m.pc = "get"
      /\ {"pc", "command", "header"} \subseteq DOMAIN m
  BY GroundFacts, AliveWhere DEF Get, Ground
<1>2. /\ m' = [m EXCEPT !.command = pwc.command, !.pc = "handle"]
      /\ pwc' = CommandGot(pwc) /\ UNCHANGED <<call, io, todo, hb>>
      /\ pwc.command.code # "none"
  BY DEF Get, NoClient, datavars
<1>3. /\ Posted(pwc.command) /\ Posts'
      /\ pwc'.state = pwc.state /\ pwc'.quit = pwc.quit
  BY <1>1, <1>2, QuietGot DEF Ground
<1>4. m'.pc = "handle" /\ m'.command = pwc.command /\ m'.header = m.header
  BY <1>1, <1>2
<1>5. ~pwc.quit => Prepares(m.command)'
  <2>1. ~pwc.quit => Prepares(pwc.command)
    BY <1>1, <1>3 DEF Posted, Transferring
  <2> QED
    BY <1>3, <1>4, <2>1 DEF Prepares
<1>6. Waiting'
  BY <1>1, <1>2, <1>3, <1>4, <1>5, Primed DEF Waiting, Given
<1> QED
  BY <1>1, <1>2, <1>3, <1>4, <1>6, Primed DEF Alive, Ground

LEMMA HandlePrepares ==
  ASSUME Ground, NEW codes, Handling(codes)
  PROVE  /\ m.pc = "handle" /\ ~pwc.quit /\ Waiting /\ Quiet /\ todo = <<>> /\ todo' = todo
         /\ Prepares(m.command) /\ m.command.code \in codes /\ call' = call
<1>1. m.pc = "handle" /\ ~pwc.quit /\ m.command.code \in codes /\ call' = call /\ todo' = todo
  BY DEF Handling, NoClient
<1>2. Waiting /\ todo = <<>>
  BY <1>1, AliveWhere, GroundFacts DEF Ground
<1>3. Quiet
  BY <1>1, GroundFacts, QuietElsewhere DEF Transferring
<1> QED
  BY <1>1, <1>2, <1>3 DEF Waiting

(* A command is carried out in the state in which it was accepted. *)
LEMMA HandleExpected ==
  ASSUME Ground, HandleIdle \/ HandleUnexpected
  PROVE  FALSE
<1>1. PICK codes : /\ Handling(codes)
                   /\ codes \cap {"header", "clock", "start"} = {}
  BY DEF HandleIdle, HandleUnexpected
<1> QED
  BY <1>1, HandlePrepares DEF Prepares

LEMMA AliveHandleHeader ==
  ASSUME Ground, HandleHeader
  PROVE  Alive'
<1>1. /\ m.pc = "handle" /\ ~pwc.quit /\ Waiting /\ Quiet /\ todo = <<>> /\ todo' = todo
      /\ Prepares(m.command) /\ m.command.code = "header" /\ call' = call
  BY HandlePrepares DEF HandleHeader
<1>2. pwc.state = "idle"
  BY <1>1 DEF Prepares
<1>3. /\ SetState(pwc, "prepared", 0) /\ m' = [m EXCEPT !.pc = "get"] /\ io' = io
      /\ hb' = [hb EXCEPT !.mem[m.header][0] = [h |-> pwc.header, utc |-> Unknown]]
  BY DEF HandleHeader
<1>4. pwc'.state = "prepared" /\ pwc'.quit = pwc.quit /\ pwc'.command = pwc.command
  BY <1>2, <1>3, GroundFacts, SetStateIs DEF MayChange
<1>5. m'.pc = "get" /\ m'.header = m.header
  BY <1>3, GroundFacts
<1>6. PICK b, x : /\ b \in 0 .. NHdr - 1 /\ b = m.header
                  /\ x = [h |-> pwc.header, utc |-> Unknown]
  BY <1>1 DEF Waiting
<1>7. Memory(hb') /\ Given(hb', b)
  <2>1. "utc" \in DOMAIN x /\ hb' = [hb EXCEPT !.mem[b][0] = x]
    BY <1>3, <1>6
  <2> QED
    BY <1>6, <2>1, GroundFacts, MemoryWritten
<1>8. Given(hb, m.header)'
  BY <1>5, <1>6, <1>7 DEF Given
<1>9. Posts'
  BY <1>1, <1>4, QuietStays
<1>10. Waiting'
  BY <1>1, <1>3, <1>4, <1>5, <1>8, Primed DEF Waiting, Given
<1> QED
  BY <1>1, <1>3, <1>4, <1>5, <1>7, <1>9, <1>10, GroundFacts, Primed DEF Alive, Errors

LEMMA AliveHandleStart ==
  ASSUME Ground, HandleStart
  PROVE  Alive'
<1>1. /\ m.pc = "handle" /\ ~pwc.quit /\ Waiting /\ Quiet /\ todo = <<>> /\ todo' = todo
      /\ Prepares(m.command) /\ m.command.code \in {"clock", "start"} /\ call' = call
  BY HandlePrepares DEF HandleStart
<1>2. pwc.state = "prepared" /\ m.command.byte_count = 0
  BY <1>1 DEF Prepares
<1>3. PICK mode \in {"w", "W"} : mode = IF m.command.code = "clock" THEN "w" ELSE "W"
  OBVIOUS
<1>4. PICK d : /\ d = ipcio_open(io, mode)
               /\ io' = Ok(d)
               /\ ~d.err => m' = [m EXCEPT !.pc = "start"] /\ pwc' = pwc
  BY <1>3 DEF HandleStart
<1>5. Sound(d) /\ Opened(d)
  BY <1>1, <1>4, GroundFacts, OpenSound DEF Waiting
<1>6. Sound(io') /\ Opened(io')
  BY <1>4, <1>5, OkKept, KeptSound
<1>7. /\ m'.pc = "start" /\ m'.header = m.header /\ m'.command = m.command
      /\ pwc' = pwc /\ hb' = hb
  BY <1>4, <1>5, GroundFacts DEF Sound, HandleStart
<1>8. Posts'
  BY <1>1, <1>7, QuietStays
<1>9. Starting'
  BY <1>1, <1>2, <1>6, <1>7, Primed DEF Starting, Waiting, Given
<1> QED
  BY <1>1, <1>2, <1>6, <1>7, <1>8, <1>9, GroundFacts, Primed DEF Alive, Errors

LEMMA AliveStart ==
  ASSUME Ground, Start
  PROVE  Alive'
<1>1. /\ m.pc = "start" /\ Starting /\ todo = <<>> /\ Sound(io) /\ Memory(hb)
      /\ HeaderOpen(hb)
      /\ {"pc", "command", "transit", "header", "header_valid", "utc_start_set"}
           \subseteq DOMAIN m
      /\ {"state", "command", "utc_start", "quit"} \subseteq DOMAIN pwc
  BY GroundFacts, AliveWhere DEF Start, Ground
<1>2. Quiet
  BY <1>1, GroundFacts, QuietElsewhere DEF Transferring
<1>a. PICK tells \in BOOLEAN :
        LET utc == IF tells THEN Time0 ELSE Unknown
            h == SetUtc(hb, utc)
            p == [pwc EXCEPT !.utc_start = IF utc > 0 THEN utc ELSE @]
            starts == m.command.code = "start"
            new == IF starts THEN "recording" ELSE "clocking"
            started == [m EXCEPT !.header_valid = IF starts THEN Valid(h, m.header) ELSE @,
                                 !.utc_start_set = tells,
                                 !.total = 0,
                                 !.transit = m.command.byte_count,
                                 !.to_write = m.command.byte_count,
                                 !.buffer_size = 0,
                                 !.buf_bytes = 0]
        IN /\ hb' = IF starts THEN Publish(h, m.header) ELSE h
           /\ io' = ipcbuf_set_soclock_buf(io)
           /\ MayChange(p.state, new) =>
                SetState(p, new, utc) /\ m' = [started EXCEPT !.pc = "loop"]
           /\ todo' = todo /\ call' = call
  BY MainSizes DEF Start, NoClient
<1>b. PICK utc : utc = IF tells THEN Time0 ELSE Unknown
  OBVIOUS
<1>c. PICK h : h = SetUtc(hb, utc)
  OBVIOUS
<1>d. PICK p : p = [pwc EXCEPT !.utc_start = IF utc > 0 THEN utc ELSE @]
  OBVIOUS
<1>e. PICK starts \in BOOLEAN : starts <=> m.command.code = "start"
  OBVIOUS
<1>f. PICK hv : hv = IF starts THEN Valid(h, m.header) ELSE m.header_valid
  OBVIOUS
<1>g. PICK started : started = [m EXCEPT !.header_valid = hv,
                           !.utc_start_set = tells,
                           !.total = 0,
                           !.transit = m.command.byte_count,
                           !.to_write = m.command.byte_count,
                           !.buffer_size = 0,
                           !.buf_bytes = 0]
  OBVIOUS
<1>h. PICK new : new = IF starts THEN "recording" ELSE "clocking"
  OBVIOUS
<1>3. /\ hb' = IF starts THEN Publish(h, m.header) ELSE h
      /\ io' = ipcbuf_set_soclock_buf(io)
      /\ MayChange(p.state, new) =>
           SetState(p, new, utc) /\ m' = [started EXCEPT !.pc = "loop"]
      /\ todo' = todo /\ call' = call
  BY <1>a, <1>b, <1>c, <1>d, <1>e, <1>f, <1>g, <1>h
<1>s. /\ DOMAIN started = DOMAIN m /\ started.header_valid = hv
      /\ started.utc_start_set = tells /\ started.transit = m.command.byte_count
      /\ started.header = m.header
  BY <1>1, <1>g
<1>4. p.state = "prepared" /\ {"state", "quit", "command"} \subseteq DOMAIN p
      /\ p.quit = pwc.quit /\ p.command = pwc.command
  BY <1>1, <1>d DEF Starting
<1>5. MayChange(p.state, new)
  BY <1>4, <1>h DEF MayChange
<1>6. pwc'.state = new /\ pwc'.quit = pwc.quit /\ pwc'.command = pwc.command
  BY <1>3, <1>4, <1>5, SetStateIs
<1>7. /\ m'.pc = "loop" /\ m'.header = m.header /\ m'.transit = 0
      /\ m'.utc_start_set = tells
      /\ starts => m'.header_valid = Valid(h, m.header)
  BY <1>1, <1>3, <1>5, <1>f, <1>s DEF Starting
<1>8. tells => utc # Unknown
  BY <1>b, MainSizes DEF Time0, Unknown
<1>9. /\ Memory(h) /\ Given(h, m.header) /\ HeaderOpen(h)
      /\ tells => Valid(h, m.header)
  BY <1>1, <1>c, <1>8, MemoryDated, HeaderWritten DEF Starting, SetUtc
<1>10. Memory(hb') /\ hb'.mem = h.mem
  BY <1>3, <1>9, MemoryPublished
<1>11. /\ Sound(io') /\ Position(io') /\ BetweenWrites(io') /\ ~Over(io')
  BY <1>1, <1>3, SoclockSound DEF Starting
<1>12. Posts'
  BY <1>2, <1>3, <1>6, QuietStays
<1>13. Given(hb, m.header)'
  BY <1>7, <1>9, <1>10 DEF Given
<1>14. InFlight'
  BY <1>1, <1>h, <1>6, <1>7, <1>9, <1>11, <1>13, Primed
  DEF InFlight, Starting, InTransfer, Transferring
<1> QED
  BY <1>1, <1>3, <1>h, <1>6, <1>7, <1>10, <1>11, <1>12, <1>14, Primed DEF Alive, Errors

(* The loop of a transfer. *)
LEMMA FlightFacts ==
  ASSUME Ground, m.pc \in InTransfer
  PROVE  /\ InFlight /\ ~pwc.quit /\ Sound(io) /\ Memory(hb) /\ Posts
         /\ Position(io) /\ GoesOn(io, io) /\ Given(hb, m.header) /\ HeaderOpen(hb)
         /\ pwc.state = ModeOf(io) /\ pwc.state \in {"clocking", "recording"}
         /\ m.pc \notin {"write", "room", "rest"} => todo = <<>>
         /\ todo = <<>> => BetweenWrites(io)
<1>1. InFlight
  BY AliveWhere DEF Ground
<1>2. pwc.state = ModeOf(io) /\ pwc.state \in {"clocking", "recording"}
  BY DEF Ground, MatchInv, InTransfer, ModeOf
<1>3. m.pc # "prepare"
  BY DEF InTransfer, Transferring
<1>4. Position(io) /\ GoesOn(io, io) /\ ~pwc.quit /\ Given(hb, m.header)
      /\ (todo = <<>> => BetweenWrites(io))
  BY <1>1, GroundFacts DEF InFlight, GoesOn
<1> QED
  BY <1>1, <1>2, <1>3, <1>4, GroundFacts

LEMMA BodyIs ==
  ASSUME NEW n, "pc" \in DOMAIN n
  PROVE  /\ DOMAIN Body(n) = DOMAIN n
         /\ Body(n).pc \in {"fetch", "check"}
         /\ \A f \in DOMAIN n \ {"pc"} : Body(n)[f] = n[f]
<1>1. PICK pc \in {"fetch", "check"} : Body(n) = [n EXCEPT !.pc = pc]
  BY DEF Body
<1> QED
  BY <1>1

(* A step of the loop in which only the bytes written are counted. *)
LEMMA AliveLoops ==
  ASSUME Ground, m.pc \in InTransfer, pwc' = pwc, call' = call, UNCHANGED <<io, todo>>,
         Memory(hb'), hb'.mem = hb.mem,
         m'.pc \in Transferring \cup {"rest"},
         m'.pc = "rest" => m.pc = "room",
         m'.header = m.header, m'.utc_start_set = m.utc_start_set,
         m'.transit = m.transit, m'.command = m.command,
         m'.header_valid = m.header_valid,
         m'.pc \in {"write", "rest"} \/ todo = <<>>
  PROVE  Alive'
<1>1. /\ InFlight /\ GoesOn(io, io) /\ Posts /\ (todo = <<>> => BetweenWrites(io))
  BY FlightFacts
<1>2. m'.pc \in InTransfer
  BY DEF InTransfer
<1>3. m.pc \in {"room", "rest"} => m.transit = 0 /\ Quiet
  <2>1. m.pc \in {"room", "rest"} => m.pc \notin {"get"} \cup Transferring
    BY DEF Transferring
  <2> QED
    BY <1>1, <2>1, QuietElsewhere DEF InFlight
<1>4. Posts'
  <2>1. CASE m.pc \in Transferring
    <3>1. m'.pc \in Transferring
      BY <2>1 DEF Transferring
    <3>2. StopsWell(io) => StopsWell(io)'
      BY DEF StopsWell
    <3> QED
      BY <1>1, <2>1, <3>1, <3>2, PostsStay
  <2>2. CASE m.pc \notin Transferring
    BY <1>3, <2>2, QuietStays DEF InTransfer
  <2> QED
    BY <2>1, <2>2
<1>5. m'.pc \in {"room", "rest"} => m.transit = 0
  BY <1>3 DEF Transferring
<1>6. m'.pc \in {"write", "room", "rest"} \/ todo' = <<>>
  OBVIOUS
<1> QED
  BY <1>1, <1>2, <1>4, <1>5, <1>6, FlightStays DEF Ground

LEMMA AlivePollNone ==
  ASSUME Ground, PollNone
  PROVE  Alive'
<1>1. /\ m.pc = "loop" /\ m' = Body(m) /\ pwc' = pwc /\ call' = call
      /\ UNCHANGED <<io, todo, hb>>
  BY DEF PollNone, Polling, NoClient, datavars
<1>2. m.pc \in InTransfer
  BY <1>1 DEF InTransfer, Transferring
<1>3. /\ m'.pc \in {"fetch", "check"} /\ m'.header = m.header
      /\ m'.utc_start_set = m.utc_start_set
      /\ m'.transit = m.transit /\ m'.command = m.command
      /\ m'.header_valid = m.header_valid
  <2>1. \A f \in {"header", "utc_start_set", "transit", "command", "header_valid"} :
          m'[f] = m[f]
    BY <1>1, GroundFacts, BodyIs
  <2> QED
    BY <1>1, <2>1, GroundFacts, BodyIs
<1>4. Memory(hb') /\ hb'.mem = hb.mem /\ todo = <<>>
  BY <1>1, <1>2, FlightFacts
<1> QED
  BY <1>1, <1>2, <1>3, <1>4, AliveLoops DEF Transferring

(* Commands are polled in the state in which they were accepted. *)
LEMMA PollExpected ==
  ASSUME Ground, PollQuit \/ PollUnexpected
  PROVE  FALSE
<1>1. m.pc = "loop" /\ "loop" \in InTransfer /\ "loop" # "get"
  BY DEF PollQuit, PollUnexpected, Polled, Polling, InTransfer, Transferring
<1>2. ~pwc.quit /\ Posts
  BY <1>1, FlightFacts
<1>3. CASE PollUnexpected
  <2>1. pwc.command.code \in {"header", "clock", "start", "reset", "exit"}
    BY <1>3 DEF PollUnexpected, Polled
  <2>2. Posted(pwc.command)
    BY <1>2, <2>1, QuietCalls
  <2> QED
    BY <1>1, <2>1, <2>2 DEF Posted, Dated
<1> QED
  BY <1>2, <1>3 DEF PollQuit

LEMMA AlivePollDated ==
  ASSUME Ground, PollDated
  PROVE  Alive'
<1>1. /\ m.pc = "loop" /\ m.pc \in InTransfer
      /\ pwc.command.code \in {"rec_start", "rec_stop", "stop"}
      /\ pwc' = CommandGot(pwc) /\ call' = call /\ UNCHANGED <<io, todo, hb>>
  BY DEF PollDated, Polled, Polling, NoClient, datavars, InTransfer, Transferring
<1>2. /\ Posted(pwc.command) /\ Posts'
      /\ pwc'.state = pwc.state /\ pwc'.quit = pwc.quit
  BY <1>1, FlightFacts, QuietGot DEF Ground
<1>3. Dated(pwc.command)
  BY <1>1, <1>2 DEF Posted
<1>n. PICK n : /\ m' = Body(n)
               /\ \/ \E t, w : n = [m EXCEPT !.command = pwc.command, !.transit = t,
                                             !.to_write = w]
                  \/ \E now : n = [m EXCEPT !.command = pwc.command, !.total = now,
                                            !.transit = now, !.to_write = 0]
  <2>1. PICK now, t, w : /\ now = IF m.total = 0 THEN 1 ELSE m.total
                         /\ t = pwc.command.byte_count
                         /\ w = pwc.command.byte_count - m.total
    OBVIOUS
  <2>2. m' = Body(IF pwc.command.byte_count > m.total
                    THEN [m EXCEPT !.command = pwc.command, !.transit = t,
                                   !.to_write = w]
                    ELSE [m EXCEPT !.command = pwc.command, !.total = now,
                                   !.transit = now, !.to_write = 0])
    BY <2>1 DEF PollDated
  <2> QED
    BY <2>2
<1>4. /\ m' = Body(n) /\ DOMAIN n = DOMAIN m
      /\ n.command = pwc.command /\ n.header = m.header
      /\ n.header_valid = m.header_valid
      /\ n.utc_start_set = m.utc_start_set
  BY <1>n, GroundFacts
<1>5. /\ m'.pc \in {"fetch", "check"} /\ m'.command = pwc.command
      /\ m'.header = m.header /\ m'.header_valid = m.header_valid
      /\ m'.utc_start_set = m.utc_start_set
  <2>1. \A f \in {"command", "header", "header_valid", "utc_start_set"} : m'[f] = n[f]
    BY <1>4, GroundFacts, BodyIs
  <2> QED
    BY <1>4, <2>1, GroundFacts, BodyIs
<1>6. Dated(m.command)'
  BY <1>1, <1>2, <1>3, <1>5 DEF Dated, StopsWell
<1>7. InFlight /\ todo = <<>>
  BY <1>1, FlightFacts
<1>8. InFlight'
  BY <1>1, <1>2, <1>5, <1>6, <1>7, Primed DEF InFlight, InTransfer, Transferring, Given
<1> QED
  BY <1>1, <1>2, <1>5, <1>7, <1>8, FlightFacts, Primed DEF Alive, Errors

LEMMA AlivePollUtc ==
  ASSUME Ground, PollUtc
  PROVE  Alive'
<1>1. /\ m.pc = "loop" /\ m.pc \in InTransfer
      /\ pwc.command.code = "set_utc_start"
      /\ pwc' = CommandGot(pwc) /\ call' = call /\ UNCHANGED <<io, todo>>
  BY DEF PollUtc, Polled, Polling, NoClient, InTransfer, Transferring
<1>2. /\ Posted(pwc.command) /\ Posts'
      /\ pwc'.state = pwc.state /\ pwc'.quit = pwc.quit
  BY <1>1, FlightFacts, QuietGot DEF Ground
<1>3. m.transit = 0 /\ pwc.command.utc # 0
  BY <1>1, <1>2 DEF Posted, Prepares, Dated
<1>4. InFlight /\ todo = <<>> /\ Memory(hb) /\ HeaderOpen(hb) /\ Given(hb, m.header)
  BY <1>1, FlightFacts
<1>5. PICK h : h = SetUtc(hb, pwc.command.utc)
  OBVIOUS
<1>6. Memory(h) /\ Given(h, m.header) /\ Valid(h, m.header) /\ HeaderOpen(h)
  BY <1>3, <1>4, <1>5, MemoryDated, HeaderWritten DEF SetUtc, Unknown
<1>7. \/ hb' = hb
      \/ hb' = Publish(h, m.header)
      \/ hb' = h
  BY <1>5 DEF PollUtc
<1>8. Memory(hb') /\ Given(hb', m.header)
  BY <1>4, <1>6, <1>7, MemoryPublished DEF Given
<1>n. PICK n : /\ m' = Body(n)
               /\ n = IF ~m.utc_start_set /\ pwc.state = "recording"
                        THEN [m EXCEPT !.command = pwc.command, !.utc_start_set = TRUE,
                                       !.header_valid = Valid(h, m.header)]
                        ELSE [m EXCEPT !.command = pwc.command, !.utc_start_set = TRUE]
  <2>1. PICK hv : hv = Valid(h, m.header)
    OBVIOUS
  <2>2. m' = Body(IF ~m.utc_start_set /\ pwc.state = "recording"
                    THEN [[m EXCEPT !.command = pwc.command, !.utc_start_set = TRUE]
                            EXCEPT !.header_valid = hv]
                    ELSE [m EXCEPT !.command = pwc.command, !.utc_start_set = TRUE])
    BY <1>5, <2>1 DEF PollUtc
  <2> QED
    BY <2>1, <2>2
<1>9. /\ m' = Body(n) /\ DOMAIN n = DOMAIN m
      /\ n.header = m.header /\ n.utc_start_set = TRUE /\ n.transit = m.transit
      /\ n.header_valid = IF ~m.utc_start_set /\ pwc.state = "recording"
                            THEN Valid(h, m.header) ELSE m.header_valid
  <2>1. PICK hv : hv = Valid(h, m.header)
    OBVIOUS
  <2> QED
    BY <1>n, <2>1, GroundFacts
<1>10. /\ m'.pc \in {"fetch", "check"} /\ m'.header = m.header
       /\ m'.utc_start_set = TRUE /\ m'.transit = 0 /\ m'.header_valid = n.header_valid
  <2>1. \A f \in {"header", "utc_start_set", "transit", "header_valid"} : m'[f] = n[f]
    BY <1>9, GroundFacts, BodyIs
  <2> QED
    BY <1>3, <1>9, <2>1, GroundFacts, BodyIs
<1>11. /\ pwc.state = "recording" => m'.header_valid
       /\ m.header_valid => m'.header_valid
  BY <1>4, <1>6, <1>9, <1>10 DEF InFlight
<1>12. Given(hb, m.header)'
  BY <1>8, <1>10 DEF Given
<1>13. InFlight'
  BY <1>1, <1>2, <1>4, <1>10, <1>11, <1>12, Primed DEF InFlight, InTransfer, Transferring
<1> QED
  BY <1>1, <1>2, <1>4, <1>8, <1>10, <1>13, FlightFacts, Primed DEF Alive, Errors

(* An error over UTC_START. *)
LEMMA DeadError ==
  ASSUME Ground, m.pc \in InTransfer, ~m'.utc_start_set, m'.pc = "stop",
         SetState(pwc, "fatal_error", 0)
  PROVE  Dead' /\ pwc'.state = "fatal_error"
<1>1. MayChange(pwc.state, "fatal_error")
  BY FlightFacts DEF MayChange, Errors
<1>2. pwc'.state = "fatal_error"
  BY <1>1, GroundFacts, SetStateIs
<1> QED
  BY <1>2 DEF Dead

LEMMA AliveFetch ==
  ASSUME Ground, NEW size \in BufSizes, Fetch(size)
  PROVE  Alive' \/ (Dead' /\ NoRoom)
<1>1. /\ m.pc = "fetch" /\ m.pc \in InTransfer /\ io' = io /\ call' = call
  BY DEF Fetch, NoClient, InTransfer, Transferring
<1>2. /\ InFlight /\ todo = <<>> /\ Memory(hb) /\ HeaderOpen(hb) /\ Posts
      /\ GoesOn(io, io) /\ BetweenWrites(io)
  BY <1>1, FlightFacts
<1>3. hb' = hb \/ hb' = Publish(hb, m.header)
  BY DEF Fetch
<1>4. Memory(hb') /\ hb'.mem = hb.mem
  BY <1>2, <1>3, MemoryPublished
<1>5. PICK bytes : bytes = IF m.transit # 0 /\ size > m.to_write THEN m.to_write ELSE size
  OBVIOUS
<1>6. PICK hv : hv = (m.header_valid \/ (Late /\ Valid(hb, m.header)))
  OBVIOUS
<1>7. PICK n : n = [m EXCEPT !.buffer = src + 1, !.buffer_size = size,
                             !.buf_bytes = bytes, !.header_valid = hv]
  OBVIOUS
<1>8. \/ /\ ~m.utc_start_set /\ ipcio_space_left(io) < bytes
         /\ SetState(pwc, "fatal_error", 0)
         /\ m' = [n EXCEPT !.pc = "stop"]
      \/ /\ m' = [n EXCEPT !.pc = "write"] /\ pwc' = pwc
  BY <1>5, <1>6, <1>7 DEF Fetch, FullWithoutUtc
<1>9. /\ "pc" \in DOMAIN n /\ {"header", "utc_start_set"} \subseteq DOMAIN n
      /\ n.header = m.header /\ n.utc_start_set = m.utc_start_set
      /\ n.transit = m.transit /\ n.command = m.command /\ n.header_valid = hv
      /\ {"transit", "command", "header_valid"} \subseteq DOMAIN n
      /\ "buf_bytes" \in DOMAIN n /\ n.buf_bytes = bytes
  BY <1>7, GroundFacts DEF Ground, TypeInv, TransferType
<1>10. CASE /\ ~m.utc_start_set /\ ipcio_space_left(io) < bytes
            /\ SetState(pwc, "fatal_error", 0) /\ m' = [n EXCEPT !.pc = "stop"]
  <2>1. m'.pc = "stop" /\ ~m'.utc_start_set /\ m'.buf_bytes = bytes
    BY <1>9, <1>10
  <2>2. Dead' /\ pwc'.state = "fatal_error"
    BY <1>1, <1>10, <2>1, DeadError
  <2> QED
    BY <1>1, <1>10, <2>1, <2>2 DEF NoRoom
<1>11. CASE m' = [n EXCEPT !.pc = "write"] /\ pwc' = pwc
  <2>1. /\ m'.pc = "write" /\ m'.header = m.header /\ m'.utc_start_set = m.utc_start_set
        /\ m'.transit = m.transit /\ m'.command = m.command /\ m'.header_valid = hv
    BY <1>9, <1>11
  <2>2. m.header_valid => hv
    BY <1>6
  <2>3. pwc.state = "clocking" /\ hv => m.header_valid
    BY <1>6 DEF Late
  <2>4. m'.pc \in Transferring /\ m'.pc \in InTransfer /\ m.pc \in Transferring
    BY <1>1, <2>1 DEF InTransfer, Transferring
  <2>5. StopsWell(io) => StopsWell(io)'
    BY <1>1 DEF StopsWell
  <2>6. Posts'
    BY <1>1, <1>2, <1>11, <2>1, <2>3, <2>4, <2>5, PostsStay
  <2> QED
    BY <1>1, <1>2, <1>4, <1>11, <2>1, <2>2, <2>3, <2>4, <2>6, FlightStays DEF Ground
<1> QED
  BY <1>8, <1>10, <1>11

LEMMA AliveWritten ==
  ASSUME Ground, Written
  PROVE  Alive'
<1>1. /\ todo = <<>> /\ call' = call /\ UNCHANGED <<io, todo, hb>>
  BY DEF Written, NoClient, datavars
<1>2. m.pc \in {"write", "rest"}
  BY AliveWhere DEF Ground, Written
<1>3. m.pc \in InTransfer
  BY <1>2 DEF InTransfer, Transferring
<1>4. PICK t, w :
        /\ pwc' = pwc
        /\ \/ m' = [m EXCEPT !.pc = "check", !.total = t, !.to_write = w]
           \/ m' = [m EXCEPT !.pc = "loop", !.total = t]
  <2>1. PICK t, w : /\ t = m.total + m.buf_bytes
                    /\ w = IF m.to_write # 0 THEN m.to_write - m.buf_bytes ELSE 0
    OBVIOUS
  <2> QED
    BY <1>2, <2>1 DEF Written
<1>5. /\ m'.pc \in Transferring /\ m'.pc \notin {"rest", "write"}
      /\ m'.header = m.header
      /\ m'.utc_start_set = m.utc_start_set
      /\ m'.transit = m.transit /\ m'.command = m.command
      /\ m'.header_valid = m.header_valid
  BY <1>4, GroundFacts DEF Transferring
<1>6. Memory(hb') /\ hb'.mem = hb.mem
  BY <1>1, GroundFacts
<1> QED
  BY <1>1, <1>3, <1>4, <1>5, <1>6, AliveLoops

LEMMA AliveNotReached ==
  ASSUME Ground, NotReached
  PROVE  Alive'
<1>1. /\ m.pc = "check" /\ m' = [m EXCEPT !.pc = "loop"] /\ pwc' = pwc /\ call' = call
      /\ UNCHANGED <<io, todo, hb>>
  BY DEF NotReached, NoClient, datavars
<1>2. m.pc \in InTransfer
  BY <1>1 DEF InTransfer, Transferring
<1>3. /\ m'.pc = "loop" /\ m'.header = m.header
      /\ m'.utc_start_set = m.utc_start_set
      /\ m'.transit = m.transit /\ m'.command = m.command
      /\ m'.header_valid = m.header_valid
  BY <1>1, GroundFacts
<1>4. Memory(hb') /\ hb'.mem = hb.mem /\ todo = <<>>
  BY <1>1, <1>2, FlightFacts
<1> QED
  BY <1>1, <1>2, <1>3, <1>4, AliveLoops DEF Transferring

(* ipcio_write does not fail. *)
LEMMA AliveWriteStep ==
  ASSUME Ground, m.pc \in {"write", "rest"}, NEW d, GoesOn(io, d), NEW rest,
         rest = <<>> => BetweenWrites(d), WriteStep(d, rest)
  PROVE  Alive'
<1>1. m.pc \in InTransfer
  BY DEF InTransfer, Transferring
<1>2. ~d.err /\ Sound(d)
  BY DEF GoesOn, Sound
<1>3. /\ io' = Ok(d) /\ todo' = rest /\ pwc' = pwc /\ m' = m /\ call' = call /\ hb' = hb
  BY <1>2 DEF WriteStep, NoClient
<1>4. Kept(d, io')
  BY <1>2, <1>3, OkKept
<1>5. GoesOn(io, io') /\ (rest = <<>> => BetweenWrites(io'))
  BY <1>4, KeptSound
<1>6. InFlight /\ Posts /\ Memory(hb)
  BY <1>1, FlightFacts
<1>7. m.pc = "rest" => m.transit = 0 /\ Quiet
  <2>1. "rest" \notin {"get"} \cup Transferring
    BY DEF Transferring
  <2> QED
    BY <1>6, <2>1, QuietElsewhere DEF InFlight
<1>8. StopsWell(io) => StopsWell(io)'
  BY <1>5 DEF GoesOn, StopsWell
<1>9. Posts'
  <2>1. CASE m.pc = "write"
    BY <1>3, <1>6, <1>8, <2>1, PostsStay DEF Transferring
  <2>2. CASE m.pc = "rest"
    BY <1>3, <1>7, <2>2, QuietStays
  <2> QED
    BY <2>1, <2>2
<1> QED
  BY <1>1, <1>3, <1>5, <1>6, <1>7, <1>9, FlightStays DEF Ground

LEMMA AliveWrite ==
  ASSUME Ground, Write
  PROVE  Alive'
<1>1. todo # <<>> /\ m.pc \in {"write", "rest"}
  BY AliveWhere DEF Ground, Write
<1>2. m.pc \in InTransfer
  BY <1>1 DEF InTransfer, Transferring
<1>3. Sound(io) /\ Position(io) /\ NBufs > 1 /\ todo \in Seq(Int)
  BY <1>2, FlightFacts DEF Ground, Careful, TypeInv, DataType
<1>4. CASE io.bytes = BufSz /\ \E d \in {WriteFull(io)} : WriteStep(d, todo)
  BY <1>1, <1>3, <1>4, WriteFullSound, AliveWriteStep
<1>5. CASE io.curbuf = NoBuf /\ GetReady(io) /\ \E d \in {WriteGet(io)} : WriteStep(d, todo)
  BY <1>1, <1>3, <1>5, WriteGetSound, AliveWriteStep
<1>6. CASE io.bytes # BufSz /\ io.curbuf # NoBuf
           /\ \E d \in {WriteCopy(io, todo)} :
                WriteStep(d, SubSeq(todo, Space(io, todo) + 1, Len(todo)))
  BY <1>1, <1>3, <1>6, WriteCopySound, AliveWriteStep
<1> QED
  BY <1>4, <1>5, <1>6 DEF Write

(* At the byte of a command. *)
LEMMA CheckingFacts ==
  ASSUME Ground, NEW codes, Checking(codes)
  PROVE  /\ m.pc = "check" /\ m.pc \in InTransfer /\ m.command.code \in codes
         /\ Dated(m.command) /\ Quiet /\ todo = <<>> /\ BetweenWrites(io)
         /\ m.transit # 0 /\ call' = call
<1>1. /\ m.pc = "check" /\ m.transit # 0 /\ m.command.code \in codes /\ call' = call
      /\ m.pc \in InTransfer
  BY DEF Checking, Reached, NoClient, InTransfer, Transferring
<1>2. InFlight /\ todo = <<>> /\ BetweenWrites(io) /\ Posts
  BY <1>1, FlightFacts
<1>3. Quiet
  BY <1>1, <1>2, QuietElsewhere
<1> QED
  BY <1>1, <1>2, <1>3 DEF InFlight

(* After a change of state in a transfer. *)
LEMMA AliveRest ==
  ASSUME Ground, Quiet, m.pc \in InTransfer, call' = call,
         NEW n, {"pc", "transit", "header", "header_valid", "utc_start_set", "command",
                 "buffer", "buf_bytes"} \subseteq DOMAIN n,
         NEW new \in {"clocking", "recording"}, Rest(n, pwc, new),
         MayChange(pwc.state, new),
         n.header_valid, Memory(hb'), Given(hb', n.header),
         Sound(io'), Position(io'), BetweenWrites(io')
  PROVE  Alive'
<1>1. SetState(pwc, new, 0)
  BY DEF Rest
<1>2. pwc'.state = new /\ pwc'.quit = pwc.quit /\ pwc'.command = pwc.command
  BY <1>1, GroundFacts, SetStateIs
<1>3. PICK bytes, from : bytes = n.buffer_size - n.buf_bytes /\ from = n.buffer + n.buf_bytes
  OBVIOUS
<1>4. m' = [n EXCEPT !.pc = "room", !.transit = 0, !.buffer = from, !.buf_bytes = bytes]
  BY <1>3 DEF Rest
<1>5. /\ m'.pc = "room" /\ m'.transit = 0 /\ m'.header = n.header
      /\ m'.header_valid = n.header_valid
  BY <1>4
<1>6. Posts'
  BY <1>2, QuietStays
<1>7. Given(hb, m.header)'
  BY <1>5 DEF Given
<1>8. ~pwc.quit
  BY FlightFacts
<1>9. InFlight'
  BY <1>2, <1>5, <1>7, <1>8, Primed DEF InFlight, InTransfer
<1> QED
  BY <1>2, <1>5, <1>6, <1>9, Primed DEF Alive, Errors

LEMMA AliveRecStop ==
  ASSUME Ground, RecStop
  PROVE  Alive'
<1>1. /\ m.pc = "check" /\ m.pc \in InTransfer /\ m.command.code = "rec_stop"
      /\ Dated(m.command) /\ Quiet /\ todo = <<>> /\ BetweenWrites(io) /\ call' = call
  BY CheckingFacts DEF RecStop
<1>2. /\ InFlight /\ Sound(io) /\ Position(io) /\ pwc.state = ModeOf(io)
      /\ Given(hb, m.header) /\ Memory(hb)
  BY <1>1, FlightFacts
<1>3. m.utc_start_set /\ pwc.state = "recording" /\ StopsWell(io)
  BY <1>1 DEF Dated
<1>4. io.rdwrt = "W" /\ io.state = "WRITING"
  BY <1>2, <1>3 DEF ModeOf, StopsWell
<1>5. PICK d : d = ipcio_stop(io)
  OBVIOUS
<1>6. Sound(d) /\ Position(d) /\ BetweenWrites(d)
  BY <1>1, <1>2, <1>4, <1>5, StopSound DEF RecStop
<1>7. io' = Ok(d) /\ Rest(m, pwc, "clocking") /\ hb' = hb
  BY <1>5, <1>6 DEF RecStop, Sound
<1>8. Sound(io') /\ Position(io') /\ BetweenWrites(io')
  BY <1>6, <1>7, OkKept, KeptSound
<1>9. m.header_valid
  BY <1>2, <1>3 DEF InFlight
<1>10. MayChange(pwc.state, "clocking")
  BY <1>3 DEF MayChange
<1>11. {"pc", "transit", "header", "header_valid", "utc_start_set", "command",
        "buffer", "buf_bytes"} \subseteq DOMAIN m
  BY GroundFacts
<1>12. Memory(hb') /\ Given(hb', m.header)
  BY <1>2, <1>7
<1> QED
  BY <1>1, <1>7, <1>8, <1>9, <1>10, <1>11, <1>12, AliveRest

(* A recording starts no earlier than the ring allows. *)
LEMMA AliveRecStart ==
  ASSUME Ground, RecStart
  PROVE  Alive'
<1>1. /\ m.pc = "check" /\ m.pc \in InTransfer /\ m.command.code = "rec_start"
      /\ Dated(m.command) /\ Quiet /\ todo = <<>> /\ BetweenWrites(io) /\ call' = call
  BY CheckingFacts DEF RecStart
<1>2. /\ InFlight /\ Sound(io) /\ Position(io) /\ pwc.state = ModeOf(io)
      /\ Given(hb, m.header) /\ Memory(hb) /\ NBufs > 1
  BY <1>1, FlightFacts DEF Ground, Careful
<1>3. m.utc_start_set /\ pwc.state = "clocking" /\ ~m.header_valid
  BY <1>1 DEF Dated
<1>4. io.rdwrt = "w" /\ ~Over(io)
  BY <1>2, <1>3 DEF ModeOf, Position, InFlight
<1>5. PICK least : least = ipcio_get_start_minimum(io)
  OBVIOUS
<1>6. PICK sb : sb = StartByte(io, m.command)
  OBVIOUS
<1>7. least \in Int /\ sb \in Int
  <2>1. io.w_buf_next \in Int /\ io.soclock_buf \in Int
    BY <1>2 DEF Sound, RingType, Counters
  <2>2. m.command.byte_count \in Nat /\ BufSz \in Int /\ NBufs \in Int
    BY IoSizes DEF Ground, TypeInv, TransferType, CommandType
  <2>3. ipcbuf_get_sod_minbuf(io) \in Int
    BY <2>1, <2>2 DEF ipcbuf_get_sod_minbuf, Unsigned
  <2> QED
    BY <1>5, <1>6, <2>1, <2>2, <2>3 DEF ipcio_get_start_minimum, StartByte
<1>8. PICK byte : byte = IF sb < least THEN least ELSE sb
  OBVIOUS
<1>9. byte \in Int /\ byte >= least
  BY <1>7, <1>8
<1>10. PICK d : d = ipcio_start(io, byte)
  OBVIOUS
<1>11. Sound(d) /\ Position(d) /\ BetweenWrites(d)
  BY <1>1, <1>2, <1>4, <1>5, <1>9, <1>10, StartSound
<1>12. PICK b : b = hb.w_buf_next % NHdr
  OBVIOUS
<1>13. b \in 0 .. NHdr - 1
  BY <1>2, <1>12, MainSizes DEF Memory
<1>14. PICK head : head = [h |-> hb.mem[m.header][0].h, utc |-> Gmtime(m.command.utc)]
  OBVIOUS
<1>15. PICK g : g = HB!ipcbuf_get_next_write(hb)
  OBVIOUS
<1>16. PICK h : h = [g EXCEPT !.mem[b][0] = head]
  OBVIOUS
<1>17. Memory(g) /\ HeaderOpen(g)
  BY <1>2, <1>15, MemoryGot, HeaderGot DEF Ground, TypeInv
<1>18. Memory(h) /\ Given(h, b) /\ HeaderOpen(h)
  <2>1. "utc" \in DOMAIN head
    BY <1>14
  <2> QED
    BY <1>13, <1>16, <1>17, <2>1, MemoryWritten, HeaderWritten
<1>19. PICK bc : bc = IF sb < least THEN least - io.soclock_buf * BufSz
                                    ELSE m.command.byte_count
  OBVIOUS
<1>20. PICK n : n = [m EXCEPT !.header = b, !.command.byte_count = bc]
  OBVIOUS
<1>21. /\ io' = Ok(d)
       /\ ~d.err => /\ hb' = IF m.header_valid THEN h ELSE Publish(h, b)
                    /\ Rest([n EXCEPT !.header_valid = TRUE], pwc, "recording")
  <2>1. n = [m EXCEPT !.header = b,
                      !.command.byte_count = IF sb < least
                                               THEN least - io.soclock_buf * BufSz
                                               ELSE @]
    BY <1>19, <1>20
  <2> QED
    BY <1>5, <1>6, <1>8, <1>10, <1>12, <1>14, <1>15, <1>16, <2>1 DEF RecStart
<1>22. PICK k : k = [n EXCEPT !.header_valid = TRUE]
  OBVIOUS
<1>23. hb' = Publish(h, b) /\ Rest(k, pwc, "recording")
  BY <1>3, <1>11, <1>21, <1>22 DEF Sound
<1>24. /\ {"pc", "transit", "header", "header_valid", "utc_start_set", "command",
           "buffer", "buf_bytes"} \subseteq DOMAIN k
       /\ k.header_valid /\ k.header = b
  BY <1>20, <1>22, GroundFacts
<1>25. Memory(hb') /\ Given(hb', b)
  BY <1>18, <1>23, MemoryPublished DEF Given
<1>26. Sound(io') /\ Position(io') /\ BetweenWrites(io')
  BY <1>11, <1>21, OkKept, KeptSound
<1>27. MayChange(pwc.state, "recording")
  BY <1>3 DEF MayChange
<1> QED
  BY <1>1, <1>23, <1>24, <1>25, <1>26, <1>27, AliveRest

LEMMA AliveCheckStop ==
  ASSUME Ground, CheckStop
  PROVE  Alive'
<1>1. /\ m.pc = "check" /\ m.pc \in InTransfer /\ m.command.code = "stop"
      /\ Dated(m.command) /\ Quiet /\ todo = <<>> /\ BetweenWrites(io) /\ call' = call
  BY CheckingFacts DEF CheckStop
<1>2. /\ InFlight /\ Sound(io) /\ Position(io) /\ pwc.state = ModeOf(io) /\ Memory(hb)
      /\ ~pwc.quit /\ pwc.state \in {"clocking", "recording"}
  BY <1>1, FlightFacts
<1>3. StopsWell(io)
  BY <1>1 DEF Dated
<1>4. m' = [m EXCEPT !.pc = "stop", !.transit = 0] /\ UNCHANGED <<pwc, io, todo, hb>>
  BY DEF CheckStop, datavars
<1>5. m'.pc = "stop"
  BY <1>4, GroundFacts
<1>6. Posts'
  BY <1>1, <1>4, QuietStays
<1>7. Stopping'
  BY <1>1, <1>2, <1>3, <1>4, <1>5, Primed DEF Stopping
<1> QED
  BY <1>1, <1>2, <1>4, <1>5, <1>6, <1>7, Primed DEF Alive, Errors

LEMMA CheckExpected ==
  ASSUME Ground, CheckUnexpected
  PROVE  FALSE
<1>1. /\ m.command.code \in {"set_utc_start", "clock", "start"} /\ Dated(m.command)
  BY CheckingFacts DEF CheckUnexpected
<1> QED
  BY <1>1 DEF Dated

LEMMA AliveRoom ==
  ASSUME Ground, Room
  PROVE  Alive' \/ (Dead' /\ NoRoom)
<1>1. m.pc = "room" /\ m.pc \in InTransfer /\ call' = call /\ UNCHANGED <<io, hb>>
  BY DEF Room, NoClient, InTransfer
<1>2. CASE /\ ~m.utc_start_set /\ ipcio_space_left(io) < m.buf_bytes
           /\ Error(pwc, "fatal", "stop")
  <2>1. SetState(pwc, "fatal_error", 0) /\ m' = [m EXCEPT !.pc = "stop"]
    BY <1>2 DEF Error, ErrorState
  <2>2. m'.pc = "stop" /\ ~m'.utc_start_set /\ m'.buf_bytes = m.buf_bytes
    BY <1>2, <2>1, GroundFacts DEF Ground, TypeInv, TransferType
  <2>3. Dead' /\ pwc'.state = "fatal_error"
    BY <1>1, <2>1, <2>2, DeadError
  <2> QED
    BY <1>1, <1>2, <2>2, <2>3 DEF NoRoom
<1>3. CASE m' = [m EXCEPT !.pc = "rest"] /\ UNCHANGED <<pwc, waiting, todo>>
  <2>1. /\ m'.pc = "rest" /\ m'.header = m.header
        /\ m'.utc_start_set = m.utc_start_set
        /\ m'.transit = m.transit /\ m'.command = m.command
        /\ m'.header_valid = m.header_valid
    BY <1>3, GroundFacts
  <2>2. Memory(hb') /\ hb'.mem = hb.mem
    BY <1>1, GroundFacts
  <2> QED
    BY <1>1, <1>3, <2>1, <2>2, AliveLoops
<1> QED
  BY <1>2, <1>3 DEF Room, FullWithoutUtc

LEMMA AliveStopTransfer ==
  ASSUME Ground, StopTransfer
  PROVE  Alive'
<1>1. m.pc = "stop" /\ call' = call /\ todo' = todo /\ hb' = hb /\ StopReady(io)
  BY DEF StopTransfer, NoClient
<1>2. /\ Stopping /\ Sound(io) /\ Memory(hb) /\ todo = <<>> /\ Quiet
  BY <1>1, GroundFacts, AliveWhere, QuietElsewhere DEF Ground, Transferring
<1>3. PICK d : d = ipcio_close(io)
  OBVIOUS
<1>4. Sound(d) /\ Shut(d)
  BY <1>1, <1>2, <1>3, CloseSound DEF Stopping
<1>5. pwc.state \in {"clocking", "recording"}
  BY <1>2 DEF Stopping, ModeOf
<1>6. /\ m' = [m EXCEPT !.pc = "fatal", !.header_valid = FALSE]
      /\ io' = Ok(d) /\ SetState(pwc, "idle", 0)
  BY <1>3, <1>4, <1>5 DEF StopTransfer, Sound, Errors
<1>7. MayChange(pwc.state, "idle")
  BY <1>5 DEF MayChange
<1>8. pwc'.state = "idle" /\ pwc'.quit = pwc.quit /\ pwc'.command = pwc.command
  BY <1>6, <1>7, GroundFacts, SetStateIs
<1>9. m'.pc = "fatal"
  BY <1>6, GroundFacts
<1>10. Sound(io') /\ Shut(io')
  BY <1>4, <1>6, OkKept, KeptSound
<1>11. Posts'
  BY <1>1, <1>2, <1>8, QuietStays
<1>12. Resting'
  BY <1>2, <1>8, <1>9, <1>10, Primed DEF Resting, Stopping
<1> QED
  BY <1>1, <1>2, <1>8, <1>9, <1>10, <1>11, <1>12, Primed DEF Alive, Errors

LEMMA AliveCheckFatal ==
  ASSUME Ground, CheckFatal
  PROVE  Alive'
<1>1. /\ m.pc = "fatal" /\ call' = call /\ UNCHANGED <<io, todo, hb>>
      /\ m' = [m EXCEPT !.pc = "prepare"]
  BY DEF CheckFatal, NoClient, datavars
<1>2. /\ Resting /\ Sound(io) /\ Memory(hb) /\ todo = <<>> /\ Quiet
  BY <1>1, GroundFacts, AliveWhere, QuietElsewhere DEF Ground, Transferring
<1>3. pwc' = [pwc EXCEPT !.quit = pwc.quit \/ pwc.state = "fatal_error"]
  BY DEF CheckFatal
<1>4. pwc'.state = "idle" /\ ~pwc'.quit /\ pwc'.command = pwc.command
  BY <1>2, <1>3, GroundFacts DEF Resting
<1>5. m'.pc = "prepare"
  BY <1>1, GroundFacts
<1>6. Posts'
  BY <1>1, <1>2, <1>4, QuietStays
<1>7. Resting'
  BY <1>1, <1>2, <1>4, <1>5, Primed DEF Resting
<1> QED
  BY <1>1, <1>2, <1>4, <1>5, <1>6, <1>7, Primed DEF Alive, Errors

(* The step of the transfer thread, whichever it is. *)
LEMMA ExplainedMain ==
  ASSUME Ground, MainNext
  PROVE  failed' \/ (Dead' /\ NoRoom) \/ Gone' \/ Alive'
<1>1. CASE StartFails \/ FetchFails \/ FetchNothing \/ StopFails
  BY <1>1 DEF StartFails, FetchFails, FetchNothing, StopFails
<1>2. CASE Exit \/ HandleQuit
  BY <1>2, GoneExit
<1>3. ~(HandleIdle \/ HandleUnexpected \/ PollQuit \/ PollUnexpected \/ CheckUnexpected)
  BY HandleExpected, PollExpected, CheckExpected
<1> QED
  BY <1>1, <1>2, <1>3, AlivePrepare, AliveGetWait, AliveGet, AliveHandleHeader,
     AliveHandleStart, AliveStart, AlivePollNone, AlivePollUtc, AlivePollDated,
     AliveFetch, AliveWrite, AliveWritten, AliveNotReached, AliveRecStop, AliveRecStart,
     AliveCheckStop, AliveRoom, AliveStopTransfer, AliveCheckFatal
  DEF MainNext

LEMMA ExplainedStep ==
  ASSUME Careful, TypeInv, MatchInv, Fields, Explained, Next
  PROVE  Explained'
<1>1. CASE failed
  BY <1>1, FailedStays DEF Explained
<1>2. CASE Dead \/ Gone
  <2>1. CASE MainNext
    BY <1>2, <2>1, DeadMain, GoneMain DEF Explained
  <2>2. CASE ClientNext \/ ReaderNext
    BY <1>2, <2>2, EndedOthers DEF Explained, ClientNext
  <2> QED
    BY <2>1, <2>2 DEF Next
<1>3. CASE Alive
  <2>1. CASE MainNext
    BY <1>3, <2>1, ExplainedMain DEF Ground, Explained
  <2>2. CASE ClientNext
    BY <1>3, <2>2, AliveSend, AliveCommand DEF Explained, ClientNext
  <2>3. CASE ReaderNext
    BY <1>3, <2>3, AliveReader DEF Explained
  <2> QED
    BY <2>1, <2>2, <2>3 DEF Next
<1> QED
  BY <1>1, <1>2, <1>3 DEF Explained

LEMMA AliveInit ==
  ASSUME Init
  PROVE  Alive /\ Fields
<1>1. PICK d : d = InitIo
  OBVIOUS
<1>2. RingType(d) /\ ~d.err /\ "marked_filled" \in DOMAIN d
      /\ d.w_buf_next = 0 /\ d.w_buf_curr = 0 /\ d.w_xfer = 0 /\ ~d.sod_pending
      /\ d.rdwrt = "0" /\ d.w_state = "DISCON"
  BY <1>1, IoSizes DEF InitIo, RingType, Counters, RingFields
<1>3. Sound(d) /\ Shut(d)
  BY <1>2 DEF Sound, Shut, AtOrigin
<1>4. io = ipcio_open(d, "W")
  BY <1>1 DEF Init
<1>5. Sound(io) /\ Opened(io) /\ io.rdwrt = "W"
  BY <1>3, <1>4, OpenSound
<1>6. io.w_xfer = 0 /\ io.w_state = "DISCON"
  BY <1>2, <1>4 DEF ipcio_open, RingType, Counters, RingFields
<1>7. Fresh(io)
  BY <1>5, <1>6 DEF Fresh
<1>8. Memory(hb)
  BY MainSizes DEF Init, HB!InitIo, HB!Ring, Memory
<1>9. Posts
  BY DEF Init, InitPwc, NoCommand, Posts
<1>10. Resting /\ todo = <<>> /\ pwc.state = "idle"
  BY <1>7 DEF Init, InitPwc, Resting
<1>11. Fields
  BY DEF Init, InitPwc, Fields
<1> QED
  BY <1>5, <1>8, <1>9, <1>10, <1>11 DEF Alive, Errors

LEMMA ExplainStutters ==
  ASSUME ExplainInv, UNCHANGED vars
  PROVE  Fields' /\ Explained'
<1>1. UNCHANGED <<pwc, call, waiting, failed, m, todo, io, hb>>
  BY DEF vars, pwcvars, datavars, ghost
<1>2. Fields'
  BY <1>1 DEF ExplainInv, Fields
<1>3. CASE failed \/ Dead \/ Gone
  BY <1>1, <1>2, <1>3 DEF Explained, Dead, Gone
<1>4. CASE Alive
  <2>1. Sound(io) /\ Memory(hb) /\ Posts
    BY <1>4 DEF Alive
  <2>2. Kept(io, io') /\ Memory(hb')
    BY <1>1, <2>1, SoundKept
  <2>3. Posts'
    BY <1>1, <2>1 DEF Posts, Posted, Prepares, Dated, StopsWell
  <2>4. Alive'
    BY <1>1, <1>4, <2>2, <2>3, AliveStays
  <2> QED
    BY <1>2, <2>4 DEF Explained
<1> QED
  BY <1>3, <1>4 DEF ExplainInv, Explained

LEMMA ExplainNext == Careful /\ ExplainInv /\ [Next]_vars => ExplainInv'
<1> SUFFICES ASSUME Careful, ExplainInv, [Next]_vars PROVE ExplainInv'
  OBVIOUS
<1>1. TypeInv' /\ MatchInv'
  BY TypeNext, MatchNext DEF ExplainInv
<1>2. CASE Next
  BY <1>1, <1>2, ExplainedStep, MainFields, ClientFields, ReaderFields
  DEF ExplainInv, Next, ClientNext
<1> QED
  BY <1>1, <1>2, ExplainStutters DEF ExplainInv

(* A step into an error state, from the invariant. *)
LEMMA ErrorStep ==
  ASSUME Careful, ExplainInv, [Next]_vars, pwc.state \notin Errors, pwc'.state \in Errors
  PROVE  failed' \/ NoRoom
<1>1. Next
  BY DEF vars, pwcvars
<1>2. CASE failed
  BY <1>1, <1>2, FailedStays
<1>3. CASE Dead
  BY <1>3 DEF Dead, Errors
<1>4. CASE Gone
  <2>1. CASE MainNext
    BY <1>4, <2>1, GoneMain
  <2>2. CASE ReaderNext \/ \E c \in Clients : Send(c) \/ Command(c)
    <3>1. ASSUME NEW c \in Clients, Send(c) PROVE FALSE
      BY <1>4, <3>1 DEF Send, MaySend, Keeps, Careful, Gone, Transferring
    <3>2. CASE ReaderNext
      BY <3>2 DEF ReaderNext, ReadHeader, ReadBlock, ReadEnds, MainUnchanged, pwcvars
    <3>3. ASSUME NEW c \in Clients, Command(c) PROVE pwc'.state = pwc.state
      BY <3>3, CommandKeeps DEF ExplainInv
    <3> QED
      BY <2>2, <3>1, <3>2, <3>3
  <2> QED
    BY <1>1, <2>1, <2>2 DEF Next, ClientNext
<1>5. CASE Alive
  <2>1. CASE MainNext
    <3>1. failed' \/ NoRoom \/ Gone' \/ Alive'
      BY <1>5, <2>1, ExplainedMain DEF Ground, ExplainInv
    <3> QED
      BY <3>1 DEF Gone, Alive
  <2>2. CASE ClientNext \/ ReaderNext
    <3>1. Alive'
      BY <1>5, <2>2, AliveSend, AliveCommand, AliveReader DEF ExplainInv, ClientNext
    <3> QED
      BY <3>1 DEF Alive
  <2> QED
    BY <1>1, <2>1, <2>2 DEF Next
<1> QED
  BY <1>2, <1>3, <1>4, <1>5 DEF ExplainInv, Explained

(* A client that is alone and commands only what dada_pwc_main can do at the   *)
(* time it gets to it (its rules "any", "toggle", "short" and "timed") is told *)
(* of a new error only if a call of the instrument has failed, or if the Data  *)
(* Block, which has more than one block, had no room for what was fetched      *)
(* while UTC_START was unknown: no command that dada_pwc_command accepts, at   *)
(* whatever moment of the transfer it comes, makes a call on the Data Block or *)
(* the Header Block fail (the error paths of dada_pwc_main.c).                 *)
THEOREM CarefulClientErrors == Careful => (Spec => ErrorsExplained)
<1> SUFFICES ASSUME Careful PROVE Spec => ErrorsExplained
  OBVIOUS
<1>1. Init => ExplainInv
  BY TypeInit, MatchInit, AliveInit DEF ExplainInv, Explained
<1>2. ExplainInv /\ [Next]_vars => ExplainInv'
  BY ExplainNext
<1>3. ExplainInv /\ [Next]_vars =>
        [pwc.state \notin Errors /\ pwc'.state \in Errors =>
           \/ failed'
           \/ /\ m.pc \in {"fetch", "room"}
              /\ pwc'.state = "fatal_error"
              /\ ~m.utc_start_set
              /\ ipcio_space_left(io) < m'.buf_bytes]_vars
  BY ErrorStep DEF NoRoom
<1> QED
  BY <1>1, <1>2, <1>3, PTL DEF Spec, ErrorsExplained
=============================================================================
