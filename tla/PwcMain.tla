------------------------------ MODULE PwcMain -------------------------------
(***************************************************************************)
(* The transfer thread of a primary write client (dada_pwc_main.c), with the  *)
(* command threads of module Pwc on one side and, on the other, a Header      *)
(* Block and a Data Block (module IpcIo) that a read client empties.          *)
(*                                                                         *)
(* The samples the instrument delivers are numbered 1, 2, 3, ... and one      *)
(* byte is one sample.  The functions an instrument supplies (start_function, *)
(* buffer_function, stop_function, header_valid_function) choose among what   *)
(* they may return.                                                          *)
(***************************************************************************)
EXTENDS Pwc, IpcIo

CONSTANTS
  NHdr,        \* blocks of the Header Block
  BufSizes,    \* what buffer_function may return, in bytes
  MaxSample,   \* bound: samples the instrument delivers
  StartTime,   \* the time of the first sample, when the client gives none
  TellsUtc,    \* does start_function know the time of the first sample?
  NeedsUtc,    \* is there a header_valid_function that asks for UTC_START?
  Failures,    \* which of the instrument's functions may fail
  Slips        \* client: the rules it breaks, see May

ASSUME MainSizes ==
  /\ NHdr \in Nat \ {0}
  /\ BufSizes \subseteq Nat \ {0}
  /\ MaxSample \in Nat
  /\ StartTime \in Nat \ {0}
  /\ TellsUtc \subseteq BOOLEAN /\ TellsUtc # {}
  /\ NeedsUtc \in BOOLEAN

VARIABLES
  io,          \* the Data Block
  todo,        \* bytes of the ipcio_write in progress
  hb,          \* the Header Block
  m,           \* dada_pwc_main_t and the local variables of the main loop
  rd, hrd,     \* the read client, on the Data Block and the Header Block
  (* what really happened: not in the program, read by the properties only *)
  src,         \* samples delivered
  obs,         \* the first sample of each transfer to the PWC, and its time
  asked,       \* the recordings the clients asked for: from and to which time
  got,         \* the header and the samples of the transfer being read
  failed       \* did a function of the instrument fail?

datavars == <<io, todo, hb>>
readvars == <<rd, hrd, got>>
ghost == <<src, obs, asked, failed>>
vars == <<pwcvars, datavars, m, readvars, ghost>>

HB == INSTANCE IpcIo WITH NBufs <- NHdr, BufSz <- 1

Unknown == 0         \* UTC_START = UNKNOWN
Junk == 0            \* a byte beyond the instrument's buffer

(* dada_hdu_lock_write has locked the Header Block for writing and opened the  *)
(* Data Block, which Prepare closes again.                                   *)
Init ==
  /\ InitPwc
  /\ io = ipcio_open(InitIo, "W")
  /\ todo = <<>>
  /\ hb = [HB!InitIo EXCEPT !.state = "WCHANGE"]
  /\ m = [pc |-> "prepare", command |-> NoCommand, header |-> NoBuf,
          header_valid |-> FALSE, utc_start_set |-> FALSE,
          total |-> 0, transit |-> 0, to_write |-> 0,
          buffer |-> 1, buffer_size |-> 0, buf_bytes |-> 0]
  /\ rd = InitReader
  /\ hrd = HB!InitReader
  /\ src = 0
  /\ obs = <<>>
  /\ asked = <<>>
  /\ got = [header |-> <<>>, vals |-> <<>>]
  /\ failed = FALSE

ReadUnchanged == UNCHANGED readvars
NoClient == UNCHANGED <<call, calls>>

-----------------------------------------------------------------------------
(***************************************************************************)
(* Errors, and the end of a transfer.                                       *)
(***************************************************************************)

(* dada_pwc_main_process_error: the state to which an error leads *)
ErrorState(state, rval) ==
  CASE rval = "soft" -> IF state \in {"hard_error", "fatal_error"}
                          THEN state ELSE "soft_error"
    [] rval = "hard" -> IF state = "fatal_error" THEN state ELSE "hard_error"
    [] OTHER -> "fatal_error"

(* dada_pwc_main, after an error: the transfer thread goes to pc. *)
Error(p, rval, pc) ==
  /\ SetState(p, ErrorState(p.state, rval), 0)
  /\ m' = [m EXCEPT !.pc = pc]

(* The caller has seen the error that a call returned. *)
Ok(d) == [d EXCEPT !.err = FALSE]

(* dada_pwc_main_stop_transfer *)
StopTransfer ==
  /\ m.pc = "stop"
  /\ StopReady(io)
  /\ m' = [m EXCEPT !.pc = "fatal", !.header_valid = FALSE]
  /\ \E d \in {ipcio_close(io)} :
       /\ io' = Ok(d)
       /\ IF pwc.state \in Errors THEN UNCHANGED <<pwc, waiting>>
          ELSE SetState(pwc, IF d.err THEN "fatal_error" ELSE "idle", 0)
  /\ NoClient /\ ReadUnchanged /\ UNCHANGED <<todo, hb, ghost>>

StopFails ==
  /\ "stop" \in Failures
  /\ m.pc = "stop"
  /\ SetState(pwc, ErrorState(pwc.state, "hard"), 0)
  /\ m' = [m EXCEPT !.pc = "fatal", !.header_valid = FALSE]
  /\ failed' = TRUE
  /\ NoClient /\ ReadUnchanged /\ UNCHANGED <<datavars, src, obs, asked>>

(* The end of the loop of dada_pwc_main: in a fatal state, try to exit. *)
CheckFatal ==
  /\ m.pc = "fatal"
  /\ pwc' = [pwc EXCEPT !.quit = @ \/ pwc.state = "fatal_error"]
  /\ m' = [m EXCEPT !.pc = "prepare"]
  /\ NoClient /\ ReadUnchanged
  /\ UNCHANGED <<waiting, datavars, ghost>>

-----------------------------------------------------------------------------
(***************************************************************************)
(* dada_pwc_main_prepare: the idle and prepared states.                      *)
(***************************************************************************)

(* The loops over observations and over commands test quit, and so does        *)
(* dada_pwc_main when dada_pwc_main_prepare has returned.                    *)
Exit ==
  /\ m.pc \in {"prepare", "get", "start"}
  /\ Main \notin waiting
  /\ pwc.quit
  /\ m' = [m EXCEPT !.pc = "exit"]
  /\ NoClient /\ ReadUnchanged
  /\ UNCHANGED <<pwc, waiting, datavars, ghost>>

(* A Header Block is obtained each time, whatever became of the last one. *)
Prepare ==
  /\ m.pc = "prepare"
  /\ ~pwc.quit
  /\ HB!GetReady(hb)
  /\ hb' = HB!ipcbuf_get_next_write(hb)
  /\ io.rdwrt # "0" => StopReady(io)
  /\ \E d \in {IF io.rdwrt # "0" THEN ipcio_close(io) ELSE io} :
       /\ io' = Ok(d)
       /\ m' = [m EXCEPT !.pc = IF d.err THEN "fatal" ELSE "get",
                         !.header = hb.w_buf_next % NHdr]
       /\ IF d.err THEN SetState(pwc, ErrorState(pwc.state, "hard"), 0)
                   ELSE UNCHANGED <<pwc, waiting>>
  /\ NoClient /\ ReadUnchanged /\ UNCHANGED <<todo, ghost>>

(* dada_pwc_command_get waits for a command *)
GetWait ==
  /\ m.pc = "get"
  /\ ~pwc.quit
  /\ Main \notin waiting
  /\ pwc.command.code = "none"
  /\ waiting' = waiting \cup {Main}
  /\ NoClient /\ ReadUnchanged
  /\ UNCHANGED <<pwc, m, datavars, ghost>>

(* ... or takes one. *)
Get ==
  /\ m.pc = "get"
  /\ Main \notin waiting
  /\ pwc.command.code # "none"
  /\ m' = [m EXCEPT !.command = pwc.command, !.pc = "handle"]
  /\ pwc' = CommandGot(pwc)
  /\ NoClient /\ ReadUnchanged
  /\ UNCHANGED <<waiting, datavars, ghost>>

(* The command is carried out; the state may no longer be the one in which    *)
(* it was accepted.  The header copied is the one in dada_pwc_t by now.       *)
Handling(codes) ==
  /\ m.pc = "handle"
  /\ ~pwc.quit
  /\ m.command.code \in codes
  /\ NoClient /\ ReadUnchanged /\ UNCHANGED <<todo, ghost>>

HandleIdle ==
  /\ Handling({"reset", "stop"})
  /\ SetState(pwc, "idle", 0)
  /\ m' = [m EXCEPT !.pc = "get"]
  /\ UNCHANGED <<io, hb>>

HandleHeader ==
  /\ Handling({"header"})
  /\ hb' = [hb EXCEPT !.mem[m.header][0] = [h |-> pwc.header, utc |-> Unknown]]
  /\ SetState(pwc, "prepared", 0)
  /\ m' = [m EXCEPT !.pc = "get"]
  /\ UNCHANGED io

HandleStart ==
  /\ Handling({"clock", "start"})
  /\ \E d \in {ipcio_open(io, IF m.command.code = "clock" THEN "w" ELSE "W")} :
       /\ io' = Ok(d)
       /\ IF d.err THEN Error(pwc, "hard", "fatal")
          ELSE m' = [m EXCEPT !.pc = "start"] /\ UNCHANGED <<pwc, waiting>>
  /\ UNCHANGED hb

HandleUnexpected ==
  /\ Handling({"rec_start", "rec_stop", "set_utc_start", "exit"})
  /\ Error(pwc, "hard", "fatal")
  /\ UNCHANGED <<io, hb>>

HandleQuit ==
  /\ m.pc = "handle"
  /\ pwc.quit
  /\ m' = [m EXCEPT !.pc = "exit"]
  /\ NoClient /\ ReadUnchanged
  /\ UNCHANGED <<pwc, waiting, datavars, ghost>>

-----------------------------------------------------------------------------
(***************************************************************************)
(* dada_pwc_main_start_transfer.                                            *)
(***************************************************************************)

SetUtc(h, utc) == [h EXCEPT !.mem[m.header][0].utc = utc]

(* header_valid_function, or 1 if there is none *)
Valid(h, b) == NeedsUtc => h.mem[b][0].utc # Unknown

(* mutant: the header is never handed over *)
PublishNever(h, b) == h

(* The header is handed over to the readers if it is valid. *)
Publish(h, b) == IF Valid(h, b) THEN HB!ipcbuf_mark_filled(h, 1) ELSE h

Time0 == IF m.command.utc # 0 THEN m.command.utc ELSE StartTime

Start ==
  \E tells \in TellsUtc :
    LET utc == IF tells THEN Time0 ELSE Unknown
        h == SetUtc(hb, utc)
        p == [pwc EXCEPT !.utc_start = IF utc > 0 THEN utc ELSE @]
        starts == m.command.code = "start"
        new == IF starts THEN "recording" ELSE "clocking"
        started == [m EXCEPT !.header_valid = IF starts THEN Valid(h, m.header) ELSE @,
                             !.utc_start_set = tells,
                             !.total = 0,
                             !.transit = m.command.byte_count,
                             !.to_write = m.command.byte_count,
                             !.buffer_size = 0,
                             !.buf_bytes = 0]
    IN /\ m.pc = "start"
       /\ ~pwc.quit
       /\ hb' = IF starts THEN Publish(h, m.header) ELSE h
       /\ io' = ipcbuf_set_soclock_buf(io)
       /\ IF MayChange(p.state, new)
            THEN SetState(p, new, utc) /\ m' = [started EXCEPT !.pc = "loop"]
            ELSE /\ SetState(p, ErrorState(p.state, "soft"), 0)
                 /\ m' = [started EXCEPT !.pc = "stop"]
       /\ obs' = Append(obs, [first |-> src + 1, utc |-> Time0])
       /\ NoClient /\ ReadUnchanged /\ UNCHANGED <<todo, src, asked, failed>>

StartFails ==
  /\ "start" \in Failures
  /\ m.pc = "start"
  /\ ~pwc.quit
  /\ Error(pwc, "hard", "stop")
  /\ failed' = TRUE
  /\ NoClient /\ ReadUnchanged /\ UNCHANGED <<datavars, src, obs, asked>>

-----------------------------------------------------------------------------
(***************************************************************************)
(* dada_pwc_main_transfer_data: the loop of the clocking and recording states. *)
(***************************************************************************)

(* Is there more to write before the state changes? *)
Body(n) == [n EXCEPT !.pc = IF n.transit = 0 \/ n.to_write # 0 THEN "fetch"
                                                             ELSE "check"]

Polling == m.pc = "loop" /\ NoClient /\ ReadUnchanged

PollQuit ==
  /\ Polling
  /\ pwc.quit
  /\ m' = [m EXCEPT !.pc = "stop"]
  /\ UNCHANGED <<pwc, waiting, datavars, ghost>>

PollNone ==
  /\ Polling
  /\ ~pwc.quit
  /\ pwc.command.code = "none"
  /\ m' = Body(m)
  /\ UNCHANGED <<pwc, waiting, datavars, ghost>>

Polled(codes) ==
  /\ Polling
  /\ ~pwc.quit
  /\ pwc.command.code \in codes

(* set_utc_start takes the place of a command that is still to be carried    *)
(* out, also when it is ignored.                                             *)
PollUtc ==
  LET ignored == m.utc_start_set
      h == SetUtc(hb, pwc.command.utc)
      recording == pwc.state = "recording"
      n == [m EXCEPT !.command = pwc.command, !.utc_start_set = TRUE]
  IN /\ Polled({"set_utc_start"})
     /\ hb' = CASE ignored -> hb
                [] ~ignored /\ recording -> Publish(h, m.header)
                [] OTHER -> h
     /\ m' = Body(IF ~ignored /\ recording
                    THEN [n EXCEPT !.header_valid = Valid(h, m.header)] ELSE n)
     /\ pwc' = CommandGot(pwc)
     /\ Signal
     /\ UNCHANGED <<io, todo, ghost>>

(* A command for a later byte is carried out there, any other now. *)
PollDated ==
  LET cmd == pwc.command
      later == cmd.byte_count > m.total
      now == IF m.total = 0 THEN 1 ELSE m.total
      n == [m EXCEPT !.command = cmd]
  IN /\ Polled({"rec_start", "rec_stop", "stop"})
     /\ m' = Body(IF later
                    THEN [n EXCEPT !.transit = cmd.byte_count,
                                   !.to_write = cmd.byte_count - m.total]
                    ELSE [n EXCEPT !.total = now, !.transit = now, !.to_write = 0])
     /\ pwc' = CommandGot(pwc)
     /\ asked' = IF cmd.code \in Stops /\ ~later /\ pwc.state = "recording"
                   THEN [asked EXCEPT ![Len(asked)].to = 0] ELSE asked
     /\ UNCHANGED <<waiting, datavars, src, obs, failed>>

PollUnexpected ==
  /\ Polled({"header", "clock", "start", "reset", "exit"})
  /\ SetState(CommandGot(pwc), ErrorState(pwc.state, "hard"), 0)
  /\ m' = [m EXCEPT !.command = pwc.command, !.pc = "stop"]
  /\ UNCHANGED <<datavars, ghost>>

(* The instrument delivers size bytes; no more of them than are to be written *)
(* before the state changes are written now.                                 *)
ipcio_space_left(d) == (NBufs - d.FULL) * BufSz

(* mutant: whether or not UTC_START is known *)
FullAnyUtc(bytes) == ipcio_space_left(io) < bytes

FullWithoutUtc(bytes) == ~m.utc_start_set /\ ipcio_space_left(io) < bytes

Late == ~m.header_valid /\ pwc.state = "recording"

Fetch(size) ==
  LET bytes == IF m.transit # 0 /\ size > m.to_write THEN m.to_write ELSE size
      n == [m EXCEPT !.buffer = src + 1, !.buffer_size = size, !.buf_bytes = bytes,
                     !.header_valid = @ \/ (Late /\ Valid(hb, m.header))]
  IN /\ m.pc = "fetch"
     /\ src + size <= MaxSample
     /\ src' = src + size
     /\ hb' = IF Late THEN Publish(hb, m.header) ELSE hb
     /\ IF FullWithoutUtc(bytes)
          THEN /\ SetState(pwc, "fatal_error", 0)
               /\ m' = [n EXCEPT !.pc = "stop"]
               /\ UNCHANGED todo
          ELSE /\ todo' = [i \in 1 .. bytes |-> src + i]
               /\ m' = [n EXCEPT !.pc = "write"]
               /\ UNCHANGED <<pwc, waiting>>
     /\ NoClient /\ ReadUnchanged /\ UNCHANGED <<io, obs, asked, failed>>

(* buffer_function returns an error, or no buffer *)
FetchFails ==
  \E rval \in Failures \cap {"soft", "hard", "fatal"} :
    /\ m.pc = "fetch"
    /\ Error(pwc, rval, "stop")
    /\ failed' = TRUE
    /\ NoClient /\ ReadUnchanged /\ UNCHANGED <<datavars, src, obs, asked>>

(* ... or no bytes: one is written, so that a reader is not left waiting. *)
FetchNothing ==
  /\ "nothing" \in Failures
  /\ m.pc = "fetch"
  /\ todo' = <<Junk>>
  /\ m' = [m EXCEPT !.pc = "last", !.buffer_size = 0]
  /\ failed' = TRUE
  /\ NoClient /\ ReadUnchanged /\ UNCHANGED <<pwc, waiting, io, hb, src, obs, asked>>

(* ipcio_write.  An error is not noticed in the rest of a buffer, where the   *)
(* -1 returned is compared with an unsigned number.                          *)
WriteStep(d, rest) ==
  /\ io' = Ok(d)
  /\ todo' = IF d.err THEN <<>> ELSE rest
  /\ IF d.err /\ m.pc # "rest"
       THEN Error(pwc, IF m.pc = "last" THEN "hard" ELSE "fatal", "stop")
       ELSE UNCHANGED <<pwc, waiting, m>>
  /\ NoClient /\ ReadUnchanged /\ UNCHANGED <<hb, ghost>>

Write ==
  /\ todo # <<>>
  /\ m.pc \in {"write", "rest", "last"}
  /\ \/ /\ io.bytes = BufSz
        /\ \E d \in {WriteFull(io)} : WriteStep(d, todo)
     \/ /\ io.bytes # BufSz /\ io.curbuf = NoBuf
        /\ GetReady(io)
        /\ \E d \in {WriteGet(io)} : WriteStep(d, todo)
     \/ /\ io.bytes # BufSz /\ io.curbuf # NoBuf
        /\ \E d \in {WriteCopy(io, todo)} :
             WriteStep(d, SubSeq(todo, Space(io, todo) + 1, Len(todo)))

Written ==
  /\ todo = <<>>
  /\ \/ /\ m.pc = "write"
        /\ m' = [m EXCEPT !.pc = "check", !.total = @ + m.buf_bytes,
                          !.to_write = IF @ # 0 THEN @ - m.buf_bytes ELSE 0]
        /\ UNCHANGED <<pwc, waiting>>
     \/ /\ m.pc = "rest"
        /\ m' = [m EXCEPT !.pc = "loop", !.total = @ + m.buf_bytes]
        /\ UNCHANGED <<pwc, waiting>>
     \/ m.pc = "last" /\ Error(pwc, "hard", "stop")
  /\ NoClient /\ ReadUnchanged /\ UNCHANGED <<datavars, ghost>>

-----------------------------------------------------------------------------
(***************************************************************************)
(* The state changes when the byte of the last command has been written.     *)
(***************************************************************************)

(* mutant: one byte too late *)
ReachedAfter == m.transit # 0 /\ m.transit < m.total

Reached == m.transit # 0 /\ m.transit <= m.total

Checking(codes) ==
  /\ m.pc = "check"
  /\ Reached
  /\ m.command.code \in codes
  /\ NoClient /\ ReadUnchanged

NotReached ==
  /\ m.pc = "check"
  /\ ~Reached
  /\ m' = [m EXCEPT !.pc = "loop"]
  /\ NoClient /\ ReadUnchanged /\ UNCHANGED <<pwc, waiting, datavars, ghost>>

(* mutant: the rest of the instrument's buffer is dropped *)
RestDropped(n, p, new) ==
  /\ m' = [n EXCEPT !.pc = "room", !.transit = 0,
                    !.buffer = @ + n.buf_bytes, !.buf_bytes = 0]
  /\ todo' = <<>>
  /\ SetState(p, new, 0)

(* mutant: the same number of bytes, from the beginning of the buffer *)
RestAgain(n, p, new) ==
  LET bytes == n.buffer_size - n.buf_bytes
  IN /\ m' = [n EXCEPT !.pc = "room", !.transit = 0, !.buf_bytes = bytes]
     /\ todo' = [i \in 1 .. bytes |-> n.buffer + i - 1]
     /\ SetState(p, new, 0)

(* After a change of state the rest of the instrument's buffer is written.   *)
(* If no buffer was fetched since the last change, that lies beyond its end.  *)
Rest(n, p, new) ==
  LET bytes == n.buffer_size - n.buf_bytes
      from == n.buffer + n.buf_bytes
  IN /\ m' = [n EXCEPT !.pc = "room", !.transit = 0,
                       !.buffer = from, !.buf_bytes = bytes]
     /\ todo' = [i \in 1 .. bytes |-> LET v == from + i - 1 IN
                                     IF v <= src THEN v ELSE Junk]
     /\ SetState(p, new, 0)

RecStop ==
  /\ Checking({"rec_stop"})
  /\ StopReady(io)
  /\ \E d \in {ipcio_stop(io)} :
       /\ io' = Ok(d)
       /\ IF d.err THEN Error(pwc, "fatal", "stop") /\ UNCHANGED todo
                   ELSE Rest(m, pwc, "clocking")
  /\ UNCHANGED <<hb, ghost>>

(* mutant: the start of the transfer in the ring is forgotten *)
StartByteOrigin(d, cmd) == cmd.byte_count

(* The byte of the Data Block at which a recording is to start. *)
StartByte(d, cmd) == d.soclock_buf * BufSz + cmd.byte_count

(* gmtime, for a command without a time, gives 1970. *)
Epoch == -1
Gmtime(utc) == IF utc = 0 THEN Epoch ELSE utc

(* dada_pwc_main_record_start.  The header block obtained may be another one  *)
(* than the header is in; ipcbuf_mark_filled hands over the earliest.         *)
RecStart ==
  LET least == ipcio_get_start_minimum(io)
      late == StartByte(io, m.command) < least
      byte == IF late THEN least ELSE StartByte(io, m.command)
      b == hb.w_buf_next % NHdr
      head == [h |-> hb.mem[m.header][0].h, utc |-> Gmtime(m.command.utc)]
      n == [m EXCEPT !.header = b,
                     !.command.byte_count =
                        IF late THEN least - io.soclock_buf * BufSz ELSE @]
  IN /\ Checking({"rec_start"})
     /\ HB!GetReady(hb)
     /\ \E d \in {ipcio_start(io, byte)},
           h \in {[HB!ipcbuf_get_next_write(hb) EXCEPT !.mem[b][0] = head]} :
          /\ io' = Ok(d)
          /\ IF d.err
               THEN /\ SetState(pwc, ErrorState(pwc.state, "hard"), 0)
                    /\ m' = [n EXCEPT !.pc = "stop"]
                    /\ hb' = h
                    /\ UNCHANGED todo
               ELSE /\ hb' = IF m.header_valid THEN h ELSE Publish(h, b)
                    /\ Rest([n EXCEPT !.header_valid = TRUE], pwc, "recording")
     /\ asked' = IF late THEN [asked EXCEPT ![Len(asked)].late = TRUE] ELSE asked
     /\ UNCHANGED <<src, obs, failed>>

CheckStop ==
  /\ Checking({"stop"})
  /\ m' = [m EXCEPT !.pc = "stop", !.transit = 0]
  /\ UNCHANGED <<pwc, waiting, datavars, ghost>>

(* A duration given to start, or a command overtaken by set_utc_start. *)
CheckUnexpected ==
  /\ Checking({"set_utc_start", "clock", "start"})
  /\ Error(pwc, "hard", "stop")
  /\ UNCHANGED <<datavars, ghost>>

(* The rest is written only if there is room, or UTC_START is known. *)
Room ==
  /\ m.pc = "room"
  /\ IF m.buf_bytes # 0 /\ FullWithoutUtc(m.buf_bytes)
       THEN todo' = <<>> /\ Error(pwc, "fatal", "stop")
       ELSE m' = [m EXCEPT !.pc = "rest"] /\ UNCHANGED <<pwc, waiting, todo>>
  /\ NoClient /\ ReadUnchanged /\ UNCHANGED <<io, hb, ghost>>

-----------------------------------------------------------------------------
(***************************************************************************)
(* A read client: it reads a header, then the transfer that belongs to it to *)
(* its end, then waits for the next header.                                  *)
(***************************************************************************)

MainUnchanged == UNCHANGED <<pwcvars, todo, m, ghost>>

ReadHeader ==
  /\ got.header = <<>>
  /\ HB!ReadReady(hrd, hb)
  /\ \E g \in {HB!ipcbuf_get_next_read(hrd, hb)} :
       /\ got' = [got EXCEPT !.header = <<hb.mem[g.curbuf][0]>>]
       /\ hrd' = HB!ipcbuf_mark_cleared(g, hb)
  /\ hb' = HB!Cleared(HB!Taken(hb))
  /\ MainUnchanged /\ UNCHANGED <<io, rd>>

ReadBlock ==
  /\ got.header # <<>>
  /\ ReadReady(rd, io)
  /\ \E g \in {ipcbuf_get_next_read(rd, io)} :
       /\ got' = [got EXCEPT !.vals = @ \o Peek(g, io, g.curbufsz)]
       /\ rd' = ipcbuf_mark_cleared(g, io)
  /\ io' = Cleared(Taken(io))
  /\ MainUnchanged /\ UNCHANGED <<hb, hrd>>

ReadEnds ==
  /\ rd.state = "RSTOP"
  /\ rd' = ipcbuf_reset(rd)
  /\ got' = [header |-> <<>>, vals |-> <<>>]
  /\ MainUnchanged /\ UNCHANGED <<io, hb, hrd>>

-----------------------------------------------------------------------------
(***************************************************************************)
(* The clients, and the rules a careful one keeps.                           *)
(***************************************************************************)

Transferring == {"loop", "fetch", "write", "check"}

(* The rules:                                                              *)
(*   "any"     one command at a time, one the state permits, a true time     *)
(*   "toggle"  one recording between clock and stop                          *)
(*   "hasty"   data flow between two changes of state                        *)
(*   "short"   a recording starts in a block of its own, not the first, and is *)
(*             not stopped before it has begun there; and clocking leads to one *)
(*   "timed"   no duration is given: a start that has one ends in an error     *)
Keeps(rule) == rule \notin Slips

NextFree == IF io.w_xfer = 0 THEN BufSz
                             ELSE (io.xfers[io.w_xfer].e_buf + 1) * BufSz

MaySend(cmd) ==
  /\ Keeps("any") =>
       /\ m.pc \in {"get"} \cup Transferring
       /\ m.transit = 0 \/ m.pc = "get"
       /\ pwc.command.code = "none"
       /\ cmd # NoCommand /\ Accepted(cmd.code, pwc.state)
       /\ cmd.code = "stop" => pwc.state \in {"clocking", "recording"}
       /\ cmd.code = "set_utc_start" => ~m.utc_start_set /\ cmd.utc = Last(obs).utc
       /\ cmd.code \in {"rec_start"} \cup Stops => m.utc_start_set
  /\ Keeps("toggle") /\ cmd.code = "rec_start" => ~m.header_valid
  /\ Keeps("hasty") /\ cmd.code \in {"rec_start", "rec_stop"} =>
       m.buf_bytes = m.buffer_size
  /\ Keeps("short") /\ cmd.code = "rec_start" => StartByte(io, cmd) >= NextFree
  /\ Keeps("short") /\ cmd.code \in Stops =>
       IF pwc.state = "recording" THEN io.state = "WRITING" ELSE io.w_xfer > 0
  /\ Keeps("timed") => cmd.code # "duration"

Others == UNCHANGED <<datavars, m, readvars, src, obs, failed>>

Send(c) == Sends(c) /\ MaySend(call'[c]) /\ Others /\ UNCHANGED asked

(* What a command that is accepted asks for. *)
Asks(cmd) ==
  CASE cmd.code \in {"start", "rec_start"} ->
         Append(asked, [from |-> cmd.utc, to |-> 0, late |-> FALSE])
    [] cmd.code \in Stops /\ pwc.state = "recording" ->
         [asked EXCEPT ![Len(asked)].to = cmd.utc]
    [] OTHER -> asked

Command(c) ==
  \/ CommandWait(c) /\ UNCHANGED asked /\ Others
  \/ CommandRefused(c) /\ UNCHANGED asked /\ Others
  \/ DurationSet(c) /\ UNCHANGED asked /\ Others
  \/ dada_pwc_command_set(c) /\ asked' = Asks(call[c]) /\ Others

ClientNext == \E c \in Clients : Send(c) \/ Command(c)

MainNext ==
  \/ Prepare \/ Exit \/ GetWait \/ Get
  \/ HandleIdle \/ HandleHeader \/ HandleStart \/ HandleUnexpected \/ HandleQuit
  \/ Start \/ StartFails
  \/ PollQuit \/ PollNone \/ PollUtc \/ PollDated \/ PollUnexpected
  \/ \E size \in BufSizes : Fetch(size)
  \/ FetchFails \/ FetchNothing \/ Write \/ Written
  \/ NotReached \/ RecStop \/ RecStart \/ CheckStop \/ CheckUnexpected \/ Room
  \/ StopTransfer \/ StopFails \/ CheckFatal

ReaderNext == ReadHeader \/ ReadBlock \/ ReadEnds

Next == ClientNext \/ MainNext \/ ReaderNext

Spec == Init /\ [][Next]_vars

(* The threads run: a call in progress, the transfer thread, the reader.  The *)
(* instrument goes on delivering data, up to the bound.                      *)
FairSpec ==
  /\ Spec
  /\ WF_vars(MainNext)
  /\ WF_vars(ReaderNext)
  /\ \A c \in Clients : WF_vars(Command(c))

-----------------------------------------------------------------------------
(***************************************************************************)
(* Properties.                                                             *)
(***************************************************************************)

(* Type invariant. *)
TypeOK ==
  /\ pwc.state \in States
  /\ pwc.command.byte_count \in Nat
  /\ waiting \subseteq Clients \cup {Main}
  /\ m.transit \in Nat /\ m.to_write \in Nat /\ m.total \in Nat
  /\ m.pc \in Transferring \cup {"room", "rest"} => m.buf_bytes \in 0 .. m.buffer_size
  /\ m.to_write # 0 => m.total + m.to_write = m.transit
  /\ io.bytes \in 0 .. BufSz
  /\ io.FULL \in Nat /\ io.CLEAR \in Nat
  /\ ~io.err /\ ~hb.err

(* The state a client is told is that of the Data Block: data are flagged     *)
(* valid when the state is recording, and the block is closed when the client *)
(* may send a header (dada_pwc_main_transfer_data, _stop_transfer).           *)
StateMatchesData ==
  /\ m.pc \in Transferring \cup {"rest", "room"} =>
       pwc.state = IF io.rdwrt = "W" THEN "recording" ELSE "clocking"
  /\ m.pc = "get" => io.rdwrt = "0"

(* dada_pwc.h: the transfer thread waits only while there is no command. *)
MainAwake == Main \in waiting => pwc.command.code = "none"

(* The time of a sample, in bytes. *)
Stamp(v) ==
  LET o == Last(SelectSeq(obs, LAMBDA x : x.first <= v))
  IN o.utc * Bps + v - o.first

(* The samples a reader gets in one transfer are consecutive samples of the   *)
(* instrument: none is lost, repeated or made up where the state changes.     *)
StreamExact ==
  /\ \A i \in DOMAIN got.vals : got.vals[i] # Junk
  /\ \A i \in 2 .. Len(got.vals) : got.vals[i] = got.vals[i - 1] + 1

(* What was asked of the transfer being read. *)
Asked == asked[IF rd.state = "RSTOP" THEN rd.r_xfer ELSE rd.r_xfer + 1]

(* The UTC_START in the header a reader gets with a transfer is the time of    *)
(* its first sample (dada_pwc_main_start_transfer, _record_start), unless the  *)
(* samples of that time were no longer in the Data Block.                     *)
HeaderTrue ==
  got.vals # <<>> =>
    Asked.late \/ got.header[1].utc * Bps = Stamp(got.vals[1])

(* A recording covers the times that were asked for, unless the command came  *)
(* too late for them.                                                        *)
RecordedAsAsked ==
  rd.state = "RSTOP" /\ got.vals # <<>> =>
    /\ Asked.from # 0 /\ ~Asked.late => Stamp(got.vals[1]) = Asked.from * Bps
    /\ Asked.to # 0 => Stamp(Last(got.vals)) + 1 = Asked.to * Bps

(* Every recording that has ended is read to its end: a header was published  *)
(* for it and the data after it.                                             *)
RecordingsRead ==
  (io.w_xfer > rd.r_xfer) ~> (io.w_xfer = rd.r_xfer \/ pwc.state = "fatal_error")

AtBound == src + Min(BufSizes) > MaxSample

(* A stop that was accepted is carried out, though the transfer thread may be  *)
(* blocked on a full Data Block.                                             *)
StopHonoured ==
  (pwc.command.code = "stop") ~> (pwc.state \in {"idle"} \cup Errors \/ AtBound)

(* A client that keeps the rules is told of a new error only if a function of  *)
(* the instrument has failed, or if the buffer that was fetched, or the rest of *)
(* it, does not fit into the Data Block while UTC_START is unknown: no other   *)
(* error path of dada_pwc_main is taken for it.                              *)
ErrorsExplained ==
  [][pwc.state \notin Errors /\ pwc'.state \in Errors =>
       \/ failed'
       \/ /\ m.pc \in {"fetch", "room"}
          /\ pwc'.state = "fatal_error"
          /\ ~m.utc_start_set
          /\ ipcio_space_left(io) < m'.buf_bytes]_vars

(* An error state is left only when a client resets it or sends stop: no path  *)
(* through the end of a transfer, its close and the next preparation clears it, *)
(* whichever of their steps fail again.                                       *)
ErrorsStay ==
  [][pwc.state \in Errors /\ pwc'.state # pwc.state =>
       m.pc = "handle" /\ m.command.code \in {"reset", "stop"}]_vars

=============================================================================
