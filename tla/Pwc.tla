-------------------------------- MODULE Pwc ---------------------------------
(***************************************************************************)
(* The control connection of a primary write client (dada_pwc.c): client      *)
(* threads hand one command at a time to the thread that moves the data.      *)
(* They share a mutex and ONE condition variable, signalled with              *)
(* pthread_cond_signal, which wakes one of the threads that wait, whichever.  *)
(*                                                                         *)
(* Much of the state is written outside the mutex; a command is therefore    *)
(* two steps: what the parser's thread does before it takes the mutex, and    *)
(* the critical section.                                                     *)
(***************************************************************************)
EXTENDS Integers, Sequences

CONSTANTS
  Clients,     \* threads of the command server, one per connection
  Codes,       \* the commands they send
  Utcs,        \* the times they give: seconds, 0 is "now"
  Headers,     \* the headers they give
  Bps,         \* bytes_per_second, as the headers give it
  Resolution,  \* byte_resolution
  Durations,   \* the durations they give, in bytes
  MaxCalls     \* bound: commands sent

ASSUME PwcSizes ==
  /\ Utcs \subseteq Nat
  /\ Bps \in Nat \ {0}
  /\ Resolution \in Nat
  /\ Durations \subseteq Nat \ {0}
  /\ MaxCalls \in Nat

VARIABLES
  pwc,         \* dada_pwc_t
  waiting,     \* threads in pthread_cond_wait
  call,        \* the command each client's thread is about to set, or none
  calls        \* commands sent

pwcvars == <<pwc, waiting, call, calls>>

Main == "main"

ASSUME MainIsNoClient == Main \notin Clients

Errors == {"soft_error", "hard_error", "fatal_error"}
States == {"idle", "prepared", "clocking", "recording"} \cup Errors

NoCommand == [code |-> "none", utc |-> 0, byte_count |-> 0]

(* dada_pwc_create.  It leaves command.byte_count as malloc gave it; a command *)
(* that is accepted sets it before the state is one in which start, the only  *)
(* reader of it, is accepted.                                                *)
InitPwc ==
  /\ pwc = [state |-> "idle", command |-> NoCommand, utc_start |-> 0,
            bytes_per_second |-> 0, header |-> 0, quit |-> FALSE]
  /\ waiting = {}
  /\ call = [c \in Clients |-> NoCommand]
  /\ calls = 0

(* mutant: no thread is woken *)
SignalNobody == UNCHANGED waiting

(* pthread_cond_signal *)
Signal ==
  \/ waiting = {} /\ waiting' = {}
  \/ \E t \in waiting : waiting' = waiting \ {t}

-----------------------------------------------------------------------------
(***************************************************************************)
(* The clients.                                                            *)
(***************************************************************************)

Stops == {"rec_stop", "stop"}

(* Down to the start of a packet; for the stops, to the end of it. *)
Round(code, n) ==
  IF Resolution > 1
  THEN (n \div Resolution) * Resolution + IF code \in Stops THEN Resolution ELSE 0
  ELSE n

(* dada_pwc_command_set_byte_count refuses a time it cannot convert. *)
CanConvert(p, utc) == utc = 0 \/ (p.utc_start # 0 /\ p.bytes_per_second # 0)

dada_pwc_command_set_byte_count(p, code, utc) ==
  IF utc = 0 \/ utc < p.utc_start THEN [NoCommand EXCEPT !.code = code]
  ELSE [code |-> code, utc |-> utc,
        byte_count |-> Round(code, (utc - p.utc_start) * p.bytes_per_second)]

(* The commands, up to dada_pwc_command_set.  What they have written to      *)
(* dada_pwc_t by then stays, whether or not the command is accepted.         *)
Begin(c, cmd, p) ==
  /\ call[c] = NoCommand
  /\ calls < MaxCalls
  /\ calls' = calls + 1
  /\ call' = [call EXCEPT ![c] = cmd]
  /\ pwc' = p
  /\ UNCHANGED waiting

cmd_header(c, h) ==
  Begin(c, [NoCommand EXCEPT !.code = "header"],
        [pwc EXCEPT !.bytes_per_second = Bps, !.header = h])

cmd_duration(c, bytes) ==
  /\ pwc.bytes_per_second # 0
  /\ Begin(c, [NoCommand EXCEPT !.code = "duration", !.byte_count = bytes], pwc)

(* clock and reset have no argument *)
cmd_plain(c, code) == Begin(c, [NoCommand EXCEPT !.code = code], pwc)

(* rec_start and rec_stop need a time, stop may have one. *)
cmd_dated(c, code, utc) ==
  /\ utc # 0 \/ code = "stop"
  /\ CanConvert(pwc, utc)
  /\ Begin(c, dada_pwc_command_set_byte_count(pwc, code, utc), pwc)

cmd_start(c, utc) ==
  Begin(c, [code |-> "start", utc |-> utc,
            byte_count |-> pwc.command.byte_count], pwc)

(* The time is taken even if the command is then refused. *)
cmd_set_utc_start(c, utc) ==
  LET p == [pwc EXCEPT !.utc_start = utc] IN
  /\ utc # 0
  /\ Begin(c, IF CanConvert(p, utc)
                THEN dada_pwc_command_set_byte_count(p, "set_utc_start", utc)
                ELSE NoCommand, p)

cmd_quit(c) ==
  Begin(c, [NoCommand EXCEPT !.code = "exit"], [pwc EXCEPT !.quit = TRUE])

(* The state in which dada_pwc_command_set accepts a command. *)
Accepted(code, state) ==
  CASE code \in {"header", "exit"} -> state = "idle"
    [] code \in {"clock", "start"} -> state = "prepared"
    [] code = "rec_start" -> state = "clocking"
    [] code = "rec_stop" -> state = "recording"
    [] code = "set_utc_start" -> state \in {"clocking", "recording"}
    [] code = "reset" -> state \in {"soft_error", "hard_error"}
    [] code = "duration" -> state # "recording"
    [] OTHER -> TRUE

InCall(c) == call[c] # NoCommand /\ c \notin waiting

Returns(c) == call' = [call EXCEPT ![c] = NoCommand] /\ UNCHANGED calls

(* while (command.code != no_command) pthread_cond_wait *)
CommandWait(c) ==
  /\ InCall(c)
  /\ pwc.command.code # "none"
  /\ waiting' = waiting \cup {c}
  /\ UNCHANGED <<pwc, call, calls>>

CommandRefused(c) ==
  /\ InCall(c)
  /\ pwc.command.code = "none"
  /\ ~Accepted(call[c].code, pwc.state)
  /\ Returns(c)
  /\ UNCHANGED <<pwc, waiting>>

dada_pwc_command_set(c) ==
  /\ InCall(c)
  /\ call[c].code # "duration"
  /\ pwc.command.code = "none"
  /\ Accepted(call[c].code, pwc.state)
  /\ pwc' = [pwc EXCEPT !.command = call[c]]
  /\ Signal
  /\ Returns(c)

(* The duration is left in the empty slot, for the start that follows. *)
DurationSet(c) ==
  /\ InCall(c)
  /\ call[c].code = "duration"
  /\ pwc.command.code = "none"
  /\ Accepted("duration", pwc.state)
  /\ pwc' = [pwc EXCEPT !.command = [code |-> "none", utc |-> pwc.command.utc,
                                     byte_count |-> call[c].byte_count]]
  /\ Returns(c)
  /\ UNCHANGED waiting

Sends(c) ==
  \/ "header" \in Codes /\ \E h \in Headers : cmd_header(c, h)
  \/ "duration" \in Codes /\ \E n \in Durations : cmd_duration(c, n)
  \/ \E code \in Codes \cap {"clock", "reset"} : cmd_plain(c, code)
  \/ \E code \in Codes \cap {"rec_start", "rec_stop", "stop"}, u \in Utcs :
       cmd_dated(c, code, u)
  \/ "start" \in Codes /\ \E u \in Utcs : cmd_start(c, u)
  \/ "set_utc_start" \in Codes /\ \E u \in Utcs : cmd_set_utc_start(c, u)
  \/ "quit" \in Codes /\ cmd_quit(c)

-----------------------------------------------------------------------------
(***************************************************************************)
(* What the transfer thread calls.                                          *)
(***************************************************************************)

(* dada_pwc_command_get, when there is a command; nobody is signalled. *)
CommandGot(p) == [p EXCEPT !.command.code = "none", !.command.byte_count = 0]

(* mutant: an error state can be left for any state *)
MayChangeAny(old, new) == old # "fatal_error"

(* mutant: a recording that was clocked before cannot begin *)
MayChangeNotToRecording(old, new) ==
  CASE old = "idle" -> new \in {"prepared"} \cup Errors
    [] old \in {"prepared", "recording"} -> new # old
    [] old = "clocking" -> new \in {"idle"} \cup Errors
    [] old \in {"soft_error", "hard_error"} -> new = "idle"
    [] OTHER -> FALSE

(* The changes dada_pwc_set_state permits. *)
MayChange(old, new) ==
  CASE old = "idle" -> new \in {"prepared"} \cup Errors
    [] old = "prepared" -> new \in {"idle", "clocking", "recording"} \cup Errors
    [] old = "clocking" -> new \in {"recording", "idle"} \cup Errors
    [] old = "recording" -> new \in {"clocking", "idle"} \cup Errors
    [] old \in {"soft_error", "hard_error"} -> new = "idle"
    [] OTHER -> FALSE

(* A change that is refused leaves everything as it is and signals nobody. *)
dada_pwc_set_state(p, new, utc) ==
  IF MayChange(p.state, new)
  THEN [p EXCEPT !.state = new,
                 !.utc_start = IF p.state = "prepared" THEN utc ELSE @]
  ELSE p

SetState(p, new, utc) ==
  /\ pwc' = dada_pwc_set_state(p, new, utc)
  /\ IF MayChange(p.state, new) THEN Signal ELSE UNCHANGED waiting

=============================================================================
