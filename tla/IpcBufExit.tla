----------------------------- MODULE IpcBufExit -----------------------------
(***************************************************************************)
(* Processes that end without unlocking: the kernel undoes their semaphore   *)
(* operations made with SEM_UNDO (the three locks, and those of              *)
(* ipcbuf_get_next_readable), and nothing else.  The program is then run     *)
(* again and connects to the ring as it was left.                            *)
(***************************************************************************)
EXTENDS IpcBufStream

CONSTANTS
  MaxExit,      \* bound: processes that end
  ExitHolding,  \* points of a block's processing at which a reader may end
  Peeking       \* do readers call ipcbuf_get_next_readable and exit?

ASSUME ExitAssumption ==
  /\ MaxExit \in Nat
  /\ ExitHolding \subseteq {"start", "bytes", "hold", "cleared"}
  /\ Peeking \in BOOLEAN

VARIABLES
  exits,
  undo          \* what the kernel would return to FULL, take from SODACK

exitVars == <<vars, exits, undo>>

NoUndo == [full |-> 0, sodack |-> 0]

ExitInit ==
  /\ Init
  /\ exits = 0
  /\ undo = [r \in Readers |-> NoUndo]

Max0(n) == IF n < 0 THEN 0 ELSE n

HoldingPcs == {"start", "bytes", "hold", "cleared"}

(* A reader ends.  READ and READER_CONN are returned if it had taken them. *)
ReaderExit(r) ==
  LET s == iread[r] IN
  /\ exits < MaxExit
  /\ exits' = exits + 1
  /\ pc[r] # "idle"
  /\ pc[r] \in HoldingPcs \ ExitHolding => undo[r].full = 1
  /\ READ' = READ + 1
  /\ READER_CONN' = IF Connected(r) THEN [READER_CONN EXCEPT ![s] = @ + 1]
                                    ELSE READER_CONN
  /\ FULL' = IF s = -1 THEN FULL ELSE [FULL EXCEPT ![s] = @ + undo[r].full]
  /\ SODACK' = IF s = -1 THEN SODACK
                 ELSE [SODACK EXCEPT ![s] = Max0(@ - undo[r].sodack)]
  /\ undo' = [undo EXCEPT ![r] = NoUndo]
  /\ state' = [state EXCEPT ![r] = "VIEWER"]
  /\ iread' = [iread EXCEPT ![r] = -1]
  /\ order' = [order EXCEPT ![r] = <<>>]
  /\ pc' = [pc EXCEPT ![r] = "idle"]
  /\ UNCHANGED <<wsync, xsync, rsync, count, WRITE, EODACK, CLEAR, xfer,
                 wproc, start_byte, bytes, ghost>>

(* The writer ends between two calls, with no block open.  Its private       *)
(* ipcbuf_t is initialised again when it is run again.                       *)
WriterExit(w) ==
  /\ exits < MaxExit
  /\ exits' = exits + 1
  /\ pc[w] = "idle"
  /\ is_writer(w)
  /\ w_buf_next = w_buf_curr
  /\ WRITE' = WRITE + 1
  /\ state' = [state EXCEPT ![w] = "VIEWER"]
  /\ soclock_buf' = [soclock_buf EXCEPT ![w] = 0]
  /\ UNCHANGED <<wsync, xsync, rsync, count, READ, READER_CONN, SODACK,
                 EODACK, FULL, CLEAR, xfer, pc, op, arg, ir, rproc, ghost,
                 undo>>

(* ipcbuf_get_next_readable: ipcbuf_get_next_read with SEM_UNDO.  Client:    *)
(* dada_header, which never clears the block.                                *)
GetNextReadable(r) ==
  /\ Peeking
  /\ GetNextRead(r)
  /\ undo' = [undo EXCEPT ![r].full = 1]
  /\ UNCHANGED exits

StartReadable(r) ==
  /\ undo[r].full = 1
  /\ StartXfer(r)
  /\ undo' = [undo EXCEPT ![r].sodack = 1]
  /\ UNCHANGED exits

ReaderRuns(r) ==
  /\ ReaderWork(r) \/ UnlockRead(r)
  /\ undo[r].full = 1 => pc[r] = "bytes"
  /\ UNCHANGED <<exits, undo>>

ExitNext ==
  \/ \E w \in Writers :
       \/ (WriterCall(w) \/ WriterStep(w)) /\ UNCHANGED <<exits, undo>>
       \/ WriterExit(w)
  \/ \E r \in Readers :
       \/ ReaderRuns(r) \/ ReaderExit(r)
       \/ GetNextReadable(r) \/ StartReadable(r)

ExitSpec == ExitInit /\ [][ExitNext]_exitVars

ExitFairSpec ==
  /\ ExitSpec
  /\ \A w \in Writers :
       WF_exitVars(WriterStep(w) /\ UNCHANGED <<exits, undo>>)
  /\ \A r \in Readers :
       /\ WF_exitVars(ReaderWork(r) /\ UNCHANGED <<exits, undo>>)
       /\ SF_exitVars(GetNextRead(r) /\ UNCHANGED <<exits, undo>>)

(* "Gets the next full buffer, but does not modify any aspect of the ring     *)
(* buffer": when the process that looked has gone, the next reader of the     *)
(* slot finds the transfer not yet begun.                                    *)
PeekLeavesNoTrace ==
  \A s \in Slots :
    Peeking /\ CLEAR[s] = 0 /\ w_buf_next <= NBufs
            /\ (\A r \in Readers : ~Connected(r))
      => r_states[s] = "DISCON"
=============================================================================
