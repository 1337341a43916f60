------------------------------- MODULE IpcBuf -------------------------------
(***************************************************************************)
(* The Data Block ring buffer of PSRDADA (ipcbuf.c): one writer and         *)
(* NReaders reader slots share NBufs blocks of memory, the counters of      *)
(* ipcsync_t and System V semaphores.  A step is one semaphore operation,   *)
(* or the assignments between two of them; assignments that only the        *)
(* process itself reads before its next semaphore operation are part of     *)
(* the step of that operation.                                              *)
(*                                                                         *)
(* Operators marked "mutant" are faulty variants of the definition that     *)
(* follows them.  Nothing uses them: each one replaces its original to show *)
(* that the properties notice the fault.                                    *)
(*                                                                         *)
(* The writer delimits transfers by raising start of data (SOD) and end of  *)
(* data (EOD).  It may also clock blocks through the ring without raising   *)
(* SOD (state WRITER) and then raise SOD on a block written earlier.        *)
(***************************************************************************)
EXTENDS Integers, Sequences, FiniteSets

CONSTANTS
  Writers,     \* processes that may call the writing half of the interface
  Readers,     \* processes that may call the reading half
  NReaders,    \* sync->n_readers: reader slots, each with its semaphores
  NBufs,       \* sync->nbufs
  BufSz,       \* sync->bufsz, the size of a block in units of data
  XFERS,       \* IPCBUF_XFERS: transfers the sync structure can describe
  MaxBuf,      \* bound: blocks obtained for writing
  MaxXfer,     \* bound: transfers started
  MaxOpen,     \* client: blocks a writer holds open at once (ipcio: nbufs-1)
  Clocking,    \* client: may the writer write without raising SOD?
  SodOnOrigin, \* client: may SOD be raised on block 0 after it was filled?
  SodAhead,    \* client: may SOD be raised beyond the block being filled?
  Overlap,     \* client: blocks by which a transfer may precede the last EOD
  MaxReset,    \* bound: calls of ipcbuf_reset by the writer
  MayLeave,    \* client: do readers disconnect between two blocks?
  UseZero      \* client: does the writer call ipcbuf_zero_next_write?

ASSUME SizesAssumption ==
  /\ NReaders \in Nat \ {0}
  /\ NBufs \in Nat \ {0}
  /\ BufSz \in Nat \ {0}
  /\ XFERS \in Nat \ {0}

ASSUME BoundsAssumption ==
  /\ MaxBuf \in Nat
  /\ MaxXfer \in Nat
  /\ MaxReset \in Nat
  /\ Overlap \in Nat
  /\ MaxOpen \in 1..NBufs
  /\ Clocking \in BOOLEAN
  /\ SodOnOrigin \in BOOLEAN
  /\ SodAhead \in BOOLEAN
  /\ MayLeave \in BOOLEAN
  /\ UseZero \in BOOLEAN

ASSUME ProcessAssumption == Writers \cap Readers = {}

VARIABLES
  (* ipcsync_t, in shared memory *)
  w_buf_next, w_buf_curr, w_state, w_xfer,
  s_buf, s_byte, eod, e_buf, e_byte,
  r_bufs, r_states, r_xfers,
  count,
  (* semaphores: semid_connect, and semid_data of each reader slot *)
  WRITE, READ, SODACK, EODACK, FULL, CLEAR, READER_CONN,
  (* ipcbuf_t and the call in progress, private to each process *)
  state, xfer, soclock_buf, iread, pc,
  op,          \* the interface function a writer is executing
  arg,         \* its arguments
  ir,          \* its loop variable iread
  order,       \* reader slots ipcbuf_lock_read has still to try
  start_byte, bytes,
  (* what really happened: not in the program, read by the properties only *)
  mem,         \* the block last handed out for writing in each ring slot
  started,     \* where each transfer really starts
  ended,       \* where each transfer really ends
  resets

wsync == <<w_buf_next, w_buf_curr, w_state, w_xfer>>
xsync == <<s_buf, s_byte, eod, e_buf, e_byte>>
rsync == <<r_bufs, r_states, r_xfers>>
locks == <<WRITE, READ, READER_CONN>>
wproc == <<soclock_buf, op, arg, ir>>
rproc == <<iread, order, start_byte, bytes>>
ghost == <<mem, started, ended, resets>>
vars == <<wsync, xsync, rsync, count, locks, SODACK, EODACK, FULL, CLEAR,
          state, xfer, pc, wproc, rproc, ghost>>

Procs == Writers \cup Readers
Slots == 0 .. NReaders - 1
Ring == 0 .. NBufs - 1
XferSlots == 0 .. XFERS - 1

WriterStates == {"WRITER", "WCHANGE", "WRITING"}
ReaderStates == {"READER", "READING", "RSTOP"}

is_writer(p) == state[p] \in WriterStates
is_reader(p) == state[p] \in ReaderStates

NoArg == [buf |-> 0, nbytes |-> 0]
NoBlock == -1

Init ==
  /\ w_buf_next = 0 /\ w_buf_curr = 0 /\ w_xfer = 0
  /\ w_state = "DISCON"
  /\ s_buf = [x \in XferSlots |-> 0]
  /\ s_byte = [x \in XferSlots |-> 0]
  /\ eod = [x \in XferSlots |-> TRUE]
  /\ e_buf = [x \in XferSlots |-> 0]
  /\ e_byte = [x \in XferSlots |-> 0]
  /\ r_bufs = [s \in Slots |-> 0]
  /\ r_states = [s \in Slots |-> "DISCON"]
  /\ r_xfers = [s \in Slots |-> 0]
  /\ count = [b \in Ring |-> 0]
  /\ WRITE = 1
  /\ READ = NReaders
  /\ READER_CONN = [s \in Slots |-> 1]
  /\ SODACK = [s \in Slots |-> XFERS]
  /\ EODACK = [s \in Slots |-> XFERS]
  /\ FULL = [s \in Slots |-> 0]
  /\ CLEAR = [s \in Slots |-> 0]
  /\ state = [p \in Procs |-> "VIEWER"]
  /\ xfer = [p \in Procs |-> 0]
  /\ pc = [p \in Procs |-> "idle"]
  /\ soclock_buf = [w \in Writers |-> 0]
  /\ op = [w \in Writers |-> "none"]
  /\ arg = [w \in Writers |-> NoArg]
  /\ ir = [w \in Writers |-> 0]
  /\ iread = [r \in Readers |-> -1]
  /\ order = [r \in Readers |-> <<>>]
  /\ start_byte = [r \in Readers |-> 0]
  /\ bytes = [r \in Readers |-> 0]
  /\ mem = [b \in Ring |-> NoBlock]
  /\ started = <<>> /\ ended = <<>>
  /\ resets = 0

(* ipc_semop on one semaphore of slot s: the operation that takes waits for   *)
(* a positive value (IPC_NOWAIT: fails without it), the one that adds never   *)
(* waits.                                                                    *)
(* mutant: the operation does not wait *)
AvailOffByOne(sem, s) == sem[s] >= 0

Avail(sem, s) == sem[s] > 0
Down(sem, s) == [sem EXCEPT ![s] = @ - 1]
Up(sem, s) == [sem EXCEPT ![s] = @ + 1]

(* Process p goes from one point of its code to another. *)
Goto(p, from, to) ==
  /\ pc[p] = from
  /\ pc' = [pc EXCEPT ![p] = to]

(* for (iread = 0; iread < n_readers; iread++), one semaphore operation each *)
(* mutant: the loops serve the first reader only *)
LastReaderAlways(w) == TRUE

LastReader(w) == ir[w] = NReaders - 1
NextReader(w) == ir' = [ir EXCEPT ![w] = IF LastReader(w) THEN 0 ELSE @ + 1]
FirstReader(w) == ir' = [ir EXCEPT ![w] = 0]

-----------------------------------------------------------------------------
(***************************************************************************)
(* The designated writer.                                                  *)
(***************************************************************************)

(* ipcbuf_lock_write: the semaphore blocks a second writer. *)
LockWrite(w) ==
  /\ pc[w] = "idle"
  /\ state[w] = "VIEWER"
  /\ WRITE > 0
  /\ WRITE' = WRITE - 1
  /\ state' = [state EXCEPT ![w] =
                 IF w_state = "DISCON" THEN "WCHANGE" ELSE "WRITING"]
  /\ xfer' = [xfer EXCEPT ![w] = w_xfer % XFERS]
  /\ UNCHANGED <<wsync, xsync, rsync, count, READ, READER_CONN, SODACK,
                 EODACK, FULL, CLEAR, pc, wproc, rproc, ghost>>

(* ipcbuf_unlock_write.  Client: no block is open. *)
UnlockWrite(w) ==
  /\ pc[w] = "idle"
  /\ is_writer(w)
  /\ w_buf_next = w_buf_curr
  /\ WRITE' = WRITE + 1
  /\ state' = [state EXCEPT ![w] = "VIEWER"]
  /\ UNCHANGED <<wsync, xsync, rsync, count, READ, READER_CONN, SODACK,
                 EODACK, FULL, CLEAR, xfer, pc, wproc, rproc, ghost>>

(* ipcbuf_enable_eod: the next ipcbuf_mark_filled ends the transfer. *)
EnableEod(w) ==
  /\ pc[w] = "idle"
  /\ state[w] = "WRITING"
  /\ state' = [state EXCEPT ![w] = "WCHANGE"]
  /\ UNCHANGED <<wsync, xsync, rsync, count, locks, SODACK, EODACK, FULL,
                 CLEAR, xfer, pc, wproc, rproc, ghost>>

(* ipcbuf_disable_sod: the writer starts to clock data.  Client: only when  *)
(* no transfer is open.                                                     *)
DisableSod(w) ==
  /\ Clocking
  /\ pc[w] = "idle"
  /\ state[w] = "WCHANGE"
  /\ w_state = "DISCON"
  /\ state' = [state EXCEPT ![w] = "WRITER"]
  /\ UNCHANGED <<wsync, xsync, rsync, count, locks, SODACK, EODACK, FULL,
                 CLEAR, xfer, pc, wproc, rproc, ghost>>

(* ipcbuf_set_soclock_buf: earlier blocks can no longer be start of data. *)
SetSoclockBuf(w) ==
  /\ Clocking
  /\ pc[w] = "idle"
  /\ is_writer(w)
  /\ soclock_buf' = [soclock_buf EXCEPT ![w] =
       IF w_xfer > 0 THEN e_buf[(w_xfer - 1) % XFERS] + 1 ELSE 0]
  /\ UNCHANGED <<wsync, xsync, rsync, count, locks, SODACK, EODACK, FULL,
                 CLEAR, state, xfer, pc, op, arg, ir, rproc, ghost>>

(* b >= ipcbuf_get_sod_minbuf.  Both subtractions are unsigned: the first is   *)
(* huge when soclock_buf is ahead of w_buf_next, and the second when fewer    *)
(* blocks were opened than the ring has.                                     *)
AtLeastSodMinbuf(w, b) ==
  IF w_buf_next - soclock_buf[w] \in 0 .. NBufs - 1
    THEN b >= soclock_buf[w]
    ELSE w_buf_next - NBufs + 1 \in 0 .. b

(* The checks ipcbuf_enable_sod makes before it touches a semaphore. *)
SodAccepted(w, b, y) ==
  /\ state[w] \in {"WRITER", "WCHANGE"}
  /\ b <= w_buf_next
  /\ AtLeastSodMinbuf(w, b)
  /\ y <= BufSz

(* Where the clients of this model ask for start of data. *)
SodRequested(b) ==
  /\ Clocking
  /\ Len(started) < MaxXfer
  /\ w_state = "DISCON"
  /\ SodOnOrigin \/ b > 0 \/ w_buf_curr = 0
  /\ SodAhead \/ b <= w_buf_curr
  /\ ended # <<>> => b + Overlap > ended[Len(ended)].buf

(* ipcbuf_enable_sod is entered: op[w] says who called it. *)
CallEnableSod(w, caller, b, y) ==
  /\ SodAccepted(w, b, y)
  /\ Goto(w, "idle", "sod_ack")
  /\ op' = [op EXCEPT ![w] = caller]
  /\ arg' = [arg EXCEPT ![w] = [buf |-> b, nbytes |-> y]]
  /\ FirstReader(w)
  /\ UNCHANGED <<wsync, xsync, rsync, count, locks, SODACK, EODACK, FULL,
                 CLEAR, state, xfer, soclock_buf, rproc, ghost>>

EnableSod(w, b, y) ==
  SodRequested(b) /\ CallEnableSod(w, "enable_sod", b, y)

(* for each reader: SODACK - 1, waiting for a transfer slot to be free *)
SodAck(w) ==
  /\ Goto(w, "sod_ack", IF LastReader(w) THEN "sod_set" ELSE "sod_ack")
  /\ Avail(SODACK, ir[w])
  /\ SODACK' = Down(SODACK, ir[w])
  /\ NextReader(w)
  /\ UNCHANGED <<wsync, xsync, rsync, count, locks, EODACK, FULL, CLEAR,
                 state, xfer, soclock_buf, op, arg, rproc, ghost>>

(* The blocks filled so far that ring slot b holds from block first on. *)
FilledIn(b, first) ==
  Cardinality({n \in first .. w_buf_curr - 1 : n % NBufs = b})

(* The end of data flag is lowered only if nothing was ever filled. *)
SodFlag(x) == IF w_buf_curr = 0 THEN [eod EXCEPT ![x] = FALSE] ELSE eod

SodSet(w) ==
  LET x == w_xfer % XFERS IN
  /\ Goto(w, "sod_set", "sod_full")
  /\ xfer' = [xfer EXCEPT ![w] = x]
  /\ s_buf' = [s_buf EXCEPT ![x] = arg[w].buf]
  /\ s_byte' = [s_byte EXCEPT ![x] = arg[w].nbytes]
  /\ eod' = SodFlag(x)
  /\ count' = [b \in Ring |-> count[b] + FilledIn(b, arg[w].buf)]
  /\ state' = [state EXCEPT ![w] = "WRITING"]
  /\ w_state' = "WRITING"
  /\ started' = Append(started, [buf |-> arg[w].buf, byte |-> arg[w].nbytes])
  /\ UNCHANGED <<w_buf_next, w_buf_curr, w_xfer, e_buf, e_byte, rsync, locks,
                 SODACK, EODACK, FULL, CLEAR, wproc, rproc, mem, ended,
                 resets>>

(* for each reader: FULL + the blocks of the transfer already filled.  The  *)
(* semaphore operation takes the difference as a short: SOD on a block      *)
(* beyond w_buf_curr makes it negative, and then the operation waits.       *)
SodFull(w) ==
  LET new_bufs == w_buf_curr - arg[w].buf IN
  /\ FULL[ir[w]] + new_bufs >= 0
  /\ Goto(w, "sod_full", CASE ~LastReader(w) -> "sod_full"
                           [] LastReader(w) /\ op[w] = "get_next_write" -> "clear"
                           [] OTHER -> "idle")
  /\ FULL' = [FULL EXCEPT ![ir[w]] = @ + new_bufs]
  /\ NextReader(w)
  /\ UNCHANGED <<wsync, xsync, rsync, count, locks, SODACK, EODACK, CLEAR,
                 state, xfer, soclock_buf, op, arg, rproc, ghost>>

(* ipcbuf_get_next_write: in WCHANGE it first starts a transfer, then it     *)
(* waits for the block.  Client: not between ipcbuf_enable_eod and            *)
(* ipcbuf_mark_filled, and at most MaxOpen blocks open.                       *)
GetNextWrite(w) ==
  /\ pc[w] = "idle"
  /\ is_writer(w)
  /\ w_buf_next < MaxBuf
  /\ w_buf_next - w_buf_curr < MaxOpen
  /\ \/ /\ state[w] = "WCHANGE"
        /\ w_state = "DISCON"
        /\ Len(started) < MaxXfer
        /\ CallEnableSod(w, "get_next_write", w_buf_curr, 0)
     \/ /\ state[w] = "WRITING" \/ (state[w] = "WRITER" /\ Clocking)
        /\ Goto(w, "idle", "clear")
        /\ op' = [op EXCEPT ![w] = "get_next_write"]
        /\ FirstReader(w)
        /\ UNCHANGED <<wsync, xsync, rsync, count, locks, SODACK, EODACK,
                       FULL, CLEAR, state, xfer, soclock_buf, arg, rproc,
                       ghost>>

(* mutant: the last pending use of the slot is not waited for *)
DrainingButOne(w, b) ==
  /\ count[b] > 1
  /\ IF op[w] = "reset" THEN \A c \in 0 .. b - 1 : count[c] = 0
                        ELSE b = w_buf_next % NBufs

(* Ring slot b is being drained: the next one to write in get_next_write,    *)
(* the first one with a pending transfer in ipcbuf_reset.                    *)
Draining(w, b) ==
  /\ count[b] > 0
  /\ IF op[w] = "reset" THEN \A c \in 0 .. b - 1 : count[c] = 0
                        ELSE b = w_buf_next % NBufs

DrainPending(w) == \E b \in Ring : Draining(w, b)

(* while (count): for each reader: CLEAR - 1; then count - 1 *)
Drain(w) ==
  /\ Goto(w, "clear", "clear")
  /\ Avail(CLEAR, ir[w])
  /\ CLEAR' = Down(CLEAR, ir[w])
  /\ NextReader(w)
  /\ \E b \in Ring :
       /\ Draining(w, b)
       /\ count' = IF LastReader(w) THEN Down(count, b) ELSE count
  /\ UNCHANGED <<wsync, xsync, rsync, locks, SODACK, EODACK, FULL, state,
                 xfer, soclock_buf, op, arg, rproc, ghost>>

(* The block is handed to the writer; the one nested in ipcbuf_mark_filled   *)
(* is filled at once.                                                       *)
TakeBlock(w) ==
  /\ op[w] # "reset"
  /\ ~DrainPending(w)
  /\ Goto(w, "clear", IF op[w] = "mark_filled" THEN "fill" ELSE "idle")
  /\ w_buf_next' = w_buf_next + 1
  /\ mem' = [mem EXCEPT ![w_buf_next % NBufs] = w_buf_next]
  /\ UNCHANGED <<w_buf_curr, w_state, w_xfer, xsync, rsync, count, locks,
                 SODACK, EODACK, FULL, CLEAR, state, xfer, wproc, rproc,
                 started, ended, resets>>

(* ipcbuf_zero_next_write polls until every reader has a cleared block, then *)
(* zeroes the next ring slot.                                               *)
ZeroNextWrite(w) ==
  /\ UseZero
  /\ pc[w] = "idle"
  /\ is_writer(w)
  /\ \A s \in Slots : CLEAR[s] > 0
  /\ mem' = [mem EXCEPT ![w_buf_next % NBufs] = NoBlock]
  /\ UNCHANGED <<wsync, xsync, rsync, count, locks, SODACK, EODACK, FULL,
                 CLEAR, state, xfer, pc, wproc, rproc, started, ended, resets>>

(* The sizes a client passes to ipcbuf_mark_filled: a block it has opened,   *)
(* or nothing at all to end a transfer between two blocks; never an end of   *)
(* data before the start of data of the same block.                          *)
FillRequested(w, n) ==
  /\ w_buf_curr < w_buf_next \/ (n = 0 /\ state[w] = "WCHANGE")
  /\ state[w] = "WCHANGE" => w_state = "WRITING"
  /\ n = 0 => w_buf_next < MaxBuf
  /\ state[w] # "WRITER" /\ started[Len(started)].buf = w_buf_curr
       => n >= started[Len(started)].byte

(* ipcbuf_mark_filled: a clocked block only moves w_buf_curr; a short block, *)
(* or one in WCHANGE, ends the transfer.                                     *)
MarkFilled(w, n) ==
  /\ pc[w] = "idle"
  /\ is_writer(w)
  /\ FillRequested(w, n)
  /\ \/ /\ state[w] = "WRITER"
        /\ w_buf_curr' = w_buf_curr + 1
        /\ UNCHANGED <<pc, op, arg, ir>>
     \/ /\ state[w] # "WRITER"
        /\ Goto(w, "idle", IF state[w] = "WCHANGE" \/ n < BufSz
                             THEN "eod_ack" ELSE "fill")
        /\ op' = [op EXCEPT ![w] = "mark_filled"]
        /\ arg' = [arg EXCEPT ![w] = [buf |-> w_buf_curr, nbytes |-> n]]
        /\ FirstReader(w)
        /\ UNCHANGED w_buf_curr
  /\ UNCHANGED <<w_buf_next, w_state, w_xfer, xsync, rsync, count, locks,
                 SODACK, EODACK, FULL, CLEAR, state, xfer, soclock_buf, rproc,
                 ghost>>

(* for each reader: EODACK - 1 *)
EodAck(w) ==
  /\ Goto(w, "eod_ack", IF LastReader(w) THEN "eod_set" ELSE "eod_ack")
  /\ Avail(EODACK, ir[w])
  /\ EODACK' = Down(EODACK, ir[w])
  /\ NextReader(w)
  /\ UNCHANGED <<wsync, xsync, rsync, count, locks, SODACK, FULL, CLEAR,
                 state, xfer, soclock_buf, op, arg, rproc, ghost>>

EodSet(w) ==
  LET x == xfer[w] IN
  /\ Goto(w, "eod_set", IF arg[w].nbytes = 0 THEN "clear" ELSE "fill")
  /\ e_buf' = [e_buf EXCEPT ![x] = w_buf_curr]
  /\ e_byte' = [e_byte EXCEPT ![x] = arg[w].nbytes]
  /\ eod' = [eod EXCEPT ![x] = TRUE]
  /\ w_xfer' = w_xfer + 1
  /\ xfer' = [xfer EXCEPT ![w] = (w_xfer + 1) % XFERS]
  /\ state' = [state EXCEPT ![w] = "WRITER"]
  /\ w_state' = "DISCON"
  /\ ended' = Append(ended, [buf |-> w_buf_curr, byte |-> arg[w].nbytes])
  /\ UNCHANGED <<w_buf_next, w_buf_curr, s_buf, s_byte, rsync, count, locks,
                 SODACK, EODACK, FULL, CLEAR, wproc, rproc, mem, started,
                 resets>>

(* mutant: the pending use of the block is not counted *)
FillUncounted(w) ==
  /\ Goto(w, "fill", "full")
  /\ w_buf_curr' = w_buf_curr + 1
  /\ UNCHANGED <<w_buf_next, w_state, w_xfer, xsync, rsync, count, locks,
                 SODACK, EODACK, FULL, CLEAR, state, xfer, wproc, rproc, ghost>>

(* The block counts once more and is no longer the current one. *)
Fill(w) ==
  /\ Goto(w, "fill", "full")
  /\ count' = Up(count, w_buf_curr % NBufs)
  /\ w_buf_curr' = w_buf_curr + 1
  /\ UNCHANGED <<w_buf_next, w_state, w_xfer, xsync, rsync, locks, SODACK,
                 EODACK, FULL, CLEAR, state, xfer, wproc, rproc, ghost>>

(* for each reader: FULL + 1 *)
PostFull(w) ==
  /\ Goto(w, "full", IF LastReader(w) THEN "idle" ELSE "full")
  /\ FULL' = Up(FULL, ir[w])
  /\ NextReader(w)
  /\ UNCHANGED <<wsync, xsync, rsync, count, locks, SODACK, EODACK, CLEAR,
                 state, xfer, soclock_buf, op, arg, rproc, ghost>>

(* ipcbuf_reset by the writer: drain every block, wait for every             *)
(* acknowledgement of every reader, then count from zero again.              *)
(* Client: between transfers, with no block open.                            *)
Reset(w) ==
  /\ resets < MaxReset
  /\ is_writer(w)
  /\ w_state = "DISCON"
  /\ w_buf_next = w_buf_curr
  /\ w_buf_curr > 0
  /\ Goto(w, "idle", "clear")
  /\ op' = [op EXCEPT ![w] = "reset"]
  /\ FirstReader(w)
  /\ UNCHANGED <<wsync, xsync, rsync, count, locks, SODACK, EODACK, FULL,
                 CLEAR, state, xfer, soclock_buf, arg, rproc, ghost>>

(* for each reader: SODACK - XFERS ... *)
ResetSodAck(w) ==
  /\ op[w] = "reset"
  /\ \/ pc[w] = "clear" /\ ~DrainPending(w)
     \/ pc[w] = "reset_sod"
  /\ SODACK[ir[w]] >= XFERS
  /\ SODACK' = [SODACK EXCEPT ![ir[w]] = @ - XFERS]
  /\ pc' = [pc EXCEPT ![w] = "reset_eod"]
  /\ UNCHANGED <<wsync, xsync, rsync, count, locks, EODACK, FULL, CLEAR,
                 state, xfer, wproc, rproc, ghost>>

(* ... EODACK - XFERS, both back to XFERS, and the counts of the reader      *)
ResetEodAck(w) ==
  LET s == ir[w] IN
  /\ Goto(w, "reset_eod", IF LastReader(w) THEN "reset" ELSE "reset_sod")
  /\ EODACK[s] >= XFERS
  /\ SODACK' = [SODACK EXCEPT ![s] = @ + XFERS]
  /\ r_bufs' = [r_bufs EXCEPT ![s] = 0]
  /\ r_xfers' = [r_xfers EXCEPT ![s] = 0]
  /\ NextReader(w)
  /\ UNCHANGED <<wsync, xsync, r_states, count, locks, EODACK, FULL, CLEAR,
                 state, xfer, soclock_buf, op, arg, rproc, ghost>>

ResetSync(w) ==
  /\ Goto(w, "reset", "idle")
  /\ w_buf_curr' = 0
  /\ w_buf_next' = 0
  /\ w_xfer' = 0
  /\ eod' = [x \in XferSlots |-> TRUE]
  /\ mem' = [b \in Ring |-> NoBlock]
  /\ started' = <<>>
  /\ ended' = <<>>
  /\ resets' = resets + 1
  /\ UNCHANGED <<w_state, s_buf, s_byte, e_buf, e_byte, rsync, count, locks,
                 SODACK, EODACK, FULL, CLEAR, state, xfer, wproc, rproc>>

-----------------------------------------------------------------------------
(***************************************************************************)
(* The readers.                                                            *)
(***************************************************************************)

(* Slots in the order ipcbuf_lock_read tries them: least r_bufs first, the   *)
(* lower index first among equals.                                          *)
Before(s, t) == r_bufs[s] < r_bufs[t] \/ (r_bufs[s] = r_bufs[t] /\ s <= t)

OldestFirst(f) ==
  \A i, j \in 1 .. NReaders : i < j => Before(f[i], f[j]) /\ f[i] # f[j]

(* ipcbuf_lock_read: READ - 1, then the order of the slots is computed *)
LockRead(r) ==
  /\ state[r] = "VIEWER"
  /\ iread[r] = -1
  /\ READ > 0
  /\ Goto(r, "idle", "connect")
  /\ READ' = READ - 1
  /\ \E f \in [1 .. NReaders -> Slots] :
       OldestFirst(f) /\ order' = [order EXCEPT ![r] = f]
  /\ UNCHANGED <<wsync, xsync, rsync, count, WRITE, READER_CONN, SODACK,
                 EODACK, FULL, CLEAR, state, xfer, wproc, iread, start_byte,
                 bytes, ghost>>

(* mutant: a reader that connects always waits for a start of data *)
ConnectAtStart(r) ==
  LET s == Head(order[r]) IN
  /\ pc[r] = "connect"
  /\ order[r] # <<>>
  /\ \/ /\ Avail(READER_CONN, s)
        /\ READER_CONN' = Down(READER_CONN, s)
        /\ iread' = [iread EXCEPT ![r] = s]
        /\ order' = [order EXCEPT ![r] = <<>>]
        /\ state' = [state EXCEPT ![r] = "READER"]
        /\ xfer' = [xfer EXCEPT ![r] = r_xfers[s] % XFERS]
        /\ pc' = [pc EXCEPT ![r] = "ready"]
     \/ /\ ~Avail(READER_CONN, s)
        /\ order' = [order EXCEPT ![r] = Tail(@)]
        /\ UNCHANGED <<READER_CONN, iread, state, xfer, pc>>
  /\ UNCHANGED <<wsync, xsync, rsync, count, WRITE, READ, SODACK, EODACK,
                 FULL, CLEAR, wproc, start_byte, bytes, ghost>>

(* READER_CONN - 1 without waiting: the first slot found free is taken, in   *)
(* the middle of a transfer if its last reader left there.                   *)
Connect(r) ==
  LET s == Head(order[r]) IN
  /\ pc[r] = "connect"
  /\ order[r] # <<>>
  /\ \/ /\ Avail(READER_CONN, s)
        /\ READER_CONN' = Down(READER_CONN, s)
        /\ iread' = [iread EXCEPT ![r] = s]
        /\ order' = [order EXCEPT ![r] = <<>>]
        /\ state' = [state EXCEPT ![r] =
             IF r_states[s] = "DISCON" THEN "READER" ELSE "READING"]
        /\ xfer' = [xfer EXCEPT ![r] = r_xfers[s] % XFERS]
        /\ pc' = [pc EXCEPT ![r] = "ready"]
     \/ /\ ~Avail(READER_CONN, s)
        /\ order' = [order EXCEPT ![r] = Tail(@)]
        /\ UNCHANGED <<READER_CONN, iread, state, xfer, pc>>
  /\ UNCHANGED <<wsync, xsync, rsync, count, WRITE, READ, SODACK, EODACK,
                 FULL, CLEAR, wproc, start_byte, bytes, ghost>>

(* Every slot was found taken: ipcbuf_lock_read fails, its caller exits and  *)
(* SEM_UNDO returns what it took of READ.                                    *)
ConnectFailed(r) ==
  /\ order[r] = <<>>
  /\ Goto(r, "connect", "idle")
  /\ READ' = READ + 1
  /\ UNCHANGED <<wsync, xsync, rsync, count, WRITE, READER_CONN, SODACK,
                 EODACK, FULL, CLEAR, state, xfer, wproc, rproc, ghost>>

(* ipcbuf_unlock_read: READER_CONN + 1 ...  Client: no block is held. *)
UnlockRead(r) ==
  /\ MayLeave
  /\ is_reader(r)
  /\ Goto(r, "ready", "unlock")
  /\ READER_CONN' = Up(READER_CONN, iread[r])
  /\ UNCHANGED <<wsync, xsync, rsync, count, WRITE, READ, SODACK, EODACK,
                 FULL, CLEAR, state, xfer, wproc, rproc, ghost>>

(* ... then READ + 1 *)
Unlocked(r) ==
  /\ Goto(r, "unlock", "idle")
  /\ READ' = READ + 1
  /\ state' = [state EXCEPT ![r] = "VIEWER"]
  /\ iread' = [iread EXCEPT ![r] = -1]
  /\ UNCHANGED <<wsync, xsync, rsync, count, WRITE, READER_CONN, SODACK,
                 EODACK, FULL, CLEAR, xfer, wproc, order, start_byte, bytes,
                 ghost>>

(* ipcbuf_get_next_read: FULL - 1 *)
GetNextRead(r) ==
  /\ state[r] \in {"READER", "READING"}
  /\ Avail(FULL, iread[r])
  /\ Goto(r, "ready", IF state[r] = "READER" THEN "start" ELSE "bytes")
  /\ FULL' = Down(FULL, iread[r])
  /\ start_byte' = [start_byte EXCEPT ![r] = 0]
  /\ UNCHANGED <<wsync, xsync, rsync, count, locks, SODACK, EODACK, CLEAR,
                 state, xfer, wproc, iread, order, bytes, ghost>>

(* ... the first block of a transfer: where it starts, then SODACK + 1 *)
StartXfer(r) ==
  LET s == iread[r]
      x == r_xfers[s] % XFERS
  IN
  /\ Goto(r, "start", "bytes")
  /\ xfer' = [xfer EXCEPT ![r] = x]
  /\ state' = [state EXCEPT ![r] = "READING"]
  /\ r_states' = [r_states EXCEPT ![s] = "READING"]
  /\ r_bufs' = [r_bufs EXCEPT ![s] = s_buf[x]]
  /\ start_byte' = [start_byte EXCEPT ![r] = s_byte[x]]
  /\ SODACK' = Up(SODACK, s)
  /\ UNCHANGED <<wsync, xsync, r_xfers, count, locks, EODACK, FULL, CLEAR,
                 wproc, iread, order, bytes, ghost>>

(* mutants: the flag alone, or nothing at all, decides *)
AtEodFlag(r) == eod[xfer[r]]
AtEodNever(r) == FALSE

(* Does the sync structure say that the block of reader r is its last one? *)
AtEod(r) == eod[xfer[r]] /\ r_bufs[iread[r]] = e_buf[xfer[r]]

(* ... and the number of bytes in the block, which is returned *)
GetBytes(r) ==
  /\ Goto(r, "bytes", "hold")
  /\ bytes' = [bytes EXCEPT ![r] =
       (IF AtEod(r) THEN e_byte[xfer[r]] ELSE BufSz) - start_byte[r]]
  /\ UNCHANGED <<wsync, xsync, rsync, count, locks, SODACK, EODACK, FULL,
                 CLEAR, state, xfer, wproc, iread, order, start_byte, ghost>>

(* ipcbuf_mark_cleared: CLEAR + 1 ... *)
MarkCleared(r) ==
  /\ state[r] = "READING"
  /\ Goto(r, "hold", "cleared")
  /\ CLEAR' = Up(CLEAR, iread[r])
  /\ UNCHANGED <<wsync, xsync, rsync, count, locks, SODACK, EODACK, FULL,
                 state, xfer, wproc, rproc, ghost>>

(* ... then on to the next block, or EODACK + 1 and on to the next transfer *)
Advance(r) ==
  LET s == iread[r] IN
  /\ Goto(r, "cleared", "ready")
  /\ \/ /\ AtEod(r)
        /\ state' = [state EXCEPT ![r] = "RSTOP"]
        /\ r_states' = [r_states EXCEPT ![s] = "DISCON"]
        /\ r_xfers' = [r_xfers EXCEPT ![s] = @ + 1]
        /\ xfer' = [xfer EXCEPT ![r] = (r_xfers[s] + 1) % XFERS]
        /\ EODACK' = Up(EODACK, s)
        /\ UNCHANGED r_bufs
     \/ /\ ~AtEod(r)
        /\ r_bufs' = [r_bufs EXCEPT ![s] = @ + 1]
        /\ UNCHANGED <<state, r_states, r_xfers, xfer, EODACK>>
  /\ UNCHANGED <<wsync, xsync, count, locks, SODACK, FULL, CLEAR, wproc,
                 rproc, ghost>>

(* ipcbuf_reset by a reader at the end of data *)
ResetRead(r) ==
  /\ pc[r] = "ready"
  /\ state[r] = "RSTOP"
  /\ state' = [state EXCEPT ![r] = "READER"]
  /\ UNCHANGED <<wsync, xsync, rsync, count, locks, SODACK, EODACK, FULL,
                 CLEAR, xfer, pc, wproc, rproc, ghost>>

-----------------------------------------------------------------------------
(* The calls a writer may begin, and the steps of a call in progress. *)
WriterCall(w) ==
  \/ LockWrite(w) \/ UnlockWrite(w)
  \/ EnableEod(w) \/ DisableSod(w) \/ SetSoclockBuf(w)
  \/ \E b \in 0 .. MaxBuf, y \in 0 .. BufSz : EnableSod(w, b, y)
  \/ GetNextWrite(w)
  \/ \E n \in 0 .. BufSz : MarkFilled(w, n)
  \/ ZeroNextWrite(w)
  \/ Reset(w)

WriterStep(w) ==
  \/ SodAck(w) \/ SodSet(w) \/ SodFull(w)
  \/ Drain(w) \/ TakeBlock(w)
  \/ EodAck(w) \/ EodSet(w) \/ Fill(w) \/ PostFull(w)
  \/ ResetSodAck(w) \/ ResetEodAck(w) \/ ResetSync(w)

ReaderWork(r) ==
  \/ LockRead(r) \/ Connect(r) \/ ConnectFailed(r) \/ Unlocked(r)
  \/ GetNextRead(r) \/ StartXfer(r) \/ GetBytes(r)
  \/ MarkCleared(r) \/ Advance(r)
  \/ ResetRead(r)

Next ==
  \/ \E w \in Writers : WriterCall(w) \/ WriterStep(w)
  \/ \E r \in Readers : ReaderWork(r) \/ UnlockRead(r)

Spec == Init /\ [][Next]_vars

(***************************************************************************)
(* A call in progress goes on whenever it is not blocked.  Reading programs *)
(* (dada_client_read) connect, read and clear blocks without end; one that  *)
(* comes and goes still reads now and then.  Nothing obliges a writer to     *)
(* begin a call.                                                            *)
(***************************************************************************)
Fairness ==
  /\ \A w \in Writers : WF_vars(WriterStep(w))
  /\ \A r \in Readers : WF_vars(ReaderWork(r)) /\ SF_vars(GetNextRead(r))

FairSpec == Spec /\ Fairness

-----------------------------------------------------------------------------
(***************************************************************************)
(* Properties.                                                             *)
(***************************************************************************)
Extent == [buf : Nat, byte : Nat]

WriterPcs == {"idle", "sod_ack", "sod_set", "sod_full", "clear", "eod_ack",
              "eod_set", "fill", "full", "reset_sod", "reset_eod", "reset"}
ReaderPcs == {"idle", "connect", "ready", "start", "bytes", "hold", "cleared",
              "unlock"}

SyncType ==
  /\ w_buf_next \in Nat /\ w_buf_curr \in Nat /\ w_xfer \in Nat
  /\ w_state \in {"DISCON", "WRITING"}

XferType ==
  /\ s_buf \in [XferSlots -> Nat] /\ s_byte \in [XferSlots -> Nat]
  /\ eod \in [XferSlots -> BOOLEAN]
  /\ e_buf \in [XferSlots -> Nat] /\ e_byte \in [XferSlots -> Nat]

ReadType ==
  /\ r_bufs \in [Slots -> Nat] /\ r_xfers \in [Slots -> Nat]
  /\ r_states \in [Slots -> {"DISCON", "READING"}]

LockType == WRITE \in Nat /\ READ \in Nat /\ READER_CONN \in [Slots -> Nat]

SemType ==
  /\ SODACK \in [Slots -> Nat] /\ EODACK \in [Slots -> Nat]
  /\ FULL \in [Slots -> Nat] /\ CLEAR \in [Slots -> Nat]
  /\ count \in [Ring -> Nat]

ProcType ==
  /\ state \in [Procs -> {"VIEWER"} \cup WriterStates \cup ReaderStates]
  /\ xfer \in [Procs -> XferSlots]
  /\ pc \in [Procs -> WriterPcs \cup ReaderPcs]

WriterType ==
  /\ soclock_buf \in [Writers -> Nat]
  /\ op \in [Writers -> {"none", "enable_sod", "get_next_write",
                         "mark_filled", "reset"}]
  /\ arg \in [Writers -> [buf : Nat, nbytes : Nat]]
  /\ ir \in [Writers -> Slots]

ReaderType ==
  /\ iread \in [Readers -> Slots \cup {-1}]
  /\ order \in [Readers -> Seq(Slots)]
  /\ start_byte \in [Readers -> Nat]
  /\ bytes \in [Readers -> Int]

GhostType ==
  /\ mem \in [Ring -> Nat \cup {NoBlock}]
  /\ started \in Seq(Extent) /\ ended \in Seq(Extent)
  /\ resets \in Nat

(* Every field, semaphore and local variable stays within its type; the      *)
(* semaphores and the counts of pending transfers in particular never go     *)
(* below zero, whichever process takes from them.                            *)
TypeOK ==
  /\ SyncType /\ XferType /\ ReadType /\ LockType /\ SemType
  /\ ProcType /\ WriterType /\ ReaderType /\ GhostType

(* ipcbuf_lock_write designates a single writer ("only one can"), and        *)
(* ipcbuf_lock_read never gives one reader slot to two processes, whatever   *)
(* the order in which they lock, fail to lock and unlock.                    *)
Connected(r) == is_reader(r) /\ pc[r] # "unlock"

Exclusive ==
  /\ \A v, w \in Writers : is_writer(v) /\ is_writer(w) => v = w
  /\ \A q, r \in Readers :
       Connected(q) /\ Connected(r) /\ iread[q] = iread[r] => q = r

(* Transfers started by the writer, and by the readers of a slot. *)
Started == IF w_state = "WRITING" THEN w_xfer + 1 ELSE w_xfer
ReadStarted(s) == IF r_states[s] = "READING" THEN r_xfers[s] + 1 ELSE r_xfers[s]

Resetting == \E w \in Writers : pc[w] \in {"reset_sod", "reset_eod", "reset"}

SodTaken(s) ==
  IF \E w \in Writers : \/ pc[w] = "sod_ack" /\ s < ir[w]
                        \/ pc[w] = "sod_set"
    THEN 1 ELSE 0

EodTaken(s) ==
  IF \E w \in Writers : \/ pc[w] = "eod_ack" /\ s < ir[w]
                        \/ pc[w] = "eod_set"
    THEN 1 ELSE 0

(* SODACK and EODACK of a slot are exactly the transfers, out of XFERS, that  *)
(* the writer may still start (end) before the slot's reader acknowledges     *)
(* one, at every point of the loops of ipcbuf_enable_sod and                  *)
(* ipcbuf_mark_filled.                                                       *)
AckAccounting ==
  ~Resetting =>
    \A s \in Slots :
      /\ SODACK[s] + SodTaken(s) + Started - ReadStarted(s) = XFERS
      /\ EODACK[s] + EodTaken(s) + w_xfer - r_xfers[s] = XFERS

(* The writer never laps a reader by more than the XFERS transfers that the   *)
(* sync structure can describe.                                              *)
NeverLapped ==
  ~Resetting =>
    \A s \in Slots :
      /\ Started <= ReadStarted(s) + XFERS
      /\ w_xfer <= r_xfers[s] + XFERS

(***************************************************************************)
(* The inductive strengthening of Exclusive, AckAccounting and NeverLapped. *)
(***************************************************************************)
OutsidePcs == {"idle", "connect"}
InsidePcs == {"ready", "start", "bytes", "hold", "cleared", "unlock"}

(* Where each process can be, given its state. *)
Control ==
  /\ \A w \in Writers :
       /\ pc[w] \in WriterPcs
       /\ state[w] \in {"VIEWER"} \cup WriterStates
       /\ pc[w] # "idle" => is_writer(w)
  /\ \A r \in Readers :
       /\ pc[r] \in ReaderPcs
       /\ state[r] \in {"VIEWER"} \cup ReaderStates
       /\ is_reader(r) <=> pc[r] \in InsidePcs
       /\ is_reader(r) => iread[r] \in Slots
       /\ pc[r] = "start" => state[r] = "READER"
       /\ pc[r] \in {"bytes", "hold", "cleared"} => state[r] = "READING"

(* A lock that is held has value zero. *)
LocksHeld ==
  /\ WRITE <= 1
  /\ \A w \in Writers : is_writer(w) => WRITE = 0
  /\ \A s \in Slots : READER_CONN[s] <= 1
  /\ \A r \in Readers : Connected(r) => READER_CONN[iread[r]] = 0

LockInv == TypeOK /\ Control /\ LocksHeld /\ Exclusive

(* The states the processes keep to themselves agree with the shared ones. *)
StatesAgree ==
  /\ \A w \in Writers :
       /\ state[w] = "WRITING" => w_state = "WRITING"
       /\ state[w] = "WRITER" => w_state = "DISCON"
       /\ pc[w] \in {"sod_ack", "sod_set"} => w_state = "DISCON"
       /\ pc[w] \in {"eod_ack", "eod_set"} => w_state = "WRITING"
  /\ \A r \in Readers :
       Connected(r) =>
         (state[r] = "READING" <=> r_states[iread[r]] = "READING")

NeverReset == \A w \in Writers : op[w] # "reset" /\ ~Resetting

AckInv == LockInv /\ StatesAgree /\ NeverReset /\ AckAccounting

(* The entry of s_buf, s_byte, e_buf and e_byte of every transfer a reader    *)
(* has still to start (to end) describes that transfer and no later one.      *)
XferSlotValid ==
  ~Resetting =>
    \A s \in Slots :
      /\ \A n \in ReadStarted(s) + 1 .. Len(started) :
           /\ s_buf[(n - 1) % XFERS] = started[n].buf
           /\ s_byte[(n - 1) % XFERS] = started[n].byte
      /\ \A n \in r_xfers[s] + 1 .. Len(ended) :
           /\ eod[(n - 1) % XFERS]
           /\ e_buf[(n - 1) % XFERS] = ended[n].buf
           /\ e_byte[(n - 1) % XFERS] = ended[n].byte

(* From the moment ipcbuf_get_next_read has found its block until            *)
(* ipcbuf_mark_cleared, the block holds the data that was written for it: the *)
(* writer has not been given its ring slot again.                            *)
BlockIntact ==
  \A r \in Readers :
    pc[r] \in {"bytes", "hold"} =>
      mem[r_bufs[iread[r]] % NBufs] = r_bufs[iread[r]]

(* The true content of the block that the reader of slot s is at. *)
TrueBytes(s) ==
  LET n == r_xfers[s] + 1
      last == n <= Len(ended) /\ ended[n].buf = r_bufs[s]
      first == started[n].buf = r_bufs[s]
  IN  (IF last THEN ended[n].byte ELSE BufSz)
        - (IF first THEN started[n].byte ELSE 0)

(* A reader that ipcbuf_get_next_read has given a block is inside a transfer  *)
(* that was really started and has not passed its end, and the number of      *)
(* bytes returned is the transfer's share of the block.                       *)
BytesTrue ==
  \A r \in Readers :
    pc[r] = "hold" =>
      LET s == iread[r]
          n == r_xfers[s] + 1
      IN  /\ n <= Len(started)
          /\ started[n].buf <= r_bufs[s]
          /\ n <= Len(ended) => r_bufs[s] <= ended[n].buf
          /\ bytes[r] = TrueBytes(s)

(* A reader is told of the end of data at the block where the writer ended    *)
(* the transfer and at no other.                                             *)
EodTrue ==
  \A r \in Readers :
    pc[r] = "cleared" =>
      LET n == r_xfers[iread[r]] + 1
      IN  AtEod(r) <=> n <= Len(ended) /\ ended[n].buf = r_bufs[iread[r]]

(* No call waits for ever: each one returns, as long as readers read. *)
CallsReturn ==
  \A w \in Writers : pc[w] # "idle" ~> pc[w] = "idle"

(* Every transfer that was ended is read to its end through every slot (or    *)
(* the ring is reset, which waits for that).                                 *)
TransfersRead ==
  \A n \in 1 .. MaxXfer :
    Len(ended) >= n ~> (\A s \in Slots : r_xfers[s] >= n) \/ Len(ended) < n
=============================================================================
