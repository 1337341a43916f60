----------------------------- MODULE IpcBufRing ------------------------------
(***************************************************************************)
(* Why the ring buffer delivers what was written: the inductive invariant    *)
(* behind XferSlotValid, BytesTrue, EodTrue and BlockIntact of IpcBuf.       *)
(*                                                                         *)
(* The blocks that were ever obtained are numbered 0, 1, 2, ...; a block is  *)
(* used if it lies in a transfer.  The writer and the readers are three      *)
(* places on that line: up to w_buf_curr blocks are filled, up to NextDue(s) *)
(* the reader of slot s has released them, up to DrainFrom the writer has    *)
(* taken them back.  FULL, CLEAR and count[] are the numbers of used blocks  *)
(* between these places.                                                    *)
(***************************************************************************)
EXTENDS IpcBuf

(* The clients for which the ring is right.  Each condition is needed: for    *)
(* the first four see section 8 of the README; with every block of the ring   *)
(* open there is none left for an ipcbuf_mark_filled of nothing, which needs  *)
(* one more (ipcio_open_block_write leaves it one).                          *)
RingClients ==
  /\ MaxReset = 0
  /\ Overlap = 0
  /\ ~SodAhead
  /\ ~SodOnOrigin
  /\ MaxOpen < NBufs

-----------------------------------------------------------------------------
(***************************************************************************)
(* The table of transfers.                                                  *)
(***************************************************************************)

(* ipcbuf_mark_filled has raised end of data on a block it has yet to fill. *)
EndPending(w) ==
  pc[w] = "fill" \/ (pc[w] = "clear" /\ op[w] = "mark_filled")

(* The function a writer is in, and its place in the loops over the readers. *)
WriterOp ==
  \A w \in Writers :
    /\ pc[w] \in {"eod_ack", "eod_set"} => op[w] = "mark_filled"
    /\ pc[w] = "clear" => op[w] \in {"get_next_write", "mark_filled"}
    /\ pc[w] \notin {"sod_ack", "sod_full", "clear", "eod_ack", "full"}
         => ir[w] = 0
    /\ pc[w] = "clear" /\ count[w_buf_next % NBufs] = 0 => ir[w] = 0
    /\ is_writer(w) => xfer[w] = w_xfer % XFERS

History == Len(ended) = w_xfer /\ Len(started) = Started

(* The block in which a transfer ends is filled, or about to be. *)
EndsFilled ==
  \A n \in 1 .. Len(ended) :
    \/ ended[n].buf < w_buf_curr
    \/ ended[n].buf = w_buf_curr /\ \E w \in Writers : EndPending(w)

TableInv == AckInv /\ WriterOp /\ History /\ EndsFilled /\ XferSlotValid

-----------------------------------------------------------------------------
(***************************************************************************)
(* The order of the transfers, and the writer's place in it.                *)
(***************************************************************************)
Ordered ==
  /\ \A n \in 1 .. Len(started) :
       /\ started[n].buf <= w_buf_curr
       /\ \A m \in 1 .. n - 1 : ended[m].buf < started[n].buf
  /\ \A n \in 1 .. Len(ended) : started[n].buf <= ended[n].buf

(* Where a transfer that is being started (ended) may start (end), and the    *)
(* block that is being filled.                                               *)
PlaceOf(w) ==
  /\ pc[w] \in {"sod_ack", "sod_set"} =>
       /\ arg[w].buf <= w_buf_curr
       /\ arg[w].buf > w_buf_next - NBufs
       /\ arg[w].buf > 0 \/ w_buf_curr = 0
       /\ \A n \in 1 .. Len(ended) : ended[n].buf < arg[w].buf
  /\ pc[w] = "sod_full" =>
       w_state = "WRITING" /\ started[Len(started)].buf = arg[w].buf
  /\ pc[w] \in {"eod_ack", "eod_set"} =>
       arg[w].nbytes = 0 \/ w_buf_curr < w_buf_next
  /\ pc[w] = "clear" /\ op[w] = "mark_filled" =>
       ended # <<>> /\ ended[Len(ended)].buf = w_buf_curr
  /\ pc[w] = "fill" =>
       /\ w_buf_curr < w_buf_next
       /\ \/ w_state = "WRITING"
          \/ ended # <<>> /\ ended[Len(ended)].buf = w_buf_curr

(* The blocks open for writing while w is the writer. *)
RoomOf(w) ==
  /\ pc[w] # "fill" => w_buf_next - w_buf_curr < NBufs
  /\ pc[w] \in {"sod_ack", "sod_set", "sod_full", "clear"}
       /\ op[w] = "get_next_write" => w_buf_next - w_buf_curr < MaxOpen

WriterPlace == \A w \in Writers : is_writer(w) => PlaceOf(w) /\ RoomOf(w)

OpenBlocks ==
  /\ w_buf_curr <= w_buf_next
  /\ w_buf_next - w_buf_curr <= NBufs
  /\ (\A w \in Writers : ~is_writer(w)) => w_buf_next - w_buf_curr < NBufs

(* What the table says of the transfer being written: no end, or an old one. *)
OpenEntry ==
  /\ \A x \in XferSlots :
       e_buf[x] = 0 \/ \E n \in 1 .. Len(ended) : e_buf[x] = ended[n].buf
  /\ w_state = "WRITING" /\ eod[w_xfer % XFERS] =>
       e_buf[w_xfer % XFERS] < started[Len(started)].buf

LayoutInv == TableInv /\ Ordered /\ WriterPlace /\ OpenBlocks /\ OpenEntry

-----------------------------------------------------------------------------
(***************************************************************************)
(* The readers' places.                                                     *)
(***************************************************************************)
HeldPcs == {"start", "bytes", "hold", "cleared"}

(* The reader of slot s has a block, whose token it has taken from FULL ... *)
Held(s) == \E r \in Readers : iread[r] = s /\ pc[r] \in HeldPcs

(* ... and has raised CLEAR for it. *)
Cleared(s) == \E r \in Readers : iread[r] = s /\ pc[r] = "cleared"

(* The first block the reader of slot s has not yet released. *)
NextDue(s) ==
  IF r_states[s] = "READING" THEN r_bufs[s]
  ELSE IF r_xfers[s] = 0 THEN 0 ELSE ended[r_xfers[s]].buf + 1

(* The same, counting a block for which CLEAR has been raised. *)
NextUncleared(s) == IF Cleared(s) THEN NextDue(s) + 1 ELSE NextDue(s)

(* Where slot s is, inside transfer n or before it. *)
ReadPlaceOf(s, n) ==
  /\ r_xfers[s] <= Len(ended)
  /\ NextDue(s) <= w_buf_curr
  /\ r_states[s] = "READING" =>
       /\ n <= Len(started)
       /\ started[n].buf <= r_bufs[s]
       /\ n <= Len(ended) => r_bufs[s] <= ended[n].buf
       /\ IF Held(s) THEN r_bufs[s] < w_buf_curr ELSE started[n].buf < r_bufs[s]
  /\ r_states[s] = "DISCON" /\ Held(s) =>
       n <= Len(started) /\ started[n].buf < w_buf_curr

ReadPlace == \A s \in Slots : ReadPlaceOf(s, r_xfers[s] + 1)

(* What a reader keeps to itself of its transfer and of its block. *)
KnowsXfer ==
  \A r \in Readers :
    Connected(r) /\ state[r] = "READING" => xfer[r] = r_xfers[iread[r]] % XFERS

KnowsBlock ==
  \A r \in Readers :
    LET s == iread[r]
        n == r_xfers[s] + 1
    IN
    /\ pc[r] \in {"bytes", "hold"} =>
         start_byte[r] = IF started[n].buf = r_bufs[s] THEN started[n].byte
                                                       ELSE 0
    /\ pc[r] = "hold" => bytes[r] = TrueBytes(s)

-----------------------------------------------------------------------------
(***************************************************************************)
(* The tokens.                                                             *)
(***************************************************************************)

(* Block b was filled in transfer n. *)
InTransfer(b, n) == started[n].buf <= b /\ (n <= Len(ended) => b <= ended[n].buf)

UsedBlocks ==
  {b \in 0 .. w_buf_curr - 1 : \E n \in 1 .. Len(started) : InTransfer(b, n)}

(* The members of B from one place up to another, and their number. *)
Among(B, from, to) == {b \in from .. to - 1 : b \in B}
HowMany(B, from, to) == Cardinality(Among(B, from, to))

(* Blocks counted in count[], not yet posted to FULL of slot s. *)
Unposted(s) ==
  IF \E w \in Writers : pc[w] = "sod_full" /\ s >= ir[w]
  THEN w_buf_curr - started[Len(started)].buf
  ELSE IF \E w \in Writers : pc[w] = "full" /\ s >= ir[w] THEN 1 ELSE 0

FullTokens ==
  \A s \in Slots :
    FULL[s] + Unposted(s) + (IF Held(s) THEN 1 ELSE 0)
      = HowMany(UsedBlocks, NextDue(s), w_buf_curr)

ReadInv == LayoutInv /\ ReadPlace /\ KnowsXfer /\ KnowsBlock /\ FullTokens

-----------------------------------------------------------------------------
(***************************************************************************)
(* The blocks.                                                             *)
(***************************************************************************)

(* The block that lies where the next one is to be written. *)
Oldest == w_buf_next - NBufs

(* The first block whose tokens the writer has not taken back. *)
DrainFrom ==
  IF \E w \in Writers : pc[w] = "clear" /\ count[w_buf_next % NBufs] = 0
  THEN Oldest + 1 ELSE Oldest

(* Has the token of the block being drained been taken from slot s? *)
Drained(s) ==
  IF \E w \in Writers : pc[w] = "clear" /\ s < ir[w] THEN 1 ELSE 0

ClearTokens ==
  \A s \in Slots :
    CLEAR[s] + Drained(s) = HowMany(UsedBlocks, DrainFrom, NextUncleared(s))

(* No block that a reader has yet to clear was taken back. *)
NoneLost ==
  \A s \in Slots : Among(UsedBlocks, NextUncleared(s), DrainFrom) = {}

(* Each place of the ring counts the one used block that lies there. *)
Counts ==
  \A b \in Oldest .. w_buf_next - 1 :
    count[b % NBufs] = IF b >= DrainFrom /\ b \in UsedBlocks THEN 1 ELSE 0

(* Is the oldest block still to be filled, or to be cleared by a reader? *)
OldestNeeded ==
  \/ Oldest >= w_buf_curr
  \/ Oldest \in UsedBlocks /\ \E s \in Slots : NextUncleared(s) <= Oldest

(* The memory holds the blocks, the oldest as long as anyone needs it. *)
Contents ==
  \A b \in Oldest .. w_buf_next - 1 :
    b >= 0 /\ (b = Oldest => OldestNeeded) => mem[b % NBufs] = b

BlockInv == ClearTokens /\ NoneLost /\ Counts /\ Contents

RingInv == ReadInv /\ BlockInv
=============================================================================
