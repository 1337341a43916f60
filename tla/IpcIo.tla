------------------------------- MODULE IpcIo --------------------------------
(***************************************************************************)
(* The functions of the byte stream over the Data Block (ipcio.c), and of    *)
(* ipcbuf.c as they call it.                                                 *)
(*                                                                         *)
(* The handle of the writer and the ring under it are one record, and each   *)
(* function is an operator that maps such a record to the next: a call of    *)
(* ipcio is one step, except where it waits.  How the calls of ipcbuf        *)
(* interleave with the reader inside a call is the subject of module IpcBuf; *)
(* here one reader slot is kept, and fewer than IPCBUF_XFERS transfers are   *)
(* made, so that each has a place of its own in the table.                   *)
(*                                                                         *)
(* Operators marked "mutant" are faulty variants of the definition that      *)
(* follows them.  Nothing uses them.                                         *)
(***************************************************************************)
EXTENDS Integers, Sequences, SequencesExt

CONSTANTS
  NBufs,       \* sync->nbufs
  BufSz        \* sync->bufsz

ASSUME IoSizes == NBufs \in Nat \ {0} /\ BufSz \in Nat \ {0}

NoBuf == -1
Unwritten == 0
Ring == 0 .. NBufs - 1

-----------------------------------------------------------------------------
(***************************************************************************)
(* The calls of ipcbuf the writer makes.                                   *)
(***************************************************************************)

InitIo ==
  [rdwrt |-> "0", bytes |-> 0, curbuf |-> NoBuf, marked_filled |-> FALSE,
   sod_pending |-> FALSE, sod_buf |-> 0, sod_byte |-> 0, buf_ptrs |-> <<>>,
   state |-> "VIEWER", soclock_buf |-> 0,
   w_state |-> "DISCON", w_buf_curr |-> 0, w_buf_next |-> 0, w_xfer |-> 0,
   xfers |-> <<>>, count |-> [b \in Ring |-> 0], FULL |-> 0, CLEAR |-> 0,
   mem |-> [b \in Ring |-> [i \in 0 .. BufSz - 1 |-> Unwritten]],
   err |-> FALSE]

Fail(d) == [d EXCEPT !.err = TRUE]

(* A uint64_t: a difference below zero wraps, modulo 2^64. *)
Unsigned(n) == IF n >= 0 THEN n ELSE n + 65536 * 65536 * 65536 * 65536

ipcbuf_get_sod_minbuf(d) ==
  IF Unsigned(d.w_buf_next - d.soclock_buf) < NBufs
    THEN d.soclock_buf
    ELSE Unsigned(d.w_buf_next - NBufs + 1)

ipcbuf_set_soclock_buf(d) ==
  [d EXCEPT !.soclock_buf =
     IF d.w_xfer > 0 THEN d.xfers[d.w_xfer].e_buf + 1 ELSE 0]

(* The end of data flag of a transfer is TRUE from the start, with e_buf 0,  *)
(* unless no block was ever filled.                                          *)
ipcbuf_enable_sod(d, b, y) ==
  IF /\ d.state \in {"WRITER", "WCHANGE"}
     /\ b <= d.w_buf_next
     /\ b >= ipcbuf_get_sod_minbuf(d)
     /\ y <= BufSz
  THEN [d EXCEPT !.xfers = Append(@, [s_buf |-> b, s_byte |-> y,
                                      eod |-> d.w_buf_curr # 0,
                                      e_buf |-> 0, e_byte |-> 0]),
                 !.count = [k \in Ring |-> @[k] +
                    Cardinality({n \in b .. d.w_buf_curr - 1 : n % NBufs = k})],
                 !.FULL = @ + d.w_buf_curr - b,
                 !.state = "WRITING",
                 !.w_state = "WRITING"]
  ELSE Fail(d)

(* mutant: the block is taken before the reader has cleared it *)
GetReadyAlways(d) == TRUE

(* mutant: one token more than the block has *)
GetReadyMore(d) == d.CLEAR > d.count[d.w_buf_next % NBufs]

(* ipcbuf_get_next_write waits until the next block has been cleared. *)
GetReady(d) == d.CLEAR >= d.count[d.w_buf_next % NBufs]

ipcbuf_get_next_write(d) ==
  LET e == IF d.state = "WCHANGE" THEN ipcbuf_enable_sod(d, d.w_buf_curr, 0)
                                  ELSE d
      b == d.w_buf_next % NBufs
  IN IF e.err THEN e
     ELSE [e EXCEPT !.CLEAR = @ - e.count[b],
                    !.count[b] = 0,
                    !.w_buf_next = @ + 1]

(* A transfer that ends on the first byte of a block takes that block too. *)
ipcbuf_mark_filled(d, nbytes) ==
  LET ends == d.state = "WCHANGE" \/ nbytes < BufSz
      x == d.w_xfer + 1
      e == IF ~ends THEN d
           ELSE [d EXCEPT !.xfers[x].e_buf = d.w_buf_curr,
                          !.xfers[x].e_byte = nbytes,
                          !.xfers[x].eod = TRUE,
                          !.w_xfer = x,
                          !.state = "WRITER",
                          !.w_state = "DISCON"]
      f == IF ends /\ nbytes = 0 THEN ipcbuf_get_next_write(e) ELSE e
  IN IF d.state = "WRITER" THEN [d EXCEPT !.w_buf_curr = @ + 1]
     ELSE [f EXCEPT !.count[d.w_buf_curr % NBufs] = @ + 1,
                    !.w_buf_curr = @ + 1,
                    !.FULL = @ + 1]

-----------------------------------------------------------------------------
(***************************************************************************)
(* ipcio, the writer.                                                      *)
(***************************************************************************)

(* ipcbuf_lock_write, and ipcbuf_disable_sod in mode w.  Only rdwrt, bytes   *)
(* and curbuf are set: a pending start of data stays pending.                *)
ipcio_open(d, rdwrt) ==
  LET locked == IF d.w_state = "DISCON" THEN "WCHANGE" ELSE "WRITING"
      e == [d EXCEPT !.bytes = 0, !.curbuf = NoBuf, !.state = locked]
  IN IF rdwrt = "w" /\ locked # "WCHANGE" THEN Fail([e EXCEPT !.rdwrt = "0"])
     ELSE [e EXCEPT !.rdwrt = rdwrt,
                    !.state = IF rdwrt = "w" THEN "WRITER" ELSE @]

ipcio_get_start_minimum(d) == ipcbuf_get_sod_minbuf(d) * BufSz

(* The block in which data are to start has been filled. *)
PendingFilled(d) == d.w_buf_curr > d.sod_buf

(* mutant: the start of data stays pending when it has been raised *)
PendingKept(d) ==
  IF d.sod_pending /\ PendingFilled(d)
  THEN ipcbuf_enable_sod(d, d.sod_buf, d.sod_byte)
  ELSE d

ipcio_check_pending_sod(d) ==
  IF d.sod_pending /\ PendingFilled(d)
  THEN LET e == ipcbuf_enable_sod(d, d.sod_buf, d.sod_byte)
       IN IF e.err THEN e ELSE [e EXCEPT !.sod_pending = FALSE]
  ELSE d

ipcio_start(d, byte) ==
  IF d.rdwrt # "w" THEN Fail(d)
  ELSE ipcio_check_pending_sod([d EXCEPT !.sod_buf = byte \div BufSz,
                                         !.sod_byte = byte % BufSz,
                                         !.sod_pending = TRUE,
                                         !.rdwrt = "W"])

ipcio_update_block_write(d, bytes) ==
  IF d.bytes # 0 \/ d.curbuf = NoBuf \/ d.rdwrt # "W" \/ bytes > BufSz
  THEN Fail(d)
  ELSE [d EXCEPT !.bytes = bytes]

(* The oldest of the open blocks is closed and the next becomes current. *)
ipcio_close_block_write(d, bytes) ==
  LET u == ipcio_update_block_write(d, bytes)
      p == ipcio_check_pending_sod(ipcbuf_mark_filled(u, u.bytes))
      open == Tail(p.buf_ptrs)
  IN CASE u.err -> u
       [] ~u.err /\ u.marked_filled -> u
       [] ~u.err /\ ~u.marked_filled /\ p.err -> p
       [] OTHER -> [p EXCEPT !.buf_ptrs = open,
                             !.curbuf = IF open = <<>> THEN NoBuf
                                                       ELSE Head(open),
                             !.marked_filled = open = <<>>,
                             !.bytes = 0]

(* Does the loop of ipcio_stop_close over the open blocks end?  It ignores   *)
(* what ipcio_close_block_write returns.                                     *)
ClosesBlocks(d) == d.buf_ptrs = <<>> \/ (d.bytes = 0 /\ ~d.marked_filled)

CloseBlocks(d) ==
  FoldLeft(LAMBDA e, b : ipcio_close_block_write(e, BufSz), d, d.buf_ptrs)

Ended(d) ==
  [d EXCEPT !.marked_filled = TRUE,
            !.curbuf = IF d.bytes = BufSz THEN NoBuf ELSE @,
            !.rdwrt = "w"]

(* End of data is raised on the block that is being filled. *)
EndOfData(d) ==
  ipcio_check_pending_sod(
    ipcbuf_mark_filled([d EXCEPT !.state = "WCHANGE"], d.bytes))

IfOk(d, then(_)) == IF d.err THEN d ELSE then(d)

(* ipcio_stop: end of data after the last byte written. *)
ipcio_stop(d) ==
  CASE d.rdwrt # "W" -> Fail(d)
    [] d.rdwrt = "W" /\ d.state # "WRITING" -> [d EXCEPT !.rdwrt = "w"]
    [] OTHER -> IfOk(EndOfData(CloseBlocks(d)), Ended)

(* ipcio_close: the blocks after the last end of data are given back, if     *)
(* there was a transfer.                                                     *)
Closed(d) ==
  LET next == d.xfers[d.w_xfer].e_buf + 1 IN
  CASE d.rdwrt # "w" -> Fail(d)
    [] d.rdwrt = "w" /\ d.w_xfer > 0 ->
         [d EXCEPT !.w_buf_curr = next, !.w_buf_next = next,
                   !.state = "VIEWER", !.rdwrt = "0"]
    [] OTHER -> [d EXCEPT !.state = "VIEWER", !.rdwrt = "0"]

ipcio_close(d) == IfOk(IF d.rdwrt = "W" THEN ipcio_stop(d) ELSE d, Closed)

(* The last step of both may wait for a block: see ipcbuf_mark_filled. *)
StopReady(d) ==
  LET c == CloseBlocks(d) IN
  d.rdwrt = "W" /\ d.state = "WRITING" /\ c.bytes = 0 => GetReady(c)

(* The steps of ipcio_write: a full block is marked filled only when there   *)
(* is another byte to write, so that end of data can still be raised on it;  *)
(* then the next block is obtained; then bytes are copied.                   *)
WriteFull(d) ==
  LET e == IF d.marked_filled THEN d
           ELSE ipcio_check_pending_sod(ipcbuf_mark_filled(d, d.bytes))
  IN IF e.err THEN e
     ELSE [e EXCEPT !.curbuf = NoBuf, !.bytes = 0, !.marked_filled = TRUE]

WriteGet(d) ==
  LET e == ipcbuf_get_next_write(d) IN
  IF e.err THEN e
  ELSE [e EXCEPT !.curbuf = d.w_buf_next % NBufs,
                 !.marked_filled = FALSE,
                 !.bytes = 0]

Space(d, vals) == IF Len(vals) < BufSz - d.bytes THEN Len(vals)
                                                 ELSE BufSz - d.bytes

(* vals are stored in block b from byte i on *)
Store(mem, b, i, vals) ==
  [mem EXCEPT ![b] = [j \in 0 .. BufSz - 1 |->
     IF j \in i .. i + Len(vals) - 1 THEN vals[j - i + 1] ELSE @[j]]]

WriteCopy(d, vals) ==
  LET s == Space(d, vals) IN
  [d EXCEPT !.mem = Store(@, d.curbuf, d.bytes, SubSeq(vals, 1, s)),
            !.bytes = @ + s]

(* ipcio_open_block_write: may it succeed, and what it does. *)
MayOpenBlock(d) ==
  /\ d.bytes = 0
  /\ d.curbuf # NoBuf => d.buf_ptrs # <<>>
  /\ d.rdwrt = "W"
  /\ Len(d.buf_ptrs) < NBufs - 1

ipcio_open_block_write(d) ==
  LET e == ipcbuf_get_next_write(d)
      b == d.w_buf_next % NBufs
      first == d.buf_ptrs = <<>>
  IN IF e.err THEN e
     ELSE [e EXCEPT !.buf_ptrs = Append(@, b),
                    !.curbuf = IF first THEN b ELSE @,
                    !.marked_filled = @ /\ ~first,
                    !.bytes = IF first THEN 0 ELSE @]

-----------------------------------------------------------------------------
(***************************************************************************)
(* ipcio, the reader: r is its handle, d the ring.                          *)
(***************************************************************************)

InitReader ==
  [state |-> "READER", r_buf |-> 0, r_xfer |-> 0, curbuf |-> NoBuf,
   start |-> 0, bytes |-> 0, curbufsz |-> 0]

(* The entry of the transfer being read: as ipcbuf_create left it, if no      *)
(* transfer has been started there.                                          *)
NoXfer == [s_buf |-> 0, s_byte |-> 0, eod |-> TRUE, e_buf |-> 0, e_byte |-> 0]

Xfer(r, d) == IF r.r_xfer < Len(d.xfers) THEN d.xfers[r.r_xfer + 1] ELSE NoXfer

(* mutant: the end of data flag alone *)
AtEodFlag(r, d) == Xfer(r, d).eod

(* mutant: the block after the one in which the transfer ends *)
AtEodAfter(r, d) == Xfer(r, d).eod /\ r.r_buf = Xfer(r, d).e_buf + 1

(* The reader holds the block in which the transfer ends. *)
AtEod(r, d) == Xfer(r, d).eod /\ r.r_buf = Xfer(r, d).e_buf

(* ipcbuf_get_next_read, which waits for FULL: the first block of a transfer *)
(* is returned from its start byte on.                                       *)
ReadReady(r, d) == r.state # "RSTOP" /\ r.curbuf = NoBuf /\ d.FULL > 0

ipcbuf_get_next_read(r, d) ==
  LET first == r.state = "READER"
      s == IF first THEN Xfer(r, d).s_byte ELSE 0
      g == [r EXCEPT !.state = "READING",
                     !.r_buf = IF first THEN Xfer(r, d).s_buf ELSE @,
                     !.start = s,
                     !.bytes = 0]
  IN [g EXCEPT !.curbuf = g.r_buf % NBufs,
               !.curbufsz = (IF AtEod(g, d) THEN Xfer(g, d).e_byte
                                            ELSE BufSz) - s]

(* ipcbuf_mark_cleared, and the assignments that follow it in ipcio *)
ipcbuf_mark_cleared(r, d) ==
  LET c == [r EXCEPT !.curbuf = NoBuf, !.bytes = 0] IN
  IF AtEod(r, d) THEN [c EXCEPT !.state = "RSTOP", !.r_xfer = @ + 1]
                 ELSE [c EXCEPT !.r_buf = @ + 1]

(* ipcbuf_reset: the reader goes on to the next transfer. *)
ipcbuf_reset(r) == [r EXCEPT !.state = "READER"]

(* ipcio_tell: 0 before the first byte and, with a message, at end of data. *)
ipcio_tell(r, d) ==
  IF r.state # "READING" THEN IF r.state = "RSTOP" THEN 0 ELSE r.bytes
  ELSE LET x == Xfer(r, d) IN
       (IF r.r_buf <= x.s_buf THEN 0
        ELSE (r.r_buf - x.s_buf) * BufSz - x.s_byte) + r.bytes

(* The n bytes ipcio_read copies next; bytes beyond the block are unknown. *)
Peek(r, d, n) ==
  [i \in 1 .. n |-> LET j == r.start + r.bytes + i - 1 IN
                    IF j \in 0 .. BufSz - 1 THEN d.mem[r.curbuf][j]
                                            ELSE Unwritten]

Cleared(d) == [d EXCEPT !.CLEAR = @ + 1]
Taken(d) == [d EXCEPT !.FULL = @ - 1]

=============================================================================
