----------------------------- MODULE IpcIoStream ----------------------------
(***************************************************************************)
(* A write client and a read client of ipcio that use all of its interface,  *)
(* over one ring.  The bytes written are numbered 1, 2, 3, ... so that what   *)
(* is read can be compared with what was meant to be sent.                   *)
(***************************************************************************)
EXTENDS IpcIo

CONSTANTS
  XFERS,       \* IPCBUF_XFERS
  MaxBytes,    \* bound: bytes written
  MaxXfer,     \* bound: transfers started, no more than XFERS
  MaxOpen,     \* bound: calls of ipcio_open
  MaxSeek,     \* bound: seeks and partial closes, by the reader
  WriteSizes,  \* client: the sizes of its writes
  ReadSizes,   \* client: the sizes of its reads
  Slips        \* client: the misuses it commits, see Slip

ASSUME StreamSizes ==
  /\ XFERS \in Nat \ {0}
  /\ MaxBytes \in Nat
  /\ MaxXfer \in 0 .. XFERS
  /\ MaxOpen \in Nat
  /\ MaxSeek \in Nat
  /\ WriteSizes \subseteq Nat \ {0}
  /\ ReadSizes \subseteq Nat \ {0}

VARIABLES
  io,          \* the writer's handle and the ring
  todo,        \* bytes of the ipcio_write in progress, still to be written
  rd,          \* the reader's handle
  want,        \* bytes of the ipcio_read in progress, or -1
  seeks,
  opens,
  (* what really happened: not in the program, read by the properties only *)
  addr,        \* addr[v] is the address in the ring at which byte v was written
  sent,        \* the address of the first byte, and the last byte, of each transfer
  last         \* the bytes last read and their position in the transfer

ghost == <<addr, sent, last>>
vars == <<io, todo, rd, want, seeks, opens, ghost>>

(* Does the client commit the misuse s?                                     *)
(*   "origin"      data start in block 0 after ipcio_open in mode w          *)
(*   "same_block"  data start in the block in which the last transfer ended  *)
(*   "stop_early"  data stop before the block in which they start is filled  *)
(*   "empty_block" ipcio_close_block_write(0)                                *)
(*   "clock_only"  ipcio_close before any transfer, with a block half full   *)
Slip(s) == s \in Slips

Open == -1           \* the last byte of a transfer that has not ended
None == -1
GivenBack == -1      \* the address of a byte whose block was given back

Init ==
  /\ io = InitIo
  /\ todo = <<>>
  /\ rd = InitReader
  /\ want = None
  /\ seeks = 0
  /\ opens = 0
  /\ addr = <<>>
  /\ sent = <<>>
  /\ last = [xfer |-> 0, pos |-> 0, vals |-> <<>>]

-----------------------------------------------------------------------------
(* The writer. *)

n == Len(addr)
Idle == todo = <<>> /\ ~io.err

(* What the transfers should contain: one more begins at the address a.      *)
Begins(a) == Append(sent, [at |-> a, to |-> Open])
First(x) == Min({v \in 1 .. n : addr[v] >= x.at} \cup {n + 1})

WriterOnly == UNCHANGED <<rd, want, seeks, last>>

OpenWrite(rdwrt) ==
  /\ Idle
  /\ io.rdwrt = "0"
  /\ opens < MaxOpen
  /\ rdwrt = "W" => Len(sent) < MaxXfer
  /\ io' = ipcio_open(io, rdwrt)
  /\ opens' = opens + 1
  /\ sent' = IF rdwrt = "W" THEN Begins(io.w_buf_curr * BufSz) ELSE sent
  /\ UNCHANGED <<todo, addr>> /\ WriterOnly

(* ipcbuf_set_soclock_buf, called when the writer begins to clock data *)
SetSoclock ==
  /\ Idle
  /\ io.rdwrt = "w"
  /\ io' = ipcbuf_set_soclock_buf(io)
  /\ io' # io
  /\ UNCHANGED <<todo, opens, addr, sent>> /\ WriterOnly

(* ipcio_start.  The bytes at and after the address byte are meant: those     *)
(* written there since the ring was opened, and those to come.               *)
Start(byte) ==
  /\ Idle
  /\ io.rdwrt = "w"
  /\ Len(sent) < MaxXfer
  /\ byte >= ipcio_get_start_minimum(io)
  /\ byte >= BufSz \/ Slip("origin")
  /\ io.w_xfer > 0 =>
       LET x == io.xfers[io.w_xfer] IN
       byte >= IF Slip("same_block") THEN x.e_buf * BufSz + x.e_byte
                                     ELSE (x.e_buf + 1) * BufSz
  /\ io' = ipcio_start(io, byte)
  /\ sent' = Begins(byte)
  /\ UNCHANGED <<todo, opens, addr>> /\ WriterOnly

Write(m) ==
  /\ Idle
  /\ io.rdwrt \in {"w", "W"}
  /\ io.buf_ptrs = <<>>
  /\ n + m <= MaxBytes
  /\ todo' = [i \in 1 .. m |-> n + i]
  /\ UNCHANGED <<io, opens, addr, sent>> /\ WriterOnly

DoWriteFull ==
  /\ todo # <<>> /\ ~io.err
  /\ io.bytes = BufSz
  /\ io' = WriteFull(io)
  /\ UNCHANGED <<todo, opens, addr, sent>> /\ WriterOnly

DoWriteGet ==
  /\ todo # <<>> /\ ~io.err
  /\ io.bytes # BufSz
  /\ io.curbuf = NoBuf
  /\ GetReady(io)
  /\ io' = WriteGet(io)
  /\ UNCHANGED <<todo, opens, addr, sent>> /\ WriterOnly

(* The addresses of m bytes stored from byte i of the block number b on. *)
Addresses(b, i, m) == [j \in 1 .. m |-> b * BufSz + i + j - 1]

DoWriteCopy ==
  LET s == Space(io, todo) IN
  /\ todo # <<>> /\ ~io.err
  /\ io.bytes # BufSz
  /\ io.curbuf # NoBuf
  /\ io' = WriteCopy(io, todo)
  /\ todo' = SubSeq(todo, s + 1, Len(todo))
  /\ addr' = addr \o Addresses(io.w_buf_next - 1, io.bytes, s)
  /\ UNCHANGED <<opens, sent>> /\ WriterOnly

(* ipcio_open_block_write *)
OpenBlock ==
  /\ Idle
  /\ MayOpenBlock(io)
  /\ GetReady(io)
  /\ n + BufSz * (1 + Len(io.buf_ptrs)) <= MaxBytes
  /\ io' = ipcio_open_block_write(io)
  /\ UNCHANGED <<todo, opens, addr, sent>> /\ WriterOnly

(* The client stores m bytes in the current block, then calls                *)
(* ipcio_close_block_write: less than a block ends the transfer.             *)
CloseBlock(m) ==
  LET vals == [i \in 1 .. m |-> n + i] IN
  /\ Idle
  /\ io.buf_ptrs # <<>>
  /\ io.bytes = 0
  /\ m = BufSz \/ (Len(io.buf_ptrs) = 1 /\ io.state = "WRITING")
  /\ m > 0 \/ (Slip("empty_block") /\ GetReady(io))
  /\ io' = ipcio_close_block_write(
             [io EXCEPT !.mem = Store(@, io.curbuf, 0, vals)], m)
  /\ addr' = addr \o Addresses(io.w_buf_curr, 0, m)
  /\ sent' = IF m < BufSz
               THEN [sent EXCEPT ![Len(sent)].to = n + m] ELSE sent
  /\ UNCHANGED <<todo, opens>> /\ WriterOnly

(* What the client still has to do before it may stop or close. *)
MayStop ==
  /\ Slip("stop_early") \/ ~io.sod_pending
  /\ io.buf_ptrs # <<>> => io.state = "WRITING"
  /\ ClosesBlocks(io)
  /\ StopReady(io)

(* Before it stops, the client has stored bytes in all the blocks it holds    *)
(* open: ipcio_stop and ipcio_close close them as full blocks.               *)
Held == BufSz * Len(io.buf_ptrs)

Stored ==
  LET val(i, j) == n + (i - 1) * BufSz + j + 1 IN
  [io EXCEPT !.mem = [b \in Ring |->
     IF b \in Range(io.buf_ptrs)
       THEN LET i == CHOOSE i \in DOMAIN io.buf_ptrs : io.buf_ptrs[i] = b IN
            [j \in 0 .. BufSz - 1 |-> val(i, j)]
       ELSE @[b]]]

(* A transfer that was opened ends; without a byte it is none. *)
Stopped ==
  CASE sent = <<>> \/ Last(sent).to # Open -> sent
    [] sent # <<>> /\ Last(sent).to = Open /\ io.state = "WCHANGE" -> Front(sent)
    [] OTHER -> [sent EXCEPT ![Len(sent)].to = n + Held]

Stop ==
  /\ Idle
  /\ io.rdwrt = "W"
  /\ io.state # "WCHANGE"
  /\ MayStop
  /\ io' = ipcio_stop(Stored)
  /\ sent' = Stopped
  /\ addr' = addr \o Addresses(io.w_buf_curr, 0, Held)
  /\ UNCHANGED <<todo, opens>> /\ WriterOnly

Close ==
  /\ Idle
  /\ io.rdwrt \in {"w", "W"}
  /\ MayStop
  /\ \/ Slip("clock_only")
     \/ io.w_xfer > 0
     \/ io.state = "WRITING"
     \/ io.w_buf_next = io.w_buf_curr
  /\ io' = ipcio_close(Stored)
  /\ sent' = Stopped
  /\ addr' = [v \in 1 .. n + Held |->
               LET a == (addr \o Addresses(io.w_buf_curr, 0, Held))[v] IN
               IF a >= io'.w_buf_next * BufSz THEN GivenBack ELSE a]
  /\ UNCHANGED <<todo, opens>> /\ WriterOnly

-----------------------------------------------------------------------------
(* The reader. *)

ReaderOnly == UNCHANGED <<todo, opens, addr, sent>>

(* m bytes of the block that r holds are given to the client *)
Got(r, m) == [xfer |-> r.r_xfer + 1, pos |-> ipcio_tell(r, io),
              vals |-> Peek(r, io, m)]

(* ipcio_read(m), or ipcio_seek of m bytes forward, is called. *)
Read(m) ==
  /\ want = None
  /\ rd.state # "RSTOP"
  /\ want' = m
  /\ UNCHANGED <<io, rd, seeks, last>> /\ ReaderOnly

(* The next block is waited for, even if no more bytes are wanted. *)
ReadGet ==
  /\ want # None
  /\ ReadReady(rd, io)
  /\ rd' = ipcbuf_get_next_read(rd, io)
  /\ io' = Taken(io)
  /\ UNCHANGED <<want, seeks, last>> /\ ReaderOnly

(* Bytes are copied; a block that has been read is cleared; the call returns *)
(* when nothing more is wanted and it holds a block, or at end of data.      *)
ReadCopy ==
  LET left == rd.curbufsz - rd.bytes
      s == IF left < want THEN left ELSE want
      r == [rd EXCEPT !.bytes = @ + s]
      all == r.bytes = r.curbufsz
      r2 == IF all THEN ipcbuf_mark_cleared(r, io) ELSE r
  IN /\ want # None
     /\ rd.curbuf # NoBuf
     /\ rd' = r2
     /\ io' = IF all THEN Cleared(io) ELSE io
     /\ last' = Got(rd, s)
     /\ want' = IF r2.state = "RSTOP" \/ (~all /\ want = s) THEN None
                                                           ELSE want - s
     /\ UNCHANGED seeks /\ ReaderOnly

(* ipcio_seek backwards, no further than the start of the block *)
SeekBack(m) ==
  /\ want = None
  /\ rd.curbuf # NoBuf
  /\ m <= rd.bytes
  /\ seeks < MaxSeek
  /\ rd' = [rd EXCEPT !.bytes = @ - m]
  /\ seeks' = seeks + 1
  /\ UNCHANGED <<io, want, last>> /\ ReaderOnly

(* ipcio_open_block_read *)
OpenBlockRead ==
  /\ want = None
  /\ rd.bytes = 0
  /\ ReadReady(rd, io)
  /\ rd' = ipcbuf_get_next_read(rd, io)
  /\ io' = Taken(io)
  /\ last' = Got(rd', rd'.curbufsz)
  /\ UNCHANGED <<want, seeks>> /\ ReaderOnly

(* ipcio_close_block_read: if the client says that it used less than the     *)
(* block, the block stays open and ipcio_read goes on from there.            *)
CloseBlockRead(m) ==
  LET r == [rd EXCEPT !.bytes = m]
      all == m = rd.curbufsz
  IN /\ want = None
     /\ rd.curbuf # NoBuf
     /\ rd.bytes = 0
     /\ m <= rd.curbufsz
     /\ all \/ seeks < MaxSeek
     /\ seeks' = IF all THEN seeks ELSE seeks + 1
     /\ rd' = IF all THEN ipcbuf_mark_cleared(r, io) ELSE r
     /\ io' = IF all THEN Cleared(io) ELSE io
     /\ last' = Got(rd, m)
     /\ UNCHANGED want /\ ReaderOnly

(* ipcbuf_reset at end of data *)
NextTransfer ==
  /\ want = None
  /\ rd.state = "RSTOP"
  /\ rd' = ipcbuf_reset(rd)
  /\ UNCHANGED <<io, want, seeks, last>> /\ ReaderOnly

WriteSteps == DoWriteFull \/ DoWriteGet \/ DoWriteCopy

WriterNext ==
  \/ \E mode \in {"w", "W"} : OpenWrite(mode)
  \/ SetSoclock
  \/ \E byte \in 0 .. MaxBytes : Start(byte)
  \/ \E m \in WriteSizes : Write(m)
  \/ WriteSteps
  \/ OpenBlock
  \/ \E m \in 0 .. BufSz : CloseBlock(m)
  \/ Stop
  \/ Close

ReaderNext ==
  \/ \E m \in ReadSizes : Read(m)
  \/ ReadGet
  \/ ReadCopy
  \/ \E m \in 1 .. BufSz : SeekBack(m)
  \/ OpenBlockRead
  \/ \E m \in 0 .. BufSz : CloseBlockRead(m)
  \/ NextTransfer

Next == WriterNext \/ ReaderNext

Spec == Init /\ [][Next]_vars

(* A call in progress goes on when it can, and the read client keeps reading. *)
FairSpec == Spec /\ WF_vars(WriteSteps) /\ WF_vars(ReaderNext)

-----------------------------------------------------------------------------
(***************************************************************************)
(* Properties.                                                             *)
(***************************************************************************)

(* Type invariant: the writer's place in its block and the ring's counters    *)
(* agree with the mode and state of the handle, whatever calls led there.     *)
TypeOK ==
  /\ io.rdwrt \in {"0", "w", "W"}
  /\ io.state \in {"VIEWER", "WRITER", "WCHANGE", "WRITING"}
  /\ (io.rdwrt = "0") = (io.state = "VIEWER")
  /\ io.bytes \in 0 .. BufSz
  /\ io.curbuf \in Ring \cup {NoBuf}
  /\ io.w_buf_next - io.w_buf_curr \in 0 .. NBufs
  /\ io.FULL \in 0 .. NBufs
  /\ io.CLEAR \in 0 .. NBufs
  /\ Len(io.xfers) \in {io.w_xfer, io.w_xfer + 1}
  /\ rd.state \in {"READER", "READING", "RSTOP"}
  /\ rd.curbufsz \in 0 .. BufSz
  /\ rd.bytes \in 0 .. BufSz

(* ipcio.h and doc/ipc.tex give the conditions under which the functions may  *)
(* be called; a call that meets them is not refused by ipcbuf underneath      *)
(* (ipcio_check_pending_sod, ipcio_write).                                    *)
CallsAccepted == ~io.err

(* What ipcio_read copies, or ipcio_open_block_read returns, at the position   *)
(* ipcio_tell reports in a transfer are the bytes meant to be there: those     *)
(* written from the byte given to ipcio_start on, or since ipcio_open.         *)
ReadTrue ==
  \A i \in DOMAIN last.vals :
    LET x == sent[last.xfer] IN
    /\ last.vals[i] = First(x) + last.pos + i - 1
    /\ x.to # Open => last.vals[i] <= x.to

(* End of data is reported after exactly the bytes written between start and  *)
(* stop: none is missing, none is added, also when the stop falls on a block   *)
(* boundary.                                                                  *)
LengthTrue ==
  rd.state = "RSTOP" =>
    LET x == sent[rd.r_xfer] IN
    /\ x.to # Open
    /\ last.pos + Len(last.vals) = x.to - First(x) + 1

(* Every transfer that was stopped or closed is read to its end.  A read that *)
(* ends exactly on a block boundary waits for the next block, so this needs   *)
(* ipcio_stop to hand over a last block in every case.                        *)
TransfersEnd ==
  \A k \in 1 .. MaxXfer :
    (k <= Len(sent) /\ sent[k].to # Open) ~> (rd.r_xfer >= k)

(* ipcio_write returns: the blocks it waits for are cleared in the end. *)
WritesReturn == (todo # <<>>) ~> (todo = <<>>)

=============================================================================
