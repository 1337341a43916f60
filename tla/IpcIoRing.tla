----------------------------- MODULE IpcIoRing ------------------------------
(***************************************************************************)
(* Why the byte stream delivers what was meant to be sent: the inductive   *)
(* invariant behind TypeOK, CallsAccepted, ReadTrue and LengthTrue of      *)
(* IpcIoStream.                                                            *)
(*                                                                         *)
(* Blocks are numbered as they are obtained, and byte i of block b has the *)
(* address b * BufSz + i.  The invariant has four layers: the handle of    *)
(* the writer, the transfers and the tokens of the ring, the bytes in the  *)
(* ring, and what was last read.  The first three are stated of any record *)
(* that ipcio's functions work on, so that they can be followed through a  *)
(* call.                                                                   *)
(***************************************************************************)
EXTENDS IpcIoStream, FiniteSets

(* The clients and rings for which the stream is right.  With a single     *)
(* block no start of data can be raised in a block that was clocked: the   *)
(* block is full, so it has been handed out again.                         *)
StreamClients == Slips = {} /\ NBufs > 1

-----------------------------------------------------------------------------
(***************************************************************************)
(* Types.                                                                  *)
(***************************************************************************)
XferRec ==
  [s_buf : Nat, s_byte : 0 .. BufSz, eod : BOOLEAN, e_buf : Nat,
   e_byte : 0 .. BufSz]

IoRec ==
  [rdwrt : {"0", "w", "W"}, bytes : 0 .. BufSz, curbuf : Ring \cup {NoBuf},
   marked_filled : BOOLEAN,
   sod_pending : BOOLEAN, sod_buf : Nat, sod_byte : Nat, buf_ptrs : Seq(Ring),
   state : {"VIEWER", "WRITER", "WCHANGE", "WRITING"}, soclock_buf : Nat,
   w_state : {"DISCON", "WRITING"}, w_buf_curr : Nat, w_buf_next : Nat,
   w_xfer : Nat, xfers : Seq(XferRec), count : [Ring -> Nat],
   FULL : Nat, CLEAR : Nat, mem : [Ring -> [0 .. BufSz - 1 -> Nat]],
   err : BOOLEAN]

ReaderRec ==
  [state : {"READER", "READING", "RSTOP"}, r_buf : Nat, r_xfer : Nat,
   curbuf : Ring \cup {NoBuf}, start : 0 .. BufSz, bytes : Nat,
   curbufsz : 0 .. BufSz]

SentRec == [at : Nat, to : Nat \cup {Open}]

Types ==
  /\ io \in IoRec /\ rd \in ReaderRec
  /\ todo \in Seq(Nat) /\ want \in Nat \cup {None}
  /\ addr \in Seq(Nat \cup {GivenBack}) /\ sent \in Seq(SentRec)
  /\ last \in [xfer : Nat, pos : Nat, vals : Seq(Nat)]

-----------------------------------------------------------------------------
(***************************************************************************)
(* The transfers and the tokens.                                           *)
(***************************************************************************)
(* The members of B from one place up to another, and their number.        *)
Among(B, from, to) == {b \in from .. to - 1 : b \in B}
HowMany(B, from, to) == Cardinality(Among(B, from, to))

Address(b, i) == b * BufSz + i

StartAddr(x) == Address(x.s_buf, x.s_byte)
EndAddr(x) == Address(x.e_buf, x.e_byte)

(* The first block after the last end of data.                             *)
Base(d) == IF d.w_xfer = 0 THEN 0 ELSE d.xfers[d.w_xfer].e_buf + 1

Table(d) ==
  /\ Len(d.xfers) \in {d.w_xfer, d.w_xfer + 1}
  /\ \A k \in 1 .. Len(d.xfers) :
       /\ d.xfers[k].s_byte < BufSz
       /\ d.xfers[k].s_buf <= d.w_buf_curr
       /\ \A j \in 1 .. k - 1 : d.xfers[j].e_buf < d.xfers[k].s_buf
  /\ \A k \in 1 .. d.w_xfer :
       /\ d.xfers[k].eod
       /\ d.xfers[k].s_buf <= d.xfers[k].e_buf
       /\ d.xfers[k].e_buf < d.w_buf_curr
       /\ d.xfers[k].s_buf = d.xfers[k].e_buf
            => d.xfers[k].s_byte < d.xfers[k].e_byte
  /\ \A k \in d.w_xfer + 1 .. Len(d.xfers) :
       /\ d.xfers[k].eod => d.xfers[k].e_buf = 0 /\ d.xfers[k].s_buf > 0
       /\ d.xfers[k].s_buf = d.w_buf_curr => d.xfers[k].s_byte = 0
  /\ d.soclock_buf <= Base(d)
  /\ d.w_buf_curr <= d.w_buf_next
  /\ d.w_buf_next - d.w_buf_curr < NBufs

(* Block b was filled, or will be, in transfer k.                          *)
InTransfer(d, k, b) ==
  d.xfers[k].s_buf <= b /\ (k <= d.w_xfer => b <= d.xfers[k].e_buf)

UsedBlocks(d) ==
  {b \in 0 .. d.w_buf_curr - 1 : \E k \in 1 .. Len(d.xfers) : InTransfer(d, k, b)}

(* The first block the reader has not cleared.                             *)
Due(r, d) == IF r.state = "READING" THEN r.r_buf
             ELSE IF r.r_xfer = 0 THEN 0 ELSE d.xfers[r.r_xfer].e_buf + 1

(* Where the reader is, inside transfer k = r.r_xfer + 1 or before it.     *)
Place(r, d) ==
  LET k == r.r_xfer + 1 IN
  /\ r.r_xfer <= d.w_xfer
  /\ r.state = "RSTOP" => r.r_xfer > 0
  /\ r.state = "READING" =>
       /\ k <= Len(d.xfers)
       /\ InTransfer(d, k, r.r_buf)
       /\ IF r.curbuf = NoBuf THEN d.xfers[k].s_buf < r.r_buf
                              ELSE r.r_buf < d.w_buf_curr
       /\ r.r_buf <= d.w_buf_curr
  /\ r.curbuf = NoBuf => r.bytes = 0
  /\ r.curbuf # NoBuf =>
       /\ r.state = "READING"
       /\ r.curbuf = r.r_buf % NBufs
       /\ r.start = IF r.r_buf = d.xfers[k].s_buf THEN d.xfers[k].s_byte ELSE 0
       /\ r.start + r.curbufsz = IF k <= d.w_xfer /\ r.r_buf = d.xfers[k].e_buf
                                 THEN d.xfers[k].e_byte ELSE BufSz
       /\ r.bytes <= r.curbufsz

(* The writer has taken back the tokens of the used blocks before from.    *)
TakenBack(r, d, from) ==
  LET oldest == d.w_buf_next - NBufs IN
  /\ oldest <= from
  /\ from = oldest \/ from <= Base(d)
  /\ d.CLEAR = HowMany(UsedBlocks(d), from, Due(r, d))
  /\ Among(UsedBlocks(d), Due(r, d), from) = {}
  /\ \A b \in oldest .. d.w_buf_next - 1 :
       d.count[b % NBufs] = IF b >= from /\ b \in UsedBlocks(d) THEN 1 ELSE 0

Tokens(r, d) ==
  /\ d.FULL + (IF r.curbuf = NoBuf THEN 0 ELSE 1)
       = HowMany(UsedBlocks(d), Due(r, d), d.w_buf_curr)
  /\ \E from \in d.w_buf_next - NBufs .. d.w_buf_next : TakenBack(r, d, from)

RingOK(r, d) == Table(d) /\ Place(r, d) /\ Tokens(r, d)

-----------------------------------------------------------------------------
(***************************************************************************)
(* The handle.                                                             *)
(***************************************************************************)
Modes(d) ==
  /\ ~d.err
  /\ d.rdwrt = "0" => d.state = "VIEWER"
  /\ d.rdwrt = "w" => d.state = "WRITER"
  /\ d.rdwrt = "W" => d.state \in {"WRITER", "WCHANGE", "WRITING"}
  /\ d.w_state = IF d.state = "WRITING" THEN "WRITING" ELSE "DISCON"
  /\ (d.state = "WRITING") = (Len(d.xfers) = d.w_xfer + 1)
  /\ d.state = "WCHANGE" => d.curbuf = NoBuf /\ d.bytes = 0 /\ d.w_buf_curr = d.w_buf_next
  /\ d.sod_pending =>
       /\ d.rdwrt = "W" /\ d.state = "WRITER"
       /\ d.sod_buf >= d.w_buf_curr
       /\ d.sod_buf >= Base(d)
       /\ d.sod_buf > 0
       /\ d.sod_byte < BufSz

(* The blocks held open, the oldest first.                                 *)
HoldsOpen(d) ==
  /\ d.rdwrt = "W" /\ d.state \in {"WRITER", "WRITING"}
  /\ d.bytes = 0 /\ ~d.marked_filled
  /\ d.curbuf = d.buf_ptrs[1]
  /\ d.w_buf_next = d.w_buf_curr + Len(d.buf_ptrs)
  /\ \A i \in 1 .. Len(d.buf_ptrs) :
       d.buf_ptrs[i] = (d.w_buf_curr + i - 1) % NBufs

(* The block being filled, which was marked filled if a transfer ended in  *)
(* it.                                                                     *)
FillsOne(d) ==
  /\ d.curbuf = NoBuf =>
       /\ d.w_buf_next = d.w_buf_curr
       /\ d.bytes = 0 \/ (d.marked_filled /\ d.bytes = BufSz)
  /\ d.curbuf # NoBuf =>
       /\ d.marked_filled => d.bytes > 0
       /\ d.curbuf = (d.w_buf_next - 1) % NBufs
       /\ d.w_buf_next = IF d.marked_filled THEN d.w_buf_curr
                                            ELSE d.w_buf_curr + 1
  /\ d.marked_filled /\ d.bytes > 0 =>
       d.state = "WRITER" /\ d.w_xfer > 0 /\ Base(d) = d.w_buf_curr

Filling(d) ==
  /\ d.buf_ptrs # <<>> => HoldsOpen(d)
  /\ d.buf_ptrs = <<>> /\ d.rdwrt = "0" => d.w_buf_next = d.w_buf_curr
  /\ d.buf_ptrs = <<>> /\ d.rdwrt # "0" => FillsOne(d)

HandleOK(d) == Modes(d) /\ Filling(d)

-----------------------------------------------------------------------------
(***************************************************************************)
(* The bytes.                                                              *)
(***************************************************************************)

(* The address of the byte that is written next.                           *)
NextAddr(d) ==
  IF d.rdwrt = "0" THEN Address(d.w_buf_curr, 0)
  ELSE IF d.marked_filled /\ d.bytes > 0
       THEN Address(d.w_buf_curr - 1, d.bytes)
       ELSE Address(d.w_buf_curr, d.bytes)

(* The bytes from the address a to the byte v at the address z were        *)
(* written one after the other.                                            *)
Run(ad, a, z, v) == \A c \in a .. z : v - (z - c) >= 1 /\ ad[v - (z - c)] = c

(* Addresses increase, up to the address z of the byte that is written     *)
(* next.                                                                   *)
Increasing(ad, z) ==
  \A v \in 1 .. Len(ad) :
    ad[v] # GivenBack =>
      /\ ad[v] >= 0
      /\ ad[v] < z
      /\ \A u \in 1 .. v - 1 : ad[u] < ad[v]

(* What the entries of the transfers that were started promise.            *)
Promised(d, ad, st) ==
  /\ Len(d.xfers) <= Len(st)
  /\ \A k \in 1 .. Len(d.xfers) : st[k].at = StartAddr(d.xfers[k])
  /\ \A k \in 1 .. Len(st) :
       IF k <= d.w_xfer
       THEN /\ st[k].to \in 1 .. Len(ad)
            /\ Run(ad, st[k].at, EndAddr(d.xfers[k]) - 1, st[k].to)
       ELSE st[k].to = Open

(* The transfer that was asked for and has yet to start.                   *)
Asked(d, st) ==
  /\ Len(st) = IF d.sod_pending \/ d.state = "WCHANGE" THEN Len(d.xfers) + 1
                                                       ELSE Len(d.xfers)
  /\ d.sod_pending => st[Len(st)].at = Address(d.sod_buf, d.sod_byte)
  /\ d.state = "WCHANGE" => st[Len(st)].at = Address(d.w_buf_curr, 0)

(* The memory holds the bytes the reader has yet to clear, and those after *)
(* the last end of data as long as their block is in the ring.             *)
Contents(r, d, ad) ==
  \A v \in 1 .. Len(ad), b \in d.w_buf_next - NBufs .. d.w_buf_next - 1,
     j \in 0 .. BufSz - 1 :
    /\ ad[v] # GivenBack
    /\ ad[v] = Address(b, j)
    /\ \/ b >= Base(d)
       \/ b >= Due(r, d) /\ \E k \in 1 .. Len(d.xfers) : InTransfer(d, k, b)
    => d.mem[b % NBufs][j] = v

(* The bytes that were ever written, the next one having the address z;    *)
(* those since the last end of data were written one after the other.      *)
Data(r, d, ad, st, z) ==
  /\ Increasing(ad, z)
  /\ Run(ad, Address(Base(d), 0), z - 1, Len(ad))
  /\ Promised(d, ad, st)
  /\ Contents(r, d, ad)

-----------------------------------------------------------------------------
(***************************************************************************)
(* The client, and what was last read.                                     *)
(***************************************************************************)
Calls ==
  /\ todo # <<>> =>
       /\ io.rdwrt # "0"
       /\ io.buf_ptrs = <<>>
       /\ todo = [i \in 1 .. Len(todo) |-> n + i]
  /\ todo = <<>> /\ io.buf_ptrs = <<>> /\ io.rdwrt # "0" =>
       /\ io.curbuf # NoBuf => io.bytes > 0
       /\ io.state = "WRITING" => StartAddr(Last(io.xfers)) < NextAddr(io)

LastRead ==
  /\ last.vals # <<>> =>
       /\ last.xfer \in 1 .. Len(io.xfers)
       /\ \E v \in 1 .. n :
            /\ addr[v] = sent[last.xfer].at
            /\ \A i \in 1 .. Len(last.vals) : last.vals[i] = v + last.pos + i - 1
            /\ v + last.pos + Len(last.vals) - 1 <=
                 IF sent[last.xfer].to = Open THEN n ELSE sent[last.xfer].to
  /\ rd.state = "RSTOP" =>
       LET x == io.xfers[rd.r_xfer] IN
       last.pos + Len(last.vals) = EndAddr(x) - StartAddr(x)

IoInv ==
  /\ Types
  /\ RingOK(rd, io)
  /\ HandleOK(io)
  /\ Data(rd, io, addr, sent, NextAddr(io))
  /\ Asked(io, sent)
  /\ Calls
  /\ LastRead
=============================================================================
