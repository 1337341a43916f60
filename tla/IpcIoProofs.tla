----------------------------- MODULE IpcIoProofs ----------------------------
(***************************************************************************)
(* The reader's calls of ipcio keep the invariant of IpcIoRing, it holds   *)
(* initially, and so TypeOK, CallsAccepted, ReadTrue and LengthTrue of     *)
(* IpcIoStream hold for every ring of two blocks or more.                  *)
(***************************************************************************)
EXTENDS IpcIoWriteProofs

-----------------------------------------------------------------------------
(***************************************************************************)
(* The steps of the reader.                                                *)
(***************************************************************************)

(* The reader moves tokens, and nothing else of the ring.                  *)
TokensMoved(d, e) ==
  /\ e \in IoRec /\ e.mem = d.mem /\ SameHandle(d, e)
  /\ e.state = d.state /\ e.w_state = d.w_state
  /\ e.xfers = d.xfers /\ e.w_xfer = d.w_xfer /\ e.soclock_buf = d.soclock_buf
  /\ e.w_buf_curr = d.w_buf_curr /\ e.w_buf_next = d.w_buf_next
  /\ e.count = d.count

(* Waiting for a block moves one token.                                    *)
LEMMA TakenMoves ==
  ASSUME NEW d \in IoRec, NEW e, e = Taken(d), e \in IoRec
  PROVE  TokensMoved(d, e)
BY ZenonT(40) DEF TokensMoved, Taken, SameHandle, IoRec

(* Clearing a block moves one token.                                       *)
LEMMA ClearedMoves ==
  ASSUME NEW d \in IoRec, NEW e, e = Cleared(d), e \in IoRec
  PROVE  TokensMoved(d, e)
BY DEF TokensMoved, Cleared, SameHandle, IoRec

(* Leaving the ring alone moves no token.                                  *)
LEMMA NoneMoved ==
  ASSUME NEW d \in IoRec
  PROVE  TokensMoved(d, d)
BY DEF TokensMoved, SameHandle

(* The handle of the writer and what it promised stay.                     *)
LEMMA HandleKept ==
  ASSUME NEW d, NEW e, NEW st, TokensMoved(d, e), HandleOK(d), Asked(d, st)
  PROVE  HandleOK(e) /\ Asked(e, st) /\ NextAddr(e) = NextAddr(d) /\ Base(e) = Base(d)
<1>1. /\ e.rdwrt = d.rdwrt /\ e.bytes = d.bytes /\ e.curbuf = d.curbuf
      /\ e.marked_filled = d.marked_filled /\ e.buf_ptrs = d.buf_ptrs
      /\ e.sod_pending = d.sod_pending /\ e.sod_buf = d.sod_buf
      /\ e.sod_byte = d.sod_byte /\ e.err = d.err
      /\ e.state = d.state /\ e.w_state = d.w_state
      /\ e.xfers = d.xfers /\ e.w_xfer = d.w_xfer
      /\ e.w_buf_curr = d.w_buf_curr /\ e.w_buf_next = d.w_buf_next
  BY DEF TokensMoved, SameHandle
<1>2. Base(e) = Base(d)
  BY <1>1 DEF Base
<1>3. NextAddr(e) = NextAddr(d)
  BY <1>1 DEF NextAddr
<1>4. Modes(e)
  BY <1>1, <1>2 DEF HandleOK, Modes
<1>5. Asked(e, st)
  BY <1>1 DEF Asked
<1>6. HoldsOpen(d) => HoldsOpen(e)
  BY <1>1 DEF HoldsOpen
<1>7. FillsOne(d) => FillsOne(e)
  BY <1>1, <1>2 DEF FillsOne
<1>8. Filling(e)
  BY <1>1, <1>6, <1>7 DEF HandleOK, Filling
<1> QED
  BY <1>2, <1>3, <1>4, <1>5, <1>8 DEF HandleOK

(* A step of the reader keeps the invariant if the reader's place and the  *)
(* tokens agree after it, and what was read was right.                     *)
LEMMA ReaderKeeps ==
  ASSUME IoInv, ReaderOnly, rd' \in ReaderRec, want' \in Nat \cup {None},
         last' \in [xfer : Nat, pos : Nat, vals : Seq(Nat)],
         TokensMoved(io, io'), RingOK(rd', io'), Due(rd, io) <= Due(rd', io'), LastRead'
  PROVE  IoInv'
<1>1. /\ io \in IoRec /\ rd \in ReaderRec /\ addr \in AddrSeq /\ sent \in Seq(SentRec)
      /\ todo \in Seq(Nat) /\ NextAddr(io) \in Nat
  BY NowTypes, NextAddrNat
<1>2. /\ HandleOK(io) /\ Asked(io, sent) /\ Calls /\ Due(rd, io) \in Nat
      /\ Data(rd, io, addr, sent, NextAddr(io))
  BY NowInv
<1>3. addr' = addr /\ sent' = sent /\ todo' = todo
  BY DEF ReaderOnly
<1>4. HandleOK(io') /\ Asked(io', sent) /\ NextAddr(io') = NextAddr(io)
  BY <1>2, HandleKept
<1>5. /\ io' \in IoRec /\ io'.xfers = io.xfers /\ io'.w_xfer = io.w_xfer
      /\ io'.w_buf_next = io.w_buf_next /\ io'.mem = io.mem
      /\ io'.rdwrt = io.rdwrt /\ io'.buf_ptrs = io.buf_ptrs /\ io'.curbuf = io.curbuf
      /\ io'.bytes = io.bytes /\ io'.state = io.state
  BY DEF TokensMoved, SameHandle
<1>6. Due(rd', io') \in Nat
  BY <1>5, DueNumbers DEF RingOK
<1>7. Data(rd', io', addr, sent, NextAddr(io))
  <2> DEFINE z == NextAddr(io)
  <2>1. z \in Int
    BY <1>1
  <2>2. Data(rd, io, addr, sent, z)
    BY <1>2
  <2> HIDE DEF z
  <2>3. Data(rd', io', addr, sent, z)
    BY <1>1, <1>2, <1>5, <1>6, <2>1, <2>2, DataStay
  <2> QED
    BY <2>3 DEF z
<1>8. Calls'
  <2>1. n' = n
    BY <1>3 DEF n
  <2> QED
    BY <1>2, <1>3, <1>4, <1>5, <2>1 DEF Calls
<1>9. Types'
  BY <1>1, <1>3, <1>5 DEF Types, AddrSeq
<1>10. Data(rd', io', addr', sent', NextAddr(io')) /\ Asked(io', sent')
  BY <1>3, <1>4, <1>7
<1> QED
  BY <1>4, <1>8, <1>9, <1>10 DEF IoInv

(* What was last read stays.                                               *)
LEMMA LastStays ==
  ASSUME IoInv, ReaderOnly, TokensMoved(io, io'), last' = last,
         rd'.state = "RSTOP" => rd.state = "RSTOP" /\ rd'.r_xfer = rd.r_xfer
  PROVE  LastRead' /\ last' \in [xfer : Nat, pos : Nat, vals : Seq(Nat)]
<1>1. addr' = addr /\ sent' = sent /\ n' = n /\ io'.xfers = io.xfers
  BY DEF ReaderOnly, TokensMoved, n
<1>2. LastRead /\ last \in [xfer : Nat, pos : Nat, vals : Seq(Nat)]
  BY DEF IoInv, Types
<1> QED
  BY <1>1, <1>2 DEF LastRead

(* What the invariant says of the reader.                                  *)
LEMMA ReaderNow ==
  ASSUME IoInv
  PROVE  /\ io \in IoRec /\ rd \in ReaderRec /\ want \in Nat \cup {None}
         /\ RingOK(rd, io) /\ Due(rd, io) \in Nat /\ TokensMoved(io, io)
<1>1. io \in IoRec /\ rd \in ReaderRec /\ want \in Nat \cup {None}
  BY DEF IoInv, Types
<1> QED
  BY <1>1, NowInv, NoneMoved

(* ipcio_read, or ipcio_seek forward, is called.                           *)
LEMMA ReadStep ==
  ASSUME IoInv, NEW m \in ReadSizes, Read(m)
  PROVE  IoInv'
<1>1. /\ want' = m /\ io' = io /\ rd' = rd /\ last' = last /\ ReaderOnly
  BY DEF Read
<1>2. m \in Nat
  BY StreamSizes
<1>3. /\ io \in IoRec /\ rd \in ReaderRec /\ RingOK(rd, io) /\ Due(rd, io) \in Nat
      /\ TokensMoved(io, io)
  BY ReaderNow
<1>4. TokensMoved(io, io') /\ RingOK(rd', io') /\ Due(rd, io) <= Due(rd', io')
      /\ rd' \in ReaderRec
  BY <1>1, <1>3
<1>5. LastRead' /\ last' \in [xfer : Nat, pos : Nat, vals : Seq(Nat)]
  BY <1>1, <1>4, LastStays
<1> QED
  BY <1>1, <1>2, <1>4, <1>5, ReaderKeeps

(* ipcbuf_get_next_read: the next block is obtained.                       *)
LEMMA BlockObtained ==
  ASSUME IoInv, ReadReady(rd, io), rd' = ipcbuf_get_next_read(rd, io), io' = Taken(io)
  PROVE  /\ rd' \in ReaderRec /\ TokensMoved(io, io') /\ RingOK(rd', io')
         /\ Due(rd, io) <= Due(rd', io') /\ rd'.state = "READING" /\ rd'.curbuf # NoBuf
         /\ rd'.bytes = 0
<1>1. io \in IoRec /\ rd \in ReaderRec /\ RingOK(rd, io)
  BY ReaderNow
<1>2. /\ rd' \in ReaderRec /\ io' \in IoRec
      /\ RingOK(rd', io')
      /\ rd'.r_xfer = rd.r_xfer /\ rd'.state = "READING" /\ rd'.curbuf # NoBuf
      /\ rd'.bytes = 0
      /\ Due(rd, io) <= Due(rd', io')
  BY <1>1, RingTake
<1>3. TokensMoved(io, io')
  BY <1>1, <1>2, TakenMoves
<1> QED
  BY <1>2, <1>3

(* ipcio_read waits for its next block.                                    *)
LEMMA ReadGetStep ==
  ASSUME IoInv, ReadGet
  PROVE  IoInv'
<1>1. /\ ReadReady(rd, io) /\ rd' = ipcbuf_get_next_read(rd, io) /\ io' = Taken(io)
      /\ want' = want /\ last' = last /\ ReaderOnly
  BY DEF ReadGet
<1>2. /\ rd' \in ReaderRec /\ TokensMoved(io, io') /\ RingOK(rd', io')
      /\ Due(rd, io) <= Due(rd', io') /\ rd'.state = "READING"
  BY <1>1, BlockObtained
<1>3. LastRead' /\ last' \in [xfer : Nat, pos : Nat, vals : Seq(Nat)]
  BY <1>1, <1>2, LastStays
<1>4. want' \in Nat \cup {None}
  BY <1>1, ReaderNow
<1> QED
  BY <1>1, <1>2, <1>3, <1>4, ReaderKeeps

(* ipcio_seek backwards                                                    *)
LEMMA SeekBackStep ==
  ASSUME IoInv, NEW m \in 1 .. BufSz, SeekBack(m)
  PROVE  IoInv'
<1> DEFINE y == rd.bytes - m
<1>1. /\ rd.curbuf # NoBuf /\ m <= rd.bytes /\ rd' = [rd EXCEPT !.bytes = y]
      /\ io' = io /\ want' = want /\ last' = last /\ ReaderOnly
  BY DEF SeekBack
<1>2. /\ io \in IoRec /\ rd \in ReaderRec /\ RingOK(rd, io) /\ Due(rd, io) \in Nat
      /\ TokensMoved(io, io) /\ want \in Nat \cup {None}
  BY ReaderNow
<1>3. y \in Nat /\ y <= rd.curbufsz
  <2>1. rd.bytes \in Nat /\ rd.curbufsz \in 0 .. BufSz
    BY <1>2, ReaderTypes
  <2>2. rd.bytes <= rd.curbufsz
    BY <1>1, <1>2 DEF RingOK, Place
  <2>3. m \in 1 .. BufSz /\ BufSz \in Nat
    BY RingPlaces
  <2> QED
    BY <1>1, <2>1, <2>2, <2>3
<1> HIDE DEF y
<1>4. /\ rd' \in ReaderRec /\ RingOK(rd', io) /\ Due(rd', io) = Due(rd, io)
      /\ rd'.state = rd.state /\ rd'.r_xfer = rd.r_xfer
  BY <1>1, <1>2, <1>3, RingBytes
<1>5. TokensMoved(io, io') /\ RingOK(rd', io') /\ Due(rd, io) <= Due(rd', io')
  BY <1>1, <1>2, <1>4
<1>6. LastRead' /\ last' \in [xfer : Nat, pos : Nat, vals : Seq(Nat)]
  BY <1>1, <1>4, <1>5, LastStays
<1> QED
  BY <1>1, <1>2, <1>4, <1>5, <1>6, ReaderKeeps

(* ipcbuf_reset at end of data                                             *)
LEMMA NextTransferStep ==
  ASSUME IoInv, NextTransfer
  PROVE  IoInv'
<1>1. /\ rd.state = "RSTOP" /\ rd' = ipcbuf_reset(rd)
      /\ io' = io /\ want' = want /\ last' = last /\ ReaderOnly
  BY DEF NextTransfer
<1>2. /\ io \in IoRec /\ rd \in ReaderRec /\ RingOK(rd, io) /\ Due(rd, io) \in Nat
      /\ TokensMoved(io, io) /\ want \in Nat \cup {None}
  BY ReaderNow
<1>3. /\ rd' \in ReaderRec /\ RingOK(rd', io) /\ Due(rd', io) = Due(rd, io)
      /\ rd'.state = "READER"
  BY <1>1, <1>2, RingReset
<1>4. TokensMoved(io, io') /\ RingOK(rd', io') /\ Due(rd, io) <= Due(rd', io')
  BY <1>1, <1>2, <1>3
<1>5. LastRead' /\ last' \in [xfer : Nat, pos : Nat, vals : Seq(Nat)]
  BY <1>1, <1>3, <1>4, LastStays
<1> QED
  BY <1>1, <1>2, <1>3, <1>4, <1>5, ReaderKeeps

(* The block the reader holds has not been taken back by the writer.       *)
LEMMA BlockKept ==
  ASSUME NEW r \in ReaderRec, NEW d \in IoRec, RingOK(r, d), r.curbuf # NoBuf
  PROVE  r.r_buf \in d.w_buf_next - NBufs .. d.w_buf_next - 1
<1> DEFINE b == r.r_buf
<1>1. /\ Due(r, d) = b /\ b \in UsedBlocks(d) /\ b < d.w_buf_curr
  BY BlockHeld
<1>2. /\ b \in Nat /\ d.w_buf_curr \in Nat /\ d.w_buf_next \in Nat /\ NBufs \in Nat
      /\ d.w_buf_curr <= d.w_buf_next
  BY ReaderTypes, IoTypes, RingPlaces DEF RingOK, Table
<1>3. PICK from \in d.w_buf_next - NBufs .. d.w_buf_next : TakenBack(r, d, from)
  BY DEF RingOK, Tokens
<1>4. from \in Int /\ d.w_buf_next - NBufs <= from
  BY <1>2, <1>3
<1>5. Among(UsedBlocks(d), b, from) = {}
  BY <1>1, <1>3 DEF TakenBack
<1>6. from <= b
  <2> SUFFICES ASSUME b < from PROVE FALSE
    BY <1>2, <1>4
  <2>1. b \in b .. from - 1
    BY <1>2, <1>4
  <2> QED
    BY <1>1, <1>5, <2>1 DEF Among
<1> QED
  BY <1>1, <1>2, <1>4, <1>6

(* The bytes of the block the reader holds lie inside its transfer.        *)
HeldPlace(r, d) ==
  LET k == r.r_xfer + 1
      x == d.xfers[k]
      H == Address(r.r_buf, r.start + r.curbufsz)
  IN /\ r.start \in Nat /\ r.curbufsz \in Nat /\ r.start + r.curbufsz <= BufSz
     /\ StartAddr(x) \in Nat /\ StartAddr(x) <= Address(r.r_buf, r.start)
     /\ k <= d.w_xfer =>
          /\ EndAddr(x) \in Nat /\ H <= EndAddr(x) /\ StartAddr(x) < EndAddr(x)
          /\ AtEod(r, d) => H = EndAddr(x)
     /\ k > d.w_xfer =>
          /\ H <= Address(d.w_buf_curr, 0)
          /\ Address(Base(d), 0) <= StartAddr(x)

(* The open transfer starts after the last end of data.                    *)
LEMMA StartBeforeBase ==
  ASSUME NEW d \in IoRec, Table(d), NEW k \in 1 .. Len(d.xfers), k > d.w_xfer
  PROVE  Base(d) <= d.xfers[k].s_buf
<1>1. d.w_xfer \in Nat /\ d.xfers[k].s_buf \in Nat /\ k \in Nat
  BY IoTypes, XferTypes
<1>2. CASE d.w_xfer = 0
  BY <1>1, <1>2 DEF Base
<1>3. CASE d.w_xfer # 0
  <2>1. d.w_xfer \in 1 .. d.w_xfer /\ d.w_xfer \in 1 .. Len(d.xfers) /\ d.w_xfer < k
    BY <1>1, <1>3, TableNumbers
  <2>2. d.xfers[d.w_xfer].e_buf < d.xfers[k].s_buf
    BY <2>1, XferOrder
  <2>3. d.xfers[d.w_xfer].e_buf \in Nat
    BY <2>1, XferTypes
  <2>4. Base(d) = d.xfers[d.w_xfer].e_buf + 1
    BY <1>3 DEF Base
  <2> QED
    BY <1>1, <2>2, <2>3, <2>4
<1> QED
  BY <1>2, <1>3

(* The start of a transfer that ended comes before its end.                *)
LEMMA StartBeforeEnd ==
  ASSUME NEW d \in IoRec, Table(d), NEW k \in 1 .. d.w_xfer
  PROVE  /\ StartAddr(d.xfers[k]) \in Nat /\ EndAddr(d.xfers[k]) \in Nat
         /\ StartAddr(d.xfers[k]) < EndAddr(d.xfers[k])
<1> DEFINE a == d.xfers[k].s_buf
           i == d.xfers[k].s_byte
           b == d.xfers[k].e_buf
           j == d.xfers[k].e_byte
<1>1. k \in 1 .. Len(d.xfers)
  BY TableNumbers
<1>2. a \in Nat /\ b \in Nat /\ i \in 0 .. BufSz /\ j \in 0 .. BufSz
  BY <1>1, XferTypes
<1>3. a <= b /\ i < BufSz /\ (a = b => i < j)
  BY <1>1 DEF Table
<1>4. StartAddr(d.xfers[k]) = Address(a, i) /\ EndAddr(d.xfers[k]) = Address(b, j)
  BY DEF StartAddr, EndAddr
<1>5. BufSz \in Nat \ {0}
  BY RingPlaces
<1> HIDE DEF a, i, b, j
<1>6. i \in 0 .. BufSz - 1 /\ i \in Nat /\ j \in Nat
  BY <1>2, <1>3, <1>5
<1>7. Address(a, i) \in Nat /\ Address(b, j) \in Nat
  BY <1>2, <1>6, AddressNat
<1>8. Address(a, i) < Address(b, j)
  <2>0. a \in Int /\ b \in Int /\ i \in Int /\ j \in Int
    BY <1>2, <1>6
  <2>1. /\ Address(a, i) = Address(a, 0) + i /\ Address(b, j) = Address(b, 0) + j
        /\ Address(a, 0) \in Int /\ Address(b, 0) \in Int
    BY <2>0, AddressType
  <2> DEFINE p == Address(a, 0)
             q == Address(b, 0)
  <2>2. CASE a = b
    <3>1. p = q /\ i < j
      BY <1>3, <2>2
    <3> HIDE DEF p, q
    <3> QED
      BY <2>0, <2>1, <3>1 DEF p, q
  <2>3. CASE a < b
    <3>1. Address(a, i) < Address(b, 0)
      BY <1>6, <2>0, <2>3, InBlock
    <3>2. Address(b, j) >= Address(b, 0)
      BY <1>6, <2>1
    <3> QED
      BY <1>7, <2>1, <3>1, <3>2
  <2> QED
    BY <1>2, <1>3, <2>2, <2>3
<1> QED
  BY <1>4, <1>7, <1>8

(* The place of the block held, on the line of addresses.                  *)
LEMMA HeldBounds ==
  ASSUME NEW b \in Nat, NEW i \in Nat, NEW s \in Nat, i + s <= BufSz
  PROVE  /\ Address(b, i) \in Nat /\ Address(b, i + s) \in Nat
         /\ Address(b, i + s) = Address(b, i) + s
         /\ Address(b, 0) <= Address(b, i)
         /\ Address(b, i + s) <= Address(b + 1, 0)
<1>0. b \in Int /\ i \in Int /\ i + s \in Int /\ i + s \in Nat /\ BufSz \in Nat
  BY RingPlaces
<1>1. /\ Address(b, i) = Address(b, 0) + i /\ Address(b, i + s) = Address(b, 0) + (i + s)
      /\ Address(b, 0) \in Int
  BY <1>0, AddressType
<1>2. Address(b + 1, 0) = Address(b, 0) + BufSz
  BY <1>0, AddressNext
<1>3. Address(b, i) \in Nat /\ Address(b, i + s) \in Nat
  BY <1>0, AddressNat
<1> DEFINE o == Address(b, 0)
<1> HIDE DEF o
<1>4. Address(b, i) = o + i /\ Address(b, i + s) = o + (i + s) /\ o \in Int
      /\ Address(b + 1, 0) = o + BufSz
  BY <1>1, <1>2 DEF o
<1>5. /\ Address(b, i + s) = Address(b, i) + s
      /\ o <= Address(b, i)
      /\ Address(b, i + s) <= Address(b + 1, 0)
  BY <1>0, <1>4
<1> QED
  BY <1>3, <1>5 DEF o

(* The block held lies in the transfer that is read.                       *)
LEMMA HeldPlaced ==
  ASSUME NEW r \in ReaderRec, NEW d \in IoRec, RingOK(r, d), r.curbuf # NoBuf
  PROVE  HeldPlace(r, d)
<1> DEFINE k == r.r_xfer + 1
           x == d.xfers[k]
           b == r.r_buf
           i == r.start
           s == r.curbufsz
           H == Address(b, i + s)
           S == StartAddr(x)
<1>1. /\ r.state = "READING" /\ k \in 1 .. Len(d.xfers)
      /\ InTransfer(d, k, b) /\ b < d.w_buf_curr
      /\ x.s_buf <= b
      /\ AtEod(r, d) <=> k <= d.w_xfer /\ b = x.e_buf
  BY BlockHeld
<1>2. /\ b \in Nat /\ i \in Nat /\ s \in Nat /\ i \in 0 .. BufSz /\ r.r_xfer \in Nat
      /\ d.w_buf_curr \in Nat /\ d.w_xfer \in Nat /\ Len(d.xfers) \in Nat /\ BufSz \in Nat \ {0}
  <2>1. b \in Nat /\ i \in 0 .. BufSz /\ s \in 0 .. BufSz /\ r.r_xfer \in Nat
    BY ReaderTypes
  <2>2. d.w_buf_curr \in Nat /\ d.w_xfer \in Nat /\ Len(d.xfers) \in Nat
    BY IoTypes
  <2>3. BufSz \in Nat \ {0}
    BY RingPlaces
  <2> HIDE DEF b, i, s
  <2> QED
    BY <2>1, <2>2, <2>3
<1>3. /\ x.s_buf \in Nat /\ x.e_buf \in Nat /\ x.s_byte \in 0 .. BufSz /\ x.e_byte \in 0 .. BufSz
  BY <1>1, XferTypes
<1>4. Table(d) /\ Place(r, d)
  BY DEF RingOK
<1>5. /\ i = IF b = x.s_buf THEN x.s_byte ELSE 0
      /\ i + s = IF k <= d.w_xfer /\ b = x.e_buf THEN x.e_byte ELSE BufSz
  BY <1>4 DEF Place
<1>6. x.s_byte < BufSz
  BY <1>1, <1>4 DEF Table
<1>7. i + s <= BufSz
  BY <1>2, <1>3, <1>5
<1>8. S = Address(x.s_buf, x.s_byte)
  BY DEF StartAddr
<1>9. S \in Nat
  <2>1. x.s_buf \in Nat /\ x.s_byte \in Nat
    BY <1>3
  <2> QED
    BY <1>8, <2>1, AddressNat
<1> HIDE DEF x, k, b, i, s
<1>10. S <= Address(b, i)
  <2>1. CASE b = x.s_buf
    <3>1. Address(b, i) = S
      BY <1>5, <1>8, <2>1
    <3> QED
      BY <1>9, <3>1
  <2>2. CASE b # x.s_buf
    <3>1. x.s_buf < b /\ x.s_buf \in Int /\ b \in Int /\ x.s_byte \in 0 .. BufSz - 1
      BY <1>1, <1>2, <1>3, <1>6, <2>2
    <3>2. S < Address(b, 0)
      BY <1>8, <3>1, InBlock
    <3>3. i = 0
      BY <1>5, <2>2
    <3>4. Address(b, 0) \in Int
      BY <3>1, AddressType
    <3> QED
      BY <1>9, <3>2, <3>3, <3>4
  <2> QED
    BY <2>1, <2>2
<1>11. /\ H \in Nat /\ H <= Address(b + 1, 0)
  BY <1>2, <1>7, HeldBounds
<1> HIDE DEF H, S
<1>12. ASSUME k <= d.w_xfer
       PROVE  /\ EndAddr(x) \in Nat /\ H <= EndAddr(x) /\ S < EndAddr(x)
              /\ AtEod(r, d) => H = EndAddr(x)
  <2>1. k \in 1 .. d.w_xfer
    BY <1>1, <1>2, <1>12
  <2>2. S < EndAddr(x) /\ EndAddr(x) \in Nat
    BY <1>4, <2>1, StartBeforeEnd DEF S, x
  <2>3. CASE b = x.e_buf
    <3>1. H = EndAddr(x)
      BY <1>5, <1>12, <2>3 DEF EndAddr, H
    <3> QED
      BY <1>11, <2>2, <3>1
  <2>4. CASE b # x.e_buf
    <3>1. b <= x.e_buf
      BY <1>1, <2>1, <1>12 DEF InTransfer, x
    <3>2. b + 1 <= x.e_buf /\ b + 1 \in Int /\ x.e_buf \in Int /\ x.e_byte \in Int /\ x.e_byte >= 0
      BY <1>2, <1>3, <2>4, <3>1
    <3>3. Address(b + 1, 0) <= Address(x.e_buf, 0) /\ Address(b + 1, 0) \in Int
      BY <3>2, AddressRises, AddressType
    <3>4. EndAddr(x) = Address(x.e_buf, 0) + x.e_byte /\ Address(x.e_buf, 0) \in Int
      BY <3>2, AddressType DEF EndAddr
    <3> DEFINE p == Address(b + 1, 0)
               q == Address(x.e_buf, 0)
               y == x.e_byte
    <3>5. p \in Int /\ q \in Int /\ p <= q /\ EndAddr(x) = q + y /\ y \in Int /\ y >= 0 /\ H <= p
      BY <1>11, <3>2, <3>3, <3>4
    <3> HIDE DEF p, q, y
    <3>6. H <= EndAddr(x)
      BY <1>11, <3>5
    <3> QED
      BY <1>1, <2>2, <2>4, <3>6
  <2> QED
    BY <2>3, <2>4
<1>13. ASSUME k > d.w_xfer
       PROVE  H <= Address(d.w_buf_curr, 0) /\ Address(Base(d), 0) <= S
  <2>1. b + 1 <= d.w_buf_curr /\ b + 1 \in Int /\ d.w_buf_curr \in Int
    BY <1>1, <1>2
  <2>2. Address(b + 1, 0) <= Address(d.w_buf_curr, 0) /\ Address(b + 1, 0) \in Int
        /\ Address(d.w_buf_curr, 0) \in Int
    BY <2>1, AddressRises, AddressType
  <2>3. H <= Address(d.w_buf_curr, 0)
    BY <1>11, <2>2
  <2>4. Base(d) <= x.s_buf
    BY <1>1, <1>4, <1>13, StartBeforeBase DEF x
  <2>5. Base(d) \in Int /\ x.s_buf \in Int /\ x.s_byte \in Int /\ x.s_byte >= 0
    BY <1>3, <1>4, TableNumbers
  <2>6. Address(Base(d), 0) <= Address(x.s_buf, 0) /\ Address(Base(d), 0) \in Int
        /\ Address(x.s_buf, 0) \in Int
    BY <2>4, <2>5, AddressRises, AddressType
  <2>7. S = Address(x.s_buf, 0) + x.s_byte
    BY <1>8, <2>5, AddressType
  <2>8. Address(Base(d), 0) <= S
    BY <2>5, <2>6, <2>7
  <2> QED
    BY <2>3, <2>8
<1> QED
  BY <1>2, <1>7, <1>9, <1>10, <1>12, <1>13 DEF HeldPlace, H, S, x, k, b, i, s

(* The last byte that transfer k may hold.                                 *)
Limit(ad, st, k) == IF st[k].to = Open THEN Len(ad) ELSE st[k].to

(* The bytes from address S up to E were written one after the other, from *)
(* the byte v on, and are those meant for transfer k.                      *)
ByteAt(ad, st, k, S, c, v) ==
  /\ v + (c - S) \in 1 .. Len(ad)
  /\ ad[v + (c - S)] = c
  /\ v + (c - S) <= Limit(ad, st, k)

Covers(ad, st, k, S, E, v) ==
  /\ E \in Int /\ S < E /\ v \in 1 .. Len(ad)
  /\ \A c \in S .. E - 1 : ByteAt(ad, st, k, S, c, v)

(* Bytes written one after the other cover any part of their stretch.      *)
LEMMA RunCovers ==
  ASSUME NEW ad \in AddrSeq, NEW st, NEW k, NEW a \in Int, NEW S \in Int, NEW E \in Int,
         NEW w \in Nat, w <= Len(ad), Run(ad, a, E - 1, w), a <= S, S < E,
         w <= Limit(ad, st, k),
         Limit(ad, st, k) \in Nat
  PROVE  \E v \in 1 .. Len(ad) : Covers(ad, st, k, S, E, v)
<1> DEFINE v == w - ((E - 1) - S)
           L == Limit(ad, st, k)
<1>1. Len(ad) \in Nat /\ L \in Nat
  BY DEF AddrSeq
<1> HIDE DEF L
<1>2. ASSUME NEW c \in S .. E - 1
      PROVE  v + (c - S) \in 1 .. Len(ad) /\ ad[v + (c - S)] = c /\ v + (c - S) <= L
  <2>1. c \in a .. E - 1 /\ c \in Int
    OBVIOUS
  <2> DEFINE u == w - ((E - 1) - c)
  <2>2. u >= 1 /\ ad[u] = c
    BY <2>1 DEF Run
  <2>3. u \in Int /\ u <= w /\ v + (c - S) = u
    BY <2>1
  <2> HIDE DEF u, v
  <2>4. w <= L
    BY DEF L
  <2> QED
    BY <1>1, <2>2, <2>3, <2>4
<1>3. v \in 1 .. Len(ad)
  <2>1. S \in S .. E - 1
    OBVIOUS
  <2>2. v + (S - S) = v /\ v \in Int
    OBVIOUS
  <2> QED
    BY <1>2, <2>1, <2>2
<1> HIDE DEF v
<1>4. \A c \in S .. E - 1 : ByteAt(ad, st, k, S, c, v)
  BY <1>2 DEF ByteAt, L
<1> QED
  BY <1>3, <1>4 DEF Covers

(* The bytes of the transfer that is read, up to its end or the byte       *)
(* written last.                                                           *)
LEMMA TransferCovered ==
  ASSUME NEW r \in ReaderRec, NEW d \in IoRec, NEW ad \in AddrSeq, NEW st \in Seq(SentRec),
         NEW z \in Int, RingOK(r, d), Data(r, d, ad, st, z), r.curbuf # NoBuf,
         Address(d.w_buf_curr, 0) <= z \/ Len(d.xfers) = d.w_xfer,
         NEW S, S = StartAddr(d.xfers[r.r_xfer + 1]),
         NEW P, P = Address(r.r_buf, r.start),
         r.curbufsz > 0
  PROVE  \E E \in Int, v \in 1 .. Len(ad) :
           /\ Covers(ad, st, r.r_xfer + 1, S, E, v)
           /\ P + r.curbufsz <= E
<1> DEFINE k == r.r_xfer + 1
           b == r.r_buf
           i == r.start
           s == r.curbufsz
<1>1. /\ k \in 1 .. Len(d.xfers)
  BY BlockHeld
<1>2. /\ Table(d) /\ Increasing(ad, z) /\ Run(ad, Address(Base(d), 0), z - 1, Len(ad))
      /\ Promised(d, ad, st)
  BY DEF RingOK, Data
<1>3. HeldPlace(r, d)
  BY HeldPlaced
<1>4. b \in Nat /\ i \in Nat /\ s \in Nat /\ i + s <= BufSz
  BY <1>3, ReaderTypes DEF HeldPlace
<1>5. P \in Nat /\ Address(b, i + s) = P + s
  BY ZenonT(40), <1>4, HeldBounds
<1>6. S \in Nat /\ S <= P
  BY <1>3, <1>5 DEF HeldPlace
<1>7. d.w_xfer \in Nat /\ Len(d.xfers) \in Nat /\ Len(ad) \in Nat /\ k \in Nat
  BY <1>1, IoTypes DEF AddrSeq
<1>8. k \in 1 .. Len(st) /\ st[k].at = S
  <2>1. Len(d.xfers) <= Len(st) /\ Len(st) \in Nat
    BY <1>2 DEF Promised
  <2> QED
    BY <1>1, <1>2, <1>7, <2>1 DEF Promised
<1>9. CASE k <= d.w_xfer
  <2> DEFINE E == EndAddr(d.xfers[k])
             w == st[k].to
  <2>1. E \in Nat /\ P + s <= E /\ S < E
    BY <1>3, <1>5, <1>9 DEF HeldPlace
  <2>2. w \in 1 .. Len(ad) /\ Run(ad, S, E - 1, w)
    BY <1>2, <1>8, <1>9 DEF Promised
  <2>3. w \in Nat /\ w <= Len(ad)
    BY <1>7, <2>2
  <2>4. Limit(ad, st, k) = w
    BY <2>3 DEF Limit, Open
  <2> HIDE DEF E, w, k
  <2>5. \E v \in 1 .. Len(ad) : Covers(ad, st, k, S, E, v)
    <3>1. S \in Int /\ E \in Int /\ S <= S /\ w <= Limit(ad, st, k) /\ Limit(ad, st, k) \in Nat
      BY <1>6, <2>1, <2>3, <2>4
    <3> QED
      BY <2>1, <2>2, <2>3, <3>1, RunCovers
  <2> QED
    BY <2>1, <2>5 DEF k
<1>10. CASE ~(k <= d.w_xfer)
  <2> DEFINE A == Address(Base(d), 0)
             w == Len(ad)
             C == Address(d.w_buf_curr, 0)
  <2>1. P + s <= C /\ A <= S
    BY <1>3, <1>5, <1>7, <1>10 DEF HeldPlace
  <2>2. Base(d) \in Int /\ d.w_buf_curr \in Int
    BY <1>2, IoTypes, TableNumbers
  <2>3. A \in Int /\ C \in Int
    BY <2>2, AddressType
  <2>4. C <= z
    BY <1>1, <1>7, <1>10
  <2>5. Run(ad, A, z - 1, w) /\ w \in Nat
    BY <1>2, <1>7
  <2>6. Limit(ad, st, k) = w
    BY <1>2, <1>8, <1>10 DEF Limit, Promised
  <2> HIDE DEF A, C, w, k, s
  <2>7. S < z /\ P + s <= z
    BY <1>4, <1>5, <1>6, <2>1, <2>3, <2>4 DEF s
  <2>8. \E v \in 1 .. Len(ad) : Covers(ad, st, k, S, z, v)
    <3>1. S \in Int /\ w <= Len(ad) /\ w <= Limit(ad, st, k) /\ Limit(ad, st, k) \in Nat
      BY <1>6, <2>5, <2>6 DEF w
    <3> QED
      BY <2>1, <2>3, <2>5, <2>7, <3>1, RunCovers
  <2> QED
    BY <2>7, <2>8 DEF k, s
<1> QED
  BY <1>9, <1>10

(* ipcio_tell is the distance from the start of the transfer.              *)
LEMMA TellIs ==
  ASSUME NEW r \in ReaderRec, NEW d \in IoRec, RingOK(r, d), r.curbuf # NoBuf
  PROVE  /\ ipcio_tell(r, d) \in Nat
         /\ ipcio_tell(r, d) = Address(r.r_buf, r.start) + r.bytes
                                 - StartAddr(d.xfers[r.r_xfer + 1])
<1> DEFINE k == r.r_xfer + 1
           x == d.xfers[k]
           b == r.r_buf
           i == r.start
           y == r.bytes
           P == Address(b, i)
           S == StartAddr(x)
           t == ipcio_tell(r, d)
<1>1. /\ r.state = "READING" /\ Xfer(r, d) = x /\ x.s_buf <= b /\ k \in 1 .. Len(d.xfers)
  BY BlockHeld
<1>2. x.s_buf \in Nat /\ x.s_byte \in Nat /\ BufSz \in Nat
  <2>1. x.s_buf \in Nat /\ x.s_byte \in 0 .. BufSz
    BY <1>1, XferTypes
  <2>2. BufSz \in Nat
    BY RingPlaces
  <2> QED
    BY <2>1, <2>2
<1>3. b \in Nat /\ y \in Nat
  BY ReaderTypes
<1>4. i = IF b = x.s_buf THEN x.s_byte ELSE 0
  BY DEF RingOK, Place
<1>5. /\ S \in Nat /\ S <= P /\ i \in Nat
  BY HeldPlaced DEF HeldPlace
<1>6. P \in Nat
  BY <1>3, <1>5, AddressNat
<1>7. S = x.s_buf * BufSz + x.s_byte /\ P = b * BufSz + i
  BY DEF StartAddr, Address
<1>8. t = (IF b <= x.s_buf THEN 0 ELSE (b - x.s_buf) * BufSz - x.s_byte) + y
  BY <1>1 DEF ipcio_tell
<1> HIDE DEF t, x, b, i, y, P, S, k
<1>9. t = P + y - S
  <2>1. CASE b = x.s_buf
    <3>1. P = S
      BY <1>4, <1>7, <2>1
    <3>2. t = y
      BY <1>2, <1>3, <1>8, <2>1
    <3> QED
      BY <1>3, <1>5, <3>1, <3>2
  <2>2. CASE b # x.s_buf
    <3>1. t = ((b - x.s_buf) * BufSz - x.s_byte) + y
      BY <1>1, <1>2, <1>3, <1>8, <2>2
    <3>2. /\ (b - x.s_buf) * BufSz = b * BufSz - x.s_buf * BufSz
          /\ b * BufSz \in Int /\ x.s_buf * BufSz \in Int
      BY <1>2, <1>3, TimesMinus
    <3>3. P = b * BufSz
      BY <1>4, <1>7, <2>2, <3>2
    <3> DEFINE u == b * BufSz
               w == x.s_buf * BufSz
    <3>4. /\ t = ((u - w) - x.s_byte) + y /\ P = u /\ S = w + x.s_byte
          /\ u \in Int /\ w \in Int
      BY <1>7, <3>1, <3>2, <3>3
    <3> HIDE DEF u, w
    <3> QED
      BY <1>2, <1>3, <3>4
  <2> QED
    BY <2>1, <2>2
<1>10. t \in Nat
  BY <1>3, <1>5, <1>6, <1>9
<1> QED
  BY <1>9, <1>10 DEF t, x, b, i, y, P, S, k

(* What ipcio_read copies comes from the block that is held.               *)
LEMMA PeekIs ==
  ASSUME NEW r \in ReaderRec, NEW d \in IoRec, RingOK(r, d), r.curbuf # NoBuf,
         NEW m \in Nat, r.bytes + m <= r.curbufsz
  PROVE  LET q == Peek(r, d, m) IN
         /\ q \in Seq(Nat) /\ Len(q) = m
         /\ \A l \in 1 .. m :
              /\ r.start + r.bytes + l - 1 \in 0 .. BufSz - 1
              /\ q[l] = d.mem[r.r_buf % NBufs][r.start + r.bytes + l - 1]
<1> DEFINE i == r.start
           y == r.bytes
           s == r.curbufsz
           q == Peek(r, d, m)
           o == r.curbuf
<1>1. /\ i \in Nat /\ s \in Nat /\ i + s <= BufSz
  BY HeldPlaced DEF HeldPlace
<1>2. y \in Nat /\ BufSz \in Nat /\ o = r.r_buf % NBufs /\ o \in Ring
  <2>1. y \in Nat /\ o \in Ring \cup {NoBuf}
    BY ReaderTypes
  <2>2. o = r.r_buf % NBufs
    BY DEF RingOK, Place
  <2>3. BufSz \in Nat
    BY RingPlaces
  <2> QED
    BY <2>1, <2>2, <2>3
<1>3. d.mem \in [Ring -> [0 .. BufSz - 1 -> Nat]]
  BY IoTypes
<1>4. q = [l \in 1 .. m |-> IF i + y + l - 1 \in 0 .. BufSz - 1
                            THEN d.mem[o][i + y + l - 1] ELSE Unwritten]
  BY DEF Peek
<1> HIDE DEF q, i, y, s, o
<1>5. \A l \in 1 .. m : i + y + l - 1 \in 0 .. BufSz - 1
  BY <1>1, <1>2 DEF i, y, s
<1>6. \A l \in 1 .. m : q[l] = d.mem[o][i + y + l - 1] /\ q[l] \in Nat
  BY <1>2, <1>3, <1>4, <1>5
<1>7. q \in Seq(Nat) /\ Len(q) = m
  BY <1>4, <1>6
<1> QED
  BY <1>2, <1>5, <1>6, <1>7 DEF q, i, y, o

(* The bytes q read at the place p of transfer k are those meant to be     *)
(* there.                                                                  *)
ReadsTrue(ad, st, k, p, q) ==
  q # <<>> =>
    \E v \in 1 .. Len(ad) :
      /\ ad[v] = st[k].at
      /\ \A l \in 1 .. Len(q) : q[l] = v + p + l - 1
      /\ v + p + Len(q) - 1 <= Limit(ad, st, k)

(* The byte in place j of the block held is the one at its address.        *)
LEMMA ByteHeld ==
  ASSUME NEW r \in ReaderRec, NEW d \in IoRec, NEW ad \in AddrSeq, NEW st, NEW z \in Int,
         RingOK(r, d), Data(r, d, ad, st, z), r.curbuf # NoBuf,
         NEW j \in 0 .. BufSz - 1, NEW v \in 1 .. Len(ad), ad[v] = Address(r.r_buf, j)
  PROVE  d.mem[r.r_buf % NBufs][j] = v
<1> DEFINE b == r.r_buf
<1>1. b \in d.w_buf_next - NBufs .. d.w_buf_next - 1
  BY BlockKept
<1>2. /\ r.r_xfer + 1 \in 1 .. Len(d.xfers) /\ InTransfer(d, r.r_xfer + 1, b)
      /\ Due(r, d) = b
  BY BlockHeld
<1>3. b \in Nat /\ j \in Nat
  BY ReaderTypes
<1>4. Address(b, j) \in Nat
  BY <1>3, AddressNat
<1>5. ad[v] # GivenBack
  BY <1>4 DEF GivenBack
<1>6. b >= Due(r, d)
  BY <1>2, <1>3
<1>7. Contents(r, d, ad)
  BY DEF Data
<1> HIDE DEF b
<1>8. ad[v] = Address(b, j)
  BY DEF b
<1>9. d.mem[b % NBufs][j] = v
  BY <1>1, <1>2, <1>5, <1>6, <1>7, <1>8 DEF Contents
<1> QED
  BY <1>9 DEF b

(* The bytes in the block held are those meant for their place.            *)
LEMMA GotTrue ==
  ASSUME NEW r \in ReaderRec, NEW d \in IoRec, NEW ad \in AddrSeq, NEW st \in Seq(SentRec),
         NEW z \in Int, RingOK(r, d), Data(r, d, ad, st, z), r.curbuf # NoBuf,
         Address(d.w_buf_curr, 0) <= z \/ Len(d.xfers) = d.w_xfer,
         NEW m \in Nat, r.bytes + m <= r.curbufsz,
         NEW p, p = ipcio_tell(r, d), NEW q, q = Peek(r, d, m)
  PROVE  ReadsTrue(ad, st, r.r_xfer + 1, p, q)
<1> DEFINE k == r.r_xfer + 1
           b == r.r_buf
           i == r.start
           y == r.bytes
           s == r.curbufsz
           S == StartAddr(d.xfers[k])
           P == Address(b, i)
<1> SUFFICES ASSUME q # <<>>
             PROVE  \E v \in 1 .. Len(ad) :
                      /\ ad[v] = st[k].at
                      /\ \A l \in 1 .. Len(q) : q[l] = v + p + l - 1
                      /\ v + p + Len(q) - 1 <= Limit(ad, st, k)
  BY DEF ReadsTrue
<1>1. /\ q \in Seq(Nat) /\ Len(q) = m
      /\ \A l \in 1 .. m :
           /\ i + y + l - 1 \in 0 .. BufSz - 1
           /\ q[l] = d.mem[b % NBufs][i + y + l - 1]
  BY PeekIs
<1>2. p \in Nat /\ p = P + y - S
  BY TellIs
<1>3. b \in Nat /\ y \in Nat /\ s \in Nat /\ i \in Nat
  <2>1. b \in Nat /\ y \in Nat /\ s \in 0 .. BufSz /\ i \in 0 .. BufSz
    BY ReaderTypes
  <2> HIDE DEF b, y, s, i
  <2> QED
    BY <2>1
<1>4. S \in Nat /\ S <= P /\ P \in Nat
  <2>1. S \in Nat /\ S <= P
    BY HeldPlaced DEF HeldPlace
  <2> QED
    BY <1>3, <2>1, AddressNat
<1>5. m >= 1
  BY <1>1
<1>6. s > 0 /\ y + m <= s
  <2>1. y + m <= s
    OBVIOUS
  <2> HIDE DEF y, s
  <2> QED
    BY <1>3, <1>5, <2>1
<1>7. k \in 1 .. Len(d.xfers)
  BY BlockHeld
<1>8. st[k].at = S
  BY <1>7 DEF Data, Promised
<1>9. PICK E \in Int, v \in 1 .. Len(ad) : Covers(ad, st, k, S, E, v) /\ P + s <= E
  <2>1. s > 0
    BY <1>6
  <2> QED
    BY <2>1, TransferCovered
<1>10. v \in Nat /\ \A c \in S .. E - 1 : ByteAt(ad, st, k, S, c, v)
  BY <1>9 DEF Covers, AddrSeq
<1> HIDE DEF k, b, i, y, s, S, P
<1>11. ASSUME NEW l \in 1 .. m
       PROVE  ByteAt(ad, st, k, S, P + y + l - 1, v)
  <2> DEFINE c == P + y + l - 1
  <2>1. c \in S .. E - 1
    BY <1>3, <1>4, <1>6, <1>9
  <2> HIDE DEF c
  <2>2. ByteAt(ad, st, k, S, c, v)
    BY <1>10, <2>1
  <2> QED
    BY <2>2 DEF c
<1>12. ASSUME NEW l \in 1 .. m
       PROVE  /\ q[l] = v + p + l - 1 /\ v + p + l - 1 <= Limit(ad, st, k)
  <2> DEFINE c == P + y + l - 1
             j == i + y + l - 1
             u == v + (c - S)
  <2>1. ByteAt(ad, st, k, S, c, v)
    BY <1>11
  <2>2. u \in 1 .. Len(ad) /\ ad[u] = c /\ u <= Limit(ad, st, k)
    BY <2>1 DEF ByteAt
  <2>3. j \in 0 .. BufSz - 1 /\ q[l] = d.mem[b % NBufs][j]
    BY <1>1
  <2>4. c = Address(b, j)
    <3>1. j \in Int /\ b \in Int /\ i \in Int
      BY <1>3, <2>3
    <3>2. Address(b, j) = Address(b, 0) + j /\ P = Address(b, 0) + i /\ Address(b, 0) \in Int
      BY <3>1, AddressType DEF P
    <3> QED
      BY SMTT(30), <1>3, <3>1, <3>2
  <2>5. u = v + p + l - 1
    BY <1>2, <1>3, <1>4, <1>10
  <2> HIDE DEF c, j, u
  <2>6. d.mem[b % NBufs][j] = u
    <3>1. u \in 1 .. Len(ad) /\ ad[u] = Address(b, j)
      BY <2>2, <2>4
    <3> QED
      BY <2>3, <3>1, ByteHeld DEF b
  <2> QED
    BY <2>2, <2>3, <2>5, <2>6
<1>13. ad[v] = st[k].at
  <2>1. S \in S .. E - 1
    BY <1>4, <1>9 DEF Covers
  <2>2. ByteAt(ad, st, k, S, S, v)
    BY <1>10, <2>1
  <2>3. ad[v + (S - S)] = S /\ v + (S - S) = v
    BY <1>4, <1>10, <2>2 DEF ByteAt
  <2> QED
    BY <1>8, <2>3
<1>14. m \in 1 .. m
  BY <1>5
<1>15. v + p + Len(q) - 1 <= Limit(ad, st, k)
  BY <1>1, <1>12, <1>14
<1>16. \A l \in 1 .. Len(q) : q[l] = v + p + l - 1
  BY <1>1, <1>12
<1> QED
  BY <1>13, <1>15, <1>16

(* While a transfer is open the byte written next lies in the block being  *)
(* filled or after it.                                                     *)
LEMMA OpenAhead ==
  ASSUME IoInv
  PROVE  Address(io.w_buf_curr, 0) <= NextAddr(io) \/ Len(io.xfers) = io.w_xfer
<1> SUFFICES ASSUME Len(io.xfers) # io.w_xfer
             PROVE  Address(io.w_buf_curr, 0) <= NextAddr(io)
  OBVIOUS
<1>1. /\ Modes(io) /\ Filling(io) /\ Table(io) /\ io \in IoRec
  BY NowInv, NowTypes
<1>2. io.state = "WRITING"
  BY <1>1, StateOfTable DEF Modes
<1>3. ~(io.marked_filled /\ io.bytes > 0)
  <2>1. io.buf_ptrs # <<>> => ~io.marked_filled
    BY <1>1 DEF Filling, HoldsOpen
  <2>2. io.buf_ptrs = <<>> => FillsOne(io)
    BY <1>1, <1>2 DEF Filling, Modes
  <2> QED
    BY <1>2, <2>1, <2>2 DEF FillsOne
<1>4. io.w_buf_curr \in Nat /\ io.bytes \in Nat /\ BufSz \in Nat /\ io.bytes <= BufSz
  BY NowTypes
<1>5. NextAddr(io) \in {Address(io.w_buf_curr, 0), Address(io.w_buf_curr, io.bytes)}
  BY <1>3 DEF NextAddr
<1>6. /\ Address(io.w_buf_curr, 0) <= Address(io.w_buf_curr, io.bytes)
      /\ Address(io.w_buf_curr, 0) \in Int
  <2>1. io.w_buf_curr \in Int /\ io.bytes \in Int
    BY <1>4
  <2>2. Address(io.w_buf_curr, io.bytes) = Address(io.w_buf_curr, 0) + io.bytes
        /\ Address(io.w_buf_curr, 0) \in Int
    BY <2>1, AddressType
  <2> QED
    BY <1>4, <2>2
<1> QED
  BY <1>5, <1>6

(* What g = Got(r, m) records when r holds a block of the ring d.          *)
Records(r, d, m, g) ==
  LET k == r.r_xfer + 1 IN
  /\ g \in [xfer : Nat, pos : Nat, vals : Seq(Nat)]
  /\ g.xfer = k /\ k \in 1 .. Len(d.xfers)
  /\ Len(g.vals) = m
  /\ g.pos = Address(r.r_buf, r.start) + r.bytes - StartAddr(d.xfers[k])
  /\ ReadsTrue(addr, sent, k, g.pos, g.vals)

(* The bytes given to the client are recorded as what they are.            *)
LEMMA GotRecords ==
  ASSUME IoInv, NEW r \in ReaderRec, NEW d, TokensMoved(io, d), RingOK(r, d),
         Due(rd, io) <= Due(r, d), r.curbuf # NoBuf,
         NEW m \in Nat, r.bytes + m <= r.curbufsz,
         NEW g, g = Got(r, m)
  PROVE  Records(r, d, m, g)
<1> DEFINE k == r.r_xfer + 1
           p == ipcio_tell(r, d)
           q == Peek(r, d, m)
           z == NextAddr(io)
<1>1. /\ d \in IoRec /\ d.xfers = io.xfers /\ d.w_xfer = io.w_xfer
      /\ d.mem = io.mem /\ d.w_buf_curr = io.w_buf_curr /\ d.w_buf_next = io.w_buf_next
  BY DEF TokensMoved
<1>2. /\ io \in IoRec /\ addr \in AddrSeq /\ sent \in Seq(SentRec) /\ z \in Nat
      /\ rd \in ReaderRec
  BY NowTypes, NextAddrNat
<1>3. /\ Due(rd, io) \in Nat /\ Data(rd, io, addr, sent, z)
  BY NowInv
<1>4. Due(r, d) \in Nat
  BY <1>1, DueNumbers DEF RingOK
<1>5. Address(d.w_buf_curr, 0) <= z \/ Len(d.xfers) = d.w_xfer
  BY <1>1, OpenAhead
<1> HIDE DEF z
<1>6. Data(r, d, addr, sent, z)
  <2>1. z \in Int
    BY <1>2
  <2> QED
    BY <1>1, <1>2, <1>3, <1>4, <2>1, DataStay
<1>7. ipcio_tell(r, io) = p /\ Peek(r, io, m) = q
  BY <1>1 DEF ipcio_tell, Xfer, Peek
<1>8. g = [xfer |-> k, pos |-> p, vals |-> q]
  BY <1>7 DEF Got
<1>9. p \in Nat /\ p = Address(r.r_buf, r.start) + r.bytes - StartAddr(d.xfers[k])
  BY <1>1, TellIs
<1>10. q \in Seq(Nat) /\ Len(q) = m
  BY <1>1, PeekIs
<1>11. k \in 1 .. Len(d.xfers) /\ r.r_xfer \in Nat
  BY <1>1, BlockHeld, ReaderTypes
<1> HIDE DEF p, q
<1>12. ReadsTrue(addr, sent, k, p, q)
  <2>1. z \in Int
    BY <1>2
  <2>2. p = ipcio_tell(r, d) /\ q = Peek(r, d, m)
    BY DEF p, q
  <2> QED
    BY <1>1, <1>2, <1>5, <1>6, <2>1, <2>2, GotTrue
<1> QED
  BY <1>8, <1>9, <1>10, <1>11, <1>12 DEF Records

(* The reader reads, and finds end of data in the right place.             *)
LEMMA LastReadIs ==
  ASSUME IoInv, ReaderOnly, TokensMoved(io, io'),
         NEW r, NEW d, NEW m, Records(r, d, m, last'), d.xfers = io.xfers,
         rd'.state = "RSTOP" =>
           /\ rd'.r_xfer = r.r_xfer + 1
           /\ Address(r.r_buf, r.start) + r.bytes + m = EndAddr(d.xfers[r.r_xfer + 1])
           /\ StartAddr(d.xfers[r.r_xfer + 1]) \in Nat
           /\ Address(r.r_buf, r.start) \in Nat /\ r.bytes \in Nat /\ m \in Nat
  PROVE  LastRead' /\ last' \in [xfer : Nat, pos : Nat, vals : Seq(Nat)]
<1> DEFINE k == r.r_xfer + 1
<1>1. addr' = addr /\ sent' = sent /\ n' = n /\ io'.xfers = io.xfers /\ n = Len(addr)
  BY DEF ReaderOnly, TokensMoved, n
<1>2. /\ last' \in [xfer : Nat, pos : Nat, vals : Seq(Nat)]
      /\ last'.xfer = k /\ k \in 1 .. Len(io.xfers)
      /\ Len(last'.vals) = m
      /\ last'.pos = Address(r.r_buf, r.start) + r.bytes - StartAddr(d.xfers[k])
      /\ ReadsTrue(addr, sent, k, last'.pos, last'.vals)
  BY DEF Records
<1>3. ASSUME last'.vals # <<>>
      PROVE  /\ last'.xfer \in 1 .. Len(io'.xfers)
             /\ \E v \in 1 .. n' :
                  /\ addr'[v] = sent'[last'.xfer].at
                  /\ \A i \in 1 .. Len(last'.vals) : last'.vals[i] = v + last'.pos + i - 1
                  /\ v + last'.pos + Len(last'.vals) - 1 <=
                       IF sent'[last'.xfer].to = Open THEN n' ELSE sent'[last'.xfer].to
  BY <1>1, <1>2, <1>3 DEF ReadsTrue, Limit
<1>4. ASSUME rd'.state = "RSTOP"
      PROVE  LET x == io'.xfers[rd'.r_xfer] IN
             last'.pos + Len(last'.vals) = EndAddr(x) - StartAddr(x)
  <2> DEFINE P == Address(r.r_buf, r.start)
             S == StartAddr(d.xfers[k])
             E == EndAddr(d.xfers[k])
  <2>1. io'.xfers[rd'.r_xfer] = d.xfers[k]
    BY <1>1, <1>4
  <2>2. /\ P \in Nat /\ S \in Nat /\ r.bytes \in Nat /\ m \in Nat /\ P + r.bytes + m = E
    BY <1>4
  <2>3. last'.pos = P + r.bytes - S /\ Len(last'.vals) = m
    BY <1>2
  <2> HIDE DEF P, S, E
  <2>4. last'.pos + Len(last'.vals) = E - S
    BY <2>2, <2>3
  <2> QED
    BY <2>1, <2>4 DEF S, E
<1> QED
  BY <1>2, <1>3, <1>4 DEF LastRead

(* y bytes of the block held have been used: it is cleared if that is all. *)
LEMMA BlockUsed ==
  ASSUME IoInv, rd.curbuf # NoBuf, NEW y \in Nat, y <= rd.curbufsz,
         NEW r, r = [rd EXCEPT !.bytes = y],
         rd' = IF y = rd.curbufsz THEN ipcbuf_mark_cleared(r, io) ELSE r,
         io' = IF y = rd.curbufsz THEN Cleared(io) ELSE io
  PROVE  /\ rd' \in ReaderRec /\ TokensMoved(io, io') /\ RingOK(rd', io')
         /\ Due(rd, io) <= Due(rd', io')
         /\ rd'.state = "RSTOP" =>
              /\ rd'.r_xfer = rd.r_xfer + 1 /\ y = rd.curbufsz /\ AtEod(rd, io)
<1>1. /\ io \in IoRec /\ rd \in ReaderRec /\ RingOK(rd, io) /\ Due(rd, io) \in Nat
      /\ TokensMoved(io, io)
  BY ReaderNow
<1>2. /\ r \in ReaderRec /\ RingOK(r, io) /\ Due(r, io) = Due(rd, io)
      /\ r.state = rd.state /\ r.r_buf = rd.r_buf /\ r.r_xfer = rd.r_xfer
      /\ r.curbuf = rd.curbuf
  BY <1>1, RingBytes
<1>3. rd.state = "READING"
  BY <1>1, BlockHeld
<1>4. AtEod(r, io) <=> AtEod(rd, io)
  BY <1>2 DEF AtEod, Xfer
<1>5. CASE y = rd.curbufsz
  <2> DEFINE q == ipcbuf_mark_cleared(r, io)
             e == Cleared(io)
  <2>1. /\ q \in ReaderRec /\ e \in IoRec /\ RingOK(q, e)
        /\ Due(q, e) = Due(r, io) + 1
        /\ IF AtEod(r, io) THEN q.state = "RSTOP" /\ q.r_xfer = r.r_xfer + 1
                           ELSE q.state = "READING" /\ q.r_xfer = r.r_xfer
    BY <1>1, <1>2, RingClear
  <2>2. rd' = q /\ io' = e
    BY <1>5
  <2>3. TokensMoved(io, io')
    BY <1>1, <2>1, <2>2, ClearedMoves
  <2> HIDE DEF q, e
  <2>4. Due(rd, io) <= Due(rd', io')
    BY <1>1, <1>2, <2>1, <2>2
  <2> QED
    BY <1>2, <1>4, <1>5, <2>1, <2>2, <2>3, <2>4
<1>6. CASE y # rd.curbufsz
  <2>1. rd' = r /\ io' = io
    BY <1>6
  <2> QED
    <3>1. rd' \in ReaderRec /\ TokensMoved(io, io') /\ RingOK(rd', io')
      BY <1>1, <1>2, <2>1
    <3>2. Due(rd', io') = Due(rd, io)
      BY <1>2, <2>1
    <3>3. Due(rd, io) <= Due(rd', io')
      BY <1>1, <3>2
    <3>4. rd'.state = "READING"
      BY <1>2, <1>3, <2>1
    <3> QED
      BY <3>1, <3>3, <3>4
<1> QED
  BY <1>5, <1>6

(* The last read of a block.                                               *)
LEMMA UsedToEnd ==
  ASSUME IoInv, rd.curbuf # NoBuf, NEW m \in Nat, rd.bytes + m = rd.curbufsz, AtEod(rd, io)
  PROVE  LET k == rd.r_xfer + 1 IN
         /\ Address(rd.r_buf, rd.start) + rd.bytes + m = EndAddr(io.xfers[k])
         /\ StartAddr(io.xfers[k]) \in Nat
         /\ Address(rd.r_buf, rd.start) \in Nat /\ rd.bytes \in Nat
<1> DEFINE k == rd.r_xfer + 1
           P == Address(rd.r_buf, rd.start)
<1>1. /\ io \in IoRec /\ rd \in ReaderRec /\ RingOK(rd, io)
  BY ReaderNow
<1>2. HeldPlace(rd, io) /\ k <= io.w_xfer
  BY <1>1, HeldPlaced, BlockHeld
<1>3. /\ rd.start \in Nat /\ rd.curbufsz \in Nat /\ rd.start + rd.curbufsz <= BufSz
      /\ StartAddr(io.xfers[k]) \in Nat
      /\ Address(rd.r_buf, rd.start + rd.curbufsz) = EndAddr(io.xfers[k])
  BY <1>2 DEF HeldPlace
<1>4. rd.r_buf \in Nat /\ rd.bytes \in Nat
  BY <1>1, ReaderTypes
<1>5. P \in Nat /\ Address(rd.r_buf, rd.start + rd.curbufsz) = P + rd.curbufsz
  BY <1>3, <1>4, HeldBounds
<1> HIDE DEF P, k
<1>6. P + rd.bytes + m = P + rd.curbufsz
  BY <1>3, <1>4, <1>5
<1> QED
  BY <1>3, <1>4, <1>5, <1>6 DEF P, k

(* m bytes of the block held are given to the client.                      *)
LEMMA BytesGiven ==
  ASSUME IoInv, ReaderOnly, rd.curbuf # NoBuf, NEW m \in Nat,
         rd.bytes + m <= rd.curbufsz,
         NEW y, y = rd.bytes + m,
         NEW r, r = [rd EXCEPT !.bytes = y],
         rd' = IF y = rd.curbufsz THEN ipcbuf_mark_cleared(r, io) ELSE r,
         io' = IF y = rd.curbufsz THEN Cleared(io) ELSE io,
         last' = Got(rd, m), want' \in Nat \cup {None}
  PROVE  IoInv'
<1>1. /\ io \in IoRec /\ rd \in ReaderRec /\ RingOK(rd, io) /\ Due(rd, io) \in Nat
      /\ TokensMoved(io, io)
  BY ReaderNow
<1>2. rd.bytes \in Nat /\ y \in Nat /\ y <= rd.curbufsz
  <2>1. rd.bytes \in Nat
    BY <1>1, ReaderTypes
  <2> QED
    BY <2>1
<1>3. /\ rd' \in ReaderRec /\ TokensMoved(io, io') /\ RingOK(rd', io')
      /\ Due(rd, io) <= Due(rd', io')
      /\ rd'.state = "RSTOP" =>
           /\ rd'.r_xfer = rd.r_xfer + 1 /\ y = rd.curbufsz /\ AtEod(rd, io)
  BY <1>2, BlockUsed
<1>4. Records(rd, io, m, last')
  <2>1. Due(rd, io) <= Due(rd, io)
    BY <1>1
  <2> QED
    BY <1>1, <2>1, GotRecords
<1>5. rd'.state = "RSTOP" =>
        /\ rd'.r_xfer = rd.r_xfer + 1
        /\ Address(rd.r_buf, rd.start) + rd.bytes + m = EndAddr(io.xfers[rd.r_xfer + 1])
        /\ StartAddr(io.xfers[rd.r_xfer + 1]) \in Nat
        /\ Address(rd.r_buf, rd.start) \in Nat /\ rd.bytes \in Nat /\ m \in Nat
  <2> SUFFICES ASSUME rd'.state = "RSTOP"
               PROVE  /\ rd'.r_xfer = rd.r_xfer + 1
                      /\ Address(rd.r_buf, rd.start) + rd.bytes + m
                           = EndAddr(io.xfers[rd.r_xfer + 1])
                      /\ StartAddr(io.xfers[rd.r_xfer + 1]) \in Nat
                      /\ Address(rd.r_buf, rd.start) \in Nat /\ rd.bytes \in Nat
                      /\ m \in Nat
    OBVIOUS
  <2>1. rd.bytes + m = rd.curbufsz /\ AtEod(rd, io) /\ rd'.r_xfer = rd.r_xfer + 1
    BY <1>3
  <2> QED
    BY <2>1, UsedToEnd
<1>6. LastRead' /\ last' \in [xfer : Nat, pos : Nat, vals : Seq(Nat)]
  BY <1>3, <1>4, <1>5, LastReadIs
<1> QED
  BY <1>3, <1>6, ReaderKeeps

(* ipcio_read copies bytes.                                                *)
LEMMA ReadCopyStep ==
  ASSUME IoInv, ReadCopy
  PROVE  IoInv'
<1> DEFINE left == rd.curbufsz - rd.bytes
           s == IF left < want THEN left ELSE want
           y == rd.bytes + s
           r == [rd EXCEPT !.bytes = y]
<1>1. /\ want # None /\ rd.curbuf # NoBuf /\ ReaderOnly /\ last' = Got(rd, s)
      /\ rd' = IF r.bytes = r.curbufsz THEN ipcbuf_mark_cleared(r, io) ELSE r
      /\ io' = IF r.bytes = r.curbufsz THEN Cleared(io) ELSE io
      /\ want' = None \/ want' = want - s
  BY DEF ReadCopy
<1>2. /\ io \in IoRec /\ rd \in ReaderRec /\ RingOK(rd, io) /\ want \in Nat
  BY <1>1, ReaderNow
<1>3. rd.bytes \in Nat /\ rd.curbufsz \in Nat /\ rd.bytes <= rd.curbufsz
  <2>1. rd.bytes \in Nat /\ rd.curbufsz \in 0 .. BufSz
    BY <1>2, ReaderTypes
  <2>2. rd.bytes <= rd.curbufsz
    BY <1>1, <1>2 DEF RingOK, Place
  <2> QED
    BY <2>1, <2>2
<1>4. r.bytes = y /\ r.curbufsz = rd.curbufsz
  BY <1>2 DEF ReaderRec
<1>5. s \in Nat /\ y <= rd.curbufsz /\ want - s \in Nat
  BY <1>2, <1>3
<1> HIDE DEF s, r
<1>6. /\ rd' = IF y = rd.curbufsz THEN ipcbuf_mark_cleared(r, io) ELSE r
      /\ io' = IF y = rd.curbufsz THEN Cleared(io) ELSE io
  BY <1>1, <1>4
<1>7. want' \in Nat \cup {None}
  BY <1>1, <1>5
<1>8. r = [rd EXCEPT !.bytes = y] /\ y = rd.bytes + s /\ rd.bytes + s <= rd.curbufsz
  BY <1>5 DEF r
<1> HIDE DEF y
<1> QED
  BY <1>1, <1>5, <1>6, <1>7, <1>8, BytesGiven

(* ipcio_close_block_read                                                  *)
LEMMA CloseBlockReadStep ==
  ASSUME IoInv, NEW m \in 0 .. BufSz, CloseBlockRead(m)
  PROVE  IoInv'
<1> DEFINE r == [rd EXCEPT !.bytes = m]
<1>1. /\ rd.curbuf # NoBuf /\ rd.bytes = 0 /\ m <= rd.curbufsz /\ ReaderOnly
      /\ rd' = (IF m = rd.curbufsz THEN ipcbuf_mark_cleared(r, io) ELSE r)
      /\ io' = (IF m = rd.curbufsz THEN Cleared(io) ELSE io)
      /\ last' = Got(rd, m) /\ want' = want
  BY DEF CloseBlockRead
<1>2. m \in Nat /\ want \in Nat \cup {None}
  BY ReaderNow
<1>3. m = rd.bytes + m /\ rd.bytes + m <= rd.curbufsz
  BY <1>1, <1>2
<1>4. r = [rd EXCEPT !.bytes = m] /\ want' \in Nat \cup {None}
  BY <1>1, <1>2
<1> HIDE DEF r
<1> QED
  BY <1>1, <1>2, <1>3, <1>4, BytesGiven

(* ipcio_open_block_read                                                   *)
LEMMA OpenBlockReadStep ==
  ASSUME IoInv, OpenBlockRead
  PROVE  IoInv'
<1> DEFINE m == rd'.curbufsz
<1>1. /\ ReadReady(rd, io) /\ rd' = ipcbuf_get_next_read(rd, io) /\ io' = Taken(io)
      /\ last' = Got(rd', m) /\ want' = want /\ ReaderOnly
  BY DEF OpenBlockRead
<1>2. /\ rd' \in ReaderRec /\ TokensMoved(io, io') /\ RingOK(rd', io')
      /\ Due(rd, io) <= Due(rd', io') /\ rd'.state = "READING" /\ rd'.curbuf # NoBuf
      /\ rd'.bytes = 0
  BY <1>1, BlockObtained
<1>3. m \in Nat /\ rd'.bytes + m <= rd'.curbufsz
  <2>1. m \in 0 .. BufSz
    BY <1>2, ReaderTypes
  <2> QED
    BY <1>2, <2>1
<1>4. Records(rd', io', m, last')
  <2> HIDE DEF m
  <2> QED
    BY <1>1, <1>2, <1>3, GotRecords
<1>5. io'.xfers = io.xfers
  BY <1>2 DEF TokensMoved
<1>6. LastRead' /\ last' \in [xfer : Nat, pos : Nat, vals : Seq(Nat)]
  BY <1>1, <1>2, <1>4, <1>5, LastReadIs
<1>7. want' \in Nat \cup {None}
  BY <1>1, ReaderNow
<1> QED
  BY <1>1, <1>2, <1>6, <1>7, ReaderKeeps

-----------------------------------------------------------------------------
(***************************************************************************)
(* The invariant.                                                          *)
(***************************************************************************)
LEMMA InitRecord == InitIo \in IoRec /\ InitReader \in ReaderRec
<1>1. /\ NBufs \in Nat \ {0} /\ BufSz \in Nat \ {0}
  BY IoSizes
<1>2. 0 \in 0 .. BufSz /\ 0 \in Nat
  BY <1>1
<1>3. <<>> \in Seq(Ring) /\ <<>> \in Seq(XferRec)
  OBVIOUS
<1>4. [b \in Ring |-> 0] \in [Ring -> Nat]
  OBVIOUS
<1>5. [b \in Ring |-> [i \in 0 .. BufSz - 1 |-> Unwritten]]
        \in [Ring -> [0 .. BufSz - 1 -> Nat]]
  BY DEF Unwritten
<1>6. NoBuf \in Ring \cup {NoBuf}
  OBVIOUS
<1>7. InitIo \in IoRec
  <2> DEFINE mm == [b \in Ring |-> [i \in 0 .. BufSz - 1 |-> Unwritten]]
             cc == [b \in Ring |-> 0]
  <2>1. mm \in [Ring -> [0 .. BufSz - 1 -> Nat]] /\ cc \in [Ring -> Nat]
    BY <1>4, <1>5
  <2>2. InitIo = [rdwrt |-> "0", bytes |-> 0, curbuf |-> NoBuf, marked_filled |-> FALSE,
           sod_pending |-> FALSE, sod_buf |-> 0, sod_byte |-> 0, buf_ptrs |-> <<>>,
           state |-> "VIEWER", soclock_buf |-> 0,
           w_state |-> "DISCON", w_buf_curr |-> 0, w_buf_next |-> 0, w_xfer |-> 0,
           xfers |-> <<>>, count |-> cc, FULL |-> 0, CLEAR |-> 0,
           mem |-> mm, err |-> FALSE]
    BY DEF InitIo
  <2> HIDE DEF mm, cc
  <2> QED
    BY <1>2, <1>3, <1>6, <2>1, <2>2 DEF IoRec
<1>8. InitReader \in ReaderRec
  BY <1>2, <1>6 DEF InitReader, ReaderRec
<1> QED
  BY <1>7, <1>8

(* The fields of the state in which the system begins.                     *)
LEMMA InitFields ==
  ASSUME Init
  PROVE  /\ io.rdwrt = "0" /\ io.bytes = 0 /\ io.curbuf = NoBuf /\ ~io.marked_filled
         /\ ~io.sod_pending /\ io.buf_ptrs = <<>> /\ io.state = "VIEWER"
         /\ io.soclock_buf = 0 /\ io.w_state = "DISCON" /\ io.w_buf_curr = 0
         /\ io.w_buf_next = 0 /\ io.w_xfer = 0 /\ io.xfers = <<>> /\ Len(io.xfers) = 0
         /\ \A b \in Ring : io.count[b] = 0
         /\ io.FULL = 0 /\ io.CLEAR = 0 /\ ~io.err
         /\ rd.state = "READER" /\ rd.r_xfer = 0 /\ rd.curbuf = NoBuf /\ rd.bytes = 0
         /\ todo = <<>> /\ want = None /\ addr = <<>> /\ sent = <<>>
         /\ last = [xfer |-> 0, pos |-> 0, vals |-> <<>>]
         /\ io \in IoRec /\ rd \in ReaderRec
<1>1. /\ todo = <<>> /\ want = None /\ addr = <<>> /\ sent = <<>>
      /\ last = [xfer |-> 0, pos |-> 0, vals |-> <<>>]
      /\ io = InitIo /\ rd = InitReader
  BY DEF Init
<1>2. /\ io.rdwrt = "0" /\ io.bytes = 0 /\ io.curbuf = NoBuf /\ ~io.marked_filled
      /\ ~io.sod_pending /\ io.buf_ptrs = <<>> /\ io.state = "VIEWER"
      /\ io.soclock_buf = 0 /\ io.w_state = "DISCON" /\ io.w_buf_curr = 0
      /\ io.w_buf_next = 0 /\ io.w_xfer = 0 /\ io.xfers = <<>>
      /\ io.count = [b \in Ring |-> 0]
      /\ io.FULL = 0 /\ io.CLEAR = 0 /\ ~io.err
  BY <1>1 DEF InitIo
<1>3. rd.state = "READER" /\ rd.r_xfer = 0 /\ rd.curbuf = NoBuf /\ rd.bytes = 0
  BY <1>1 DEF InitReader
<1>4. Len(io.xfers) = 0 /\ \A b \in Ring : io.count[b] = 0
  BY <1>2
<1> QED
  BY <1>1, <1>2, <1>3, <1>4, InitRecord

(* Initially the ring is empty and no transfer was made.                   *)
LEMMA InitRing ==
  ASSUME Init
  PROVE  RingOK(rd, io)
<1> USE InitFields
<1>0. NBufs \in Nat \ {0}
  BY RingPlaces
<1>1. Base(io) = 0 /\ Due(rd, io) = 0
  BY DEF Base, Due
<1>2. UsedBlocks(io) = {}
  BY DEF UsedBlocks
<1>3. Table(io)
  BY <1>0, <1>1 DEF Table
<1>4. Place(rd, io)
  BY DEF Place
<1>5. Tokens(rd, io)
  <2> DEFINE o == io.w_buf_next - NBufs
  <2>1. o \in Int /\ o <= 0 /\ o \in io.w_buf_next - NBufs .. io.w_buf_next
    BY <1>0
  <2>2. \A a, c : Among({}, a, c) = {}
    BY DEF Among
  <2>3. HowMany({}, 0, 0) = 0
    <3>1. 0 \in Int
      OBVIOUS
    <3> QED
      BY <2>2, <3>1, AmongEmpty
  <2>4. HowMany({}, o, 0) = 0
    <3>1. 0 \in Int /\ o \in Int
      BY <2>1
    <3> HIDE DEF o
    <3> QED
      BY <2>2, <3>1, AmongEmpty
  <2>5. io.FULL + (IF rd.curbuf = NoBuf THEN 0 ELSE 1)
          = HowMany(UsedBlocks(io), Due(rd, io), io.w_buf_curr)
    BY <1>1, <1>2, <2>3
  <2>6. \A b \in o .. io.w_buf_next - 1 :
          io.count[b % NBufs] = IF b >= o /\ b \in UsedBlocks(io) THEN 1 ELSE 0
    <3> SUFFICES ASSUME NEW b \in o .. io.w_buf_next - 1
                 PROVE  io.count[b % NBufs] = 0
      BY <1>2
    <3>1. b % NBufs \in Ring
      BY <2>1, PlaceInRing
    <3> QED
      BY <3>1
  <2>7. TakenBack(rd, io, o)
    BY <1>1, <1>2, <2>1, <2>2, <2>4, <2>6 DEF TakenBack
  <2> QED
    BY <2>1, <2>5, <2>7 DEF Tokens
<1> QED
  BY <1>3, <1>4, <1>5 DEF RingOK

(* Initially the invariant holds.                                          *)
LEMMA InitInv ==
  ASSUME Init
  PROVE  IoInv
<1> USE InitFields
<1>1. Base(io) = 0
  BY DEF Base
<1>2. Types
  <2>1. todo \in Seq(Nat) /\ addr \in Seq(Nat \cup {GivenBack}) /\ sent \in Seq(SentRec)
    OBVIOUS
  <2>2. want \in Nat \cup {None}
    OBVIOUS
  <2>3. last \in [xfer : Nat, pos : Nat, vals : Seq(Nat)]
    <3>1. last = [xfer |-> 0, pos |-> 0, vals |-> <<>>]
      OBVIOUS
    <3>2. 0 \in Nat /\ <<>> \in Seq(Nat)
      OBVIOUS
    <3> HIDE InitFields
    <3> QED
      BY <3>1, <3>2
  <2>4. io \in IoRec /\ rd \in ReaderRec
    OBVIOUS
  <2> QED
    BY <2>1, <2>2, <2>3, <2>4 DEF Types
<1>3. HandleOK(io)
  <2>1. Modes(io)
    BY DEF Modes
  <2>2. Filling(io)
    BY DEF Filling
  <2> QED
    BY <2>1, <2>2 DEF HandleOK
<1>4. NextAddr(io) = 0
  <2>1. NextAddr(io) = Address(0, 0)
    BY DEF NextAddr
  <2>2. BufSz \in Nat
    BY IoSizes
  <2>3. 0 * BufSz + 0 = 0
    BY <2>2
  <2> QED
    BY <2>1, <2>3 DEF Address
<1>5. Address(Base(io), 0) = 0
  BY <1>1, RingPlaces DEF Address
<1>6. Data(rd, io, addr, sent, NextAddr(io))
  <2>1. Len(addr) = 0 /\ Len(sent) = 0
    OBVIOUS
  <2>2. Increasing(addr, 0)
    BY <2>1 DEF Increasing
  <2>3. Run(addr, 0, 0 - 1, Len(addr))
    BY <2>1 DEF Run
  <2>4. Promised(io, addr, sent)
    BY <2>1 DEF Promised
  <2>5. Contents(rd, io, addr)
    BY <2>1 DEF Contents
  <2> QED
    BY <1>4, <1>5, <2>2, <2>3, <2>4, <2>5 DEF Data
<1>7. Asked(io, sent)
  BY DEF Asked
<1>8. Calls
  BY DEF Calls
<1>9. LastRead
  BY DEF LastRead
<1> QED
  BY <1>2, <1>3, <1>6, <1>7, <1>8, <1>9, InitRing DEF IoInv

(* Every step keeps the invariant.                                         *)
LEMMA NextInv ==
  ASSUME IoInv, StreamClients, [Next]_vars
  PROVE  IoInv'
<1>1. CASE UNCHANGED vars
  <2>1. /\ io' = io /\ todo' = todo /\ rd' = rd /\ want' = want /\ addr' = addr
        /\ sent' = sent /\ last' = last
    BY <1>1 DEF vars, ghost
  <2>2. n' = n
    BY <2>1 DEF n
  <2>3. Types' /\ Calls' /\ LastRead'
    BY <2>1, <2>2 DEF IoInv, Types, Calls, LastRead
  <2> QED
    BY <2>1, <2>3 DEF IoInv
<1>2. CASE WriterNext
  <2>1. ASSUME NEW mode \in {"w", "W"}, OpenWrite(mode) PROVE IoInv'
    BY <2>1, OpenWriteStep
  <2>2. CASE SetSoclock
    BY <2>2, SetSoclockStep
  <2>3. ASSUME NEW byte \in 0 .. MaxBytes, Start(byte) PROVE IoInv'
    <3>1. byte \in Nat
      BY StreamSizes
    <3> QED
      BY <2>3, <3>1, StartStep
  <2>4. ASSUME NEW m \in WriteSizes, Write(m) PROVE IoInv'
    BY <2>4, WriteStep
  <2>5. CASE WriteSteps
    BY <2>5, DoWriteFullStep, DoWriteGetStep, DoWriteCopyStep DEF WriteSteps
  <2>6. CASE OpenBlock
    BY <2>6, OpenBlockStep
  <2>7. ASSUME NEW m \in 0 .. BufSz, CloseBlock(m) PROVE IoInv'
    BY <2>7, CloseBlockStep
  <2>8. CASE Stop
    BY <2>8, StopStep
  <2>9. CASE Close
    BY <2>9, CloseStep
  <2> QED
    BY <1>2, <2>1, <2>2, <2>3, <2>4, <2>5, <2>6, <2>7, <2>8, <2>9 DEF WriterNext
<1>3. CASE ReaderNext
  <2>1. ASSUME NEW m \in ReadSizes, Read(m) PROVE IoInv'
    BY <2>1, ReadStep
  <2>2. CASE ReadGet
    BY <2>2, ReadGetStep
  <2>3. CASE ReadCopy
    BY <2>3, ReadCopyStep
  <2>4. ASSUME NEW m \in 1 .. BufSz, SeekBack(m) PROVE IoInv'
    BY <2>4, SeekBackStep
  <2>5. CASE OpenBlockRead
    BY <2>5, OpenBlockReadStep
  <2>6. ASSUME NEW m \in 0 .. BufSz, CloseBlockRead(m) PROVE IoInv'
    BY <2>6, CloseBlockReadStep
  <2>7. CASE NextTransfer
    BY <2>7, NextTransferStep
  <2> QED
    BY <1>3, <2>1, <2>2, <2>3, <2>4, <2>5, <2>6, <2>7 DEF ReaderNext
<1> QED
  BY <1>1, <1>2, <1>3 DEF Next

(* The invariant: whatever calls of ipcio its write and read client make   *)
(* in whatever order, handle, transfer table, tokens and bytes agree as    *)
(* IoInv says.                                                             *)
THEOREM IoInvariant ==
  ASSUME StreamClients
  PROVE  Spec => []IoInv
<1>1. Init => IoInv
  BY InitInv
<1>2. IoInv /\ [Next]_vars => IoInv'
  BY NextInv
<1> QED
  BY <1>1, <1>2, PTL DEF Spec

-----------------------------------------------------------------------------
(***************************************************************************)
(* The properties of IpcIoStream.                                          *)
(***************************************************************************)

(* The counters of the ring stay within its size.                          *)
LEMMA TokensBounded ==
  ASSUME io \in IoRec, rd \in ReaderRec, RingOK(rd, io)
  PROVE  io.FULL <= NBufs /\ io.CLEAR <= NBufs
<1> DEFINE U == UsedBlocks(io)
           d == Due(rd, io)
           c == io.w_buf_curr
<1>1. /\ NBufs \in Nat \ {0} /\ c \in Nat /\ io.w_buf_next \in Nat
      /\ io.FULL \in Nat /\ io.CLEAR \in Nat
  BY RingPlaces, IoSizes DEF IoRec
<1>2. PICK from \in io.w_buf_next - NBufs .. io.w_buf_next : TakenBack(rd, io, from)
  BY DEF RingOK, Tokens
<1>3. from \in Int /\ io.w_buf_next - NBufs <= from /\ from <= io.w_buf_next
  BY <1>1, <1>2
<1>4. c <= io.w_buf_next
  BY DEF RingOK, Table
<1>5. d \in Nat /\ d <= c
  BY DueNumbers DEF RingOK
<1>6. io.CLEAR = HowMany(U, from, d) /\ Among(U, d, from) = {}
  BY <1>2 DEF TakenBack
<1>7. io.FULL <= HowMany(U, d, c)
  <2>1. io.FULL + (IF rd.curbuf = NoBuf THEN 0 ELSE 1) = HowMany(U, d, c)
    BY DEF RingOK, Tokens
  <2> HIDE DEF U, d, c
  <2> QED
    BY <1>1, <2>1
<1> HIDE DEF U, d, c
<1>8. io.FULL <= NBufs
  <2>1. CASE d <= from
    <3>1. HowMany(U, d, c) = HowMany(U, from, c)
      BY <1>1, <1>3, <1>5, <1>6, <2>1, SkipNone DEF HowMany
    <3>2. CASE from <= c
      <4>1. HowMany(U, from, c) <= c - from
        BY <1>1, <1>3, <3>2, AmongAtMost
      <4>2. HowMany(U, from, c) \in Nat
        BY <1>1, <1>3, AmongFinite
      <4> QED
        BY <1>1, <1>3, <1>4, <1>7, <3>1, <4>1, <4>2
    <3>3. CASE from > c
      <4>1. Among(U, from, c) = {}
        BY <1>1, <1>3, <3>3 DEF Among
      <4>2. HowMany(U, from, c) = 0
        BY <1>1, <1>3, <4>1, AmongEmpty
      <4> QED
        BY <1>1, <1>7, <3>1, <4>2
    <3> QED
      BY <1>1, <1>3, <3>2, <3>3
  <2>2. CASE d > from
    <3>1. HowMany(U, d, c) \in Nat
      BY <1>1, <1>5, AmongFinite
    <3>2. HowMany(U, d, c) <= c - d
      BY <1>1, <1>5, AmongAtMost
    <3> QED
      BY <1>1, <1>3, <1>4, <1>5, <1>7, <2>2, <3>1, <3>2
  <2> QED
    BY <1>3, <1>5, <2>1, <2>2
<1>9. io.CLEAR <= NBufs
  <2>0. d <= io.w_buf_next
    BY <1>1, <1>4, <1>5
  <2>1. CASE from <= d
    <3>1. HowMany(U, from, d) <= d - from
      BY <1>3, <1>5, <2>1, AmongAtMost
    <3> QED
      BY <1>1, <1>3, <1>5, <1>6, <2>0, <3>1
  <2>2. CASE from > d
    <3>1. Among(U, from, d) = {}
      BY <1>3, <1>5, <2>2 DEF Among
    <3>2. HowMany(U, from, d) = 0
      BY <1>3, <1>5, <3>1, AmongEmpty
    <3> QED
      BY <1>1, <1>6, <3>2
  <2> QED
    BY <1>3, <1>5, <2>1, <2>2
<1> QED
  BY <1>8, <1>9

(* The invariant holds of the counters and places TypeOK speaks of.        *)
LEMMA InvTypes ==
  ASSUME IoInv
  PROVE  TypeOK
<1>1. /\ io \in IoRec /\ rd \in ReaderRec /\ RingOK(rd, io) /\ Modes(io)
      /\ Table(io) /\ Place(rd, io)
  BY DEF IoInv, Types, HandleOK, RingOK
<1>2. /\ io.rdwrt \in {"0", "w", "W"} /\ io.bytes \in 0 .. BufSz
      /\ io.curbuf \in Ring \cup {NoBuf}
      /\ io.state \in {"VIEWER", "WRITER", "WCHANGE", "WRITING"}
      /\ io.FULL \in Nat /\ io.CLEAR \in Nat
      /\ io.w_buf_curr \in Nat /\ io.w_buf_next \in Nat
  BY <1>1 DEF IoRec
<1>3. (io.rdwrt = "0") = (io.state = "VIEWER")
  <2>1. /\ io.rdwrt = "0" => io.state = "VIEWER"
        /\ io.rdwrt = "w" => io.state = "WRITER"
        /\ io.rdwrt = "W" => io.state \in {"WRITER", "WCHANGE", "WRITING"}
    BY <1>1 DEF Modes
  <2> QED
    BY <1>2, <2>1
<1>4. /\ NBufs \in Nat /\ BufSz \in Nat
  BY IoSizes
<1>5. io.FULL \in 0 .. NBufs /\ io.CLEAR \in 0 .. NBufs
  BY <1>1, <1>2, <1>4, TokensBounded
<1>6. io.w_buf_next - io.w_buf_curr \in 0 .. NBufs
  <2>1. io.w_buf_curr <= io.w_buf_next /\ io.w_buf_next - io.w_buf_curr < NBufs
    BY <1>1 DEF Table
  <2> QED
    BY <1>2, <1>4, <2>1
<1>7. Len(io.xfers) \in {io.w_xfer, io.w_xfer + 1}
  BY <1>1 DEF Table
<1>8. rd.state \in {"READER", "READING", "RSTOP"} /\ rd.curbufsz \in 0 .. BufSz
  BY <1>1, ReaderTypes
<1>9. rd.bytes \in 0 .. BufSz
  <2>1. rd.bytes \in Nat /\ rd.curbufsz \in Nat /\ rd.curbufsz <= BufSz
    BY <1>1, <1>4, ReaderTypes
  <2>2. CASE rd.curbuf = NoBuf
    <3>1. rd.bytes = 0
      BY <1>1, <2>2 DEF Place
    <3> QED
      BY <1>4, <3>1
  <2>3. CASE rd.curbuf # NoBuf
    <3>1. rd.bytes <= rd.curbufsz
      BY <1>1, <2>3 DEF Place
    <3> QED
      BY <1>4, <2>1, <3>1
  <2> QED
    BY <2>2, <2>3
<1> QED
  BY <1>2, <1>3, <1>5, <1>6, <1>7, <1>8, <1>9 DEF TypeOK

(* The first byte of a transfer is the one written at its start.           *)
LEMMA FirstIs ==
  ASSUME Types, Increasing(addr, NextAddr(io)), NEW v \in 1 .. n, NEW x,
         x.at \in Nat, addr[v] = x.at
  PROVE  First(x) = v
<1> DEFINE S == {u \in 1 .. n : addr[u] >= x.at} \cup {n + 1}
<1>1. addr \in Seq(Nat \cup {GivenBack}) /\ n \in Nat /\ n = Len(addr)
  BY DEF Types, n
<1>2. v \in S
  BY <1>1
<1>3. \A u \in S : v <= u
  <2> SUFFICES ASSUME NEW u \in 1 .. n, addr[u] >= x.at, u < v
               PROVE  FALSE
    BY <1>1
  <2>1. addr[v] # GivenBack
    BY DEF GivenBack
  <2>2. u \in 1 .. v - 1
    BY <1>1
  <2>3. v \in 1 .. Len(addr)
    BY <1>1
  <2>4. addr[u] < addr[v]
    BY <2>1, <2>2, <2>3 DEF Increasing
  <2>5. addr[u] \in Int
    <3>1. addr[u] \in Nat \cup {GivenBack}
      BY <1>1
    <3> QED
      BY <3>1 DEF GivenBack
  <2> QED
    BY <2>4, <2>5
<1>4. S \subseteq Int
  BY <1>1
<1>5. First(x) = CHOOSE u \in S : \A w \in S : u <= w
  BY DEF First, Min
<1> HIDE DEF S
<1>6. \A u \in S : (\A w \in S : u <= w) => u = v
  <2> SUFFICES ASSUME NEW u \in S, \A w \in S : u <= w
               PROVE  u = v
    OBVIOUS
  <2>1. u <= v /\ v <= u /\ u \in Int /\ v \in Int
    BY <1>2, <1>3, <1>4
  <2> QED
    BY <2>1
<1> QED
  BY <1>2, <1>3, <1>5, <1>6

(* The bytes last read are those of the transfer read.                     *)
LEMMA InvReadTrue ==
  ASSUME IoInv
  PROVE  ReadTrue
<1> SUFFICES ASSUME NEW i \in DOMAIN last.vals
             PROVE  LET x == sent[last.xfer] IN
                    /\ last.vals[i] = First(x) + last.pos + i - 1
                    /\ x.to # Open => last.vals[i] <= x.to
  BY DEF ReadTrue
<1> DEFINE x == sent[last.xfer]
<1>1. Types /\ Increasing(addr, NextAddr(io)) /\ LastRead /\ Promised(io, addr, sent)
  BY DEF IoInv, Data
<1>2. last.vals \in Seq(Nat) /\ last.pos \in Nat /\ sent \in Seq(SentRec)
  BY <1>1 DEF Types
<1>3. i \in 1 .. Len(last.vals) /\ last.vals # <<>> /\ Len(last.vals) \in Nat
  BY <1>2
<1>4. PICK v \in 1 .. n :
        /\ addr[v] = x.at
        /\ \A k \in 1 .. Len(last.vals) : last.vals[k] = v + last.pos + k - 1
        /\ v + last.pos + Len(last.vals) - 1 <= IF x.to = Open THEN n ELSE x.to
  BY <1>1, <1>3 DEF LastRead
<1>5. x \in SentRec
  <2>1. last.xfer \in 1 .. Len(io.xfers) /\ Len(io.xfers) <= Len(sent)
    BY <1>1, <1>3 DEF LastRead, Promised
  <2>2. io.xfers \in Seq(XferRec)
    BY <1>1 DEF Types, IoRec
  <2>3. last.xfer \in 1 .. Len(sent)
    BY <1>2, <2>1, <2>2
  <2> QED
    BY <1>2, <2>3
<1>6. x.at \in Nat /\ x.to \in Nat \cup {Open}
  BY <1>5 DEF SentRec
<1>7. v \in Nat
  BY <1>1 DEF Types, n
<1> HIDE DEF x
<1>8. First(x) = v
  BY <1>1, <1>4, <1>6, FirstIs
<1>9. last.vals[i] = v + last.pos + i - 1
  BY <1>3, <1>4
<1>10. x.to # Open => last.vals[i] <= x.to
  <2> HAVE x.to # Open
  <2>1. v + last.pos + Len(last.vals) - 1 <= x.to /\ x.to \in Nat
    BY <1>4, <1>6
  <2>2. i \in Nat /\ i <= Len(last.vals)
    BY <1>3
  <2>3. v + last.pos + i - 1 <= x.to
    <3> DEFINE p == last.pos
               l == Len(last.vals)
               e == x.to
    <3>1. v \in Nat /\ p \in Nat /\ l \in Nat /\ e \in Nat /\ v + p + l - 1 <= e /\ i <= l
      BY <1>2, <1>3, <1>7, <2>1, <2>2
    <3> HIDE DEF p, l, e
    <3>2. v + p + i - 1 <= e
      BY <2>2, <3>1
    <3> QED
      BY <3>2 DEF p, e
  <2> QED
    BY <1>9, <2>3
<1> QED
  BY <1>8, <1>9, <1>10 DEF x

(* At end of data exactly the bytes of the transfer were read.             *)
LEMMA InvLengthTrue ==
  ASSUME IoInv
  PROVE  LengthTrue
<1> SUFFICES ASSUME rd.state = "RSTOP"
             PROVE  LET x == sent[rd.r_xfer] IN
                    /\ x.to # Open
                    /\ last.pos + Len(last.vals) = x.to - First(x) + 1
  BY DEF LengthTrue
<1> DEFINE k == rd.r_xfer
           x == sent[k]
           S == StartAddr(io.xfers[k])
           E == EndAddr(io.xfers[k])
<1>1. /\ Types /\ Increasing(addr, NextAddr(io)) /\ LastRead /\ Promised(io, addr, sent)
      /\ Table(io) /\ Place(rd, io) /\ io \in IoRec /\ rd \in ReaderRec
  BY DEF IoInv, Data, RingOK, Types
<1>2. /\ sent \in Seq(SentRec) /\ last.vals \in Seq(Nat) /\ last.pos \in Nat
      /\ n \in Nat /\ n = Len(addr)
  BY <1>1 DEF Types, n
<1>3. k \in 1 .. io.w_xfer
  <2>1. k > 0 /\ k <= io.w_xfer
    BY <1>1 DEF Place
  <2>2. k \in Nat /\ io.w_xfer \in Nat
    BY <1>1, IoTypes, ReaderTypes
  <2> HIDE DEF k
  <2> QED
    BY <2>1, <2>2
<1>4. /\ k \in 1 .. Len(io.xfers) /\ k \in 1 .. Len(sent) /\ k <= io.w_xfer
  <2>1. /\ Len(io.xfers) \in {io.w_xfer, io.w_xfer + 1} /\ Len(io.xfers) <= Len(sent)
        /\ Len(io.xfers) \in Nat /\ io.w_xfer \in Nat /\ Len(sent) \in Nat
    BY <1>1, <1>2, IoTypes DEF Table, Promised
  <2> HIDE DEF k
  <2> QED
    BY <1>3, <2>1
<1>5. x.to \in 1 .. n /\ Run(addr, x.at, E - 1, x.to) /\ x.at = S
  BY <1>1, <1>2, <1>4 DEF Promised
<1>6. S < E /\ S \in Nat /\ E \in Nat
  BY <1>1, <1>3, StartBeforeEnd
<1>7. last.pos + Len(last.vals) = E - S
  BY <1>1 DEF LastRead
<1> DEFINE v == x.to - (E - 1 - S)
<1> HIDE DEF k, x, S, E
<1>8. v >= 1 /\ addr[v] = S
  <2>1. x.at \in x.at .. E - 1
    BY <1>5, <1>6
  <2> QED
    BY <1>5, <2>1 DEF Run
<1>9. v \in 1 .. n
  BY <1>2, <1>5, <1>6, <1>8
<1>10. First(x) = v
  BY <1>1, <1>5, <1>6, <1>8, <1>9, FirstIs
<1>11. x.to # Open
  BY <1>2, <1>5 DEF Open
<1>12. Len(last.vals) \in Nat /\ last.pos + Len(last.vals) = x.to - v + 1
  BY <1>2, <1>5, <1>6, <1>7
<1> QED
  BY <1>10, <1>11, <1>12 DEF x, k

-----------------------------------------------------------------------------
(* Type correctness: mode and state of the writer's handle agree, and its  *)
(* place in a block, the blocks it holds and both semaphores stay within   *)
(* the sizes of block and ring, whatever calls of ipcio led there.         *)
THEOREM StreamTypes ==
  ASSUME StreamClients
  PROVE  Spec => []TypeOK
BY IoInvariant, InvTypes, PTL

(* Calls that meet the conditions of ipcio.h and doc/ipc.tex are never     *)
(* refused by ipcbuf underneath, neither when a pending start of data is   *)
(* raised (ipcio_check_pending_sod) nor in ipcio_write, ipcio_stop and     *)
(* ipcio_close.                                                            *)
THEOREM StreamCallsAccepted ==
  ASSUME StreamClients
  PROVE  Spec => []CallsAccepted
<1>1. IoInv => CallsAccepted
  BY DEF IoInv, HandleOK, Modes, CallsAccepted
<1> QED
  BY <1>1, IoInvariant, PTL

(* What ipcio_read copies and what ipcio_open_block_read returns are the   *)
(* bytes that were meant to be at that position of that transfer.          *)
THEOREM StreamReadTrue ==
  ASSUME StreamClients
  PROVE  Spec => []ReadTrue
BY IoInvariant, InvReadTrue, PTL

(* End of data is reported after exactly the bytes from the start of a     *)
(* transfer to its stop.                                                   *)
THEOREM StreamLengthTrue ==
  ASSUME StreamClients
  PROVE  Spec => []LengthTrue
BY IoInvariant, InvLengthTrue, PTL
=============================================================================
