---------------------------- MODULE IpcBufProofs ----------------------------
(***************************************************************************)
(* LockInv is inductive: TypeOK with the ownership of the locks.  TypeOK    *)
(* alone is not, because a reader that advances needs to own a slot.         *)
(***************************************************************************)
EXTENDS IpcBuf, FiniteSetTheorems, TLAPS

(* Transfer numbers are taken modulo XFERS to index the transfer table. *)
LEMMA ModSlot == \A n \in Nat : n % XFERS \in XferSlots
  BY SizesAssumption DEF XferSlots

(* A semaphore operation that waits never takes a semaphore below zero. *)
LEMMA DownType ==
  ASSUME NEW S, NEW sem \in [S -> Nat], NEW s, Avail(sem, s)
  PROVE  Down(sem, s) \in [S -> Nat]
<1>1. ASSUME s \in S, NEW t \in S PROVE Down(sem, s)[t] \in Nat
  BY <1>1 DEF Avail, Down
<1>2. ASSUME s \notin S PROVE Down(sem, s) = sem
  BY <1>2 DEF Down
<1> QED
  BY <1>1, <1>2 DEF Down

(* Posting keeps the semaphores natural numbers. *)
LEMMA UpType ==
  ASSUME NEW S, NEW sem \in [S -> Nat], NEW s
  PROVE  Up(sem, s) \in [S -> Nat]
<1>1. ASSUME s \in S, NEW t \in S PROVE Up(sem, s)[t] \in Nat
  BY <1>1 DEF Up
<1>2. ASSUME s \notin S PROVE Up(sem, s) = sem
  BY <1>2 DEF Up
<1> QED
  BY <1>1, <1>2 DEF Up

(* The loops over the readers stay within the reader slots. *)
LEMMA LoopType ==
  ASSUME WriterType, NEW w \in Writers, NextReader(w) \/ FirstReader(w)
  PROVE  ir' \in [Writers -> Slots]
<1>1. ir \in [Writers -> Slots]
  BY DEF WriterType
<1>2. \A i \in Slots : i # NReaders - 1 => i + 1 \in Slots
  BY SizesAssumption DEF Slots
<1>3. 0 \in Slots
  BY SizesAssumption DEF Slots
<1> QED
  BY <1>1, <1>2, <1>3 DEF NextReader, FirstReader, LastReader

(* The blocks counted by ipcbuf_enable_sod are finitely many. *)
LEMMA FilledInType ==
  ASSUME SyncType, NEW b \in Ring, NEW first \in Nat
  PROVE  FilledIn(b, first) \in Nat
<1> DEFINE all == first .. w_buf_curr - 1
           in == {n \in all : n % NBufs = b}
<1>1. IsFiniteSet(all)
  BY FS_Interval DEF SyncType
<1>2. IsFiniteSet(in)
  BY <1>1, FS_Subset
<1> QED
  BY <1>2, FS_CardinalityType DEF FilledIn

(* Every step of the program, from a state with LockInv, keeps the types. *)
LEMMA TypeStep == ASSUME LockInv, [Next]_vars PROVE TypeOK'
<1> USE SizesAssumption
<1> USE DEF wsync, xsync, rsync, locks, wproc, rproc, ghost
<1>0. TypeOK
  BY DEF LockInv
<1>a. CASE UNCHANGED vars
  BY <1>0, <1>a
     DEF TypeOK, vars, SyncType, XferType, ReadType, LockType, SemType,
         ProcType, WriterType, ReaderType, GhostType
<1>1. ASSUME NEW w \in Writers, LockWrite(w)
      PROVE TypeOK'
  <2>1. LockType'
    BY <1>0, <1>1, DownType, UpType DEF TypeOK, LockType, LockWrite
  <2>2. ProcType'
    BY <1>0, <1>1, ModSlot
       DEF TypeOK, ProcType, LockWrite, SyncType, WriterStates, Goto
  <2> QED
    BY <1>0, <1>1, <2>1, <2>2
       DEF TypeOK, SyncType, XferType, ReadType, SemType, WriterType,
           ReaderType, GhostType, LockWrite
<1>2. ASSUME NEW w \in Writers, UnlockWrite(w)
      PROVE TypeOK'
  <2>1. LockType'
    BY <1>0, <1>2, DownType, UpType DEF TypeOK, LockType, UnlockWrite
  <2>2. ProcType'
    BY <1>0, <1>2, ModSlot
       DEF TypeOK, ProcType, UnlockWrite, Goto, WriterPcs, ReaderPcs,
           WriterStates, ReaderStates
  <2> QED
    BY <1>0, <1>2, <2>1, <2>2
       DEF TypeOK, SyncType, XferType, ReadType, SemType, WriterType,
           ReaderType, GhostType, UnlockWrite
<1>3. ASSUME NEW w \in Writers, EnableEod(w)
      PROVE TypeOK'
  <2>1. ProcType'
    BY <1>0, <1>3, ModSlot
       DEF TypeOK, ProcType, EnableEod, Goto, WriterPcs, ReaderPcs,
           WriterStates, ReaderStates
  <2> QED
    BY <1>0, <1>3, <2>1
       DEF TypeOK, SyncType, XferType, ReadType, LockType, SemType,
           WriterType, ReaderType, GhostType, EnableEod
<1>4. ASSUME NEW w \in Writers, DisableSod(w)
      PROVE TypeOK'
  <2>1. ProcType'
    BY <1>0, <1>4, ModSlot
       DEF TypeOK, ProcType, DisableSod, Goto, WriterPcs, ReaderPcs,
           WriterStates, ReaderStates
  <2> QED
    BY <1>0, <1>4, <2>1
       DEF TypeOK, SyncType, XferType, ReadType, LockType, SemType,
           WriterType, ReaderType, GhostType, DisableSod
<1>5. ASSUME NEW w \in Writers, SetSoclockBuf(w)
      PROVE TypeOK'
  <2>1. WriterType'
    <3>1. w_xfer > 0 => e_buf[(w_xfer - 1) % XFERS] \in Nat
      <4>1. w_xfer > 0 => w_xfer - 1 \in Nat
        BY <1>0 DEF TypeOK, SyncType
      <4> QED
        BY <1>0, <4>1, ModSlot DEF TypeOK, XferType
    <3> QED
      BY <1>0, <1>5, <3>1 DEF TypeOK, WriterType, SetSoclockBuf
  <2> QED
    BY <1>0, <1>5, <2>1
       DEF TypeOK, SyncType, XferType, ReadType, LockType, SemType, ProcType,
           ReaderType, GhostType, SetSoclockBuf
<1>6. ASSUME NEW w \in Writers, NEW b \in 0 .. MaxBuf, NEW y \in 0 .. BufSz,
              EnableSod(w, b, y)
      PROVE TypeOK'
  <2>1. ProcType'
    BY <1>0, <1>6
       DEF TypeOK, ProcType, EnableSod, CallEnableSod, Goto, WriterPcs
  <2>2. WriterType'
    BY <1>0, <1>6, LoopType DEF TypeOK, WriterType, EnableSod, CallEnableSod
  <2> QED
    BY <1>0, <1>6, <2>1, <2>2
       DEF TypeOK, SyncType, XferType, ReadType, LockType, SemType,
           ReaderType, GhostType, EnableSod, CallEnableSod
<1>7. ASSUME NEW w \in Writers, GetNextWrite(w)
      PROVE TypeOK'
  <2>1. ProcType'
    BY <1>0, <1>7
       DEF TypeOK, ProcType, GetNextWrite, CallEnableSod, Goto, WriterPcs
  <2>2. WriterType'
    <3>1. ir' \in [Writers -> Slots]
      BY <1>0, <1>7, LoopType DEF TypeOK, GetNextWrite, CallEnableSod
    <3>2. arg' \in [Writers -> [buf : Nat, nbytes : Nat]]
      BY <1>0, <1>7
         DEF TypeOK, WriterType, SyncType, GetNextWrite, CallEnableSod
    <3> QED
      BY <1>0, <1>7, <3>1, <3>2
         DEF TypeOK, WriterType, GetNextWrite, CallEnableSod
  <2> QED
    BY <1>0, <1>7, <2>1, <2>2
       DEF TypeOK, SyncType, XferType, ReadType, LockType, SemType,
           ReaderType, GhostType, GetNextWrite, CallEnableSod
<1>8. ASSUME NEW w \in Writers, NEW n \in 0 .. BufSz, MarkFilled(w, n)
      PROVE TypeOK'
  <2>1. SyncType'
    BY <1>0, <1>8 DEF TypeOK, SyncType, MarkFilled
  <2>2. ProcType'
    BY <1>0, <1>8 DEF TypeOK, ProcType, MarkFilled, Goto, WriterPcs
  <2>3. WriterType'
    BY <1>0, <1>8, LoopType DEF TypeOK, WriterType, MarkFilled, SyncType
  <2> QED
    BY <1>0, <1>8, <2>1, <2>2, <2>3
       DEF TypeOK, XferType, ReadType, LockType, SemType, ReaderType,
           GhostType, MarkFilled
<1>9. ASSUME NEW w \in Writers, ZeroNextWrite(w)
      PROVE TypeOK'
  <2>1. GhostType'
    BY <1>0, <1>9 DEF TypeOK, GhostType, ZeroNextWrite, Extent, NoBlock
  <2> QED
    BY <1>0, <1>9, <2>1
       DEF TypeOK, SyncType, XferType, ReadType, LockType, SemType, ProcType,
           WriterType, ReaderType, ZeroNextWrite
<1>10. ASSUME NEW w \in Writers, Reset(w)
      PROVE TypeOK'
  <2>1. ProcType'
    BY <1>0, <1>10, ModSlot
       DEF TypeOK, ProcType, Reset, Goto, WriterPcs, ReaderPcs, WriterStates,
           ReaderStates
  <2>2. WriterType'
    BY <1>0, <1>10, LoopType DEF TypeOK, WriterType, Reset
  <2> QED
    BY <1>0, <1>10, <2>1, <2>2
       DEF TypeOK, SyncType, XferType, ReadType, LockType, SemType,
           ReaderType, GhostType, Reset
<1>11. ASSUME NEW w \in Writers, SodAck(w)
      PROVE TypeOK'
  <2>1. SemType'
    BY <1>0, <1>11, DownType, UpType DEF TypeOK, SemType, SodAck
  <2>2. ProcType'
    BY <1>0, <1>11, ModSlot
       DEF TypeOK, ProcType, SodAck, Goto, WriterPcs, ReaderPcs, WriterStates,
           ReaderStates
  <2>3. WriterType'
    BY <1>0, <1>11, LoopType DEF TypeOK, WriterType, SodAck
  <2> QED
    BY <1>0, <1>11, <2>1, <2>2, <2>3
       DEF TypeOK, SyncType, XferType, ReadType, LockType, ReaderType,
           GhostType, SodAck
<1>12. ASSUME NEW w \in Writers, SodSet(w)
      PROVE TypeOK'
  <2>1. SyncType'
    BY <1>0, <1>12 DEF TypeOK, SyncType, SodSet
  <2>2. XferType'
    BY <1>0, <1>12 DEF TypeOK, XferType, SodSet, WriterType, SodFlag, SyncType
  <2>3. SemType'
    <3>1. arg[w].buf \in Nat
      BY <1>0 DEF TypeOK, WriterType
    <3>2. \A b \in Ring : count[b] + FilledIn(b, arg[w].buf) \in Nat
      BY <1>0, <3>1, FilledInType DEF TypeOK, SemType
    <3> QED
      BY <1>0, <1>12, <3>2 DEF TypeOK, SemType, SodSet
  <2>4. ProcType'
    BY <1>0, <1>12, ModSlot
       DEF TypeOK, ProcType, SodSet, Goto, WriterPcs, WriterStates, SyncType
  <2>5. GhostType'
    BY <1>0, <1>12 DEF TypeOK, GhostType, SodSet, Extent, WriterType
  <2> QED
    BY <1>0, <1>12, <2>1, <2>2, <2>3, <2>4, <2>5
       DEF TypeOK, ReadType, LockType, WriterType, ReaderType, SodSet
<1>13. ASSUME NEW w \in Writers, SodFull(w)
      PROVE TypeOK'
  <2>1. SemType'
    BY <1>0, <1>13 DEF TypeOK, SemType, SodFull, WriterType, SyncType
  <2>2. ProcType'
    BY <1>0, <1>13, ModSlot
       DEF TypeOK, ProcType, SodFull, Goto, WriterPcs, ReaderPcs,
           WriterStates, ReaderStates
  <2>3. WriterType'
    BY <1>0, <1>13, LoopType DEF TypeOK, WriterType, SodFull
  <2> QED
    BY <1>0, <1>13, <2>1, <2>2, <2>3
       DEF TypeOK, SyncType, XferType, ReadType, LockType, ReaderType,
           GhostType, SodFull
<1>14. ASSUME NEW w \in Writers, Drain(w)
      PROVE TypeOK'
  <2>1. SemType'
    BY <1>0, <1>14, DownType DEF TypeOK, SemType, Drain, Draining, Avail
  <2>2. ProcType'
    BY <1>0, <1>14, ModSlot
       DEF TypeOK, ProcType, Drain, Goto, WriterPcs, ReaderPcs, WriterStates,
           ReaderStates
  <2>3. WriterType'
    BY <1>0, <1>14, LoopType DEF TypeOK, WriterType, Drain
  <2> QED
    BY <1>0, <1>14, <2>1, <2>2, <2>3
       DEF TypeOK, SyncType, XferType, ReadType, LockType, ReaderType,
           GhostType, Drain
<1>15. ASSUME NEW w \in Writers, TakeBlock(w)
      PROVE TypeOK'
  <2>1. SyncType'
    BY <1>0, <1>15 DEF TypeOK, SyncType, TakeBlock
  <2>2. ProcType'
    BY <1>0, <1>15, ModSlot
       DEF TypeOK, ProcType, TakeBlock, Goto, WriterPcs, ReaderPcs,
           WriterStates, ReaderStates
  <2>3. GhostType'
    BY <1>0, <1>15 DEF TypeOK, GhostType, TakeBlock, SyncType
  <2> QED
    BY <1>0, <1>15, <2>1, <2>2, <2>3
       DEF TypeOK, XferType, ReadType, LockType, SemType, WriterType,
           ReaderType, TakeBlock
<1>16. ASSUME NEW w \in Writers, EodAck(w)
      PROVE TypeOK'
  <2>1. SemType'
    BY <1>0, <1>16, DownType, UpType DEF TypeOK, SemType, EodAck
  <2>2. ProcType'
    BY <1>0, <1>16, ModSlot
       DEF TypeOK, ProcType, EodAck, Goto, WriterPcs, ReaderPcs, WriterStates,
           ReaderStates
  <2>3. WriterType'
    BY <1>0, <1>16, LoopType DEF TypeOK, WriterType, EodAck
  <2> QED
    BY <1>0, <1>16, <2>1, <2>2, <2>3
       DEF TypeOK, SyncType, XferType, ReadType, LockType, ReaderType,
           GhostType, EodAck
<1>17. ASSUME NEW w \in Writers, EodSet(w)
      PROVE TypeOK'
  <2>1. SyncType'
    BY <1>0, <1>17 DEF TypeOK, SyncType, EodSet
  <2>2. XferType'
    BY <1>0, <1>17 DEF TypeOK, XferType, EodSet, WriterType, SyncType
  <2>3. ProcType'
    <3>1. (w_xfer + 1) % XFERS \in XferSlots
      <4>1. w_xfer + 1 \in Nat
        BY <1>0 DEF TypeOK, SyncType
      <4> QED
        BY <4>1, ModSlot
    <3> QED
      BY <1>0, <1>17, <3>1
         DEF TypeOK, ProcType, EodSet, Goto, WriterPcs, WriterStates
  <2>4. GhostType'
    BY <1>0, <1>17 DEF TypeOK, GhostType, EodSet, Extent, WriterType, SyncType
  <2> QED
    BY <1>0, <1>17, <2>1, <2>2, <2>3, <2>4
       DEF TypeOK, ReadType, LockType, SemType, WriterType, ReaderType, EodSet
<1>18. ASSUME NEW w \in Writers, Fill(w)
      PROVE TypeOK'
  <2>1. SyncType'
    BY <1>0, <1>18 DEF TypeOK, SyncType, Fill
  <2>2. SemType'
    BY <1>0, <1>18, UpType DEF TypeOK, SemType, Fill, SyncType
  <2>3. ProcType'
    BY <1>0, <1>18, ModSlot
       DEF TypeOK, ProcType, Fill, Goto, WriterPcs, ReaderPcs, WriterStates,
           ReaderStates
  <2> QED
    BY <1>0, <1>18, <2>1, <2>2, <2>3
       DEF TypeOK, XferType, ReadType, LockType, WriterType, ReaderType,
           GhostType, Fill
<1>19. ASSUME NEW w \in Writers, PostFull(w)
      PROVE TypeOK'
  <2>1. SemType'
    BY <1>0, <1>19, DownType, UpType DEF TypeOK, SemType, PostFull
  <2>2. ProcType'
    BY <1>0, <1>19, ModSlot
       DEF TypeOK, ProcType, PostFull, Goto, WriterPcs, ReaderPcs,
           WriterStates, ReaderStates
  <2>3. WriterType'
    BY <1>0, <1>19, LoopType DEF TypeOK, WriterType, PostFull
  <2> QED
    BY <1>0, <1>19, <2>1, <2>2, <2>3
       DEF TypeOK, SyncType, XferType, ReadType, LockType, ReaderType,
           GhostType, PostFull
<1>20. ASSUME NEW w \in Writers, ResetSodAck(w)
      PROVE TypeOK'
  <2>1. SemType'
    BY <1>0, <1>20 DEF TypeOK, SemType, ResetSodAck, WriterType
  <2>2. ProcType'
    BY <1>0, <1>20, ModSlot
       DEF TypeOK, ProcType, ResetSodAck, Goto, WriterPcs, ReaderPcs,
           WriterStates, ReaderStates
  <2> QED
    BY <1>0, <1>20, <2>1, <2>2
       DEF TypeOK, SyncType, XferType, ReadType, LockType, WriterType,
           ReaderType, GhostType, ResetSodAck
<1>21. ASSUME NEW w \in Writers, ResetEodAck(w)
      PROVE TypeOK'
  <2>1. ReadType'
    BY <1>0, <1>21 DEF TypeOK, ReadType, ResetEodAck
  <2>2. SemType'
    BY <1>0, <1>21 DEF TypeOK, SemType, ResetEodAck, WriterType
  <2>3. ProcType'
    BY <1>0, <1>21, ModSlot
       DEF TypeOK, ProcType, ResetEodAck, Goto, WriterPcs, ReaderPcs,
           WriterStates, ReaderStates
  <2>4. WriterType'
    BY <1>0, <1>21, LoopType DEF TypeOK, WriterType, ResetEodAck
  <2> QED
    BY <1>0, <1>21, <2>1, <2>2, <2>3, <2>4
       DEF TypeOK, SyncType, XferType, LockType, ReaderType, GhostType,
           ResetEodAck
<1>22. ASSUME NEW w \in Writers, ResetSync(w)
      PROVE TypeOK'
  <2>1. SyncType'
    BY <1>0, <1>22 DEF TypeOK, SyncType, ResetSync
  <2>2. XferType'
    BY <1>0, <1>22 DEF TypeOK, XferType, ResetSync
  <2>3. ProcType'
    BY <1>0, <1>22, ModSlot
       DEF TypeOK, ProcType, ResetSync, Goto, WriterPcs, ReaderPcs,
           WriterStates, ReaderStates
  <2>4. GhostType'
    BY <1>0, <1>22 DEF TypeOK, GhostType, ResetSync, Extent, NoBlock
  <2> QED
    BY <1>0, <1>22, <2>1, <2>2, <2>3, <2>4
       DEF TypeOK, ReadType, LockType, SemType, WriterType, ReaderType,
           ResetSync
<1>23. ASSUME NEW r \in Readers, LockRead(r)
      PROVE TypeOK'
  <2>1. LockType'
    BY <1>0, <1>23, DownType, UpType DEF TypeOK, LockType, LockRead
  <2>2. ProcType'
    BY <1>0, <1>23, ModSlot
       DEF TypeOK, ProcType, LockRead, Goto, WriterPcs, ReaderPcs,
           WriterStates, ReaderStates
  <2>3. ReaderType'
    BY <1>0, <1>23 DEF TypeOK, ReaderType, LockRead
  <2> QED
    BY <1>0, <1>23, <2>1, <2>2, <2>3
       DEF TypeOK, SyncType, XferType, ReadType, SemType, WriterType,
           GhostType, LockRead
<1>24. ASSUME NEW r \in Readers, Connect(r)
      PROVE TypeOK'
  <2>0. Head(order[r]) \in Slots /\ Tail(order[r]) \in Seq(Slots)
    BY <1>0, <1>24 DEF TypeOK, ReaderType, Connect
  <2>1. LockType'
    BY <1>0, <1>24, DownType, UpType DEF TypeOK, LockType, Connect
  <2>2. ProcType'
    <3>1. r_xfers[Head(order[r])] % XFERS \in XferSlots
      BY <1>0, <2>0, ModSlot DEF TypeOK, ReadType
    <3> QED
      BY <1>0, <1>24, <3>1
         DEF TypeOK, ProcType, Connect, ReaderStates, ReaderPcs
  <2>3. ReaderType'
    <3>1. iread' \in [Readers -> Slots \cup {-1}]
      BY <1>0, <1>24, <2>0 DEF TypeOK, ReaderType, Connect
    <3>2. <<>> \in Seq(Slots)
      OBVIOUS
    <3>3. \/ order' = [order EXCEPT ![r] = <<>>]
          \/ order' = [order EXCEPT ![r] = Tail(order[r])]
      BY <1>0, <1>24 DEF TypeOK, ReaderType, Connect
    <3>4. order' \in [Readers -> Seq(Slots)]
      BY <1>0, <2>0, <3>2, <3>3 DEF TypeOK, ReaderType
    <3> QED
      BY <1>0, <1>24, <3>1, <3>4 DEF TypeOK, ReaderType, Connect
  <2> QED
    BY <1>0, <1>24, <2>1, <2>2, <2>3
       DEF TypeOK, SyncType, XferType, ReadType, SemType, WriterType,
           GhostType, Connect
<1>25. ASSUME NEW r \in Readers, ConnectFailed(r)
      PROVE TypeOK'
  <2>1. LockType'
    BY <1>0, <1>25, DownType, UpType DEF TypeOK, LockType, ConnectFailed
  <2>2. ProcType'
    BY <1>0, <1>25, ModSlot
       DEF TypeOK, ProcType, ConnectFailed, Goto, WriterPcs, ReaderPcs,
           WriterStates, ReaderStates
  <2> QED
    BY <1>0, <1>25, <2>1, <2>2
       DEF TypeOK, SyncType, XferType, ReadType, SemType, WriterType,
           ReaderType, GhostType, ConnectFailed
<1>26. ASSUME NEW r \in Readers, Unlocked(r)
      PROVE TypeOK'
  <2>1. LockType'
    BY <1>0, <1>26, DownType, UpType DEF TypeOK, LockType, Unlocked
  <2>2. ProcType'
    BY <1>0, <1>26, ModSlot
       DEF TypeOK, ProcType, Unlocked, Goto, WriterPcs, ReaderPcs,
           WriterStates, ReaderStates
  <2>3. ReaderType'
    BY <1>0, <1>26 DEF TypeOK, ReaderType, Unlocked
  <2> QED
    BY <1>0, <1>26, <2>1, <2>2, <2>3
       DEF TypeOK, SyncType, XferType, ReadType, SemType, WriterType,
           GhostType, Unlocked
<1>27. ASSUME NEW r \in Readers, GetNextRead(r)
      PROVE TypeOK'
  <2>1. SemType'
    BY <1>0, <1>27, DownType, UpType DEF TypeOK, SemType, GetNextRead
  <2>2. ProcType'
    BY <1>0, <1>27, ModSlot
       DEF TypeOK, ProcType, GetNextRead, Goto, WriterPcs, ReaderPcs,
           WriterStates, ReaderStates
  <2>3. ReaderType'
    BY <1>0, <1>27 DEF TypeOK, ReaderType, GetNextRead
  <2> QED
    BY <1>0, <1>27, <2>1, <2>2, <2>3
       DEF TypeOK, SyncType, XferType, ReadType, LockType, WriterType,
           GhostType, GetNextRead
<1>28. ASSUME NEW r \in Readers, StartXfer(r)
      PROVE TypeOK'
  <2>0. iread[r] \in Slots
    BY <1>28 DEF LockInv, Control, StartXfer, Goto, InsidePcs
  <2>1. ReadType'
    BY <1>0, <1>28, ModSlot, <2>0 DEF TypeOK, ReadType, StartXfer, XferType
  <2>2. SemType'
    BY <1>0, <1>28, DownType, UpType DEF TypeOK, SemType, StartXfer
  <2>3. ProcType'
    BY <1>0, <1>28, ModSlot, <2>0
       DEF TypeOK, ProcType, StartXfer, Goto, ReadType, ReaderStates,
           ReaderPcs
  <2>4. ReaderType'
    BY <1>0, <1>28, ModSlot, <2>0
       DEF TypeOK, ReaderType, StartXfer, XferType, ReadType
  <2> QED
    BY <1>0, <1>28, <2>1, <2>2, <2>3, <2>4
       DEF TypeOK, SyncType, XferType, LockType, WriterType, GhostType,
           StartXfer
<1>29. ASSUME NEW r \in Readers, GetBytes(r)
      PROVE TypeOK'
  <2>1. ProcType'
    BY <1>0, <1>29, ModSlot
       DEF TypeOK, ProcType, GetBytes, Goto, WriterPcs, ReaderPcs,
           WriterStates, ReaderStates
  <2>2. ReaderType'
    BY <1>0, <1>29
       DEF TypeOK, ReaderType, GetBytes, XferType, ProcType, Procs, AtEod
  <2> QED
    BY <1>0, <1>29, <2>1, <2>2
       DEF TypeOK, SyncType, XferType, ReadType, LockType, SemType,
           WriterType, GhostType, GetBytes
<1>30. ASSUME NEW r \in Readers, MarkCleared(r)
      PROVE TypeOK'
  <2>1. SemType'
    BY <1>0, <1>30, DownType, UpType DEF TypeOK, SemType, MarkCleared
  <2>2. ProcType'
    BY <1>0, <1>30, ModSlot
       DEF TypeOK, ProcType, MarkCleared, Goto, WriterPcs, ReaderPcs,
           WriterStates, ReaderStates
  <2> QED
    BY <1>0, <1>30, <2>1, <2>2
       DEF TypeOK, SyncType, XferType, ReadType, LockType, WriterType,
           ReaderType, GhostType, MarkCleared
<1>31. ASSUME NEW r \in Readers, Advance(r)
      PROVE TypeOK'
  <2>0. iread[r] \in Slots
    BY <1>31 DEF LockInv, Control, Advance, Goto, InsidePcs
  <2>1. ReadType'
    BY <1>0, <1>31, <2>0 DEF TypeOK, ReadType, Advance
  <2>2. SemType'
    BY <1>0, <1>31, DownType, UpType DEF TypeOK, SemType, Advance
  <2>3. ProcType'
    <3>1. (r_xfers[iread[r]] + 1) % XFERS \in XferSlots
      <4>1. r_xfers[iread[r]] + 1 \in Nat
        BY <1>0, <2>0 DEF TypeOK, ReadType
      <4> QED
        BY <4>1, ModSlot
    <3> QED
      BY <1>0, <1>31, <3>1
         DEF TypeOK, ProcType, Advance, Goto, ReaderStates, ReaderPcs
  <2> QED
    BY <1>0, <1>31, <2>1, <2>2, <2>3
       DEF TypeOK, SyncType, XferType, LockType, WriterType, ReaderType,
           GhostType, Advance
<1>32. ASSUME NEW r \in Readers, ResetRead(r)
      PROVE TypeOK'
  <2>1. ProcType'
    BY <1>0, <1>32, ModSlot
       DEF TypeOK, ProcType, ResetRead, Goto, WriterPcs, ReaderPcs,
           WriterStates, ReaderStates
  <2> QED
    BY <1>0, <1>32, <2>1
       DEF TypeOK, SyncType, XferType, ReadType, LockType, SemType,
           WriterType, ReaderType, GhostType, ResetRead
<1>33. ASSUME NEW r \in Readers, UnlockRead(r)
      PROVE TypeOK'
  <2>1. LockType'
    BY <1>0, <1>33, DownType, UpType DEF TypeOK, LockType, UnlockRead
  <2>2. ProcType'
    BY <1>0, <1>33, ModSlot
       DEF TypeOK, ProcType, UnlockRead, Goto, WriterPcs, ReaderPcs,
           WriterStates, ReaderStates
  <2> QED
    BY <1>0, <1>33, <2>1, <2>2
       DEF TypeOK, SyncType, XferType, ReadType, SemType, WriterType,
           ReaderType, GhostType, UnlockRead
<1>34. QED
  BY <1>a, <1>1, <1>2, <1>3, <1>4, <1>5, <1>6, <1>7, <1>8, <1>9, <1>10, <1>11,
     <1>12, <1>13, <1>14, <1>15, <1>16, <1>17, <1>18, <1>19, <1>20, <1>21,
     <1>22, <1>23, <1>24, <1>25, <1>26, <1>27, <1>28, <1>29, <1>30, <1>31,
     <1>32, <1>33
     DEF Next, WriterCall, WriterStep, ReaderWork

-----------------------------------------------------------------------------
(***************************************************************************)
(* LockInv is inductive.                                                   *)
(***************************************************************************)
Locking == Control /\ LocksHeld /\ Exclusive

(* All processes but p stay where they are. *)
OnlyMoves(p) ==
  \A q \in Procs : q # p => pc'[q] = pc[q] /\ state'[q] = state[q]

(* A step that leaves the locks alone keeps the locking right as long as the  *)
(* writer that takes it stays a writer.                                      *)
LEMMA WriterMoves ==
  ASSUME LockInv, NEW w \in Writers, is_writer(w), OnlyMoves(w),
         pc'[w] \in WriterPcs, state'[w] \in WriterStates,
         UNCHANGED <<WRITE, READER_CONN, iread>>
  PROVE  Locking'
<1> USE ProcessAssumption DEF LockInv, OnlyMoves, is_writer, is_reader, Procs
<1>1. Control'
  BY DEF Control
<1>2. LocksHeld'
  BY DEF LocksHeld, Connected
<1>3. Exclusive'
  BY DEF Exclusive, Connected
<1> QED
  BY <1>1, <1>2, <1>3 DEF Locking

(* The same for a reader that is connected to its slot. *)
LEMMA ReaderMoves ==
  ASSUME LockInv, NEW r \in Readers, Connected(r), OnlyMoves(r),
         pc'[r] \in InsidePcs \ {"unlock"}, state'[r] \in ReaderStates,
         pc'[r] = "start" => state'[r] = "READER",
         pc'[r] \in {"bytes", "hold", "cleared"} => state'[r] = "READING",
         UNCHANGED <<WRITE, READER_CONN, iread>>
  PROVE  Locking'
<1> USE ProcessAssumption DEF LockInv, OnlyMoves, is_writer, is_reader, Procs
<1>1. Control'
  BY DEF Control, Connected, InsidePcs, ReaderPcs
<1>2. LocksHeld'
  BY DEF LocksHeld, Connected
<1>3. Exclusive'
  BY DEF Exclusive, Connected
<1> QED
  BY <1>1, <1>2, <1>3 DEF Locking

(* Every step keeps the ownership of the locks right. *)
LEMMA LockStep == ASSUME LockInv, [Next]_vars PROVE Locking'
<1> USE ProcessAssumption
<1> USE DEF wsync, xsync, rsync, locks, wproc, rproc, ghost
<1>t. /\ state \in [Procs -> {"VIEWER"} \cup WriterStates \cup ReaderStates]
      /\ pc \in [Procs -> WriterPcs \cup ReaderPcs]
      /\ Writers \subseteq Procs /\ Readers \subseteq Procs
  BY DEF LockInv, TypeOK, ProcType, Procs
<1>a. CASE UNCHANGED vars
  BY <1>a
     DEF vars, LockInv, Locking, Control, LocksHeld, Exclusive, Connected,
              is_writer, is_reader
<1>1. ASSUME NEW w \in Writers, EnableEod(w)
      PROVE Locking'
  <2>1. is_writer(w)
    BY <1>1
       DEF LockInv, Control, EnableEod, Goto, is_writer, SodAccepted,
           WriterStates
  <2>2. pc'[w] \in WriterPcs /\ state'[w] \in WriterStates /\ OnlyMoves(w)
    BY <1>t, <1>1, <2>1
       DEF EnableEod, Goto, WriterPcs, WriterStates, is_writer, OnlyMoves
  <2> QED
    BY <1>1, <2>1, <2>2, WriterMoves DEF EnableEod
<1>2. ASSUME NEW w \in Writers, DisableSod(w)
      PROVE Locking'
  <2>1. is_writer(w)
    BY <1>2
       DEF LockInv, Control, DisableSod, Goto, is_writer, SodAccepted,
           WriterStates
  <2>2. pc'[w] \in WriterPcs /\ state'[w] \in WriterStates /\ OnlyMoves(w)
    BY <1>t, <1>2, <2>1
       DEF DisableSod, Goto, WriterPcs, WriterStates, is_writer, OnlyMoves
  <2> QED
    BY <1>2, <2>1, <2>2, WriterMoves DEF DisableSod
<1>3. ASSUME NEW w \in Writers, SetSoclockBuf(w)
      PROVE Locking'
  <2>1. is_writer(w)
    BY <1>3
       DEF LockInv, Control, SetSoclockBuf, Goto, is_writer, SodAccepted,
           WriterStates
  <2>2. pc'[w] \in WriterPcs /\ state'[w] \in WriterStates /\ OnlyMoves(w)
    BY <1>t, <1>3, <2>1
       DEF SetSoclockBuf, Goto, WriterPcs, WriterStates, is_writer, OnlyMoves
  <2> QED
    BY <1>3, <2>1, <2>2, WriterMoves DEF SetSoclockBuf
<1>4. ASSUME NEW w \in Writers, NEW b \in 0 .. MaxBuf,
             NEW y \in 0 .. BufSz, EnableSod(w, b, y)
      PROVE Locking'
  <2>1. is_writer(w)
    BY <1>4
       DEF LockInv, Control, EnableSod, CallEnableSod, Goto, is_writer,
           SodAccepted, WriterStates
  <2>2. pc'[w] \in WriterPcs /\ state'[w] \in WriterStates /\ OnlyMoves(w)
    BY <1>t, <1>4, <2>1
       DEF EnableSod, CallEnableSod, Goto, WriterPcs, WriterStates, is_writer,
           OnlyMoves
  <2> QED
    BY <1>4, <2>1, <2>2, WriterMoves DEF EnableSod, CallEnableSod
<1>5. ASSUME NEW w \in Writers, GetNextWrite(w)
      PROVE Locking'
  <2>1. is_writer(w)
    BY <1>5
       DEF LockInv, Control, GetNextWrite, CallEnableSod, Goto, is_writer,
           SodAccepted, WriterStates
  <2>2. pc'[w] \in WriterPcs /\ state'[w] \in WriterStates /\ OnlyMoves(w)
    BY <1>t, <1>5, <2>1
       DEF GetNextWrite, CallEnableSod, Goto, WriterPcs, WriterStates,
           is_writer, OnlyMoves
  <2> QED
    BY <1>5, <2>1, <2>2, WriterMoves DEF GetNextWrite, CallEnableSod
<1>6. ASSUME NEW w \in Writers, NEW n \in 0 .. BufSz, MarkFilled(w, n)
      PROVE Locking'
  <2>1. is_writer(w)
    BY <1>6
       DEF LockInv, Control, MarkFilled, Goto, is_writer, SodAccepted,
           WriterStates
  <2>2. pc'[w] \in WriterPcs /\ state'[w] \in WriterStates /\ OnlyMoves(w)
    BY <1>t, <1>6, <2>1
       DEF MarkFilled, Goto, WriterPcs, WriterStates, is_writer, OnlyMoves
  <2> QED
    BY <1>6, <2>1, <2>2, WriterMoves DEF MarkFilled
<1>7. ASSUME NEW w \in Writers, ZeroNextWrite(w)
      PROVE Locking'
  <2>1. is_writer(w)
    BY <1>7
       DEF LockInv, Control, ZeroNextWrite, Goto, is_writer, SodAccepted,
           WriterStates
  <2>2. pc'[w] \in WriterPcs /\ state'[w] \in WriterStates /\ OnlyMoves(w)
    BY <1>t, <1>7, <2>1
       DEF ZeroNextWrite, Goto, WriterPcs, WriterStates, is_writer, OnlyMoves
  <2> QED
    BY <1>7, <2>1, <2>2, WriterMoves DEF ZeroNextWrite
<1>8. ASSUME NEW w \in Writers, Reset(w)
      PROVE Locking'
  <2>1. is_writer(w)
    BY <1>8
       DEF LockInv, Control, Reset, Goto, is_writer, SodAccepted, WriterStates
  <2>2. pc'[w] \in WriterPcs /\ state'[w] \in WriterStates /\ OnlyMoves(w)
    BY <1>t, <1>8, <2>1
       DEF Reset, Goto, WriterPcs, WriterStates, is_writer, OnlyMoves
  <2> QED
    BY <1>8, <2>1, <2>2, WriterMoves DEF Reset
<1>9. ASSUME NEW w \in Writers, SodAck(w)
      PROVE Locking'
  <2>1. is_writer(w)
    BY <1>9
       DEF LockInv, Control, SodAck, Goto, is_writer, SodAccepted,
           WriterStates
  <2>2. pc'[w] \in WriterPcs /\ state'[w] \in WriterStates /\ OnlyMoves(w)
    BY <1>t, <1>9, <2>1
       DEF SodAck, Goto, WriterPcs, WriterStates, is_writer, OnlyMoves
  <2> QED
    BY <1>9, <2>1, <2>2, WriterMoves DEF SodAck
<1>10. ASSUME NEW w \in Writers, SodSet(w)
      PROVE Locking'
  <2>1. is_writer(w)
    BY <1>10
       DEF LockInv, Control, SodSet, Goto, is_writer, SodAccepted,
           WriterStates
  <2>2. pc'[w] \in WriterPcs /\ state'[w] \in WriterStates /\ OnlyMoves(w)
    BY <1>t, <1>10, <2>1
       DEF SodSet, Goto, WriterPcs, WriterStates, is_writer, OnlyMoves
  <2> QED
    BY <1>10, <2>1, <2>2, WriterMoves DEF SodSet
<1>11. ASSUME NEW w \in Writers, SodFull(w)
      PROVE Locking'
  <2>1. is_writer(w)
    BY <1>11
       DEF LockInv, Control, SodFull, Goto, is_writer, SodAccepted,
           WriterStates
  <2>2. pc'[w] \in WriterPcs /\ state'[w] \in WriterStates /\ OnlyMoves(w)
    BY <1>t, <1>11, <2>1
       DEF SodFull, Goto, WriterPcs, WriterStates, is_writer, OnlyMoves
  <2> QED
    BY <1>11, <2>1, <2>2, WriterMoves DEF SodFull
<1>12. ASSUME NEW w \in Writers, Drain(w)
      PROVE Locking'
  <2>1. is_writer(w)
    BY <1>12
       DEF LockInv, Control, Drain, Goto, is_writer, SodAccepted, WriterStates
  <2>2. pc'[w] \in WriterPcs /\ state'[w] \in WriterStates /\ OnlyMoves(w)
    BY <1>t, <1>12, <2>1
       DEF Drain, Goto, WriterPcs, WriterStates, is_writer, OnlyMoves
  <2> QED
    BY <1>12, <2>1, <2>2, WriterMoves DEF Drain
<1>13. ASSUME NEW w \in Writers, TakeBlock(w)
      PROVE Locking'
  <2>1. is_writer(w)
    BY <1>13
       DEF LockInv, Control, TakeBlock, Goto, is_writer, SodAccepted,
           WriterStates
  <2>2. pc'[w] \in WriterPcs /\ state'[w] \in WriterStates /\ OnlyMoves(w)
    BY <1>t, <1>13, <2>1
       DEF TakeBlock, Goto, WriterPcs, WriterStates, is_writer, OnlyMoves
  <2> QED
    BY <1>13, <2>1, <2>2, WriterMoves DEF TakeBlock
<1>14. ASSUME NEW w \in Writers, EodAck(w)
      PROVE Locking'
  <2>1. is_writer(w)
    BY <1>14
       DEF LockInv, Control, EodAck, Goto, is_writer, SodAccepted,
           WriterStates
  <2>2. pc'[w] \in WriterPcs /\ state'[w] \in WriterStates /\ OnlyMoves(w)
    BY <1>t, <1>14, <2>1
       DEF EodAck, Goto, WriterPcs, WriterStates, is_writer, OnlyMoves
  <2> QED
    BY <1>14, <2>1, <2>2, WriterMoves DEF EodAck
<1>15. ASSUME NEW w \in Writers, EodSet(w)
      PROVE Locking'
  <2>1. is_writer(w)
    BY <1>15
       DEF LockInv, Control, EodSet, Goto, is_writer, SodAccepted,
           WriterStates
  <2>2. pc'[w] \in WriterPcs /\ state'[w] \in WriterStates /\ OnlyMoves(w)
    BY <1>t, <1>15, <2>1
       DEF EodSet, Goto, WriterPcs, WriterStates, is_writer, OnlyMoves
  <2> QED
    BY <1>15, <2>1, <2>2, WriterMoves DEF EodSet
<1>16. ASSUME NEW w \in Writers, Fill(w)
      PROVE Locking'
  <2>1. is_writer(w)
    BY <1>16
       DEF LockInv, Control, Fill, Goto, is_writer, SodAccepted, WriterStates
  <2>2. pc'[w] \in WriterPcs /\ state'[w] \in WriterStates /\ OnlyMoves(w)
    BY <1>t, <1>16, <2>1
       DEF Fill, Goto, WriterPcs, WriterStates, is_writer, OnlyMoves
  <2> QED
    BY <1>16, <2>1, <2>2, WriterMoves DEF Fill
<1>17. ASSUME NEW w \in Writers, PostFull(w)
      PROVE Locking'
  <2>1. is_writer(w)
    BY <1>17
       DEF LockInv, Control, PostFull, Goto, is_writer, SodAccepted,
           WriterStates
  <2>2. pc'[w] \in WriterPcs /\ state'[w] \in WriterStates /\ OnlyMoves(w)
    BY <1>t, <1>17, <2>1
       DEF PostFull, Goto, WriterPcs, WriterStates, is_writer, OnlyMoves
  <2> QED
    BY <1>17, <2>1, <2>2, WriterMoves DEF PostFull
<1>18. ASSUME NEW w \in Writers, ResetSodAck(w)
      PROVE Locking'
  <2>1. is_writer(w)
    BY <1>18
       DEF LockInv, Control, ResetSodAck, Goto, is_writer, SodAccepted,
           WriterStates
  <2>2. pc'[w] \in WriterPcs /\ state'[w] \in WriterStates /\ OnlyMoves(w)
    BY <1>t, <1>18, <2>1
       DEF ResetSodAck, Goto, WriterPcs, WriterStates, is_writer, OnlyMoves
  <2> QED
    BY <1>18, <2>1, <2>2, WriterMoves DEF ResetSodAck
<1>19. ASSUME NEW w \in Writers, ResetEodAck(w)
      PROVE Locking'
  <2>1. is_writer(w)
    BY <1>19
       DEF LockInv, Control, ResetEodAck, Goto, is_writer, SodAccepted,
           WriterStates
  <2>2. pc'[w] \in WriterPcs /\ state'[w] \in WriterStates /\ OnlyMoves(w)
    BY <1>t, <1>19, <2>1
       DEF ResetEodAck, Goto, WriterPcs, WriterStates, is_writer, OnlyMoves
  <2> QED
    BY <1>19, <2>1, <2>2, WriterMoves DEF ResetEodAck
<1>20. ASSUME NEW w \in Writers, ResetSync(w)
      PROVE Locking'
  <2>1. is_writer(w)
    BY <1>20
       DEF LockInv, Control, ResetSync, Goto, is_writer, SodAccepted,
           WriterStates
  <2>2. pc'[w] \in WriterPcs /\ state'[w] \in WriterStates /\ OnlyMoves(w)
    BY <1>t, <1>20, <2>1
       DEF ResetSync, Goto, WriterPcs, WriterStates, is_writer, OnlyMoves
  <2> QED
    BY <1>20, <2>1, <2>2, WriterMoves DEF ResetSync
<1>21. ASSUME NEW r \in Readers, GetNextRead(r)
      PROVE Locking'
  <2>1. Connected(r) /\ state[r] \in ReaderStates
    BY <1>21
       DEF LockInv, Control, GetNextRead, Goto, Connected, is_reader,
           InsidePcs
  <2>2. /\ pc'[r] \in InsidePcs \ {"unlock"} /\ state'[r] \in ReaderStates
        /\ pc'[r] = "start" => state'[r] = "READER"
        /\ pc'[r] \in {"bytes", "hold", "cleared"} => state'[r] = "READING"
        /\ OnlyMoves(r)
    BY <1>t, <1>21, <2>1
       DEF LockInv, Control, GetNextRead, Goto, InsidePcs, ReaderStates,
           OnlyMoves
  <2> QED
    BY <1>21, <2>1, <2>2, ReaderMoves DEF GetNextRead
<1>22. ASSUME NEW r \in Readers, StartXfer(r)
      PROVE Locking'
  <2>1. Connected(r) /\ state[r] \in ReaderStates
    BY <1>22
       DEF LockInv, Control, StartXfer, Goto, Connected, is_reader, InsidePcs
  <2>2. /\ pc'[r] \in InsidePcs \ {"unlock"} /\ state'[r] \in ReaderStates
        /\ pc'[r] = "start" => state'[r] = "READER"
        /\ pc'[r] \in {"bytes", "hold", "cleared"} => state'[r] = "READING"
        /\ OnlyMoves(r)
    BY <1>t, <1>22, <2>1
       DEF LockInv, Control, StartXfer, Goto, InsidePcs, ReaderStates,
           OnlyMoves
  <2> QED
    BY <1>22, <2>1, <2>2, ReaderMoves DEF StartXfer
<1>23. ASSUME NEW r \in Readers, GetBytes(r)
      PROVE Locking'
  <2>1. Connected(r) /\ state[r] \in ReaderStates
    BY <1>23
       DEF LockInv, Control, GetBytes, Goto, Connected, is_reader, InsidePcs
  <2>2. /\ pc'[r] \in InsidePcs \ {"unlock"} /\ state'[r] \in ReaderStates
        /\ pc'[r] = "start" => state'[r] = "READER"
        /\ pc'[r] \in {"bytes", "hold", "cleared"} => state'[r] = "READING"
        /\ OnlyMoves(r)
    BY <1>t, <1>23, <2>1
       DEF LockInv, Control, GetBytes, Goto, InsidePcs, ReaderStates,
           OnlyMoves
  <2> QED
    BY <1>23, <2>1, <2>2, ReaderMoves DEF GetBytes
<1>24. ASSUME NEW r \in Readers, MarkCleared(r)
      PROVE Locking'
  <2>1. Connected(r) /\ state[r] \in ReaderStates
    BY <1>24
       DEF LockInv, Control, MarkCleared, Goto, Connected, is_reader,
           InsidePcs
  <2>2. /\ pc'[r] \in InsidePcs \ {"unlock"} /\ state'[r] \in ReaderStates
        /\ pc'[r] = "start" => state'[r] = "READER"
        /\ pc'[r] \in {"bytes", "hold", "cleared"} => state'[r] = "READING"
        /\ OnlyMoves(r)
    BY <1>t, <1>24, <2>1
       DEF LockInv, Control, MarkCleared, Goto, InsidePcs, ReaderStates,
           OnlyMoves
  <2> QED
    BY <1>24, <2>1, <2>2, ReaderMoves DEF MarkCleared
<1>25. ASSUME NEW r \in Readers, Advance(r)
      PROVE Locking'
  <2>1. Connected(r) /\ state[r] \in ReaderStates
    BY <1>25
       DEF LockInv, Control, Advance, Goto, Connected, is_reader, InsidePcs
  <2>2. /\ pc'[r] \in InsidePcs \ {"unlock"} /\ state'[r] \in ReaderStates
        /\ pc'[r] = "start" => state'[r] = "READER"
        /\ pc'[r] \in {"bytes", "hold", "cleared"} => state'[r] = "READING"
        /\ OnlyMoves(r)
    BY <1>t, <1>25, <2>1
       DEF LockInv, Control, Advance, Goto, InsidePcs, ReaderStates, OnlyMoves
  <2> QED
    BY <1>25, <2>1, <2>2, ReaderMoves DEF Advance
<1>26. ASSUME NEW r \in Readers, ResetRead(r)
      PROVE Locking'
  <2>1. Connected(r) /\ state[r] \in ReaderStates
    BY <1>26
       DEF LockInv, Control, ResetRead, Goto, Connected, is_reader, InsidePcs
  <2>2. /\ pc'[r] \in InsidePcs \ {"unlock"} /\ state'[r] \in ReaderStates
        /\ pc'[r] = "start" => state'[r] = "READER"
        /\ pc'[r] \in {"bytes", "hold", "cleared"} => state'[r] = "READING"
        /\ OnlyMoves(r)
    BY <1>t, <1>26, <2>1
       DEF LockInv, Control, ResetRead, Goto, InsidePcs, ReaderStates,
           OnlyMoves
  <2> QED
    BY <1>26, <2>1, <2>2, ReaderMoves DEF ResetRead
<1>27. ASSUME NEW w \in Writers, LockWrite(w)
      PROVE Locking'
  <2> USE DEF is_writer, is_reader, LockWrite, Goto
  <2>1. Control'
    BY <1>t, <1>27
       DEF LockInv, Control, WriterStates, ReaderStates, InsidePcs, WriterPcs,
           ReaderPcs
  <2>2. LocksHeld'
    <3>1. WRITE = 1 /\ WRITE' = 0
      BY <1>27 DEF LockInv, TypeOK, LockType, LocksHeld
    <3>2. \A q \in Readers : Connected(q)' = Connected(q)
      BY <1>t, <1>27 DEF Connected
    <3> QED
      BY <1>27, <3>1, <3>2 DEF LockInv, LocksHeld
  <2>3. Exclusive'
    BY <1>t, <1>27
       DEF LockInv, Control, LocksHeld, Exclusive, Connected, WriterStates,
           ReaderStates, InsidePcs
  <2> QED
    BY <2>1, <2>2, <2>3 DEF Locking
<1>28. ASSUME NEW w \in Writers, UnlockWrite(w)
      PROVE Locking'
  <2> USE DEF is_writer, is_reader, UnlockWrite, Goto
  <2>1. Control'
    BY <1>t, <1>28
       DEF LockInv, Control, WriterStates, ReaderStates, InsidePcs, WriterPcs,
           ReaderPcs
  <2>2. LocksHeld'
    BY <1>t, <1>28
       DEF LockInv, Control, LocksHeld, Exclusive, Connected, WriterStates,
           ReaderStates, InsidePcs
  <2>3. Exclusive'
    BY <1>t, <1>28
       DEF LockInv, Control, LocksHeld, Exclusive, Connected, WriterStates,
           ReaderStates, InsidePcs
  <2> QED
    BY <2>1, <2>2, <2>3 DEF Locking
<1>29. ASSUME NEW r \in Readers, LockRead(r)
      PROVE Locking'
  <2> USE DEF is_writer, is_reader, LockRead, Goto
  <2>1. Control'
    BY <1>t, <1>29
       DEF LockInv, Control, WriterStates, ReaderStates, InsidePcs, WriterPcs,
           ReaderPcs
  <2>2. LocksHeld'
    BY <1>t, <1>29
       DEF LockInv, Control, LocksHeld, Exclusive, Connected, WriterStates,
           ReaderStates, InsidePcs
  <2>3. Exclusive'
    BY <1>t, <1>29
       DEF LockInv, Control, LocksHeld, Exclusive, Connected, WriterStates,
           ReaderStates, InsidePcs
  <2> QED
    BY <2>1, <2>2, <2>3 DEF Locking
<1>30. ASSUME NEW r \in Readers, Connect(r)
      PROVE Locking'
  <2> DEFINE s == Head(order[r])
  <2>0. s \in Slots /\ READER_CONN \in [Slots -> Nat]
        /\ iread \in [Readers -> Slots \cup {-1}]
    BY <1>30 DEF LockInv, TypeOK, ReaderType, LockType, Connect
  <2>1. ~is_reader(r) /\ ~Connected(r)
    BY <1>30 DEF LockInv, Control, Connect, Connected, InsidePcs
  <2>2. CASE UNCHANGED <<READER_CONN, iread, state, xfer, pc>>
    BY <1>30, <2>2 DEF Connect, LockInv, Locking, Control, LocksHeld,
                       Exclusive, Connected, is_writer, is_reader
  <2>3. CASE /\ Avail(READER_CONN, s)
             /\ READER_CONN' = Down(READER_CONN, s)
             /\ iread' = [iread EXCEPT ![r] = s]
             /\ state'[r] \in {"READER", "READING"}
             /\ pc' = [pc EXCEPT ![r] = "ready"]
             /\ OnlyMoves(r)
    <3>1. READER_CONN' = [READER_CONN EXCEPT ![s] = 0] /\ READER_CONN[s] = 1
      <4> HIDE DEF s
      <4>1. READER_CONN[s] \in Nat /\ READER_CONN[s] <= 1 /\ READER_CONN[s] > 0
        BY <2>0, <2>3 DEF LockInv, LocksHeld, Avail
      <4>2. READER_CONN[s] = 1
        BY <4>1
      <4> QED
        BY <2>0, <2>3, <4>2 DEF Down
    <3>2. \A q \in Readers : q # r => Connected(q)' = Connected(q)
                                      /\ iread'[q] = iread[q]
      BY <1>t, <2>0, <2>3 DEF OnlyMoves, Connected, is_reader
    <3>3. \A q \in Readers : q # r /\ Connected(q) =>
             iread[q] \in Slots /\ iread[q] # s
      BY <3>1 DEF LockInv, LocksHeld, Control, Connected
    <3>4. iread'[r] = s
      BY <2>0, <2>3
    <3>5. Control'
      <4>1. \A v \in Writers : pc'[v] = pc[v] /\ state'[v] = state[v]
        BY <1>t, <2>3 DEF OnlyMoves
      <4>2. \A q \in Readers : q # r =>
               pc'[q] = pc[q] /\ state'[q] = state[q] /\ iread'[q] = iread[q]
        BY <1>t, <2>0, <2>3 DEF OnlyMoves
      <4>3. pc'[r] = "ready" /\ iread'[r] \in Slots
        BY <1>t, <2>0, <2>3, <3>4
      <4> QED
        BY <2>3, <4>1, <4>2, <4>3 DEF LockInv, Control, is_writer, is_reader,
                               InsidePcs, ReaderPcs, ReaderStates
    <3>6. LocksHeld'
      <4>1. \A t \in Slots : READER_CONN'[t] <= 1
        BY <2>0, <3>1 DEF LockInv, LocksHeld
      <4>2. \A q \in Readers : Connected(q)' => (READER_CONN[iread[q]])' = 0
        BY <2>0, <3>1, <3>2, <3>3, <3>4 DEF LockInv, LocksHeld
      <4>3. WRITE' = WRITE /\ \A v \in Writers : is_writer(v)' = is_writer(v)
        BY <1>t, <1>30, <2>3 DEF Connect, OnlyMoves, is_writer
      <4> QED
        BY <4>1, <4>2, <4>3 DEF LockInv, LocksHeld
    <3>7. Exclusive'
      <4>1. \A v \in Writers : is_writer(v)' = is_writer(v)
        BY <1>t, <2>3 DEF OnlyMoves, is_writer
      <4> QED
        BY <3>2, <3>3, <3>4, <4>1 DEF LockInv, Exclusive
    <3> QED
      BY <3>5, <3>6, <3>7 DEF Locking
  <2> QED
    <3>1. \/ UNCHANGED <<READER_CONN, iread, state, xfer, pc>>
          \/ /\ Avail(READER_CONN, s)
             /\ READER_CONN' = Down(READER_CONN, s)
             /\ iread' = [iread EXCEPT ![r] = s]
             /\ \E st \in {"READER", "READING"} :
                  state' = [state EXCEPT ![r] = st]
             /\ pc' = [pc EXCEPT ![r] = "ready"]
      BY <1>30 DEF Connect
    <3> QED
      BY <1>t, <2>2, <2>3, <3>1 DEF OnlyMoves
<1>31. ASSUME NEW r \in Readers, ConnectFailed(r)
      PROVE Locking'
  <2> USE DEF is_writer, is_reader, ConnectFailed, Goto
  <2>1. Control'
    BY <1>t, <1>31
       DEF LockInv, Control, WriterStates, ReaderStates, InsidePcs, WriterPcs,
           ReaderPcs
  <2>2. LocksHeld'
    BY <1>t, <1>31
       DEF LockInv, Control, LocksHeld, Exclusive, Connected, WriterStates,
           ReaderStates, InsidePcs
  <2>3. Exclusive'
    BY <1>t, <1>31
       DEF LockInv, Control, LocksHeld, Exclusive, Connected, WriterStates,
           ReaderStates, InsidePcs
  <2> QED
    BY <2>1, <2>2, <2>3 DEF Locking
<1>32. ASSUME NEW r \in Readers, UnlockRead(r)
      PROVE Locking'
  <2> USE DEF is_writer, is_reader, UnlockRead, Goto
  <2>1. Control'
    BY <1>t, <1>32
       DEF LockInv, Control, WriterStates, ReaderStates, InsidePcs, WriterPcs,
           ReaderPcs
  <2>2. LocksHeld'
    <3>1. READER_CONN \in [Slots -> Nat] /\ iread[r] \in Slots /\ Connected(r)
      BY <1>32 DEF LockInv, TypeOK, LockType, Control, Connected
    <3>2. READER_CONN[iread[r]] = 0
      BY <3>1 DEF LockInv, LocksHeld
    <3>3. READER_CONN' = [READER_CONN EXCEPT ![iread[r]] = 1]
      BY <1>32, <3>1, <3>2 DEF Up
    <3>4. \A q \in Readers : Connected(q)' => Connected(q) /\ q # r
      BY <1>t, <1>32 DEF Connected
    <3>5. \A q \in Readers : Connected(q)' => iread[q] # iread[r]
      BY <3>1, <3>4 DEF LockInv, Exclusive
    <3>6. \A q \in Readers : Connected(q) => iread[q] \in Slots
      BY DEF LockInv, Control, Connected
    <3>7. \A q \in Readers : Connected(q)' => (READER_CONN[iread[q]] = 0)'
      BY <1>32, <3>1, <3>3, <3>4, <3>5, <3>6 DEF LockInv, LocksHeld
    <3>8. \A s \in Slots : (READER_CONN[s] <= 1)'
      BY <3>1, <3>3 DEF LockInv, LocksHeld
    <3>9. \A v \in Writers : is_writer(v)' => (WRITE = 0)'
      BY <1>t, <1>32 DEF LockInv, LocksHeld
    <3> QED
      BY <1>32, <3>7, <3>8, <3>9 DEF LockInv, LocksHeld
  <2>3. Exclusive'
    BY <1>t, <1>32
       DEF LockInv, Control, LocksHeld, Exclusive, Connected, WriterStates,
           ReaderStates, InsidePcs
  <2> QED
    BY <2>1, <2>2, <2>3 DEF Locking
<1>33. ASSUME NEW r \in Readers, Unlocked(r)
      PROVE Locking'
  <2> USE DEF is_writer, is_reader, Unlocked, Goto
  <2>1. Control'
    BY <1>t, <1>33
       DEF LockInv, Control, WriterStates, ReaderStates, InsidePcs, WriterPcs,
           ReaderPcs
  <2>2. LocksHeld'
    BY <1>t, <1>33
       DEF LockInv, Control, LocksHeld, Exclusive, Connected, WriterStates,
           ReaderStates, InsidePcs
  <2>3. Exclusive'
    BY <1>t, <1>33
       DEF LockInv, Control, LocksHeld, Exclusive, Connected, WriterStates,
           ReaderStates, InsidePcs
  <2> QED
    BY <2>1, <2>2, <2>3 DEF Locking
<1> QED
  BY <1>a, <1>1, <1>2, <1>3, <1>4, <1>5, <1>6, <1>7, <1>8, <1>9, <1>10, <1>11,
     <1>12, <1>13, <1>14, <1>15, <1>16, <1>17, <1>18, <1>19, <1>20, <1>21,
     <1>22, <1>23, <1>24, <1>25, <1>26, <1>27, <1>28, <1>29, <1>30, <1>31,
     <1>32, <1>33
     DEF Next, WriterCall, WriterStep, ReaderWork

(* Initially the locks are free and nobody is connected. *)
LEMMA LockInit == Init => LockInv
<1> SUFFICES ASSUME Init PROVE LockInv
  OBVIOUS
<1>1. TypeOK
  <2> USE SizesAssumption DEF Init
  <2>1. 0 \in XferSlots /\ 0 \in Slots /\ NReaders \in Nat /\ XFERS \in Nat
    BY DEF XferSlots, Slots
  <2>2. SyncType /\ XferType /\ ReadType /\ LockType /\ SemType
    BY <2>1 DEF SyncType, XferType, ReadType, LockType, SemType
  <2>3. ProcType /\ WriterType
    BY <2>1 DEF ProcType, WriterType, NoArg, WriterPcs
  <2>4. ReaderType
    BY <2>1 DEF ReaderType
  <2>5. GhostType
    BY DEF GhostType, NoBlock, Extent
  <2> QED
    BY <2>2, <2>3, <2>4, <2>5 DEF TypeOK
<1>2. \A p \in Procs : state[p] = "VIEWER" /\ pc[p] = "idle"
  BY DEF Init
<1>3. Control
  BY <1>2 DEF Control, is_writer, is_reader, WriterPcs, ReaderPcs, InsidePcs,
              WriterStates, ReaderStates, Procs
<1>4. LocksHeld
  BY <1>2 DEF Init, LocksHeld, Connected, is_writer, is_reader, WriterStates,
              ReaderStates, Procs
<1>5. Exclusive
  BY <1>2 DEF Exclusive, Connected, is_writer, is_reader, WriterStates,
              ReaderStates, Procs
<1> QED
  BY <1>1, <1>3, <1>4, <1>5 DEF LockInv

(* LockInv holds in every reachable state of the ring buffer. *)
THEOREM LockInvariant == Spec => []LockInv
<1>1. LockInv /\ [Next]_vars => LockInv'
  BY TypeStep, LockStep DEF LockInv, Locking
<1> QED
  BY LockInit, <1>1, PTL DEF Spec

(* Every counter, semaphore and local variable of ipcbuf.c keeps its type:    *)
(* no semaphore and no count of a block is ever taken below zero, for any      *)
(* number of writers, readers, reader slots, blocks and transfers.            *)
THEOREM TypeCorrect == Spec => []TypeOK
<1>1. LockInv => TypeOK
  BY DEF LockInv
<1> QED
  BY LockInvariant, <1>1, PTL

(* At any time at most one process is the writer (ipcbuf_lock_write) and each  *)
(* reader slot belongs to at most one reader (ipcbuf_lock_read), for any       *)
(* number of processes that compete for them.                                *)
THEOREM LockExclusion == Spec => []Exclusive
<1>1. LockInv => Exclusive
  BY DEF LockInv
<1> QED
  BY LockInvariant, <1>1, PTL

-----------------------------------------------------------------------------
(***************************************************************************)
(* AckInv is inductive: between transfers and inside them, SODACK and        *)
(* EODACK count what they are meant to count, as long as the writer does not *)
(* call ipcbuf_reset.                                                        *)
(***************************************************************************)

(* Has writer w, at this point of its loops, taken one of SODACK (EODACK) of  *)
(* slot s for a transfer not yet counted as started (ended)?                  *)
SodTakenBy(w, s) ==
  IF (pc[w] = "sod_ack" /\ s < ir[w]) \/ pc[w] = "sod_set" THEN 1 ELSE 0
EodTakenBy(w, s) ==
  IF (pc[w] = "eod_ack" /\ s < ir[w]) \/ pc[w] = "eod_set" THEN 1 ELSE 0

AckPcs == {"sod_ack", "sod_set", "eod_ack", "eod_set"}

Acks == StatesAgree /\ NeverReset /\ AckAccounting

(* While one process is the writer, the others execute no writer's call. *)
LEMMA OnlyWriter ==
  ASSUME LockInv, NEW w \in Writers, is_writer(w)
  PROVE  \A v \in Writers : v # w => pc[v] = "idle" /\ state[v] = "VIEWER"
BY DEF LockInv, Control, Exclusive, is_writer

(* What was taken from SODACK and EODACK was taken by the writer. *)
LEMMA TakenByWriter ==
  ASSUME LockInv, NEW w \in Writers, is_writer(w), OnlyMoves(w)
  PROVE  \A s \in Slots :
           /\ SodTaken(s) = SodTakenBy(w, s)
           /\ EodTaken(s) = EodTakenBy(w, s)
           /\ SodTaken(s)' = SodTakenBy(w, s)'
           /\ EodTaken(s)' = EodTakenBy(w, s)'
<1>1. \A v \in Writers : v # w => pc[v] = "idle" /\ pc'[v] = "idle"
  BY OnlyWriter DEF OnlyMoves, Procs
<1>2. \A s \in Slots : /\ SodTaken(s) = SodTakenBy(w, s)
                       /\ EodTaken(s) = EodTakenBy(w, s)
  BY <1>1 DEF SodTaken, EodTaken, SodTakenBy, EodTakenBy
<1>3. \A s \in Slots : /\ SodTaken(s)' = SodTakenBy(w, s)'
                       /\ EodTaken(s)' = EodTakenBy(w, s)'
  BY <1>1 DEF SodTaken, EodTaken, SodTakenBy, EodTakenBy
<1> QED
  BY <1>2, <1>3

(* The two balances of AckAccounting for one slot. *)
SodBalance(s) == SODACK[s] + SodTaken(s) + Started - ReadStarted(s) = XFERS
EodBalance(s) == EODACK[s] + EodTaken(s) + w_xfer - r_xfers[s] = XFERS

(* AckAccounting is the two balances of every slot. *)
LEMMA Balances ==
  NeverReset =>
    (AckAccounting <=> \A s \in Slots : SodBalance(s) /\ EodBalance(s))
BY DEF NeverReset, AckAccounting, SodBalance, EodBalance, Resetting

(* The numbers AckAccounting adds up are numbers. *)
LEMMA AckTypes ==
  ASSUME LockInv
  PROVE  /\ w_xfer \in Nat /\ Started \in Nat
         /\ \A s \in Slots :
              /\ SODACK[s] \in Nat /\ EODACK[s] \in Nat
              /\ r_xfers[s] \in Nat /\ ReadStarted(s) \in Nat
              /\ SodTaken(s) \in {0, 1} /\ EodTaken(s) \in {0, 1}
<1>1. TypeOK
  BY DEF LockInv
<1>2. w_xfer \in Nat /\ Started \in Nat
  BY <1>1 DEF TypeOK, SyncType, Started
<1>3. ASSUME NEW s \in Slots
      PROVE  /\ SODACK[s] \in Nat /\ EODACK[s] \in Nat
             /\ r_xfers[s] \in Nat /\ ReadStarted(s) \in Nat
  BY <1>1 DEF TypeOK, SemType, ReadType, ReadStarted
<1>4. \A s \in Slots : SodTaken(s) \in {0, 1} /\ EodTaken(s) \in {0, 1}
  BY DEF SodTaken, EodTaken
<1> QED
  BY <1>2, <1>3, <1>4

(* A step of the writer outside the loops over SODACK and EODACK. *)
LEMMA WriterKeepsAcks ==
  ASSUME AckInv, NEW w \in Writers, is_writer(w), OnlyMoves(w),
         pc[w] \notin AckPcs,
         \/ pc'[w] \notin AckPcs
         \/ pc'[w] \in {"sod_ack", "eod_ack"} /\ ir'[w] = 0,
         \A v \in Writers : op'[v] # "reset",
         pc'[w] \notin {"reset_sod", "reset_eod", "reset"},
         state'[w] = "WRITING" => w_state = "WRITING",
         state'[w] = "WRITER" => w_state = "DISCON",
         pc'[w] = "sod_ack" => w_state = "DISCON",
         pc'[w] = "eod_ack" => w_state = "WRITING",
         UNCHANGED <<w_state, w_xfer, rsync, SODACK, EODACK, iread>>
  PROVE  Acks'
<1> USE DEF AckInv
<1>1. \A v \in Writers : v # w => /\ pc[v] = "idle" /\ pc'[v] = "idle"
                                 /\ state'[v] = "VIEWER"
  BY OnlyWriter DEF OnlyMoves, Procs
<1>2. NeverReset'
  BY <1>1 DEF NeverReset, Resetting
<1>3. StatesAgree'
  <2>1. \A r \in Readers : Connected(r)' = Connected(r) /\ state'[r] = state[r]
    BY ProcessAssumption DEF OnlyMoves, Procs, Connected, is_reader
  <2> QED
    BY <1>1, <2>1 DEF StatesAgree, AckPcs, rsync
<1>4. \A s \in Slots : SodTakenBy(w, s) = 0 /\ EodTakenBy(w, s) = 0
                      /\ SodTakenBy(w, s)' = 0 /\ EodTakenBy(w, s)' = 0
  BY SizesAssumption DEF SodTakenBy, EodTakenBy, AckPcs, Slots
<1>5. \A s \in Slots : SodTaken(s)' = SodTaken(s) /\ EodTaken(s)' = EodTaken(s)
  BY <1>4, TakenByWriter
<1>6. AckAccounting'
  BY <1>2, <1>5 DEF AckAccounting, NeverReset, Started, ReadStarted, rsync
<1> QED
  BY <1>2, <1>3, <1>6 DEF Acks

(* A step of a reader that starts and ends no transfer. *)
LEMMA ReaderKeepsAcks ==
  ASSUME AckInv, NEW r \in Readers, OnlyMoves(r),
         Connected(r)' =>
           (state'[r] = "READING" <=> r_states[iread'[r]] = "READING"),
         \A q \in Readers : q # r => iread'[q] = iread[q],
         UNCHANGED <<w_state, w_xfer, r_states, r_xfers, SODACK, EODACK, op, ir>>
  PROVE  Acks'
<1> USE ProcessAssumption DEF AckInv
<1>1. \A v \in Writers : pc'[v] = pc[v] /\ state'[v] = state[v]
  BY DEF OnlyMoves, Procs
<1>2. NeverReset'
  BY <1>1 DEF NeverReset, Resetting
<1>3. StatesAgree'
  <2>1. \A q \in Readers : q # r => Connected(q)' = Connected(q)
                                     /\ state'[q] = state[q]
    BY DEF OnlyMoves, Procs, Connected, is_reader
  <2> QED
    BY <1>1, <2>1 DEF StatesAgree
<1>4. \A s \in Slots : SodTaken(s)' = SodTaken(s) /\ EodTaken(s)' = EodTaken(s)
  BY <1>1 DEF SodTaken, EodTaken
<1>5. AckAccounting'
  BY <1>1, <1>4 DEF AckAccounting, Resetting, Started, ReadStarted
<1> QED
  BY <1>2, <1>3, <1>5 DEF Acks

(* Every step keeps the acknowledgements balanced. *)
LEMMA AckStep == ASSUME MaxReset = 0, AckInv, [Next]_vars PROVE Acks'
<1> USE ProcessAssumption
<1> USE DEF wsync, xsync, rsync, locks, wproc, rproc, ghost
<1>t. /\ state \in [Procs -> {"VIEWER"} \cup WriterStates \cup ReaderStates]
      /\ pc \in [Procs -> WriterPcs \cup ReaderPcs]
      /\ op \in [Writers -> {"none", "enable_sod", "get_next_write",
                             "mark_filled", "reset"}]
      /\ ir \in [Writers -> Slots]
      /\ Writers \subseteq Procs /\ Readers \subseteq Procs
  BY DEF AckInv, LockInv, TypeOK, ProcType, WriterType, Procs
<1>o. \A v \in Writers : /\ op[v] # "reset"
                         /\ pc[v] \notin {"reset_sod", "reset_eod", "reset"}
  BY DEF AckInv, NeverReset, Resetting
<1>s. \A v \in Writers :
        /\ state[v] = "WRITING" => w_state = "WRITING"
        /\ state[v] = "WRITER" => w_state = "DISCON"
  BY DEF AckInv, StatesAgree
<1>p. LockInv /\ LockInv'
  BY TypeStep, LockStep DEF AckInv, LockInv, Locking
<1>a. CASE UNCHANGED vars
  BY <1>a DEF vars, AckInv, Acks, StatesAgree, NeverReset, Resetting,
              AckAccounting, Started, ReadStarted, SodTaken, EodTaken,
              Connected, is_reader

<1>1. ASSUME NEW w \in Writers, EnableEod(w)
      PROVE Acks'
  <2>1. is_writer(w) /\ OnlyMoves(w)
    BY <1>t, <1>p, <1>1
       DEF LockInv, Control, EnableEod, Goto, is_writer, SodAccepted,
           WriterStates, OnlyMoves
  <2>2. /\ pc[w] \notin AckPcs
        /\ \/ pc'[w] \notin AckPcs
           \/ pc'[w] \in {"sod_ack", "eod_ack"} /\ ir'[w] = 0
        /\ pc'[w] \notin {"reset_sod", "reset_eod", "reset"}
        /\ pc'[w] = "sod_ack" => w_state = "DISCON"
    BY <1>t, <1>o, <1>1 DEF EnableEod, Goto, AckPcs
  <2>3. /\ state'[w] = "WRITING" => w_state = "WRITING"
        /\ state'[w] = "WRITER" => w_state = "DISCON"
        /\ pc'[w] = "eod_ack" => w_state = "WRITING"
    BY <1>t, <1>s, <1>1, <2>1 DEF EnableEod, Goto, is_writer, WriterStates
  <2>4. \A v \in Writers : op'[v] # "reset"
    BY <1>t, <1>o, <1>1 DEF EnableEod
  <2> QED
    BY <1>1, <2>1, <2>2, <2>3, <2>4, WriterKeepsAcks DEF EnableEod
<1>2. ASSUME NEW w \in Writers, DisableSod(w)
      PROVE Acks'
  <2>1. is_writer(w) /\ OnlyMoves(w)
    BY <1>t, <1>p, <1>2
       DEF LockInv, Control, DisableSod, Goto, is_writer, SodAccepted,
           WriterStates, OnlyMoves
  <2>2. /\ pc[w] \notin AckPcs
        /\ \/ pc'[w] \notin AckPcs
           \/ pc'[w] \in {"sod_ack", "eod_ack"} /\ ir'[w] = 0
        /\ pc'[w] \notin {"reset_sod", "reset_eod", "reset"}
        /\ pc'[w] = "sod_ack" => w_state = "DISCON"
    BY <1>t, <1>o, <1>2 DEF DisableSod, Goto, AckPcs
  <2>3. /\ state'[w] = "WRITING" => w_state = "WRITING"
        /\ state'[w] = "WRITER" => w_state = "DISCON"
        /\ pc'[w] = "eod_ack" => w_state = "WRITING"
    BY <1>t, <1>s, <1>2, <2>1 DEF DisableSod, Goto, is_writer, WriterStates
  <2>4. \A v \in Writers : op'[v] # "reset"
    BY <1>t, <1>o, <1>2 DEF DisableSod
  <2> QED
    BY <1>2, <2>1, <2>2, <2>3, <2>4, WriterKeepsAcks DEF DisableSod
<1>3. ASSUME NEW w \in Writers, SetSoclockBuf(w)
      PROVE Acks'
  <2>1. is_writer(w) /\ OnlyMoves(w)
    BY <1>t, <1>p, <1>3
       DEF LockInv, Control, SetSoclockBuf, Goto, is_writer, SodAccepted,
           WriterStates, OnlyMoves
  <2>2. /\ pc[w] \notin AckPcs
        /\ \/ pc'[w] \notin AckPcs
           \/ pc'[w] \in {"sod_ack", "eod_ack"} /\ ir'[w] = 0
        /\ pc'[w] \notin {"reset_sod", "reset_eod", "reset"}
        /\ pc'[w] = "sod_ack" => w_state = "DISCON"
    BY <1>t, <1>o, <1>3 DEF SetSoclockBuf, Goto, AckPcs
  <2>3. /\ state'[w] = "WRITING" => w_state = "WRITING"
        /\ state'[w] = "WRITER" => w_state = "DISCON"
        /\ pc'[w] = "eod_ack" => w_state = "WRITING"
    BY <1>t, <1>s, <1>3, <2>1 DEF SetSoclockBuf, Goto, is_writer, WriterStates
  <2>4. \A v \in Writers : op'[v] # "reset"
    BY <1>t, <1>o, <1>3 DEF SetSoclockBuf
  <2> QED
    BY <1>3, <2>1, <2>2, <2>3, <2>4, WriterKeepsAcks DEF SetSoclockBuf
<1>4. ASSUME NEW w \in Writers, NEW b \in 0 .. MaxBuf,
             NEW y \in 0 .. BufSz, EnableSod(w, b, y)
      PROVE Acks'
  <2>1. is_writer(w) /\ OnlyMoves(w)
    BY <1>t, <1>p, <1>4
       DEF LockInv, Control, EnableSod, CallEnableSod, FirstReader,
           SodRequested, Goto, is_writer, SodAccepted, WriterStates, OnlyMoves
  <2>2. /\ pc[w] \notin AckPcs
        /\ \/ pc'[w] \notin AckPcs
           \/ pc'[w] \in {"sod_ack", "eod_ack"} /\ ir'[w] = 0
        /\ pc'[w] \notin {"reset_sod", "reset_eod", "reset"}
        /\ pc'[w] = "sod_ack" => w_state = "DISCON"
    BY <1>t, <1>o, <1>4
       DEF EnableSod, CallEnableSod, FirstReader, SodRequested, Goto, AckPcs
  <2>3. /\ state'[w] = "WRITING" => w_state = "WRITING"
        /\ state'[w] = "WRITER" => w_state = "DISCON"
        /\ pc'[w] = "eod_ack" => w_state = "WRITING"
    BY <1>t, <1>s, <1>4, <2>1
       DEF EnableSod, CallEnableSod, FirstReader, SodRequested, Goto,
           is_writer, WriterStates
  <2>4. \A v \in Writers : op'[v] # "reset"
    BY <1>t, <1>o, <1>4
       DEF EnableSod, CallEnableSod, FirstReader, SodRequested
  <2> QED
    BY <1>4, <2>1, <2>2, <2>3, <2>4, WriterKeepsAcks
       DEF EnableSod, CallEnableSod, FirstReader, SodRequested
<1>5. ASSUME NEW w \in Writers, GetNextWrite(w)
      PROVE Acks'
  <2>1. is_writer(w) /\ OnlyMoves(w)
    BY <1>t, <1>p, <1>5
       DEF LockInv, Control, GetNextWrite, CallEnableSod, FirstReader, Goto,
           is_writer, SodAccepted, WriterStates, OnlyMoves
  <2>2. /\ pc[w] \notin AckPcs
        /\ \/ pc'[w] \notin AckPcs
           \/ pc'[w] \in {"sod_ack", "eod_ack"} /\ ir'[w] = 0
        /\ pc'[w] \notin {"reset_sod", "reset_eod", "reset"}
        /\ pc'[w] = "sod_ack" => w_state = "DISCON"
    BY <1>t, <1>o, <1>5
       DEF GetNextWrite, CallEnableSod, FirstReader, Goto, AckPcs
  <2>3. /\ state'[w] = "WRITING" => w_state = "WRITING"
        /\ state'[w] = "WRITER" => w_state = "DISCON"
        /\ pc'[w] = "eod_ack" => w_state = "WRITING"
    BY <1>t, <1>s, <1>5, <2>1
       DEF GetNextWrite, CallEnableSod, FirstReader, Goto, is_writer,
           WriterStates
  <2>4. \A v \in Writers : op'[v] # "reset"
    BY <1>t, <1>o, <1>5 DEF GetNextWrite, CallEnableSod, FirstReader
  <2> QED
    BY <1>5, <2>1, <2>2, <2>3, <2>4, WriterKeepsAcks
       DEF GetNextWrite, CallEnableSod, FirstReader
<1>6. ASSUME NEW w \in Writers, NEW n \in 0 .. BufSz, MarkFilled(w, n)
      PROVE Acks'
  <2>1. is_writer(w) /\ OnlyMoves(w)
    BY <1>t, <1>p, <1>6
       DEF LockInv, Control, MarkFilled, FillRequested, FirstReader, Goto,
           is_writer, SodAccepted, WriterStates, OnlyMoves
  <2>2. /\ pc[w] \notin AckPcs
        /\ \/ pc'[w] \notin AckPcs
           \/ pc'[w] \in {"sod_ack", "eod_ack"} /\ ir'[w] = 0
        /\ pc'[w] \notin {"reset_sod", "reset_eod", "reset"}
        /\ pc'[w] = "sod_ack" => w_state = "DISCON"
    BY <1>t, <1>o, <1>6
       DEF MarkFilled, FillRequested, FirstReader, Goto, AckPcs
  <2>3. /\ state'[w] = "WRITING" => w_state = "WRITING"
        /\ state'[w] = "WRITER" => w_state = "DISCON"
        /\ pc'[w] = "eod_ack" => w_state = "WRITING"
    BY <1>t, <1>s, <1>6, <2>1
       DEF MarkFilled, FillRequested, FirstReader, Goto, is_writer,
           WriterStates
  <2>4. \A v \in Writers : op'[v] # "reset"
    BY <1>t, <1>o, <1>6 DEF MarkFilled, FillRequested, FirstReader
  <2> QED
    BY <1>6, <2>1, <2>2, <2>3, <2>4, WriterKeepsAcks
       DEF MarkFilled, FillRequested, FirstReader
<1>7. ASSUME NEW w \in Writers, ZeroNextWrite(w)
      PROVE Acks'
  <2>1. is_writer(w) /\ OnlyMoves(w)
    BY <1>t, <1>p, <1>7
       DEF LockInv, Control, ZeroNextWrite, Goto, is_writer, SodAccepted,
           WriterStates, OnlyMoves
  <2>2. /\ pc[w] \notin AckPcs
        /\ \/ pc'[w] \notin AckPcs
           \/ pc'[w] \in {"sod_ack", "eod_ack"} /\ ir'[w] = 0
        /\ pc'[w] \notin {"reset_sod", "reset_eod", "reset"}
        /\ pc'[w] = "sod_ack" => w_state = "DISCON"
    BY <1>t, <1>o, <1>7 DEF ZeroNextWrite, Goto, AckPcs
  <2>3. /\ state'[w] = "WRITING" => w_state = "WRITING"
        /\ state'[w] = "WRITER" => w_state = "DISCON"
        /\ pc'[w] = "eod_ack" => w_state = "WRITING"
    BY <1>t, <1>s, <1>7, <2>1 DEF ZeroNextWrite, Goto, is_writer, WriterStates
  <2>4. \A v \in Writers : op'[v] # "reset"
    BY <1>t, <1>o, <1>7 DEF ZeroNextWrite
  <2> QED
    BY <1>7, <2>1, <2>2, <2>3, <2>4, WriterKeepsAcks DEF ZeroNextWrite
<1>8. ASSUME NEW w \in Writers, SodFull(w)
      PROVE Acks'
  <2>1. is_writer(w) /\ OnlyMoves(w)
    BY <1>t, <1>p, <1>8
       DEF LockInv, Control, SodFull, Goto, is_writer, SodAccepted,
           WriterStates, OnlyMoves
  <2>2. /\ pc[w] \notin AckPcs
        /\ \/ pc'[w] \notin AckPcs
           \/ pc'[w] \in {"sod_ack", "eod_ack"} /\ ir'[w] = 0
        /\ pc'[w] \notin {"reset_sod", "reset_eod", "reset"}
        /\ pc'[w] = "sod_ack" => w_state = "DISCON"
    BY <1>t, <1>o, <1>8 DEF SodFull, Goto, AckPcs
  <2>3. /\ state'[w] = "WRITING" => w_state = "WRITING"
        /\ state'[w] = "WRITER" => w_state = "DISCON"
        /\ pc'[w] = "eod_ack" => w_state = "WRITING"
    BY <1>t, <1>s, <1>8, <2>1 DEF SodFull, Goto, is_writer, WriterStates
  <2>4. \A v \in Writers : op'[v] # "reset"
    BY <1>t, <1>o, <1>8 DEF SodFull
  <2> QED
    BY <1>8, <2>1, <2>2, <2>3, <2>4, WriterKeepsAcks DEF SodFull
<1>9. ASSUME NEW w \in Writers, Drain(w)
      PROVE Acks'
  <2>1. is_writer(w) /\ OnlyMoves(w)
    BY <1>t, <1>p, <1>9
       DEF LockInv, Control, Drain, Goto, is_writer, SodAccepted,
           WriterStates, OnlyMoves
  <2>2. /\ pc[w] \notin AckPcs
        /\ \/ pc'[w] \notin AckPcs
           \/ pc'[w] \in {"sod_ack", "eod_ack"} /\ ir'[w] = 0
        /\ pc'[w] \notin {"reset_sod", "reset_eod", "reset"}
        /\ pc'[w] = "sod_ack" => w_state = "DISCON"
    BY <1>t, <1>o, <1>9 DEF Drain, Goto, AckPcs
  <2>3. /\ state'[w] = "WRITING" => w_state = "WRITING"
        /\ state'[w] = "WRITER" => w_state = "DISCON"
        /\ pc'[w] = "eod_ack" => w_state = "WRITING"
    BY <1>t, <1>s, <1>9, <2>1 DEF Drain, Goto, is_writer, WriterStates
  <2>4. \A v \in Writers : op'[v] # "reset"
    BY <1>t, <1>o, <1>9 DEF Drain
  <2> QED
    BY <1>9, <2>1, <2>2, <2>3, <2>4, WriterKeepsAcks DEF Drain
<1>10. ASSUME NEW w \in Writers, TakeBlock(w)
      PROVE Acks'
  <2>1. is_writer(w) /\ OnlyMoves(w)
    BY <1>t, <1>p, <1>10
       DEF LockInv, Control, TakeBlock, Goto, is_writer, SodAccepted,
           WriterStates, OnlyMoves
  <2>2. /\ pc[w] \notin AckPcs
        /\ \/ pc'[w] \notin AckPcs
           \/ pc'[w] \in {"sod_ack", "eod_ack"} /\ ir'[w] = 0
        /\ pc'[w] \notin {"reset_sod", "reset_eod", "reset"}
        /\ pc'[w] = "sod_ack" => w_state = "DISCON"
    BY <1>t, <1>o, <1>10 DEF TakeBlock, Goto, AckPcs
  <2>3. /\ state'[w] = "WRITING" => w_state = "WRITING"
        /\ state'[w] = "WRITER" => w_state = "DISCON"
        /\ pc'[w] = "eod_ack" => w_state = "WRITING"
    BY <1>t, <1>s, <1>10, <2>1 DEF TakeBlock, Goto, is_writer, WriterStates
  <2>4. \A v \in Writers : op'[v] # "reset"
    BY <1>t, <1>o, <1>10 DEF TakeBlock
  <2> QED
    BY <1>10, <2>1, <2>2, <2>3, <2>4, WriterKeepsAcks DEF TakeBlock
<1>11. ASSUME NEW w \in Writers, Fill(w)
      PROVE Acks'
  <2>1. is_writer(w) /\ OnlyMoves(w)
    BY <1>t, <1>p, <1>11
       DEF LockInv, Control, Fill, Goto, is_writer, SodAccepted, WriterStates,
           OnlyMoves
  <2>2. /\ pc[w] \notin AckPcs
        /\ \/ pc'[w] \notin AckPcs
           \/ pc'[w] \in {"sod_ack", "eod_ack"} /\ ir'[w] = 0
        /\ pc'[w] \notin {"reset_sod", "reset_eod", "reset"}
        /\ pc'[w] = "sod_ack" => w_state = "DISCON"
    BY <1>t, <1>o, <1>11 DEF Fill, Goto, AckPcs
  <2>3. /\ state'[w] = "WRITING" => w_state = "WRITING"
        /\ state'[w] = "WRITER" => w_state = "DISCON"
        /\ pc'[w] = "eod_ack" => w_state = "WRITING"
    BY <1>t, <1>s, <1>11, <2>1 DEF Fill, Goto, is_writer, WriterStates
  <2>4. \A v \in Writers : op'[v] # "reset"
    BY <1>t, <1>o, <1>11 DEF Fill
  <2> QED
    BY <1>11, <2>1, <2>2, <2>3, <2>4, WriterKeepsAcks DEF Fill
<1>12. ASSUME NEW w \in Writers, PostFull(w)
      PROVE Acks'
  <2>1. is_writer(w) /\ OnlyMoves(w)
    BY <1>t, <1>p, <1>12
       DEF LockInv, Control, PostFull, Goto, is_writer, SodAccepted,
           WriterStates, OnlyMoves
  <2>2. /\ pc[w] \notin AckPcs
        /\ \/ pc'[w] \notin AckPcs
           \/ pc'[w] \in {"sod_ack", "eod_ack"} /\ ir'[w] = 0
        /\ pc'[w] \notin {"reset_sod", "reset_eod", "reset"}
        /\ pc'[w] = "sod_ack" => w_state = "DISCON"
    BY <1>t, <1>o, <1>12 DEF PostFull, Goto, AckPcs
  <2>3. /\ state'[w] = "WRITING" => w_state = "WRITING"
        /\ state'[w] = "WRITER" => w_state = "DISCON"
        /\ pc'[w] = "eod_ack" => w_state = "WRITING"
    BY <1>t, <1>s, <1>12, <2>1 DEF PostFull, Goto, is_writer, WriterStates
  <2>4. \A v \in Writers : op'[v] # "reset"
    BY <1>t, <1>o, <1>12 DEF PostFull
  <2> QED
    BY <1>12, <2>1, <2>2, <2>3, <2>4, WriterKeepsAcks DEF PostFull
<1>13. ASSUME NEW w \in Writers, Reset(w)
      PROVE Acks'
  BY <1>t, <1>o, <1>p, <1>13 DEF Reset, Goto, LockInv, TypeOK, GhostType
<1>14. ASSUME NEW w \in Writers, ResetSodAck(w)
      PROVE Acks'
  BY <1>t, <1>o, <1>p, <1>14 DEF ResetSodAck, Goto, LockInv, TypeOK, GhostType
<1>15. ASSUME NEW w \in Writers, ResetEodAck(w)
      PROVE Acks'
  BY <1>t, <1>o, <1>p, <1>15 DEF ResetEodAck, Goto, LockInv, TypeOK, GhostType
<1>16. ASSUME NEW w \in Writers, ResetSync(w)
      PROVE Acks'
  BY <1>t, <1>o, <1>p, <1>16 DEF ResetSync, Goto, LockInv, TypeOK, GhostType
<1>17. ASSUME NEW r \in Readers, LockRead(r)
      PROVE Acks'
  <2>1. OnlyMoves(r)
    BY <1>t, <1>17 DEF LockRead, Goto, OnlyMoves
  <2>2. Connected(r)' =>
          (state'[r] = "READING" <=> r_states[iread'[r]] = "READING")
    BY <1>t, <1>p, <1>17
       DEF LockRead, Goto, AckInv, LockInv, Control, StatesAgree, Connected,
           is_reader, InsidePcs, ReaderStates
  <2>3. \A q \in Readers : q # r => iread'[q] = iread[q]
    BY <1>17, <1>p DEF LockRead, LockInv, TypeOK, ReaderType
  <2> QED
    BY <1>17, <2>1, <2>2, <2>3, ReaderKeepsAcks DEF LockRead
<1>18. ASSUME NEW r \in Readers, Connect(r)
      PROVE Acks'
  <2>1. OnlyMoves(r)
    BY <1>t, <1>18 DEF Connect, Goto, OnlyMoves
  <2>2. Connected(r)' =>
          (state'[r] = "READING" <=> r_states[iread'[r]] = "READING")
    <3> DEFINE slot == Head(order[r])
    <3>1. CASE UNCHANGED <<READER_CONN, iread, state, xfer, pc>>
      BY <1>18, <3>1 DEF Connect, AckInv, StatesAgree, Connected, is_reader
    <3>2. CASE /\ iread' = [iread EXCEPT ![r] = slot]
               /\ state' = [state EXCEPT ![r] =
                     IF r_states[slot] = "DISCON" THEN "READER" ELSE "READING"]
      <4>1. iread'[r] = slot
        BY <1>p, <3>2 DEF LockInv, TypeOK, ReaderType
      <4>2. slot \in Slots
        BY <1>p, <1>18 DEF Connect, LockInv, TypeOK, ReaderType
      <4>3. r_states[slot] \in {"DISCON", "READING"}
        BY <1>p, <4>2 DEF LockInv, TypeOK, ReadType
      <4> QED
        BY <1>t, <3>2, <4>1, <4>3
    <3> QED
      BY <1>18, <3>1, <3>2 DEF Connect
  <2>3. \A q \in Readers : q # r => iread'[q] = iread[q]
    BY <1>18, <1>p DEF Connect, LockInv, TypeOK, ReaderType
  <2> QED
    BY <1>18, <2>1, <2>2, <2>3, ReaderKeepsAcks DEF Connect
<1>19. ASSUME NEW r \in Readers, ConnectFailed(r)
      PROVE Acks'
  <2>1. OnlyMoves(r)
    BY <1>t, <1>19 DEF ConnectFailed, Goto, OnlyMoves
  <2>2. Connected(r)' =>
          (state'[r] = "READING" <=> r_states[iread'[r]] = "READING")
    BY <1>t, <1>p, <1>19
       DEF ConnectFailed, Goto, AckInv, LockInv, Control, StatesAgree,
           Connected, is_reader, InsidePcs, ReaderStates
  <2>3. \A q \in Readers : q # r => iread'[q] = iread[q]
    BY <1>19, <1>p DEF ConnectFailed, LockInv, TypeOK, ReaderType
  <2> QED
    BY <1>19, <2>1, <2>2, <2>3, ReaderKeepsAcks DEF ConnectFailed
<1>20. ASSUME NEW r \in Readers, Unlocked(r)
      PROVE Acks'
  <2>1. OnlyMoves(r)
    BY <1>t, <1>20 DEF Unlocked, Goto, OnlyMoves
  <2>2. Connected(r)' =>
          (state'[r] = "READING" <=> r_states[iread'[r]] = "READING")
    BY <1>t, <1>p, <1>20
       DEF Unlocked, Goto, AckInv, LockInv, Control, StatesAgree, Connected,
           is_reader, InsidePcs, ReaderStates
  <2>3. \A q \in Readers : q # r => iread'[q] = iread[q]
    BY <1>20, <1>p DEF Unlocked, LockInv, TypeOK, ReaderType
  <2> QED
    BY <1>20, <2>1, <2>2, <2>3, ReaderKeepsAcks DEF Unlocked
<1>21. ASSUME NEW r \in Readers, UnlockRead(r)
      PROVE Acks'
  <2>1. OnlyMoves(r)
    BY <1>t, <1>21 DEF UnlockRead, Goto, OnlyMoves
  <2>2. Connected(r)' =>
          (state'[r] = "READING" <=> r_states[iread'[r]] = "READING")
    BY <1>t, <1>p, <1>21
       DEF UnlockRead, Goto, AckInv, LockInv, Control, StatesAgree, Connected,
           is_reader, InsidePcs, ReaderStates
  <2>3. \A q \in Readers : q # r => iread'[q] = iread[q]
    BY <1>21, <1>p DEF UnlockRead, LockInv, TypeOK, ReaderType
  <2> QED
    BY <1>21, <2>1, <2>2, <2>3, ReaderKeepsAcks DEF UnlockRead
<1>22. ASSUME NEW r \in Readers, GetNextRead(r)
      PROVE Acks'
  <2>1. OnlyMoves(r)
    BY <1>t, <1>22 DEF GetNextRead, Goto, OnlyMoves
  <2>2. Connected(r)' =>
          (state'[r] = "READING" <=> r_states[iread'[r]] = "READING")
    BY <1>t, <1>p, <1>22
       DEF GetNextRead, Goto, AckInv, LockInv, Control, StatesAgree,
           Connected, is_reader, InsidePcs, ReaderStates
  <2>3. \A q \in Readers : q # r => iread'[q] = iread[q]
    BY <1>22, <1>p DEF GetNextRead, LockInv, TypeOK, ReaderType
  <2> QED
    BY <1>22, <2>1, <2>2, <2>3, ReaderKeepsAcks DEF GetNextRead
<1>23. ASSUME NEW r \in Readers, GetBytes(r)
      PROVE Acks'
  <2>1. OnlyMoves(r)
    BY <1>t, <1>23 DEF GetBytes, Goto, OnlyMoves
  <2>2. Connected(r)' =>
          (state'[r] = "READING" <=> r_states[iread'[r]] = "READING")
    BY <1>t, <1>p, <1>23
       DEF GetBytes, Goto, AckInv, LockInv, Control, StatesAgree, Connected,
           is_reader, InsidePcs, ReaderStates
  <2>3. \A q \in Readers : q # r => iread'[q] = iread[q]
    BY <1>23, <1>p DEF GetBytes, LockInv, TypeOK, ReaderType
  <2> QED
    BY <1>23, <2>1, <2>2, <2>3, ReaderKeepsAcks DEF GetBytes
<1>24. ASSUME NEW r \in Readers, MarkCleared(r)
      PROVE Acks'
  <2>1. OnlyMoves(r)
    BY <1>t, <1>24 DEF MarkCleared, Goto, OnlyMoves
  <2>2. Connected(r)' =>
          (state'[r] = "READING" <=> r_states[iread'[r]] = "READING")
    BY <1>t, <1>p, <1>24
       DEF MarkCleared, Goto, AckInv, LockInv, Control, StatesAgree,
           Connected, is_reader, InsidePcs, ReaderStates
  <2>3. \A q \in Readers : q # r => iread'[q] = iread[q]
    BY <1>24, <1>p DEF MarkCleared, LockInv, TypeOK, ReaderType
  <2> QED
    BY <1>24, <2>1, <2>2, <2>3, ReaderKeepsAcks DEF MarkCleared
<1>25. ASSUME NEW r \in Readers, ResetRead(r)
      PROVE Acks'
  <2>1. OnlyMoves(r)
    BY <1>t, <1>25 DEF ResetRead, Goto, OnlyMoves
  <2>2. Connected(r)' =>
          (state'[r] = "READING" <=> r_states[iread'[r]] = "READING")
    BY <1>t, <1>p, <1>25
       DEF ResetRead, Goto, AckInv, LockInv, Control, StatesAgree, Connected,
           is_reader, InsidePcs, ReaderStates
  <2>3. \A q \in Readers : q # r => iread'[q] = iread[q]
    BY <1>25, <1>p DEF ResetRead, LockInv, TypeOK, ReaderType
  <2> QED
    BY <1>25, <2>1, <2>2, <2>3, ReaderKeepsAcks DEF ResetRead
<1>26. ASSUME NEW w \in Writers, LockWrite(w) \/ UnlockWrite(w)
      PROVE Acks'
  <2>1. pc' = pc /\ ir' = ir /\ op' = op /\ pc[w] = "idle"
    BY <1>26 DEF LockWrite, UnlockWrite
  <2>2. OnlyMoves(w)
    BY <1>t, <1>26 DEF LockWrite, UnlockWrite, OnlyMoves
  <2>3. NeverReset'
    BY <2>1 DEF AckInv, NeverReset, Resetting
  <2>4. StatesAgree'
    <3>1. /\ state'[w] = "WRITING" => w_state = "WRITING"
          /\ state'[w] = "WRITER" => w_state = "DISCON"
      BY <1>t, <1>p, <1>26
         DEF LockWrite, UnlockWrite, LockInv, TypeOK, SyncType
    <3>2. \A r \in Readers : Connected(r)' = Connected(r) /\ state'[r] = state[r]
      BY <2>1, <2>2 DEF OnlyMoves, Procs, Connected, is_reader
    <3> QED
      BY <1>26, <2>1, <2>2, <3>1, <3>2
         DEF AckInv, StatesAgree, LockWrite, UnlockWrite, OnlyMoves, Procs
  <2>5. AckAccounting'
    BY <1>26, <2>1, <2>3
       DEF AckInv, AckAccounting, NeverReset, Resetting, Started, ReadStarted,
           SodTaken, EodTaken, LockWrite, UnlockWrite
  <2> QED
    BY <2>3, <2>4, <2>5 DEF Acks
<1>27. ASSUME NEW w \in Writers, SodAck(w)
      PROVE Acks'
  <2>1. is_writer(w) /\ OnlyMoves(w) /\ pc[w] = "sod_ack"
        /\ pc'[w] = (IF LastReader(w) THEN "sod_set" ELSE "sod_ack")
    BY <1>t, <1>p, <1>27
       DEF LockInv, Control, SodAck, Goto, is_writer, WriterStates, OnlyMoves
  <2>2. \A v \in Writers : v # w => pc[v] = "idle" /\ pc'[v] = "idle"
    BY <1>t, <1>p, <2>1, OnlyWriter DEF OnlyMoves
  <2>3. NeverReset'
    BY <1>o, <1>27, <2>1, <2>2 DEF SodAck, NeverReset, Resetting
  <2>4. StatesAgree'
    <3>1. \A r \in Readers : Connected(r)' = Connected(r)
      BY <1>t, <1>27, <2>1 DEF SodAck, OnlyMoves, Connected, is_reader
    <3> QED
      BY <1>27, <2>1, <2>2, <3>1 DEF SodAck, AckInv, StatesAgree
  <2>5. \A s \in Slots :
          SodTakenBy(w, s)' = SodTakenBy(w, s) + (IF s = ir[w] THEN 1 ELSE 0)
    <3>1. ir[w] \in Slots /\ ir'[w] = (IF LastReader(w) THEN 0 ELSE ir[w] + 1)
      BY <1>t, <1>27 DEF SodAck, NextReader
    <3> QED
      BY <2>1, <3>1, SizesAssumption DEF SodTakenBy, LastReader, Slots
  <2>6. \A s \in Slots : EodTakenBy(w, s)' = 0 /\ EodTakenBy(w, s) = 0
    BY <2>1 DEF EodTakenBy
  <2>7. \A s \in Slots : SODACK'[s] = SODACK[s] - (IF s = ir[w] THEN 1 ELSE 0)
    BY <1>t, <1>p, <1>27 DEF SodAck, Down, LockInv, TypeOK, SemType
  <2>8. \A s \in Slots : SodBalance(s)' /\ EodBalance(s)'
    <3>1. SUFFICES ASSUME NEW s \in Slots PROVE SodBalance(s)' /\ EodBalance(s)'
      OBVIOUS
    <3>2. SodBalance(s) /\ EodBalance(s)
      BY Balances DEF AckInv
    <3>3. /\ SodTaken(s) = SodTakenBy(w, s) /\ EodTaken(s) = EodTakenBy(w, s)
          /\ SodTaken(s)' = SodTakenBy(w, s)' /\ EodTaken(s)' = EodTakenBy(w, s)'
      BY <1>p, <2>1, TakenByWriter
    <3>4. Started' = Started /\ ReadStarted(s)' = ReadStarted(s)
          /\ w_xfer' = w_xfer /\ r_xfers' = r_xfers /\ EODACK' = EODACK
      BY <1>27 DEF SodAck, Started, ReadStarted
    <3> QED
      BY <1>p, <2>5, <2>6, <2>7, <3>2, <3>3, <3>4, AckTypes
         DEF SodBalance, EodBalance
  <2> QED
    BY <2>3, <2>4, <2>8 DEF Acks, AckAccounting, SodBalance, EodBalance
<1>28. ASSUME NEW w \in Writers, EodAck(w)
      PROVE Acks'
  <2>1. is_writer(w) /\ OnlyMoves(w) /\ pc[w] = "eod_ack"
        /\ pc'[w] = (IF LastReader(w) THEN "eod_set" ELSE "eod_ack")
    BY <1>t, <1>p, <1>28
       DEF LockInv, Control, EodAck, Goto, is_writer, WriterStates, OnlyMoves
  <2>2. \A v \in Writers : v # w => pc[v] = "idle" /\ pc'[v] = "idle"
    BY <1>t, <1>p, <2>1, OnlyWriter DEF OnlyMoves
  <2>3. NeverReset'
    BY <1>o, <1>28, <2>1, <2>2 DEF EodAck, NeverReset, Resetting
  <2>4. StatesAgree'
    <3>1. \A r \in Readers : Connected(r)' = Connected(r)
      BY <1>t, <1>28, <2>1 DEF EodAck, OnlyMoves, Connected, is_reader
    <3> QED
      BY <1>28, <2>1, <2>2, <3>1 DEF EodAck, AckInv, StatesAgree
  <2>5. \A s \in Slots :
          EodTakenBy(w, s)' = EodTakenBy(w, s) + (IF s = ir[w] THEN 1 ELSE 0)
    <3>1. ir[w] \in Slots /\ ir'[w] = (IF LastReader(w) THEN 0 ELSE ir[w] + 1)
      BY <1>t, <1>28 DEF EodAck, NextReader
    <3> QED
      BY <2>1, <3>1, SizesAssumption DEF EodTakenBy, LastReader, Slots
  <2>6. \A s \in Slots : SodTakenBy(w, s)' = 0 /\ SodTakenBy(w, s) = 0
    BY <2>1 DEF SodTakenBy
  <2>7. \A s \in Slots : EODACK'[s] = EODACK[s] - (IF s = ir[w] THEN 1 ELSE 0)
    BY <1>t, <1>p, <1>28 DEF EodAck, Down, LockInv, TypeOK, SemType
  <2>8. \A s \in Slots : SodBalance(s)' /\ EodBalance(s)'
    <3>1. SUFFICES ASSUME NEW s \in Slots PROVE SodBalance(s)' /\ EodBalance(s)'
      OBVIOUS
    <3>2. SodBalance(s) /\ EodBalance(s)
      BY Balances DEF AckInv
    <3>3. /\ SodTaken(s) = SodTakenBy(w, s) /\ EodTaken(s) = EodTakenBy(w, s)
          /\ SodTaken(s)' = SodTakenBy(w, s)' /\ EodTaken(s)' = EodTakenBy(w, s)'
      BY <1>p, <2>1, TakenByWriter
    <3>4. Started' = Started /\ ReadStarted(s)' = ReadStarted(s)
          /\ w_xfer' = w_xfer /\ r_xfers' = r_xfers /\ SODACK' = SODACK
      BY <1>28 DEF EodAck, Started, ReadStarted
    <3> QED
      BY <1>p, <2>5, <2>6, <2>7, <3>2, <3>3, <3>4, AckTypes
         DEF SodBalance, EodBalance
  <2> QED
    BY <2>3, <2>4, <2>8 DEF Acks, AckAccounting, SodBalance, EodBalance
<1>29. ASSUME NEW w \in Writers, SodSet(w)
      PROVE Acks'
  <2>1. is_writer(w) /\ OnlyMoves(w) /\ pc[w] = "sod_set"
        /\ pc'[w] \in {"sod_full", "clear", "fill"}
    BY <1>t, <1>p, <1>29
       DEF LockInv, Control, SodSet, Goto, is_writer, WriterStates, OnlyMoves
  <2>2. \A v \in Writers : v # w => /\ pc[v] = "idle" /\ pc'[v] = "idle"
                                   /\ state'[v] = "VIEWER"
    BY <1>t, <1>p, <2>1, OnlyWriter DEF OnlyMoves
  <2>3. NeverReset'
    BY <1>o, <1>29, <2>1, <2>2 DEF SodSet, NeverReset, Resetting
  <2>4. StatesAgree'
    <3>1. \A r \in Readers : Connected(r)' = Connected(r) /\ state'[r] = state[r]
      BY <1>t, <1>29, <2>1 DEF SodSet, OnlyMoves, Connected, is_reader, Procs
    <3>2. \/ state'[w] = w_state'
          \/ state'[w] = "WRITER" /\ w_state' = "DISCON"
      BY <1>t, <1>29 DEF SodSet
    <3>3. w_state' \in {"WRITING", "DISCON"} /\ r_states' = r_states /\ iread' = iread
      BY <1>29 DEF SodSet
    <3> QED
      BY <2>1, <2>2, <3>1, <3>2, <3>3 DEF AckInv, StatesAgree
  <2>5. \A s \in Slots : /\ SodTakenBy(w, s) = 1 /\ SodTakenBy(w, s)' = 0
                         /\ EodTakenBy(w, s) = 0 /\ EodTakenBy(w, s)' = 0
    BY <2>1 DEF SodTakenBy, EodTakenBy
  <2>6. Started' = Started + 1 /\ w_xfer' = w_xfer
    BY <1>29, <1>p, <2>1, AckTypes
       DEF SodSet, Started, AckInv, StatesAgree, LockInv, TypeOK, SyncType
  <2>7. \A s \in Slots : SodBalance(s)' /\ EodBalance(s)'
    <3>1. SUFFICES ASSUME NEW s \in Slots PROVE SodBalance(s)' /\ EodBalance(s)'
      OBVIOUS
    <3>2. SodBalance(s) /\ EodBalance(s)
      BY Balances DEF AckInv
    <3>3. /\ SodTaken(s) = SodTakenBy(w, s) /\ EodTaken(s) = EodTakenBy(w, s)
          /\ SodTaken(s)' = SodTakenBy(w, s)' /\ EodTaken(s)' = EodTakenBy(w, s)'
      BY <1>p, <2>1, TakenByWriter
    <3>4. /\ ReadStarted(s)' = ReadStarted(s) /\ r_xfers' = r_xfers
          /\ SODACK' = SODACK /\ EODACK' = EODACK
      BY <1>29 DEF SodSet, ReadStarted
    <3>5. /\ Started \in Nat /\ w_xfer \in Nat /\ XFERS \in Nat
          /\ SODACK[s] \in Nat /\ EODACK[s] \in Nat
          /\ r_xfers[s] \in Nat /\ ReadStarted(s) \in Nat
          /\ SodTaken(s) \in {0, 1} /\ EodTaken(s) \in {0, 1}
      BY <1>p, AckTypes, SizesAssumption
    <3> QED
      BY <2>5, <2>6, <3>2, <3>3, <3>4, <3>5 DEF SodBalance, EodBalance
  <2> QED
    BY <2>3, <2>4, <2>7 DEF Acks, AckAccounting, SodBalance, EodBalance
<1>30. ASSUME NEW w \in Writers, EodSet(w)
      PROVE Acks'
  <2>1. is_writer(w) /\ OnlyMoves(w) /\ pc[w] = "eod_set"
        /\ pc'[w] \in {"sod_full", "clear", "fill"}
    BY <1>t, <1>p, <1>30
       DEF LockInv, Control, EodSet, Goto, is_writer, WriterStates, OnlyMoves
  <2>2. \A v \in Writers : v # w => /\ pc[v] = "idle" /\ pc'[v] = "idle"
                                   /\ state'[v] = "VIEWER"
    BY <1>t, <1>p, <2>1, OnlyWriter DEF OnlyMoves
  <2>3. NeverReset'
    BY <1>o, <1>30, <2>1, <2>2 DEF EodSet, NeverReset, Resetting
  <2>4. StatesAgree'
    <3>1. \A r \in Readers : Connected(r)' = Connected(r) /\ state'[r] = state[r]
      BY <1>t, <1>30, <2>1 DEF EodSet, OnlyMoves, Connected, is_reader, Procs
    <3>2. \/ state'[w] = w_state'
          \/ state'[w] = "WRITER" /\ w_state' = "DISCON"
      BY <1>t, <1>30 DEF EodSet
    <3>3. w_state' \in {"WRITING", "DISCON"} /\ r_states' = r_states /\ iread' = iread
      BY <1>30 DEF EodSet
    <3> QED
      BY <2>1, <2>2, <3>1, <3>2, <3>3 DEF AckInv, StatesAgree
  <2>5. \A s \in Slots : /\ EodTakenBy(w, s) = 1 /\ EodTakenBy(w, s)' = 0
                         /\ SodTakenBy(w, s) = 0 /\ SodTakenBy(w, s)' = 0
    BY <2>1 DEF SodTakenBy, EodTakenBy
  <2>6. Started' = Started /\ w_xfer' = w_xfer + 1
    BY <1>30, <1>p, <2>1, AckTypes
       DEF EodSet, Started, AckInv, StatesAgree, LockInv, TypeOK, SyncType
  <2>7. \A s \in Slots : SodBalance(s)' /\ EodBalance(s)'
    <3>1. SUFFICES ASSUME NEW s \in Slots PROVE SodBalance(s)' /\ EodBalance(s)'
      OBVIOUS
    <3>2. SodBalance(s) /\ EodBalance(s)
      BY Balances DEF AckInv
    <3>3. /\ SodTaken(s) = SodTakenBy(w, s) /\ EodTaken(s) = EodTakenBy(w, s)
          /\ SodTaken(s)' = SodTakenBy(w, s)' /\ EodTaken(s)' = EodTakenBy(w, s)'
      BY <1>p, <2>1, TakenByWriter
    <3>4. /\ ReadStarted(s)' = ReadStarted(s) /\ r_xfers' = r_xfers
          /\ SODACK' = SODACK /\ EODACK' = EODACK
      BY <1>30 DEF EodSet, ReadStarted
    <3>5. /\ Started \in Nat /\ w_xfer \in Nat /\ XFERS \in Nat
          /\ SODACK[s] \in Nat /\ EODACK[s] \in Nat
          /\ r_xfers[s] \in Nat /\ ReadStarted(s) \in Nat
          /\ SodTaken(s) \in {0, 1} /\ EodTaken(s) \in {0, 1}
      BY <1>p, AckTypes, SizesAssumption
    <3> QED
      BY <2>5, <2>6, <3>2, <3>3, <3>4, <3>5 DEF SodBalance, EodBalance
  <2> QED
    BY <2>3, <2>4, <2>7 DEF Acks, AckAccounting, SodBalance, EodBalance
<1>31. ASSUME NEW r \in Readers, StartXfer(r)
      PROVE Acks'
  <2> DEFINE s == iread[r]
  <2>1. s \in Slots /\ Connected(r) /\ OnlyMoves(r) /\ pc[r] = "start"
    BY <1>t, <1>p, <1>31
       DEF LockInv, Control, StartXfer, Goto, Connected, OnlyMoves, InsidePcs
  <2>2. \A v \in Writers : pc'[v] = pc[v] /\ state'[v] = state[v]
    BY <1>t, <2>1 DEF OnlyMoves
  <2>3. NeverReset'
    BY <1>o, <1>31, <2>2 DEF StartXfer, NeverReset, Resetting
  <2>4. \A t \in Slots : t # s =>
          /\ SODACK'[t] = SODACK[t] /\ EODACK'[t] = EODACK[t]
          /\ r_xfers'[t] = r_xfers[t] /\ r_states'[t] = r_states[t]
    BY <1>p, <1>31, <2>1 DEF StartXfer, Up, LockInv, TypeOK, SemType, ReadType
  <2>5. StatesAgree'
    <3>1. \A q \in Readers : q # r /\ Connected(q)' =>
            /\ Connected(q) /\ iread[q] # s /\ iread[q] \in Slots
            /\ state'[q] = state[q]
      BY <1>t, <1>p, <1>31, <2>1
         DEF StartXfer, OnlyMoves, Connected, is_reader, LockInv, Exclusive,
             Control
    <3>2. state'[r] = "READING" <=> r_states'[s] = "READING"
      BY <1>t, <1>p, <1>31, <2>1
         DEF StartXfer, LockInv, TypeOK, ReadType, AckInv, StatesAgree
    <3>3. w_state' = w_state /\ iread' = iread
      BY <1>31 DEF StartXfer
    <3> QED
      BY <2>2, <2>4, <3>1, <3>2, <3>3 DEF AckInv, StatesAgree
  <2>6. /\ SODACK'[s] = SODACK[s] + 1 /\ EODACK'[s] = EODACK[s]
        /\ r_xfers'[s] = r_xfers[s] /\ ReadStarted(s)' = ReadStarted(s) + 1
    <3>1. r_states[s] = "DISCON" /\ r_states'[s] = "READING"
      <4>1. state[r] = "READER" /\ r_states[s] \in {"DISCON", "READING"}
        BY <1>p, <2>1 DEF LockInv, Control, TypeOK, ReadType
      <4>2. r_states[s] = "DISCON"
        BY <2>1, <4>1 DEF AckInv, StatesAgree
      <4> QED
        BY <1>p, <1>31, <2>1, <4>2 DEF StartXfer, LockInv, TypeOK, ReadType
    <3> QED
      BY <1>p, <1>31, <2>1, <3>1
         DEF StartXfer, Up, ReadStarted, LockInv, TypeOK, SemType, ReadType
  <2>8. s' = s
    BY <1>31 DEF StartXfer
  <2> HIDE DEF s
  <2>7. \A t \in Slots : SodBalance(t)' /\ EodBalance(t)'
    <3>1. SUFFICES ASSUME NEW t \in Slots PROVE SodBalance(t)' /\ EodBalance(t)'
      OBVIOUS
    <3>2. SodBalance(t) /\ EodBalance(t)
      BY Balances DEF AckInv
    <3>3. /\ SodTaken(t)' = SodTaken(t) /\ EodTaken(t)' = EodTaken(t)
          /\ Started' = Started /\ w_xfer' = w_xfer
      BY <1>31, <2>2 DEF StartXfer, SodTaken, EodTaken, Started
    <3>6. /\ Started \in Nat /\ w_xfer \in Nat /\ XFERS \in Nat
          /\ SODACK[t] \in Nat /\ EODACK[t] \in Nat
          /\ r_xfers[t] \in Nat /\ ReadStarted(t) \in Nat
          /\ SodTaken(t) \in {0, 1} /\ EodTaken(t) \in {0, 1}
      BY <1>p, AckTypes, SizesAssumption
    <3>4. CASE t = s
      <4>1. /\ SODACK'[t] = SODACK[t] + 1 /\ EODACK'[t] = EODACK[t]
            /\ r_xfers'[t] = r_xfers[t] /\ ReadStarted(t)' = ReadStarted(t) + 1
        BY <2>6, <2>8, <3>4
      <4>2. SodBalance(t)'
        BY <3>2, <3>3, <3>6, <4>1 DEF SodBalance
      <4>3. EodBalance(t)'
        BY <3>2, <3>3, <3>6, <4>1 DEF EodBalance
      <4> QED
        BY <4>2, <4>3
    <3>5. CASE t # s
      <4>1. ReadStarted(t)' = ReadStarted(t)
        BY <2>4, <3>5 DEF ReadStarted
      <4> QED
        BY <2>4, <3>2, <3>3, <3>5, <4>1 DEF SodBalance, EodBalance
    <3> QED
      BY <3>4, <3>5
  <2> QED
    BY <2>3, <2>5, <2>7 DEF Acks, AckAccounting, SodBalance, EodBalance
<1>32. ASSUME NEW r \in Readers, Advance(r)
      PROVE Acks'
  <2> DEFINE s == iread[r]
  <2>1. s \in Slots /\ Connected(r) /\ OnlyMoves(r) /\ pc[r] = "cleared"
    BY <1>t, <1>p, <1>32
       DEF LockInv, Control, Advance, Goto, Connected, OnlyMoves, InsidePcs
  <2>2. \A v \in Writers : pc'[v] = pc[v] /\ state'[v] = state[v]
    BY <1>t, <2>1 DEF OnlyMoves
  <2>3. NeverReset'
    BY <1>o, <1>32, <2>2 DEF Advance, NeverReset, Resetting
  <2>4. \A t \in Slots : t # s =>
          /\ SODACK'[t] = SODACK[t] /\ EODACK'[t] = EODACK[t]
          /\ r_xfers'[t] = r_xfers[t] /\ r_states'[t] = r_states[t]
    BY <1>p, <1>32, <2>1 DEF Advance, Up, LockInv, TypeOK, SemType, ReadType
  <2>5. StatesAgree'
    <3>1. \A q \in Readers : q # r /\ Connected(q)' =>
            /\ Connected(q) /\ iread[q] # s /\ iread[q] \in Slots
            /\ state'[q] = state[q]
      BY <1>t, <1>p, <1>32, <2>1
         DEF Advance, OnlyMoves, Connected, is_reader, LockInv, Exclusive,
             Control
    <3>2. state'[r] = "READING" <=> r_states'[s] = "READING"
      BY <1>t, <1>p, <1>32, <2>1
         DEF Advance, LockInv, TypeOK, ReadType, AckInv, StatesAgree
    <3>3. w_state' = w_state /\ iread' = iread
      BY <1>32 DEF Advance
    <3> QED
      BY <2>2, <2>4, <3>1, <3>2, <3>3 DEF AckInv, StatesAgree
  <2>6. \/ /\ EODACK'[s] = EODACK[s] + 1 /\ SODACK'[s] = SODACK[s]
           /\ r_xfers'[s] = r_xfers[s] + 1 /\ ReadStarted(s)' = ReadStarted(s)
        \/ /\ EODACK'[s] = EODACK[s] /\ SODACK'[s] = SODACK[s]
           /\ r_xfers'[s] = r_xfers[s] /\ ReadStarted(s)' = ReadStarted(s)
    <3>1. r_states[s] = "READING"
      <4>1. state[r] = "READING"
        BY <1>p, <2>1 DEF LockInv, Control
      <4> QED
        BY <2>1, <4>1 DEF AckInv, StatesAgree
    <3>2. CASE AtEod(r)
      BY <1>p, <1>32, <2>1, <3>1, <3>2
         DEF Advance, Up, ReadStarted, LockInv, TypeOK, SemType, ReadType
    <3>3. CASE ~AtEod(r)
      BY <1>p, <1>32, <2>1, <3>1, <3>3 DEF Advance, ReadStarted
    <3> QED
      BY <3>2, <3>3
  <2>8. s' = s
    BY <1>32 DEF Advance
  <2> HIDE DEF s
  <2>7. \A t \in Slots : SodBalance(t)' /\ EodBalance(t)'
    <3>1. SUFFICES ASSUME NEW t \in Slots PROVE SodBalance(t)' /\ EodBalance(t)'
      OBVIOUS
    <3>2. SodBalance(t) /\ EodBalance(t)
      BY Balances DEF AckInv
    <3>3. /\ SodTaken(t)' = SodTaken(t) /\ EodTaken(t)' = EodTaken(t)
          /\ Started' = Started /\ w_xfer' = w_xfer
      BY <1>32, <2>2 DEF Advance, SodTaken, EodTaken, Started
    <3>6. /\ Started \in Nat /\ w_xfer \in Nat /\ XFERS \in Nat
          /\ SODACK[t] \in Nat /\ EODACK[t] \in Nat
          /\ r_xfers[t] \in Nat /\ ReadStarted(t) \in Nat
          /\ SodTaken(t) \in {0, 1} /\ EodTaken(t) \in {0, 1}
      BY <1>p, AckTypes, SizesAssumption
    <3>4. CASE t = s
      <4>1. \/ /\ EODACK'[t] = EODACK[t] + 1 /\ SODACK'[t] = SODACK[t]
               /\ r_xfers'[t] = r_xfers[t] + 1 /\ ReadStarted(t)' = ReadStarted(t)
            \/ /\ EODACK'[t] = EODACK[t] /\ SODACK'[t] = SODACK[t]
               /\ r_xfers'[t] = r_xfers[t] /\ ReadStarted(t)' = ReadStarted(t)
        BY <2>6, <2>8, <3>4
      <4>2. SodBalance(t)'
        BY <3>2, <3>3, <3>6, <4>1 DEF SodBalance
      <4>3. EodBalance(t)'
        BY <3>2, <3>3, <3>6, <4>1 DEF EodBalance
      <4> QED
        BY <4>2, <4>3
    <3>5. CASE t # s
      <4>1. ReadStarted(t)' = ReadStarted(t)
        BY <2>4, <3>5 DEF ReadStarted
      <4> QED
        BY <2>4, <3>2, <3>3, <3>5, <4>1 DEF SodBalance, EodBalance
    <3> QED
      BY <3>4, <3>5
  <2> QED
    BY <2>3, <2>5, <2>7 DEF Acks, AckAccounting, SodBalance, EodBalance
<1> QED
  BY <1>a, <1>1, <1>2, <1>3, <1>4, <1>5, <1>6, <1>7, <1>8, <1>9, <1>10, <1>11,
     <1>12, <1>13, <1>14, <1>15, <1>16, <1>17, <1>18, <1>19, <1>20, <1>21,
     <1>22, <1>23, <1>24, <1>25, <1>26, <1>27, <1>28, <1>29, <1>30, <1>31,
     <1>32
     DEF Next, WriterCall, WriterStep, ReaderWork

(* Initially nothing was started and every acknowledgement is free. *)
LEMMA AckInit == Init => AckInv
<1> SUFFICES ASSUME Init PROVE AckInv
  OBVIOUS
<1>1. LockInv
  BY LockInit
<1>2. \A w \in Writers : pc[w] = "idle" /\ state[w] = "VIEWER" /\ op[w] = "none"
  BY DEF Init, Procs
<1>3. \A r \in Readers : ~Connected(r)
  BY DEF Init, Procs, Connected, is_reader, ReaderStates
<1>4. StatesAgree /\ NeverReset
  BY <1>2, <1>3 DEF StatesAgree, NeverReset, Resetting
<1>5. AckAccounting
  BY <1>2, SizesAssumption
     DEF Init, AckAccounting, SodTaken, EodTaken, Started,
                               ReadStarted
<1> QED
  BY <1>1, <1>4, <1>5 DEF AckInv

(* AckInv holds in every reachable state when ipcbuf_reset is not called. *)
THEOREM AckInvariant ==
  ASSUME MaxReset = 0
  PROVE  Spec => []AckInv
<1>1. AckInv /\ [Next]_vars => AckInv'
  BY TypeStep, LockStep, AckStep DEF AckInv, Acks, LockInv, Locking
<1> QED
  BY AckInit, <1>1, PTL DEF Spec

(* At every point of ipcbuf_enable_sod, ipcbuf_mark_filled,                    *)
(* ipcbuf_get_next_read and ipcbuf_mark_cleared, and in every interleaving of  *)
(* the writer with any number of readers, SODACK and EODACK of a slot are the  *)
(* transfers that may still be started and ended.                             *)
THEOREM AcksCount ==
  ASSUME MaxReset = 0
  PROVE  Spec => []AckAccounting
<1>1. AckInv => AckAccounting
  BY DEF AckInv
<1> QED
  BY AckInvariant, <1>1, PTL

(* Hence the writer is never more than XFERS transfers ahead of a reader: the  *)
(* arrays s_buf, e_buf... of ipcsync_t cannot be overrun.                      *)
THEOREM ReadersNeverLapped ==
  ASSUME MaxReset = 0
  PROVE  Spec => []NeverLapped
<1>1. AckInv => NeverLapped
  <2> SUFFICES ASSUME AckInv, NEW s \in Slots
               PROVE  /\ Started <= ReadStarted(s) + XFERS
                      /\ w_xfer <= r_xfers[s] + XFERS
    BY DEF NeverLapped
  <2>1. SodBalance(s) /\ EodBalance(s)
    BY Balances DEF AckInv
  <2> QED
    BY <2>1, AckTypes, SizesAssumption DEF AckInv, SodBalance, EodBalance
<1> QED
  BY AckInvariant, <1>1, PTL
=============================================================================
