----------------------------- MODULE BlockStream -----------------------------
(***************************************************************************)
(* What the Data Block promises, without rings, counters or semaphores:     *)
(* every reader receives every transfer, in order, each from its start of   *)
(* data to its end of data, one block at a time, with every block's own data *)
(* and its true size, and only after the block was filled.                   *)
(***************************************************************************)
EXTENDS Integers, Sequences

CONSTANTS Slots, BufSz

VARIABLES
  filled,    \* the number of blocks filled so far
  started,   \* where each transfer starts
  ended,     \* where each transfer ends
  next,      \* the next transfer, and block of it, for each reader
  view       \* the block each reader holds

vars == <<filled, started, ended, next, view>>

None == [held |-> FALSE]
AtStart(n) == [xfer |-> n, buf |-> -1]

Init ==
  /\ filled = 0
  /\ started = <<>> /\ ended = <<>>
  /\ next = [s \in Slots |-> AtStart(1)]
  /\ view = [s \in Slots |-> None]

Start ==
  /\ Len(started) = Len(ended)
  /\ \E b \in 0 .. filled, y \in 0 .. BufSz :
       started' = Append(started, [buf |-> b, byte |-> y])
  /\ UNCHANGED <<filled, ended, next, view>>

Fill ==
  /\ filled' = filled + 1
  /\ UNCHANGED <<started, ended, next, view>>

End ==
  /\ Len(ended) < Len(started)
  /\ \E y \in 0 .. BufSz :
       ended' = Append(ended, [buf |-> filled, byte |-> y])
  /\ UNCHANGED <<filled, started, next, view>>

(* The block reader s is due, and what the transfer owns of it. *)
Due(s) == IF next[s].buf = -1 THEN started[next[s].xfer].buf ELSE next[s].buf

IsLast(n, b) == n <= Len(ended) /\ ended[n].buf = b

Share(n, b) ==
  (IF IsLast(n, b) THEN ended[n].byte ELSE BufSz)
    - (IF b = started[n].buf THEN started[n].byte ELSE 0)

Take(s) ==
  LET n == next[s].xfer
      b == Due(s)
  IN
  /\ view[s] = None
  /\ n <= Len(started)
  /\ b < filled
  /\ view' = [view EXCEPT ![s] =
       [held |-> TRUE, xfer |-> n, data |-> b, bytes |-> Share(n, b)]]
  /\ UNCHANGED <<filled, started, ended, next>>

Release(s) ==
  LET n == next[s].xfer
      b == Due(s)
  IN
  /\ view[s] # None
  /\ view' = [view EXCEPT ![s] = None]
  /\ next' = [next EXCEPT ![s] =
       IF IsLast(n, b) THEN AtStart(n + 1) ELSE [xfer |-> n, buf |-> b + 1]]
  /\ UNCHANGED <<filled, started, ended>>

(* Once everything has been read the writer may count from zero again. *)
Reset ==
  /\ Len(started) = Len(ended)
  /\ \A s \in Slots : view[s] = None /\ next[s] = AtStart(Len(ended) + 1)
  /\ Init'

Next ==
  \/ Start \/ Fill \/ End \/ Reset
  \/ \E s \in Slots : Take(s) \/ Release(s)

Spec == Init /\ [][Next]_vars
=============================================================================
