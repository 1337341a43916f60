---------------------------- MODULE IpcBufStream ----------------------------
(***************************************************************************)
(* The ring buffer implements BlockStream, and its semaphores conserve the   *)
(* blocks they count.                                                       *)
(***************************************************************************)
EXTENDS IpcBuf, Functions

ReaderAt(s, pcs) == \E r \in Readers : iread[r] = s /\ pc[r] \in pcs

(* The last block of transfer n, if the writer has ended it. *)
TrueLast(n, b) == n <= Len(ended) /\ ended[n].buf = b

(* The abstract position of slot s.  A block that was cleared is behind the   *)
(* reader although ipcbuf_mark_cleared has not yet moved r_bufs.              *)
StreamNext(s) ==
  LET n == r_xfers[s] + 1 IN
  CASE Resetting -> [xfer |-> Len(ended) + 1, buf |-> -1]
    [] ~Resetting /\ ReaderAt(s, {"cleared"}) ->
         IF TrueLast(n, r_bufs[s]) THEN [xfer |-> n + 1, buf |-> -1]
                                   ELSE [xfer |-> n, buf |-> r_bufs[s] + 1]
    [] OTHER ->
         [xfer |-> n,
          buf |-> IF r_states[s] = "READING"
                     /\ ~(ReaderAt(s, {"bytes", "hold"})
                          /\ started[n].buf = r_bufs[s])
                  THEN r_bufs[s] ELSE -1]

StreamView(s) ==
  IF \E r \in Readers : iread[r] = s /\ pc[r] = "hold"
    THEN LET r == CHOOSE q \in Readers : iread[q] = s /\ pc[q] = "hold"
         IN  [held |-> TRUE, xfer |-> r_xfers[s] + 1,
              data |-> mem[r_bufs[s] % NBufs], bytes |-> bytes[r]]
    ELSE [held |-> FALSE]

Stream == INSTANCE BlockStream WITH
  filled <- w_buf_curr,
  next <- [s \in Slots |-> StreamNext(s)],
  view <- [s \in Slots |-> StreamView(s)]

(* The ring buffer delivers to every reader what BlockStream promises. *)
StreamSpec == Stream!Spec

InHand(s) == IF ReaderAt(s, {"start", "bytes", "hold"}) THEN 1 ELSE 0

(* Tokens the writer has counted in count[] and not yet posted to FULL of s,  *)
(* or taken from CLEAR of s and not yet from count[].                         *)
InFlight(s) ==
  CASE \E w \in Writers : pc[w] = "sod_full" /\ s >= ir[w] ->
         w_buf_curr - started[Len(started)].buf
    [] \E w \in Writers : pc[w] = "full" /\ s >= ir[w] -> 1
    [] \E w \in Writers : pc[w] = "clear" /\ s < ir[w] -> 1
    [] OTHER -> 0

(* For every slot, each pending use of a ring slot that count[] records is    *)
(* exactly one token: waiting in FULL, in the hands of the reader, or         *)
(* waiting in CLEAR.  None is lost and none is made up.                       *)
TokensConserved ==
  \A s \in Slots :
    FULL[s] + InHand(s) + CLEAR[s] + InFlight(s)
      = FoldFunction(LAMBDA a, b : a + b, 0, count)
=============================================================================
