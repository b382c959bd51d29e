------------------------- MODULE RequestsRefinement -------------------------
(* Requests implements Calls. *)
EXTENDS Requests

\* A call is open from the request id it draws to its return; the answer is what
\* the reader has read for it once it has read the end.
CallStatus == [r \in ReqIDs |-> IF pc[r] = "none" THEN "idle"
                                ELSE IF pc[r] = "returned" THEN "returned"
                                ELSE "open"]
CallAnswer == [r \in ReqIDs |-> IF r \in ended THEN <<Items(r, sent[r])>> ELSE <<>>]

Abstract == INSTANCE Calls WITH
    Callers <- ReqIDs,
    Answers <- [r \in ReqIDs |-> {Items(r, n) : n \in 0 .. MaxItems}],
    status  <- CallStatus,
    result  <- outcome,
    answer  <- CallAnswer,
    down    <- closedDone # {}

\* Every call returns at most once, with success only if the server has ended
\* its answer, with all of that answer or none of it, with "disconnected" only
\* if a connection has ended, and with a send error only if the server never
\* saw the request (ib.go:142-255, request.go, state.go:69-95).
ImplementsCalls == Abstract!Spec
=============================================================================
