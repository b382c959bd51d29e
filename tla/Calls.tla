------------------------------- MODULE Calls --------------------------------
(***************************************************************************)
(* What a caller of a Req... method is promised, without request ids, maps *)
(* and channels: the call returns at most once, and what it returns is     *)
(* backed by something that happened.  Requests implements it.             *)
(***************************************************************************)
CONSTANTS
    Callers,   \* the calls
    Answers    \* Answers[c]: the complete answers the server may give to c

VARIABLES
    status,    \* status[c]: "idle", "open" or "returned"
    result,    \* result[c]: what the method returned
    answer,    \* answer[c]: <<a>> once the server has given answer a, else <<>>
    down       \* some connection has ended

vars == <<status, result, answer, down>>

None == [tag |-> "none", val |-> <<>>]

Init ==
    /\ status = [c \in Callers |-> "idle"]
    /\ result = [c \in Callers |-> None]
    /\ answer = [c \in Callers |-> <<>>]
    /\ down = FALSE

Call(c) ==
    /\ status[c] = "idle"
    /\ status' = [status EXCEPT ![c] = "open"]
    /\ UNCHANGED <<result, answer, down>>

\* The server answers once, also a caller that has given up; it has nothing to
\* answer if the request could not be sent.
Answer(c) ==
    /\ status[c] # "idle"
    /\ answer[c] = <<>>
    /\ result[c].tag # "sendError"
    /\ \E a \in Answers[c] : answer' = [answer EXCEPT ![c] = <<a>>]
    /\ UNCHANGED <<status, result, down>>

ConnectionEnds ==
    /\ down' = TRUE
    /\ UNCHANGED <<status, result, answer>>

Return(c, res) ==
    /\ status[c] = "open"
    /\ status' = [status EXCEPT ![c] = "returned"]
    /\ result' = [result EXCEPT ![c] = res]
    /\ UNCHANGED <<answer, down>>

\* Success takes an answer; its data is all there, or (after a Reset) missing.
Succeed(c) ==
    /\ answer[c] # <<>>
    /\ \E val \in {<<>>, answer[c][1]} : Return(c, [tag |-> "ok", val |-> val])

Error(tag) == [tag |-> tag, val |-> <<>>]

Fail(c) ==
    \/ Return(c, Error("apiError"))
    \/ Return(c, Error("ctx"))
    \/ down /\ Return(c, Error("disconnected"))
    \/ answer[c] = <<>> /\ Return(c, Error("sendError"))

Next ==
    \/ \E c \in Callers : Call(c) \/ Answer(c) \/ Succeed(c) \/ Fail(c)
    \/ ConnectionEnds

Spec == Init /\ [][Next]_vars
=============================================================================
