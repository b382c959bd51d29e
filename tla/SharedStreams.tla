--------------------------- MODULE SharedStreams ---------------------------
(***************************************************************************)
(* ReqPositions and ReqCompletedOrders: requests that carry no id.         *)
(*                                                                         *)
(* The server's answer to them names no request, so IB keys each call with *)
(* a synthetic negative id and remembers, per method, the id of the call   *)
(* made last (positionsReqID, completedReqID).  The reader attributes      *)
(* every item and every End message to that call.  The mutex that guards   *)
(* the id is held while the request is written, not until the answer.      *)
(*                                                                         *)
(* The connection stays up here: Requests models its loss.  Live           *)
(* executions are included because they carry the id -1, the first         *)
(* synthetic key.                                                          *)
(***************************************************************************)
EXTENDS Integers, Sequences, Functions, Loops

CONSTANTS
    Streams,     \* the methods in use
    MaxCalls,    \* bound: calls made in a behaviour
    MaxItems,    \* bound: items in one answer
    MaxFills,    \* bound: live executions
    SendMayFail  \* a request may fail to be written while the connection lives

AllStreams == {"positions", "completedOrders"}

ASSUME StreamsAssumption == Streams \subseteq AllStreams
ASSUME BoundsAssumption ==
    /\ MaxCalls \in Nat \ {0}
    /\ MaxItems \in Nat
    /\ MaxFills \in Nat
ASSUME SendAssumption == SendMayFail \in BOOLEAN

Keys   == (-MaxCalls) .. (-1)
Absent == 0              \* no call made yet: the zero value of both id fields
LiveID == -1             \* the reqId of an execDetails message nobody asked for

VARIABLES
    syntheticReqID,  \* IB.syntheticReqID
    pc,              \* pc[k]: where the goroutine of the call with key k is
    stream,          \* stream[k]: the method it called
    outcome,         \* outcome[k]: what the method returned
    mu,              \* mu[s]: the key of the call that holds the mutex, 0 if free
    active,          \* active[s]: positionsReqID, completedReqID
    pending,         \* keys of RequestMap.pending
    buf,             \* buf[k]: contents of the channel of call k, capacity 1
    Results,         \* Manager.Results; a nil entry is <<>>
    Positions,       \* contracts in Manager.Positions
    job,             \* the message in the reader's hands, once it holds the key
    fills,           \* live executions handled
    wire,            \* requests written and not yet seen by the server
    waiting,         \* waiting[s]: requests the server has seen and not answered
    listed,          \* listed[s]: items of the answer the server is sending
    answers          \* answers[s]: the answers that have been ended

callVars   == <<syntheticReqID, pc, stream, outcome>>
keyVars    == <<mu, active>>
stateVars  == <<pending, buf, Results, Positions>>
fillVars   == fills
serverVars == <<wire, waiting, listed, answers>>
vars == <<callVars, keyVars, stateVars, job, fillVars, serverVars>>

-----------------------------------------------------------------------------
(* Values *)

\* The n-th thing the server lists, and whether there is any left of it: a
\* position of zero means the contract is no longer held.
Entry == [n : 1 .. MaxItems, held : BOOLEAN]

\* A fill that strays into Results; no method returns it.
Fill == [n |-> 0, held |-> FALSE]

NoJob == [stream |-> "none", what |-> "none", key |-> Absent, entry |-> Fill]

\* What a method returns: an error, the contracts held, or a list of trades.
Failed(tag)   == [tag |-> tag, held |-> {}, trades |-> <<>>]
Contracts(cs) == [tag |-> "ok", held |-> cs, trades |-> <<>>]
Trades(ts)    == [tag |-> "ok", held |-> {}, trades |-> ts]
NoOutcome     == Failed("none")

\* The contracts an answer leaves in Positions.
Held(entries) == {e.n : e \in {x \in Range(entries) : x.held}}

Init ==
    /\ syntheticReqID = 0
    /\ pc = [k \in Keys |-> "none"]
    /\ stream = [k \in Keys |-> "none"]
    /\ outcome = [k \in Keys |-> NoOutcome]
    /\ mu = [s \in Streams |-> Absent]
    /\ active = [s \in Streams |-> Absent]
    /\ pending = {}
    /\ buf = [k \in Keys |-> <<>>]
    /\ Results = <<>>
    /\ Positions = {}
    /\ job = NoJob
    /\ fills = 0
    /\ wire = {}
    /\ waiting = [s \in Streams |-> {}]
    /\ listed = [s \in Streams |-> <<>>]
    /\ answers = [s \in Streams |-> {}]

-----------------------------------------------------------------------------
(* The callers *)

GoTo(k, l) == pc' = [pc EXCEPT ![k] = l]

Return(k, o) ==
    /\ GoTo(k, "returned")
    /\ outcome' = [outcome EXCEPT ![k] = o]

\* Under the method's mutex: draw a key, remember it as the one to answer, and
\* register it.  The mutex stays locked.
Register(s) ==
    /\ mu[s] = Absent
    /\ syntheticReqID > -MaxCalls
    /\ LET k == syntheticReqID - 1 IN
        /\ syntheticReqID' = k
        /\ GoTo(k, "send")
        /\ stream' = [stream EXCEPT ![k] = s]
        /\ mu' = [mu EXCEPT ![s] = k]
        /\ active' = [active EXCEPT ![s] = k]
        /\ Results' = [x \in DOMAIN Results \cup {k} |->
                          IF x = k THEN <<>> ELSE Results[x]]
        /\ pending' = pending \cup {k}
    /\ UNCHANGED <<outcome, buf, Positions, job, fillVars, serverVars>>

ReqPositions       == "positions" \in Streams /\ Register("positions")
ReqCompletedOrders == "completedOrders" \in Streams /\ Register("completedOrders")

\* Mutant: the mutex stays locked until the answer has come.
SendRequestLocked(k) ==
    /\ pc[k] = "send"
    /\ GoTo(k, "wait")
    /\ wire' = wire \cup {k}
    /\ UNCHANGED <<syntheticReqID, stream, outcome, keyVars, stateVars, job,
                   fillVars, waiting, listed, answers>>

\* The request is written; the mutex is released.
SendRequest(k) ==
    /\ pc[k] = "send"
    /\ GoTo(k, "wait")
    /\ mu' = [mu EXCEPT ![stream[k]] = Absent]
    /\ wire' = wire \cup {k}
    /\ UNCHANGED <<syntheticReqID, stream, outcome, active, stateVars, job,
                   fillVars, waiting, listed, answers>>

\* The write fails: RequestMap.Cancel, then the mutex is released.
SendFails(k) ==
    /\ SendMayFail
    /\ pc[k] = "send"
    /\ pending' = pending \ {k}
    /\ mu' = [mu EXCEPT ![stream[k]] = Absent]
    /\ Return(k, Failed("sendError"))
    /\ UNCHANGED <<syntheticReqID, stream, active, buf, Results, Positions, job,
                   fillVars, serverVars>>

\* case result := <-ch of ReqPositions: the answer is whatever GetPositions
\* finds now, not what came with the End message.
ReceivePositions(k) ==
    /\ pc[k] = "wait" /\ stream[k] = "positions"
    /\ buf[k] # <<>>
    /\ buf' = [buf EXCEPT ![k] = <<>>]
    /\ Return(k, Contracts(Positions))
    /\ UNCHANGED <<syntheticReqID, stream, keyVars, pending, Results, Positions,
                   job, fillVars, serverVars>>

\* case result := <-ch of ReqCompletedOrders: the accumulated trades, anything
\* that is not a trade left out.
ReceiveCompletedOrders(k) ==
    /\ pc[k] = "wait" /\ stream[k] = "completedOrders"
    /\ buf[k] # <<>>
    /\ buf' = [buf EXCEPT ![k] = <<>>]
    /\ Return(k, Trades(Kept(buf[k][1], Entry)))
    /\ UNCHANGED <<syntheticReqID, stream, keyVars, pending, Results, Positions,
                   job, fillVars, serverVars>>

\* case <-ctx.Done(): RequestMap.Cancel; the Results entry stays.
ContextExpires(k) ==
    /\ pc[k] = "wait"
    /\ pending' = pending \ {k}
    /\ Return(k, Failed("ctx"))
    /\ UNCHANGED <<syntheticReqID, stream, keyVars, buf, Results, Positions, job,
                   fillVars, serverVars>>

-----------------------------------------------------------------------------
(* The server.  What src/ says of it: the answer to a request of one kind  *)
(* is a list of items and one End, for all the requests of that kind that  *)
(* are outstanding.                                                        *)

RequestArrives(k) ==
    /\ k \in wire
    /\ wire' = wire \ {k}
    /\ waiting' = [waiting EXCEPT ![stream[k]] = @ \cup {k}]
    /\ UNCHANGED <<callVars, keyVars, stateVars, job, fillVars, listed, answers>>

\* The reader goroutine is between two messages.
Idle == job = NoJob

\* The next message is an item of the answer to the requests of stream s.
ListItem(s, e) ==
    /\ Idle
    /\ waiting[s] # {}
    /\ e.n = Len(listed[s]) + 1
    /\ listed' = [listed EXCEPT ![s] = Append(@, e)]
    /\ UNCHANGED <<wire, waiting, answers>>

\* The next message ends it.
EndAnswer(s) ==
    /\ Idle
    /\ waiting[s] # {}
    /\ waiting' = [waiting EXCEPT ![s] = {}]
    /\ answers' = [answers EXCEPT ![s] = @ \cup {listed[s]}]
    /\ listed' = [listed EXCEPT ![s] = <<>>]
    /\ UNCHANGED wire

-----------------------------------------------------------------------------
(* The reader goroutine.  A handler that needs the active key waits for    *)
(* the mutex of its stream, reads the key and releases the mutex (Attend), *)
(* then acts on the key it read.                                           *)

\* handlePosition touches no request.
handlePosition ==
    /\ "positions" \in Streams
    /\ \E e \in Entry :
        /\ ListItem("positions", e)
        /\ Positions' = IF e.held THEN Positions \cup {e.n}
                                  ELSE Positions \ {e.n}
    /\ UNCHANGED <<callVars, keyVars, pending, buf, Results, job, fillVars>>

\* The message is decoded and the handler has yet to lock the mutex.
Take(s, what, e) ==
    /\ job' = [stream |-> s, what |-> what, key |-> Absent, entry |-> e]
    /\ UNCHANGED <<callVars, keyVars, stateVars, fillVars>>

handlePositionEnd ==
    /\ "positions" \in Streams
    /\ EndAnswer("positions")
    /\ Take("positions", "lockEnd", Fill)

handleCompletedOrder ==
    /\ "completedOrders" \in Streams
    /\ \E e \in Entry :
        /\ e.held
        /\ ListItem("completedOrders", e)
        /\ Take("completedOrders", "lockItem", e)

\* Mutant: the End of one method completes the call of the other.
handleCompletedOrdersEndCrossed ==
    /\ Streams = AllStreams
    /\ EndAnswer("completedOrders")
    /\ Take("positions", "lockEnd", Fill)

handleCompletedOrdersEnd ==
    /\ "completedOrders" \in Streams
    /\ EndAnswer("completedOrders")
    /\ Take("completedOrders", "lockEnd", Fill)

\* Lock, read the key, unlock; "if key != 0".
Attend ==
    /\ job.what \in {"lockItem", "lockEnd"}
    /\ mu[job.stream] = Absent
    /\ LET key == active[job.stream] IN
        job' = IF key = Absent
               THEN NoJob
               ELSE [job EXCEPT !.key = key,
                                !.what = IF @ = "lockItem" THEN "item" ELSE "end"]
    /\ UNCHANGED <<callVars, keyVars, stateVars, fillVars, serverVars>>

\* Manager.AppendResult: a key without an entry is ignored.
Appended(key, e) ==
    IF key \in DOMAIN Results THEN [Results EXCEPT ![key] = Append(@, e)]
                              ELSE Results

AppendResult ==
    /\ job.what = "item"
    /\ Results' = Appended(job.key, job.entry)
    /\ job' = NoJob
    /\ UNCHANGED <<callVars, keyVars, pending, buf, Positions, fillVars,
                   serverVars>>

\* Manager.EndReq and RequestMap.Complete.
EndReq ==
    /\ job.what = "end"
    /\ Results' = Restrict(Results, DOMAIN Results \ {job.key})
    /\ pending' = pending \ {job.key}
    /\ buf' = IF job.key \in pending
              THEN [buf EXCEPT ![job.key] =
                       <<IF job.key \in DOMAIN Results THEN Results[job.key]
                                                       ELSE <<>> >>]
              ELSE buf
    /\ job' = NoJob
    /\ UNCHANGED <<callVars, keyVars, Positions, fillVars, serverVars>>

\* An execution of a known trade that nobody asked for.  It is announced on
\* ExecDetailsEvent and FillEvent if it is live, and else taken for a part of
\* the answer to the call whose key it shares.
handleExecDetails ==
    /\ Idle
    /\ fills < MaxFills
    /\ fills' = fills + 1
    /\ LET isLive == LiveID \notin pending IN
        Results' = IF isLive THEN Results ELSE Appended(LiveID, Fill)
    /\ UNCHANGED <<callVars, keyVars, pending, buf, Positions, job, serverVars>>

-----------------------------------------------------------------------------
CallerStep(k) ==
    \/ SendRequest(k) \/ SendFails(k)
    \/ ReceivePositions(k) \/ ReceiveCompletedOrders(k)

Items == handlePosition \/ handleCompletedOrder
Ends  == handlePositionEnd \/ handleCompletedOrdersEnd
ReaderStep == Attend \/ AppendResult \/ EndReq

Next ==
    \/ ReqPositions \/ ReqCompletedOrders
    \/ \E k \in Keys : CallerStep(k) \/ ContextExpires(k) \/ RequestArrives(k)
    \/ Items \/ Ends \/ ReaderStep
    \/ handleExecDetails

Spec == Init /\ [][Next]_vars

(***************************************************************************)
(* A goroutine that can run is run, and the server reads and answers what  *)
(* it is sent.  Nothing makes the user call or a context expire.           *)
(***************************************************************************)
Fairness ==
    /\ \A k \in Keys : WF_vars(CallerStep(k)) /\ WF_vars(RequestArrives(k))
    /\ WF_vars(ReaderStep)
    /\ WF_vars(handlePositionEnd)
    /\ WF_vars(handleCompletedOrdersEnd)

FairSpec == Spec /\ Fairness

-----------------------------------------------------------------------------
(* Properties *)

\* The answer the server gave to a call's stream, as the call returned it.
IsAnswer(k) ==
    \E a \in answers[stream[k]] :
        outcome[k] = IF stream[k] = "positions" THEN Contracts(Held(a))
                                                ELSE Trades(a)

\* No other call of the same method was ever made.
Sole(k) == \A j \in Keys \ {k} : stream[j] # stream[k]

\* A call that succeeds without ever sharing its method with another call
\* returns one whole answer of the server: neither a part of it, nor what the
\* other method was sent, nor a fill.
SoleAnswerWhole ==
    \A k \in Keys : outcome[k].tag = "ok" /\ Sole(k) => IsAnswer(k)

\* The call registered last is answered, unless a newer one takes its place:
\* no reader, caller or mutex holder waits for the others for ever.
NewestReturns ==
    \A k \in Keys :
        pc[k] = "wait" ~> \/ pc[k] = "returned"
                          \/ \E s \in Streams : stream[k] = s /\ active[s] # k

\* Every call whose request was written returns: the End the server sends for
\* all outstanding requests answers all of them.
EveryCallReturns ==
    \A k \in Keys : pc[k] = "wait" ~> pc[k] = "returned"

============================================================================
