------------------------------ MODULE Requests ------------------------------
(***************************************************************************)
(* Request-response matching of the IB client.                             *)
(*                                                                         *)
(* Three kinds of goroutine meet here: the callers of the public Req...    *)
(* methods, the one reader goroutine (protocol.Client.readLoop), and the   *)
(* one that tears the connection down (the loop of ConnectWithReconnect,   *)
(* or the user's Disconnect).  They share state.Manager (Results,          *)
(* ReqID2Contract), its RequestMap of one-shot channels, and the           *)
(* connection's done channel.                                              *)
(*                                                                         *)
(* A step of the model is what the code does under one lock, or one access *)
(* to a shared variable where the code takes no lock.                      *)
(***************************************************************************)
EXTENDS Integers, Sequences, Functions

CONSTANTS
    MaxReq,          \* bound: calls made in a behaviour
    MaxItems,        \* bound: partial results the server sends per request
    MaxConn,         \* bound: Connect attempts in a behaviour
    Kinds,           \* the public methods the callers use
    Reconnect,       \* the connection is run by ConnectWithReconnect
    UserDisconnect   \* some goroutine may call IB.Disconnect

AllKinds == {"ContractDetails", "AccountSummary", "SecDefOptParams",
             "HistoricalData"}

ASSUME BoundsAssumption ==
    /\ MaxReq \in Nat \ {0}
    /\ MaxItems \in Nat
    /\ MaxConn \in Nat \ {0}
ASSUME KindsAssumption == Kinds \subseteq AllKinds
ASSUME ModesAssumption == Reconnect \in BOOLEAN /\ UserDisconnect \in BOOLEAN

ReqIDs == 1 .. MaxReq
Conns  == 1 .. MaxConn

VARIABLES
    \* the callers; a call is named by the request id it draws
    seq,             \* Client.reqIDSeq
    pc,              \* pc[r]: where the goroutine that made call r is
    kind,            \* kind[r]: the method it called
    outcome,         \* outcome[r]: what the method returned
    via,             \* via[r]: the socket the request was written to, 0 if none
    watch,           \* watch[r]: the done channel its select watches
    \* state.Manager and RequestMap
    pending,         \* keys of RequestMap.pending
    buf,             \* buf[r]: contents of the channel made by Start, capacity 1
    closed,          \* the channels that have been closed
    Results,         \* Manager.Results; a nil entry is <<>>
    ReqID2Contract,  \* keys of Manager.ReqID2Contract
    \* the goroutines that answer or abandon calls
    rpc,             \* where the reader goroutine is
    job,             \* arguments of the handler call in progress
    rdrain,          \* channels the reader's DrainAll has still to answer
    lpc,             \* where the ConnectWithReconnect loop is
    ldrain,          \* channels the loop's DrainAll has still to answer
    upc,             \* where the goroutine in Disconnect is
    \* the connection
    conn,            \* number of the last Connect; Client.done is done channel conn
    sock,            \* Connection.conn: the Connect that dialled it, 0 is nil
    alive,           \* the peer of the last dialled socket is still there
    closedDone,      \* the done channels that have been closed
    \* the server
    sent,            \* sent[r]: partial results the reader has read for r
    ended            \* requests whose End message the reader has read

callVars   == <<seq, pc, kind, outcome, via, watch>>
chanVars   == <<pending, buf, closed>>
resultVars == <<Results, ReqID2Contract>>
readerVars == <<rpc, job, rdrain>>
loopVars   == <<lpc, ldrain>>
connVars   == <<conn, sock, alive, closedDone>>
serverVars == <<sent, ended>>
vars == <<callVars, chanVars, resultVars, readerVars, loopVars, upc, connVars,
          serverVars>>

-----------------------------------------------------------------------------
(* Values *)

\* The i-th partial result the server sends for request r.
Item(r, i) == <<r, i>>
\* The first n of them, in the order they were sent.
Items(r, n) == [i \in 1 .. n |-> Item(r, i)]

Values == Seq(ReqIDs \X (1 .. MaxItems))

NoErr == "nil"
Errors == {NoErr, "apiError", "disconnected"}

\* state.Result
Result == [val : Values, err : Errors]
ZeroResult == [val |-> <<>>, err |-> NoErr]

Tags == {"none", "ok", "apiError", "disconnected", "ctx", "sendError"}
Outcome == [tag : Tags, val : Values]

NoOutcome == [tag |-> "none", val |-> <<>>]
NoJob     == [req |-> 1, val |-> <<>>, err |-> NoErr]

CallerPC == {"none", "track", "register", "send", "select", "wait",
             "cancelSend", "cancelCtx", "returned"}
ReaderPC == {"read", "append", "endReq", "complete", "deliver", "exit",
             "swap", "drain", "down"}
LoopPC   == {"off", "wait", "swap", "drain", "reset", "connect", "dial",
             "handshake", "closeDone"}
UserPC   == {"idle", "closeDone", "reset"}

-----------------------------------------------------------------------------
(* New and a first successful Connect.                                     *)

Init ==
    /\ seq = 1
    /\ pc = [r \in ReqIDs |-> "none"]
    /\ kind = [r \in ReqIDs |-> "none"]
    /\ outcome = [r \in ReqIDs |-> NoOutcome]
    /\ via = [r \in ReqIDs |-> 0]
    /\ watch = [r \in ReqIDs |-> 0]
    /\ pending = {}
    /\ buf = [r \in ReqIDs |-> <<>>]
    /\ closed = {}
    /\ Results = <<>>
    /\ ReqID2Contract = {}
    /\ rpc = "read"
    /\ job = NoJob
    /\ rdrain = {}
    /\ lpc = IF Reconnect THEN "wait" ELSE "off"
    /\ ldrain = {}
    /\ upc = "idle"
    /\ conn = 1
    /\ sock = 1
    /\ alive = TRUE
    /\ closedDone = {}
    /\ sent = [r \in ReqIDs |-> 0]
    /\ ended = {}

-----------------------------------------------------------------------------
(* The callers *)

GoTo(r, l) == pc' = [pc EXCEPT ![r] = l]

Return(r, tag, val) ==
    /\ GoTo(r, "returned")
    /\ outcome' = [outcome EXCEPT ![r] = [tag |-> tag, val |-> val]]

\* GetReqID, then StartReq up to the end of its Mu section: a request made
\* for a contract is remembered in ReqID2Contract.
Begin(k, hasContract) ==
    /\ seq \in ReqIDs
    /\ k \in Kinds
    /\ seq' = seq + 1
    /\ kind' = [kind EXCEPT ![seq] = k]
    /\ GoTo(seq, "track")
    /\ ReqID2Contract' = ReqID2Contract \cup (IF hasContract THEN {seq} ELSE {})
    /\ UNCHANGED <<outcome, via, watch, chanVars, Results, readerVars,
                   loopVars, upc, connVars, serverVars>>

ReqContractDetails == Begin("ContractDetails", TRUE)
ReqAccountSummary  == Begin("AccountSummary", FALSE)
ReqSecDefOptParams == Begin("SecDefOptParams", FALSE)
ReqHistoricalData  == Begin("HistoricalData", TRUE)

\* StartReq: m.Results[reqID] = nil, outside Mu.
StartReq(r) ==
    /\ pc[r] = "track"
    /\ GoTo(r, "register")
    /\ Results' = [k \in DOMAIN Results \cup {r} |->
                     IF k = r THEN <<>> ELSE Results[k]]
    /\ UNCHANGED <<seq, kind, outcome, via, watch, chanVars, ReqID2Contract,
                   readerVars, loopVars, upc, connVars, serverVars>>

\* Mutant: registers under the counter instead of the id this call drew.
StartUnderNextID(r) ==
    /\ pc[r] = "register"
    /\ GoTo(r, "send")
    /\ pending' = pending \cup {seq}
    /\ UNCHANGED <<seq, kind, outcome, via, watch, buf, closed, resultVars,
                   readerVars, loopVars, upc, connVars, serverVars>>

\* RequestMap.Start: the key is fresh, so nothing is overwritten.
Start(r) ==
    /\ pc[r] = "register"
    /\ GoTo(r, "send")
    /\ pending' = pending \cup {r}
    /\ UNCHANGED <<seq, kind, outcome, via, watch, buf, closed, resultVars,
                   readerVars, loopVars, upc, connVars, serverVars>>

\* Client.Send: a write to a socket whose peer is gone may still succeed.
SendMessage(r) ==
    /\ pc[r] = "send"
    /\ sock # 0
    /\ GoTo(r, "select")
    /\ via' = [via EXCEPT ![r] = sock]
    /\ UNCHANGED <<seq, kind, outcome, watch, chanVars, resultVars, readerVars,
                   loopVars, upc, connVars, serverVars>>

SendFails(r) ==
    /\ pc[r] = "send"
    /\ sock = 0 \/ ~alive
    /\ GoTo(r, "cancelSend")
    /\ UNCHANGED <<seq, kind, outcome, via, watch, chanVars, resultVars,
                   readerVars, loopVars, upc, connVars, serverVars>>

\* Mutant: watches the channel NewClient made instead of the current one.
DoneOfNewClient(r) ==
    /\ pc[r] = "select"
    /\ GoTo(r, "wait")
    /\ watch' = [watch EXCEPT ![r] = 0]
    /\ UNCHANGED <<seq, kind, outcome, via, chanVars, resultVars, readerVars,
                   loopVars, upc, connVars, serverVars>>

\* Entering the select evaluates Client.Done() once.
Done(r) ==
    /\ pc[r] = "select"
    /\ GoTo(r, "wait")
    /\ watch' = [watch EXCEPT ![r] = conn]
    /\ UNCHANGED <<seq, kind, outcome, via, chanVars, resultVars, readerVars,
                   loopVars, upc, connVars, serverVars>>

\* Mutant: does not look at the error of the result.
ReceiveResultIgnoresErr(r) ==
    /\ pc[r] = "wait"
    /\ buf[r] # <<>> \/ r \in closed
    /\ Return(r, "ok", IF buf[r] = <<>> THEN <<>> ELSE buf[r][1].val)
    /\ buf' = [buf EXCEPT ![r] = <<>>]
    /\ UNCHANGED <<seq, kind, via, watch, pending, closed, resultVars,
                   readerVars, loopVars, upc, connVars, serverVars>>

\* case result := <-ch.  A closed, empty channel yields the zero Result, which
\* every method reports as success without data.
ReceiveResult(r) ==
    /\ pc[r] = "wait"
    /\ buf[r] # <<>> \/ r \in closed
    /\ LET res == IF buf[r] = <<>> THEN ZeroResult ELSE buf[r][1] IN
       IF res.err = NoErr THEN Return(r, "ok", res.val)
                          ELSE Return(r, res.err, <<>>)
    /\ buf' = [buf EXCEPT ![r] = <<>>]
    /\ UNCHANGED <<seq, kind, via, watch, pending, closed, resultVars,
                   readerVars, loopVars, upc, connVars, serverVars>>

\* case <-ib.client.Done()
ReturnDisconnected(r) ==
    /\ pc[r] = "wait"
    /\ watch[r] \in closedDone
    /\ Return(r, "disconnected", <<>>)
    /\ UNCHANGED <<seq, kind, via, watch, chanVars, resultVars, readerVars,
                   loopVars, upc, connVars, serverVars>>

\* case <-ctx.Done()
ContextExpires(r) ==
    /\ pc[r] = "wait"
    /\ GoTo(r, "cancelCtx")
    /\ UNCHANGED <<seq, kind, outcome, via, watch, chanVars, resultVars,
                   readerVars, loopVars, upc, connVars, serverVars>>

\* RequestMap.Cancel and the return that follows it.  Results and
\* ReqID2Contract keep their entries.
Cancel(r) ==
    /\ pc[r] \in {"cancelSend", "cancelCtx"}
    /\ pending' = pending \ {r}
    /\ closed' = IF r \in pending THEN closed \cup {r} ELSE closed
    /\ Return(r, IF pc[r] = "cancelCtx" THEN "ctx" ELSE "sendError", <<>>)
    /\ UNCHANGED <<seq, kind, via, watch, buf, resultVars, readerVars, loopVars,
                   upc, connVars, serverVars>>

-----------------------------------------------------------------------------
(* The reader goroutine.  Messages are chosen when they are read: the      *)
(* server answers only requests written to the socket the reader reads,    *)
(* may repeat an End or an error, and sends no partial result after End.   *)

Readable(r) == rpc = "read" /\ via[r] = conn

\* The goroutine goes back to ReadMessage, which fails at once without a socket.
NextMessage == rpc' = IF sock = 0 THEN "exit" ELSE "read"

\* A partial result: AppendResult up to its read of Results[reqID].
AppendResult(r) ==
    /\ Readable(r)
    /\ r \notin ended
    /\ sent[r] < MaxItems
    /\ sent' = [sent EXCEPT ![r] = @ + 1]
    /\ IF r \in DOMAIN Results
       THEN /\ rpc' = "append"
            /\ job' = [req |-> r, err |-> NoErr,
                       val |-> Append(Results[r], Item(r, sent'[r]))]
       ELSE NextMessage /\ UNCHANGED job
    /\ UNCHANGED <<callVars, chanVars, resultVars, rdrain, loopVars, upc,
                   connVars, ended>>

handleContractDetails(r) == kind[r] = "ContractDetails" /\ AppendResult(r)
handleAccountSummary(r)  == kind[r] = "AccountSummary" /\ AppendResult(r)
handleSecDefOptParams(r) == kind[r] = "SecDefOptParams" /\ AppendResult(r)

\* Mutant: stores the new item alone, losing those before it.
AppendStoreForgets ==
    /\ rpc = "append"
    /\ Results' = [k \in DOMAIN Results \cup {job.req} |->
                     IF k = job.req THEN <<job.val[Len(job.val)]>>
                                    ELSE Results[k]]
    /\ NextMessage
    /\ UNCHANGED <<callVars, chanVars, ReqID2Contract, job, rdrain, loopVars,
                   upc, connVars, serverVars>>

\* AppendResult: the write of Results[reqID].
AppendStore ==
    /\ rpc = "append"
    /\ Results' = [k \in DOMAIN Results \cup {job.req} |->
                     IF k = job.req THEN job.val ELSE Results[k]]
    /\ NextMessage
    /\ UNCHANGED <<callVars, chanVars, ReqID2Contract, job, rdrain, loopVars,
                   upc, connVars, serverVars>>

\* The call EndReq(r, val, err); End(r) for the messages that carry no value.
CallEndReq(r, val, err) ==
    /\ rpc' = "endReq"
    /\ job' = [req |-> r, val |-> val, err |-> err]
    /\ UNCHANGED <<callVars, chanVars, resultVars, rdrain, loopVars, upc,
                   connVars>>

End(r) ==
    /\ Readable(r)
    /\ ended' = ended \cup {r}
    /\ CallEndReq(r, <<>>, NoErr)
    /\ UNCHANGED sent

handleContractDetailsEnd(r) == kind[r] = "ContractDetails" /\ End(r)
handleAccountSummaryEnd(r)  == kind[r] = "AccountSummary" /\ End(r)
handleSecDefOptParamsEnd(r) == kind[r] = "SecDefOptParams" /\ End(r)

\* One message carries all the bars, and ends the request.
handleHistoricalData(r) ==
    /\ kind[r] = "HistoricalData"
    /\ Readable(r)
    /\ r \notin ended
    /\ \E n \in 0 .. MaxItems :
          /\ sent' = [sent EXCEPT ![r] = n]
          /\ CallEndReq(r, Items(r, n), NoErr)
    /\ ended' = ended \cup {r}

\* An error (outside the warning codes) for a request that is still pending;
\* any other error message only raises ErrorEvent.
handleError(r) ==
    /\ Readable(r)
    /\ r \in pending
    /\ CallEndReq(r, <<>>, "apiError")
    /\ UNCHANGED serverVars

\* Mutant: does not fall back to the accumulated results.
EndReqWithoutResults ==
    /\ rpc = "endReq"
    /\ rpc' = "complete"
    /\ Results' = Restrict(Results, DOMAIN Results \ {job.req})
    /\ ReqID2Contract' = ReqID2Contract \ {job.req}
    /\ UNCHANGED <<callVars, chanVars, job, rdrain, loopVars, upc, connVars,
                   serverVars>>

\* Mutant: keeps the accumulated results.
EndReqKeepsResults ==
    /\ rpc = "endReq"
    /\ rpc' = "complete"
    /\ job' = [job EXCEPT !.val = IF @ = <<>> /\ job.req \in DOMAIN Results
                                  THEN Results[job.req] ELSE @]
    /\ ReqID2Contract' = ReqID2Contract \ {job.req}
    /\ UNCHANGED <<callVars, chanVars, Results, rdrain, loopVars, upc, connVars,
                   serverVars>>

\* EndReq, its Mu section: the accumulated results become the value unless
\* the handler gave one.
EndReq ==
    /\ rpc = "endReq"
    /\ rpc' = "complete"
    /\ job' = [job EXCEPT !.val = IF @ = <<>> /\ job.req \in DOMAIN Results
                                  THEN Results[job.req] ELSE @]
    /\ Results' = Restrict(Results, DOMAIN Results \ {job.req})
    /\ ReqID2Contract' = ReqID2Contract \ {job.req}
    /\ UNCHANGED <<callVars, chanVars, rdrain, loopVars, upc, connVars,
                   serverVars>>

\* Mutant: forgets the request without answering it.
CompleteDrops ==
    /\ rpc = "complete"
    /\ pending' = pending \ {job.req}
    /\ NextMessage
    /\ UNCHANGED <<callVars, buf, closed, resultVars, job, rdrain, loopVars,
                   upc, connVars, serverVars>>

\* RequestMap.Complete, its locked part.
Complete ==
    /\ rpc = "complete"
    /\ pending' = pending \ {job.req}
    /\ IF job.req \in pending THEN rpc' = "deliver" ELSE NextMessage
    /\ UNCHANGED <<callVars, buf, closed, resultVars, job, rdrain, loopVars,
                   upc, connVars, serverVars>>

\* ch <- result; close(ch).  The send would block on a full channel.
Deliver(r, res) ==
    /\ buf[r] = <<>>
    /\ buf' = [buf EXCEPT ![r] = <<res>>]
    /\ closed' = closed \cup {r}

\* RequestMap.Complete, after the unlock.
CompleteSend ==
    /\ rpc = "deliver"
    /\ Deliver(job.req, [val |-> job.val, err |-> job.err])
    /\ NextMessage
    /\ UNCHANGED <<callVars, pending, resultVars, job, rdrain, loopVars, upc,
                   connVars, serverVars>>

\* ReadMessage returns an error: the peer is gone or the socket was closed.
ReadFails ==
    /\ rpc = "read"
    /\ ~alive \/ sock = 0
    /\ rpc' = "exit"
    /\ UNCHANGED <<callVars, chanVars, resultVars, job, rdrain, loopVars, upc,
                   connVars, serverVars>>

\* The deferred function of readLoop: closeDone, then OnDisconnect.
closeDone == closedDone' = closedDone \cup {conn}

ReaderCloseDone ==
    /\ rpc = "exit"
    /\ rpc' = "swap"
    /\ closeDone
    /\ UNCHANGED <<callVars, chanVars, resultVars, job, rdrain, loopVars, upc,
                   conn, sock, alive, serverVars>>

\* DrainAll: the locked swap of the map, then one answer per channel.
DrainResult == [val |-> <<>>, err |-> "disconnected"]

\* Mutant: answers the entries of the map without taking them out of it.
ReaderDrainAllShared ==
    /\ rpc = "swap"
    /\ rpc' = "drain"
    /\ rdrain' = pending
    /\ UNCHANGED <<callVars, chanVars, resultVars, job, loopVars, upc, connVars,
                   serverVars>>

ReaderDrainAll ==
    /\ rpc = "swap"
    /\ rpc' = "drain"
    /\ rdrain' = pending
    /\ pending' = {}
    /\ UNCHANGED <<callVars, buf, closed, resultVars, job, loopVars, upc,
                   connVars, serverVars>>

ReaderDrainSend(r) ==
    /\ rpc = "drain"
    /\ r \in rdrain
    /\ rdrain' = rdrain \ {r}
    /\ Deliver(r, DrainResult)
    /\ UNCHANGED <<callVars, pending, resultVars, rpc, job, loopVars, upc,
                   connVars, serverVars>>

\* readWg.Done
ReaderDown ==
    /\ rpc = "drain"
    /\ rdrain = {}
    /\ rpc' = "down"
    /\ UNCHANGED <<callVars, chanVars, resultVars, job, rdrain, loopVars, upc,
                   connVars, serverVars>>

-----------------------------------------------------------------------------
(* The peer, and IB.Disconnect called by the user *)

PeerClose ==
    /\ alive
    /\ alive' = FALSE
    /\ UNCHANGED <<callVars, chanVars, resultVars, readerVars, loopVars, upc,
                   conn, sock, closedDone, serverVars>>

\* Connection.Disconnect, under its mutex.
Disconnect ==
    /\ UserDisconnect
    /\ upc = "idle"
    /\ upc' = "closeDone"
    /\ sock' = 0
    /\ UNCHANGED <<callVars, chanVars, resultVars, readerVars, loopVars, conn,
                   alive, closedDone, serverVars>>

UserCloseDone ==
    /\ upc = "closeDone"
    /\ upc' = "reset"
    /\ closeDone
    /\ UNCHANGED <<callVars, chanVars, resultVars, readerVars, loopVars, conn,
                   sock, alive, serverVars>>

\* Manager.Reset, under Mu: the maps are replaced by empty ones.
Reset == Results' = <<>> /\ ReqID2Contract' = {}

UserReset ==
    /\ upc = "reset"
    /\ upc' = "idle"
    /\ Reset
    /\ UNCHANGED <<callVars, chanVars, readerVars, loopVars, connVars,
                   serverVars>>

-----------------------------------------------------------------------------
(* The loop of ConnectWithReconnect *)

LoopGoTo(l) == lpc' = l

LoopSeesDone ==
    /\ lpc = "wait"
    /\ conn \in closedDone
    /\ LoopGoTo("swap")
    /\ UNCHANGED <<callVars, chanVars, resultVars, readerVars, ldrain, upc,
                   connVars, serverVars>>

LoopDrainAll ==
    /\ lpc = "swap"
    /\ LoopGoTo("drain")
    /\ ldrain' = pending
    /\ pending' = {}
    /\ UNCHANGED <<callVars, buf, closed, resultVars, readerVars, upc, connVars,
                   serverVars>>

LoopDrainSend(r) ==
    /\ lpc = "drain"
    /\ r \in ldrain
    /\ ldrain' = ldrain \ {r}
    /\ Deliver(r, DrainResult)
    /\ UNCHANGED <<callVars, pending, resultVars, readerVars, lpc, upc, connVars,
                   serverVars>>

LoopDrained ==
    /\ lpc = "drain"
    /\ ldrain = {}
    /\ LoopGoTo("reset")
    /\ UNCHANGED <<callVars, chanVars, resultVars, readerVars, ldrain, upc,
                   connVars, serverVars>>

LoopReset ==
    /\ lpc = "reset"
    /\ LoopGoTo("connect")
    /\ Reset
    /\ UNCHANGED <<callVars, chanVars, readerVars, ldrain, upc, connVars,
                   serverVars>>

\* Client.Connect up to the fresh done channel; it first waits for the reader.
Connect ==
    /\ lpc = "connect"
    /\ rpc = "down"
    /\ conn < MaxConn
    /\ LoopGoTo("dial")
    /\ conn' = conn + 1
    /\ UNCHANGED <<callVars, chanVars, resultVars, readerVars, ldrain, upc, sock,
                   alive, closedDone, serverVars>>

\* Connection.Connect and go readLoop()
DialOK ==
    /\ lpc = "dial"
    /\ LoopGoTo("handshake")
    /\ sock' = conn
    /\ alive' = TRUE
    /\ rpc' = "read"
    /\ UNCHANGED <<callVars, chanVars, resultVars, job, rdrain, ldrain, upc,
                   conn, closedDone, serverVars>>

\* Connection.Connect fails, and keeps whatever socket it held.
DialFails ==
    /\ lpc = "dial"
    /\ LoopGoTo("connect")
    /\ UNCHANGED <<callVars, chanVars, resultVars, readerVars, ldrain, upc,
                   connVars, serverVars>>

\* <-readyCh
HandshakeReady ==
    /\ lpc = "handshake"
    /\ LoopGoTo("wait")
    /\ UNCHANGED <<callVars, chanVars, resultVars, readerVars, ldrain, upc,
                   connVars, serverVars>>

\* <-c.done
HandshakeClosed ==
    /\ lpc = "handshake"
    /\ conn \in closedDone
    /\ LoopGoTo("connect")
    /\ UNCHANGED <<callVars, chanVars, resultVars, readerVars, ldrain, upc,
                   connVars, serverVars>>

\* SendRaw fails, or <-ctx.Done(): Client.Disconnect, which does not Reset.
HandshakeFails ==
    /\ lpc \in {"dial", "handshake"}
    /\ LoopGoTo("closeDone")
    /\ sock' = 0
    /\ UNCHANGED <<callVars, chanVars, resultVars, readerVars, ldrain, upc, conn,
                   alive, closedDone, serverVars>>

LoopCloseDone ==
    /\ lpc = "closeDone"
    /\ LoopGoTo("connect")
    /\ closeDone
    /\ UNCHANGED <<callVars, chanVars, resultVars, readerVars, ldrain, upc, conn,
                   sock, alive, serverVars>>

-----------------------------------------------------------------------------
Call == ReqContractDetails \/ ReqAccountSummary \/ ReqSecDefOptParams
        \/ ReqHistoricalData

CallerStep(r) ==
    \/ StartReq(r) \/ Start(r)
    \/ SendMessage(r) \/ SendFails(r)
    \/ Done(r)
    \/ ReceiveResult(r) \/ ReturnDisconnected(r)
    \/ Cancel(r)

Message(r) ==
    \/ handleContractDetails(r) \/ handleContractDetailsEnd(r)
    \/ handleAccountSummary(r) \/ handleAccountSummaryEnd(r)
    \/ handleSecDefOptParams(r) \/ handleSecDefOptParamsEnd(r)
    \/ handleHistoricalData(r)
    \/ handleError(r)

ReaderStep ==
    \/ AppendStore
    \/ EndReq \/ Complete \/ CompleteSend
    \/ ReadFails \/ ReaderCloseDone \/ ReaderDrainAll \/ ReaderDown
    \/ \E r \in ReqIDs : ReaderDrainSend(r)

LoopStep ==
    \/ LoopSeesDone \/ LoopDrainAll \/ LoopDrained \/ LoopReset
    \/ Connect \/ DialOK \/ DialFails
    \/ HandshakeReady \/ HandshakeClosed \/ HandshakeFails \/ LoopCloseDone
    \/ \E r \in ReqIDs : LoopDrainSend(r)

UserStep == UserCloseDone \/ UserReset

Next ==
    \/ Call
    \/ \E r \in ReqIDs : CallerStep(r) \/ ContextExpires(r) \/ Message(r)
    \/ ReaderStep \/ LoopStep
    \/ PeerClose \/ Disconnect \/ UserStep

Spec == Init /\ [][Next]_vars

(***************************************************************************)
(* A goroutine that can run is run.  Nothing makes the user call, the      *)
(* server answer or stay, or a context expire.                             *)
(***************************************************************************)
Fairness ==
    /\ \A r \in ReqIDs : WF_vars(CallerStep(r))
    /\ WF_vars(ReaderStep)
    /\ WF_vars(LoopStep)
    /\ WF_vars(UserStep)

FairSpec == Spec /\ Fairness

-----------------------------------------------------------------------------
(* Properties *)

CallTypeOK ==
    /\ seq \in 1 .. MaxReq + 1
    /\ pc \in [ReqIDs -> CallerPC]
    /\ kind \in [ReqIDs -> AllKinds \cup {"none"}]
    /\ outcome \in [ReqIDs -> Outcome]
    /\ via \in [ReqIDs -> 0 .. MaxConn]
    /\ watch \in [ReqIDs -> 0 .. MaxConn]

ChanTypeOK ==
    /\ pending \subseteq ReqIDs
    /\ buf \in [ReqIDs -> Seq(Result)]
    /\ \A r \in ReqIDs : Len(buf[r]) <= 1
    /\ closed \subseteq ReqIDs

ResultTypeOK ==
    /\ DOMAIN Results \subseteq ReqIDs
    /\ \A r \in DOMAIN Results : Results[r] \in Values
    /\ ReqID2Contract \subseteq ReqIDs

GoroutineTypeOK ==
    /\ rpc \in ReaderPC
    /\ job \in [req : ReqIDs, val : Values, err : Errors]
    /\ rdrain \subseteq ReqIDs
    /\ lpc \in LoopPC
    /\ ldrain \subseteq ReqIDs
    /\ upc \in UserPC

ConnTypeOK ==
    /\ conn \in Conns
    /\ sock \in 0 .. MaxConn
    /\ alive \in BOOLEAN
    /\ closedDone \subseteq Conns

ServerTypeOK ==
    /\ sent \in [ReqIDs -> 0 .. MaxItems]
    /\ ended \subseteq ReqIDs

\* Every variable holds a value of the kind its Go counterpart can hold.
TypeOK == /\ CallTypeOK /\ ChanTypeOK /\ ResultTypeOK
          /\ GoroutineTypeOK /\ ConnTypeOK /\ ServerTypeOK

\* Who is obliged to answer call r: its entry in RequestMap.pending, the
\* reader inside Complete, the reader's DrainAll, or the loop's.
Owner == {"pending", "Complete", "ReaderDrainAll", "LoopDrainAll"}

Owns(o, r) ==
    \/ o = "pending" /\ r \in pending
    \/ o = "Complete" /\ rpc = "deliver" /\ job.req = r
    \/ o = "ReaderDrainAll" /\ r \in rdrain
    \/ o = "LoopDrainAll" /\ r \in ldrain

Owned(r) == \E o \in Owner : Owns(o, r)

Registered(r) == pc[r] \notin {"none", "track", "register"}

\* Among call r's channel and its owners: at most one owner; an owned channel is
\* open and empty; a channel nobody owns any more is closed, and holds a result
\* unless the caller has consumed it or has cancelled the request.
ChannelOK(r) ==
    /\ \A o1, o2 \in Owner : Owns(o1, r) /\ Owns(o2, r) => o1 = o2
    /\ Owned(r) => Registered(r) /\ buf[r] = <<>> /\ r \notin closed
    /\ ~Registered(r) => buf[r] = <<>> /\ r \notin closed
    /\ Registered(r) /\ ~Owned(r) => r \in closed
    /\ pc[r] \in {"send", "select", "wait"} /\ ~Owned(r) => buf[r] # <<>>

\* The channel of a call is answered exactly once, although Complete, Cancel
\* and two DrainAlls race for it (request.go:26-85): the send never blocks the
\* reader, never panics on a closed channel, and a waiting caller never takes
\* the zero value of a closed empty channel for an answer.
AnsweredOnce == \A r \in ReqIDs : ChannelOK(r)

\* A method that reports success returns either no data or every partial
\* result the server sent for that call, in order, whatever Reset, Cancel or
\* other calls do in between (state.go:69-95): a truncated answer is never
\* passed off as an answer.
NoPartialAnswer ==
    \A r \in ReqIDs :
        outcome[r].tag = "ok" => outcome[r].val \in {<<>>, Items(r, sent[r])}

\* Success means the complete answer: also the empty one only if the server
\* sent nothing.  It needs that nobody calls Reset while calls are in flight.
CompleteAnswer ==
    \A r \in ReqIDs :
        outcome[r].tag = "ok" => /\ r \in ended
                                 /\ outcome[r].val = Items(r, sent[r])

\* Once the reader is past EndReq for a request the server has ended, the
\* Manager keeps nothing about it, even if its caller gave up long before
\* (Cancel removes only the pending entry).
AnsweredIsForgotten ==
    \A r \in ended :
        \/ rpc \in {"append", "endReq"} /\ job.req = r
        \/ r \notin DOMAIN Results \cup ReqID2Contract

\* A call whose End has been read returns, whatever happens to the connection.
AnsweredReturns ==
    \A r \in ReqIDs : r \in ended ~> pc[r] = "returned"

\* A call that waits for the answer to a request written to a connection that
\* has ended is released: "Done returns a channel that's closed when the
\* connection ends" (client.go:206).
LostConnectionReleases ==
    \A r \in ReqIDs :
        (pc[r] = "wait" /\ via[r] \in closedDone) ~> pc[r] = "returned"

-----------------------------------------------------------------------------
(* Inductive strengthenings, used by RequestsProofs *)

\* A DrainAll holds channels only while it hands out answers, Connect starts a
\* reader only after the previous one has finished (readWg), and a request id
\* not yet drawn belongs to no call.
DrainPhase ==
    /\ rdrain # {} => rpc = "drain"
    /\ ldrain # {} => lpc = "drain"
    /\ lpc = "dial" => rpc = "down"
FreshIDs == \A r \in ReqIDs : r >= seq => pc[r] = "none"

\* The inductive invariant behind AnsweredOnce.
OwnershipInv == TypeOK /\ AnsweredOnce /\ DrainPhase /\ FreshIDs

\* Nothing is received for a request that has not been written to a socket.
NothingBeforeSend ==
    /\ \A r \in ReqIDs : pc[r] \in {"none", "track", "register", "send"}
                           => via[r] = 0
    /\ \A r \in ReqIDs : via[r] = 0 => sent[r] = 0
    /\ rpc \in {"append", "endReq", "complete", "deliver"} => via[job.req] # 0

\* An entry of Results holds what the server has sent so far; the reader is one
\* item ahead of it between the read and the write of AppendResult.
ResultsExact ==
    /\ \A r \in DOMAIN Results :
          Results[r] = IF kind[r] = "HistoricalData" THEN <<>>
                       ELSE IF rpc = "append" /\ job.req = r
                            THEN Items(r, sent[r] - 1)
                            ELSE Items(r, sent[r])
    /\ rpc = "append" => /\ job.val = Items(job.req, sent[job.req])
                         /\ kind[job.req] # "HistoricalData"
                         /\ sent[job.req] > 0

\* v may be reported as the answer to r.
Reportable(r, v) == v = <<>> \/ (r \in ended /\ v = Items(r, sent[r]))

\* Every result on its way to a caller is one it may be told.
AnswersExact ==
    /\ rpc \in {"endReq", "complete", "deliver"} /\ job.err = NoErr =>
          job.req \in ended /\ Reportable(job.req, job.val)
    /\ \A r \in ReqIDs : buf[r] # <<>> /\ buf[r][1].err = NoErr =>
          Reportable(r, buf[r][1].val)
    /\ \A r \in ReqIDs : outcome[r].tag = "ok" => Reportable(r, outcome[r].val)

\* The inductive invariant behind NoPartialAnswer.
AnswerInv ==
    OwnershipInv /\ NothingBeforeSend /\ ResultsExact /\ AnswersExact
=============================================================================
