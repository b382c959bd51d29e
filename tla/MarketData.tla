----------------------------- MODULE MarketData -----------------------------
(***************************************************************************)
(* Market data subscriptions and the batches their updates come in.        *)
(*                                                                         *)
(* ReqMktData enters a new ticker under the contract's key and under the   *)
(* request id, then writes the request; CancelMktData finds the ticker by  *)
(* the contract's key and writes the cancellation while it holds           *)
(* Manager.Mu.  Real-time bars are entered under the request id alone, and *)
(* cancelled with Mu released before the write.  The reader routes ticks   *)
(* and bars by request id and announces the tickers that changed when its  *)
(* buffer is empty.                                                        *)
(*                                                                         *)
(* The connection stays up.  A ticker or list of bars is named by the      *)
(* request id of the call that made it, and its fields are left out.       *)
(***************************************************************************)
EXTENDS Integers, Sequences, Functions

CONSTANTS
    Contracts,   \* the contracts in use
    Key,         \* Contract.Key: 0 for every contract whose ConID is not known
    MaxReq,      \* bound: ReqMktData and ReqRealTimeBars calls
    MaxMsgs,     \* bound: messages read
    Exclusive    \* a contract is subscribed once at a time, by one goroutine

ASSUME KeyAssumption == Key \in [Contracts -> Int]
ASSUME BoundsAssumption == MaxReq \in Nat /\ MaxMsgs \in Nat
ASSUME ModesAssumption == Exclusive \in BOOLEAN

ReqIDs == 1 .. MaxReq
Nobody == 0

VARIABLES
    seq,             \* Client.reqIDSeq
    pc,              \* pc[r]: where the call with request id r is
    con,             \* con[r]: its contract
    kind,            \* kind[r]: it asks for a stream, a snapshot or bars
    Tickers,         \* contract key -> ticker
    ReqID2Ticker,    \* request ids with a ticker; r's ticker is r
    ReqID2Subscriber, \* request ids with a list of bars
    pending,         \* keys of RequestMap.pending
    mu,              \* the subscription CancelMktData holds Manager.Mu for
    cancelArg,       \* r -> the contract of the CancelMktData that removed r
    cancelling,      \* bars whose CancelRealTimeBars has yet to write
    late,            \* late[r]: bars added after that: history
    unsent,          \* subscriptions whose cancellation could not be written
    PendingTickers,  \* MarketState.PendingTickers
    rpc,             \* where the reader is
    job,             \* the ticker its handler has found
    buffered,        \* HasPending: the reader's buffer is not empty
    msgs,            \* messages read
    wire,            \* requests and cancellations on their way to the server
    subs             \* subscriptions the server is streaming

callVars   == <<seq, pc, con, kind>>
tickerVars == <<Tickers, ReqID2Ticker, pending>>
barVars    == <<ReqID2Subscriber, cancelling, late>>
cancelVars == <<mu, cancelArg, unsent>>
readerVars == <<PendingTickers, rpc, job, buffered, msgs>>
serverVars == <<wire, subs>>
vars == <<callVars, tickerVars, barVars, cancelVars, readerVars, serverVars>>

With(f, k, v) == [x \in DOMAIN f \cup {k} |-> IF x = k THEN v ELSE f[x]]
Without(f, k) == Restrict(f, DOMAIN f \ {k})

Unlocked == mu = Nobody

Init ==
    /\ seq = 1
    /\ pc = [r \in ReqIDs |-> "none"]
    /\ con = <<>>
    /\ kind = [r \in ReqIDs |-> "none"]
    /\ Tickers = <<>>
    /\ ReqID2Ticker = {}
    /\ ReqID2Subscriber = {}
    /\ pending = {}
    /\ mu = Nobody
    /\ cancelling = {}
    /\ late = [r \in ReqIDs |-> 0]
    /\ cancelArg = <<>>
    /\ unsent = {}
    /\ PendingTickers = {}
    /\ rpc = "read"
    /\ job = Nobody
    /\ buffered = FALSE
    /\ msgs = 0
    /\ wire = <<>>
    /\ subs = {}

-----------------------------------------------------------------------------
(* The user *)

GoTo(r, l) == pc' = [pc EXCEPT ![r] = l]

\* A subscription of contract c that has not been removed, or whose call or
\* cancellation has not returned.
Open(c) ==
    \E r \in DOMAIN con :
        /\ con[r] = c /\ kind[r] # "bars"
        /\ r \in ReqID2Ticker \/ pc[r] \notin {"done", "failed"} \/ mu = r

Begin(c, k) ==
    /\ Unlocked
    /\ seq \in ReqIDs
    /\ seq' = seq + 1
    /\ GoTo(seq, "send")
    /\ con' = With(con, seq, c)
    /\ kind' = [kind EXCEPT ![seq] = k]

\* Both maps are filled under one hold of Mu, replacing any ticker of the key.
ReqMktData(c, k) ==
    /\ k \in {"stream", "snapshot"}
    /\ Exclusive => ~Open(c)
    /\ Begin(c, k)
    /\ Tickers' = With(Tickers, Key[c], seq)
    /\ ReqID2Ticker' = ReqID2Ticker \cup {seq}
    /\ UNCHANGED <<pending, barVars, cancelVars, readerVars, serverVars>>

ReqRealTimeBars(c) ==
    /\ Begin(c, "bars")
    /\ ReqID2Subscriber' = ReqID2Subscriber \cup {seq}
    /\ UNCHANGED <<tickerVars, cancelling, late, cancelVars, readerVars, serverVars>>

SendReq(r) ==
    /\ pc[r] = "send"
    /\ GoTo(r, IF kind[r] = "snapshot" THEN "track" ELSE "done")
    /\ wire' = Append(wire, [op |-> "req", req |-> r])
    /\ UNCHANGED <<seq, con, kind, tickerVars, barVars, cancelVars, readerVars, subs>>

\* The ticker of the key is removed, whichever call made it.
SendReqFails(r) ==
    /\ pc[r] = "send"
    /\ Unlocked
    /\ GoTo(r, "failed")
    /\ IF kind[r] = "bars"
       THEN /\ ReqID2Subscriber' = ReqID2Subscriber \ {r}
            /\ UNCHANGED <<Tickers, ReqID2Ticker>>
       ELSE /\ Tickers' = Without(Tickers, Key[con[r]])
            /\ ReqID2Ticker' = ReqID2Ticker \ {r}
            /\ UNCHANGED ReqID2Subscriber
    /\ UNCHANGED <<seq, con, kind, pending, cancelling, late, cancelVars, readerVars,
                   serverVars>>

\* A snapshot is registered as a pending request, once it has been written.
StartReq(r) ==
    /\ pc[r] = "track"
    /\ Unlocked
    /\ GoTo(r, "done")
    /\ pending' = pending \cup {r}
    /\ UNCHANGED <<seq, con, kind, Tickers, ReqID2Ticker, barVars, cancelVars,
                   readerVars, serverVars>>

\* Mutant: the ticker is forgotten by contract but still routed by request id.
CancelMktDataHalf(c) ==
    /\ Unlocked
    /\ Key[c] \in DOMAIN Tickers
    /\ Tickers' = Without(Tickers, Key[c])
    /\ UNCHANGED <<callVars, ReqID2Ticker, pending, barVars, cancelVars, readerVars,
                   serverVars>>

\* The ticker of the contract's key leaves both maps; if it was routed, Mu
\* stays locked for the write.
CancelMktData(c) ==
    /\ Unlocked
    /\ Key[c] \in DOMAIN Tickers
    /\ LET r == Tickers[Key[c]] IN
        /\ Exclusive => pc[r] \in {"done", "failed"}
        /\ Tickers' = Without(Tickers, Key[c])
        /\ ReqID2Ticker' = ReqID2Ticker \ {r}
        /\ IF r \in ReqID2Ticker
           THEN mu' = r /\ cancelArg' = With(cancelArg, r, c)
           ELSE UNCHANGED <<mu, cancelArg>>
    /\ UNCHANGED <<callVars, pending, barVars, unsent, readerVars, serverVars>>

SendCancel ==
    /\ mu # Nobody
    /\ mu' = Nobody
    /\ wire' = Append(wire, [op |-> "cancel", req |-> mu])
    /\ UNCHANGED <<callVars, tickerVars, barVars, cancelArg, unsent, readerVars, subs>>

\* CancelMktData drops the error of the write.
SendCancelFails ==
    /\ mu # Nobody
    /\ mu' = Nobody
    /\ unsent' = unsent \cup {mu}
    /\ UNCHANGED <<callVars, tickerVars, barVars, cancelArg, readerVars, serverVars>>

\* Mutant: the list stays where the reader finds it.
CancelRealTimeBarsKeeps(r) ==
    /\ kind[r] = "bars" /\ pc[r] = "done"
    /\ Unlocked
    /\ cancelling' = cancelling \cup {r}
    /\ GoTo(r, "cancelled")
    /\ UNCHANGED <<seq, con, kind, tickerVars, ReqID2Subscriber, late, cancelVars,
                   readerVars, serverVars>>

\* Given the list ReqRealTimeBars returned: removed under Mu, which is then
\* released.
CancelRealTimeBars(r) ==
    /\ kind[r] = "bars" /\ pc[r] = "done"
    /\ Unlocked
    /\ GoTo(r, "cancelled")
    /\ ReqID2Subscriber' = ReqID2Subscriber \ {r}
    /\ cancelling' = cancelling \cup {r}
    /\ UNCHANGED <<seq, con, kind, tickerVars, late, cancelVars, readerVars,
                   serverVars>>

\* The write, whose error is dropped.
SendCancelBars(r) ==
    /\ r \in cancelling
    /\ cancelling' = cancelling \ {r}
    /\ \/ /\ wire' = Append(wire, [op |-> "cancel", req |-> r])
          /\ UNCHANGED unsent
       \/ /\ unsent' = unsent \cup {r}
          /\ UNCHANGED wire
    /\ UNCHANGED <<callVars, tickerVars, ReqID2Subscriber, late, mu, cancelArg,
                   readerVars, subs>>

-----------------------------------------------------------------------------
(* The server *)

ServerReads ==
    /\ wire # <<>>
    /\ wire' = Tail(wire)
    /\ subs' = IF Head(wire).op = "req" THEN subs \cup {Head(wire).req}
                                        ELSE subs \ {Head(wire).req}
    /\ UNCHANGED <<callVars, tickerVars, barVars, cancelVars, readerVars>>

-----------------------------------------------------------------------------
(* The reader goroutine *)

\* ReadMessage returns the next message.
ReadMessage ==
    /\ rpc = "read"
    /\ msgs < MaxMsgs
    /\ msgs' = msgs + 1

\* A tick handler looks its ticker up under Mu; one it does not find ends it.
handleTick(r) ==
    /\ ReadMessage
    /\ r \in subs /\ kind[r] # "bars"
    /\ Unlocked
    /\ job' = IF r \in ReqID2Ticker THEN r ELSE Nobody
    /\ rpc' = IF r \in ReqID2Ticker THEN "mark" ELSE "batch"
    /\ UNCHANGED <<callVars, tickerVars, barVars, cancelVars, PendingTickers, buffered,
                   serverVars>>

\* Mutant: the loop goes on to the next message without looking whether the
\* batch has ended.
MarkTickerPendingContinues ==
    /\ rpc = "mark"
    /\ rpc' = "read"
    /\ PendingTickers' = PendingTickers \cup {job}
    /\ job' = Nobody
    /\ UNCHANGED <<callVars, tickerVars, barVars, cancelVars, buffered, msgs, serverVars>>

\* The ticker's fields are set and it is marked, without Mu.
MarkTickerPending ==
    /\ rpc = "mark"
    /\ rpc' = "batch"
    /\ PendingTickers' = PendingTickers \cup {job}
    /\ job' = Nobody
    /\ UNCHANGED <<callVars, tickerVars, barVars, cancelVars, buffered, msgs, serverVars>>

\* The server has sent all of a snapshot: EndReq, if it is pending.
handleTickSnapshotEnd(r) ==
    /\ ReadMessage
    /\ r \in subs /\ kind[r] = "snapshot"
    /\ Unlocked
    /\ pending' = pending \ {r}
    /\ subs' = subs \ {r}
    /\ rpc' = "batch"
    /\ UNCHANGED <<callVars, Tickers, ReqID2Ticker, barVars, cancelVars, PendingTickers,
                   job, buffered, wire>>

\* A bar looks its list up under Mu as well ...
handleRealtimeBar(r) ==
    /\ ReadMessage
    /\ r \in subs /\ kind[r] = "bars"
    /\ Unlocked
    /\ job' = IF r \in ReqID2Subscriber THEN r ELSE Nobody
    /\ rpc' = IF r \in ReqID2Subscriber THEN "bar" ELSE "batch"
    /\ UNCHANGED <<callVars, tickerVars, barVars, cancelVars, PendingTickers,
                   buffered, serverVars>>

\* ... and is added, and UpdateEvent raised, without it.
AppendBar ==
    /\ rpc = "bar"
    /\ rpc' = "batch"
    /\ late' = [late EXCEPT ![job] = IF pc[job] = "cancelled" THEN @ + 1 ELSE @]
    /\ job' = Nobody
    /\ UNCHANGED <<callVars, tickerVars, ReqID2Subscriber, cancelling, cancelVars,
                   PendingTickers, buffered, msgs, serverVars>>

\* A message that marks no ticker: a market data type, which is entered in the
\* ticker if there is one; an update of bars nobody keeps; or one of another
\* part, which need not wait for Mu.
OtherMessage ==
    /\ ReadMessage
    /\ rpc' = "batch"
    /\ UNCHANGED <<callVars, tickerVars, barVars, cancelVars, PendingTickers, job,
                   buffered, serverVars>>

\* Conn.HasPending: the batch goes on.
BatchContinues ==
    /\ rpc = "batch"
    /\ msgs < MaxMsgs
    /\ rpc' = "read"
    /\ buffered' = TRUE
    /\ UNCHANGED <<callVars, tickerVars, barVars, cancelVars, PendingTickers, job, msgs,
                   serverVars>>

\* The buffer is empty: OnDataProcessed raises the events of the pending
\* tickers, and clears them.
OnDataProcessed ==
    /\ rpc = "batch"
    /\ Unlocked
    /\ rpc' = "read"
    /\ buffered' = FALSE
    /\ PendingTickers' = {}
    /\ UNCHANGED <<callVars, tickerVars, barVars, cancelVars, job, msgs, serverVars>>

-----------------------------------------------------------------------------
CallerStep(r) == SendReq(r) \/ SendReqFails(r) \/ StartReq(r) \/ SendCancelBars(r)

Message ==
    \/ OtherMessage
    \/ \E r \in ReqIDs : \/ handleTick(r) \/ handleTickSnapshotEnd(r)
                          \/ handleRealtimeBar(r)

HandlerStep == MarkTickerPending \/ AppendBar \/ BatchContinues \/ OnDataProcessed

ReaderStep == HandlerStep \/ (buffered /\ Message)

Next ==
    \/ \E c \in Contracts : \/ ReqMktData(c, "stream") \/ ReqMktData(c, "snapshot")
                            \/ ReqRealTimeBars(c)
    \/ \E r \in ReqIDs : CallerStep(r) \/ CancelRealTimeBars(r)
    \/ \E c \in Contracts : CancelMktData(c)
    \/ SendCancel \/ SendCancelFails
    \/ ServerReads
    \/ Message \/ HandlerStep

Spec == Init /\ [][Next]_vars

(***************************************************************************)
(* Goroutines that can run are run; a message that has begun to arrive     *)
(* arrives.  Nothing makes the server send anything more.                  *)
(***************************************************************************)
Fairness ==
    /\ \A r \in ReqIDs : WF_vars(CallerStep(r))
    /\ WF_vars(SendCancel \/ SendCancelFails)
    /\ WF_vars(ReaderStep)

FairSpec == Spec /\ Fairness

-----------------------------------------------------------------------------
(* Properties *)

\* Nothing about r is under way between the user and the server.
Settled(r) ==
    /\ pc[r] \notin {"none", "send"}
    /\ mu # r
    /\ r \notin cancelling
    /\ \A m \in Range(wire) : m.req # r

\* What the server streams can be routed to its ticker, and cancelled through
\* its contract; nothing streams to nobody, unless the write of its
\* cancellation failed.
NoOrphanStream ==
    \A r \in subs \ unsent : Settled(r) =>
        IF kind[r] = "bars"
        THEN r \in ReqID2Subscriber
        ELSE /\ r \in ReqID2Ticker
             /\ Key[con[r]] \in DOMAIN Tickers /\ Tickers[Key[con[r]]] = r

\* CancelMktData ends the subscription of the contract it is given and of no
\* other.
CancelOnlyOwn == \A r \in DOMAIN cancelArg : cancelArg[r] = con[r]

\* After CancelRealTimeBars has removed a list at most one more bar reaches it,
\* the one the reader had already looked it up for (ib.go:2011-2018, 2119-2125).
AtMostOneLateBar == \A r \in ReqIDs : late[r] <= 1

\* A ticker that changed is announced: the batch it changed in ends.
UpdateAnnounced ==
    \A r \in ReqIDs : r \in PendingTickers ~> r \notin PendingTickers
============================================================================
