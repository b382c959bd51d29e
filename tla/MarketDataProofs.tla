-------------------------- MODULE MarketDataProofs --------------------------
(***************************************************************************)
(* Proofs about market data subscriptions and real-time bars, for any      *)
(* contracts and any number of calls and messages.                         *)
(***************************************************************************)
EXTENDS MarketData, ContractKey, SequenceTheorems, TLAPS

USE DEF vars, callVars, tickerVars, barVars, cancelVars, readerVars, serverVars

-----------------------------------------------------------------------------
(* The inductive invariants *)

PCs     == {"none", "send", "track", "done", "failed", "cancelled"}
WireMsg == [op : {"req", "cancel"}, req : ReqIDs]

\* A request id is used by one call, which is given its contract and kind as it begins.
CallInv ==
    /\ seq \in Nat \ {0}
    /\ pc \in [ReqIDs -> PCs]
    /\ kind \in [ReqIDs -> {"none", "stream", "snapshot", "bars"}]
    /\ \A r \in ReqIDs : pc[r] = "none" <=> r >= seq
    /\ DOMAIN con = {r \in ReqIDs : r < seq}
    /\ \A r \in DOMAIN con : con[r] \in Contracts
    /\ wire \in Seq(WireMsg)
    /\ mu \in ReqIDs \cup {Nobody}
    /\ ReqID2Ticker \subseteq ReqIDs /\ subs \subseteq ReqIDs

\* The reader has looked up a list of bars that has had no late bar yet, for one that has
\* had one was cancelled and can no longer be found.
LateInv ==
    /\ late \in [ReqIDs -> Nat] /\ AtMostOneLateBar
    /\ \A r \in ReqIDs : late[r] > 0 => pc[r] = "cancelled"
    /\ ReqID2Subscriber \subseteq ReqIDs
    /\ \A r \in ReqID2Subscriber : pc[r] # "cancelled"
    /\ rpc = "bar" => job \in ReqIDs /\ late[job] = 0

\* A ticker is kept under the key of the contract it was asked for.
TickerInv ==
    /\ \A k \in DOMAIN Tickers : Tickers[k] \in DOMAIN con /\ Key[con[Tickers[k]]] = k
    /\ DOMAIN cancelArg \subseteq DOMAIN con
    /\ CancelOnlyOwn

\* Subscription r can be routed to its ticker or bars, and cancelled.
Routed(r) ==
    IF kind[r] = "bars"
    THEN r \in ReqID2Subscriber
    ELSE r \in ReqID2Ticker /\ Key[con[r]] \in DOMAIN Tickers /\ Tickers[Key[con[r]]] = r

OnWire(r)     == \E i \in DOMAIN wire : wire[i].req = r
CancelSent(r) == \E i \in DOMAIN wire : wire[i].req = r /\ wire[i].op = "cancel"

\* Its cancellation is about to be written, is on its way, has arrived or was lost.
Ending(r) ==
    \/ r \in unsent \/ mu = r \/ r \in cancelling
    \/ CancelSent(r)
    \/ r \notin subs /\ ~OnWire(r)

\* The request has been written.
Sent(r) == pc[r] \in {"track", "done", "cancelled"}

StreamInv ==
    /\ \A r \in ReqIDs : r \in subs \/ OnWire(r) \/ mu = r \/ r \in cancelling => Sent(r)
    /\ \A r \in ReqID2Ticker : kind[r] # "bars" /\ pc[r] \notin {"none", "failed"}
    /\ \A r \in ReqIDs : pc[r] = "send" => Routed(r)
    /\ \A r \in ReqIDs : Sent(r) => Routed(r) \/ Ending(r)
    /\ \A i, j \in DOMAIN wire :
          i < j /\ wire[i].op = "cancel" /\ wire[j].req = wire[i].req => wire[j].op = "cancel"

-----------------------------------------------------------------------------
(* Calls *)

LEMMA BeginEffect ==
    ASSUME CallInv, NEW c \in Contracts, NEW k \in {"stream", "snapshot", "bars"}, Begin(c, k)
    PROVE  /\ seq \in ReqIDs /\ pc[seq] = "none" /\ seq \notin DOMAIN con
           /\ pc'[seq] = "send" /\ \A r \in ReqIDs : r # seq => pc'[r] = pc[r]
           /\ kind'[seq] = k /\ \A r \in ReqIDs : r # seq => kind'[r] = kind[r]
           /\ DOMAIN con' = DOMAIN con \cup {seq} /\ con'[seq] = c
           /\ \A r \in DOMAIN con : con'[r] = con[r]
           /\ seq' \in Nat \ {0}
           /\ pc' \in [ReqIDs -> PCs]
           /\ kind' \in [ReqIDs -> {"none", "stream", "snapshot", "bars"}]
           /\ \A r \in ReqIDs : pc'[r] = "none" <=> r >= seq'
           /\ DOMAIN con' = {r \in ReqIDs : r < seq'}
           /\ \A r \in DOMAIN con' : con'[r] \in Contracts
<1>1. /\ seq \in Nat \ {0} /\ pc \in [ReqIDs -> PCs]
      /\ kind \in [ReqIDs -> {"none", "stream", "snapshot", "bars"}]
      /\ \A r \in ReqIDs : pc[r] = "none" <=> r >= seq
      /\ DOMAIN con = {r \in ReqIDs : r < seq}
      /\ \A r \in DOMAIN con : con[r] \in Contracts
  BY DEF CallInv
<1>2. /\ seq \in ReqIDs /\ seq' = seq + 1 /\ pc' = [pc EXCEPT ![seq] = "send"]
      /\ con' = With(con, seq, c) /\ kind' = [kind EXCEPT ![seq] = k]
  BY DEF Begin, GoTo
<1>3. pc[seq] = "none" /\ seq \notin DOMAIN con
  BY <1>1, <1>2
<1>4. /\ pc'[seq] = "send" /\ \A r \in ReqIDs : r # seq => pc'[r] = pc[r]
      /\ kind'[seq] = k /\ \A r \in ReqIDs : r # seq => kind'[r] = kind[r]
      /\ pc' \in [ReqIDs -> PCs] /\ kind' \in [ReqIDs -> {"none", "stream", "snapshot", "bars"}]
  BY <1>1, <1>2 DEF PCs
<1>5. /\ DOMAIN con' = DOMAIN con \cup {seq} /\ con'[seq] = c
      /\ \A r \in DOMAIN con : con'[r] = con[r]
  BY <1>2, <1>3 DEF With
<1>6. \A r \in ReqIDs : pc'[r] = "none" <=> r >= seq'
  BY <1>1, <1>2, <1>4, BoundsAssumption DEF ReqIDs
<1>7. DOMAIN con' = {r \in ReqIDs : r < seq'}
  BY <1>1, <1>2, <1>5, BoundsAssumption DEF ReqIDs
<1>8. \A r \in DOMAIN con' : con'[r] \in Contracts
  BY <1>1, <1>5
<1> QED
  BY <1>1, <1>2, <1>3, <1>4, <1>5, <1>6, <1>7, <1>8

\* A call goes on; no call begins.
LEMMA CallGoesOn ==
    ASSUME CallInv, NEW r \in ReqIDs, pc[r] # "none", NEW l \in PCs \ {"none"},
           GoTo(r, l), UNCHANGED <<seq, con, kind>>
    PROVE  /\ pc'[r] = l /\ \A x \in ReqIDs : x # r => pc'[x] = pc[x]
           /\ pc' \in [ReqIDs -> PCs]
           /\ \A x \in ReqIDs : pc'[x] = "none" <=> x >= seq'
BY DEF CallInv, GoTo

LEMMA WireGrows ==
    ASSUME CallInv, NEW m \in WireMsg, wire' = Append(wire, m)
    PROVE  /\ wire' \in Seq(WireMsg) /\ DOMAIN wire' = DOMAIN wire \cup {Len(wire) + 1}
           /\ \A i \in DOMAIN wire : wire'[i] = wire[i] /\ i < Len(wire) + 1
           /\ wire'[Len(wire) + 1] = m /\ Len(wire) + 1 \notin DOMAIN wire
           /\ DOMAIN wire \subseteq Nat /\ Len(wire) \in Nat
<1>1. wire \in Seq(WireMsg) /\ DOMAIN wire = 1 .. Len(wire) /\ Len(wire) \in Nat
  BY LenProperties DEF CallInv
<1>2. /\ wire' \in Seq(WireMsg) /\ Len(wire') = Len(wire) + 1 /\ wire'[Len(wire) + 1] = m
      /\ \A i \in 1 .. Len(wire) : wire'[i] = wire[i]
  BY <1>1, AppendProperties
<1>3. DOMAIN wire' = 1 .. Len(wire) + 1
  BY <1>2, LenProperties
<1> QED
  BY <1>1, <1>2, <1>3

LEMMA WireShrinks ==
    ASSUME CallInv, wire # <<>>, wire' = Tail(wire)
    PROVE  /\ wire' \in Seq(WireMsg) /\ 1 \in DOMAIN wire /\ Head(wire) = wire[1]
           /\ wire[1] \in WireMsg
           /\ \A i \in DOMAIN wire' : i + 1 \in DOMAIN wire /\ wire'[i] = wire[i + 1] /\ i + 1 > 1
           /\ \A i \in DOMAIN wire : i = 1 \/ (i - 1 \in DOMAIN wire' /\ wire'[i - 1] = wire[i])
           /\ DOMAIN wire \subseteq Nat /\ DOMAIN wire' \subseteq Nat
<1>1. wire \in Seq(WireMsg) /\ DOMAIN wire = 1 .. Len(wire) /\ Len(wire) \in Nat
  BY LenProperties DEF CallInv
<1>2. Len(wire) > 0
  BY <1>1, EmptySeq
<1>3. /\ Head(wire) \in WireMsg /\ wire' \in Seq(WireMsg) /\ Len(wire') = Len(wire) - 1
      /\ \A i \in 1 .. Len(wire') : wire'[i] = wire[i + 1]
  BY <1>1, HeadTailProperties
<1>4. DOMAIN wire' = 1 .. Len(wire) - 1
  BY <1>3, LenProperties
<1>5. Head(wire) = wire[1]
  BY <1>1
<1> QED
  BY <1>1, <1>2, <1>3, <1>4, <1>5

LEMMA CallNext == CallInv /\ [Next]_vars => CallInv'
<1> SUFFICES ASSUME CallInv, [Next]_vars PROVE CallInv'
  OBVIOUS
<1> USE DEF CallInv
<1>1. ASSUME NEW c \in Contracts, NEW k \in {"stream", "snapshot"}, ReqMktData(c, k) PROVE CallInv'
  <2>1. Begin(c, k) /\ ReqID2Ticker' = ReqID2Ticker \cup {seq} /\ UNCHANGED <<wire, mu, subs>>
    BY <1>1 DEF ReqMktData
  <2>2. /\ seq \in ReqIDs /\ seq' \in Nat \ {0} /\ pc' \in [ReqIDs -> PCs]
        /\ kind' \in [ReqIDs -> {"none", "stream", "snapshot", "bars"}]
        /\ \A r \in ReqIDs : pc'[r] = "none" <=> r >= seq'
        /\ DOMAIN con' = {r \in ReqIDs : r < seq'}
        /\ \A r \in DOMAIN con' : con'[r] \in Contracts
    BY <2>1, BeginEffect
  <2> QED
    BY <2>1, <2>2
<1>2. ASSUME NEW c \in Contracts, ReqRealTimeBars(c) PROVE CallInv'
  <2>1. Begin(c, "bars") /\ UNCHANGED <<wire, mu, subs, ReqID2Ticker>>
    BY <1>2 DEF ReqRealTimeBars
  <2>2. /\ seq' \in Nat \ {0} /\ pc' \in [ReqIDs -> PCs]
        /\ kind' \in [ReqIDs -> {"none", "stream", "snapshot", "bars"}]
        /\ \A r \in ReqIDs : pc'[r] = "none" <=> r >= seq'
        /\ DOMAIN con' = {r \in ReqIDs : r < seq'}
        /\ \A r \in DOMAIN con' : con'[r] \in Contracts
    BY <2>1, BeginEffect
  <2> QED
    BY <2>1, <2>2
<1>3. ASSUME NEW r \in ReqIDs, SendReq(r) PROVE CallInv'
  <2>1. PICK l \in PCs \ {"none"} : GoTo(r, l)
    BY <1>3 DEF SendReq, PCs
  <2>2. pc[r] # "none" /\ wire' = Append(wire, [op |-> "req", req |-> r])
        /\ UNCHANGED <<seq, con, kind, mu, ReqID2Ticker, subs>>
    BY <1>3 DEF SendReq
  <2>3. pc' \in [ReqIDs -> PCs] /\ \A x \in ReqIDs : pc'[x] = "none" <=> x >= seq'
    BY <2>1, <2>2, CallGoesOn
  <2>4. [op |-> "req", req |-> r] \in WireMsg
    BY DEF WireMsg
  <2> QED
    BY <2>2, <2>3, <2>4, WireGrows
<1>4. ASSUME NEW r \in ReqIDs, SendReqFails(r) \/ StartReq(r) \/ CancelRealTimeBars(r) PROVE CallInv'
  <2>1. PICK l \in PCs \ {"none"} : GoTo(r, l)
    BY <1>4 DEF SendReqFails, StartReq, CancelRealTimeBars, PCs
  <2>2. pc[r] # "none" /\ ReqID2Ticker' \subseteq ReqID2Ticker
        /\ UNCHANGED <<seq, con, kind, mu, wire, subs>>
    BY <1>4 DEF SendReqFails, StartReq, CancelRealTimeBars
  <2>3. pc' \in [ReqIDs -> PCs] /\ \A x \in ReqIDs : pc'[x] = "none" <=> x >= seq'
    BY <2>1, <2>2, CallGoesOn
  <2> QED
    BY <2>2, <2>3
<1>5. ASSUME NEW r \in ReqIDs, SendCancelBars(r) PROVE CallInv'
  <2>1. UNCHANGED <<callVars, mu, ReqID2Ticker, subs>>
        /\ (wire' = wire \/ wire' = Append(wire, [op |-> "cancel", req |-> r]))
    BY <1>5 DEF SendCancelBars
  <2>2. [op |-> "cancel", req |-> r] \in WireMsg
    BY DEF WireMsg
  <2> QED
    BY <2>1, <2>2, WireGrows
<1>6. ASSUME NEW c \in Contracts, CancelMktData(c) PROVE CallInv'
  <2>1. UNCHANGED <<callVars, wire, subs>> /\ ReqID2Ticker' \subseteq ReqID2Ticker
        /\ mu' \in ReqIDs \cup {Nobody}
    BY <1>6 DEF CancelMktData
  <2> QED
    BY <2>1
<1>7. CASE SendCancel
  <2>1. [op |-> "cancel", req |-> mu] \in WireMsg
    BY <1>7 DEF SendCancel, WireMsg
  <2> QED
    BY <1>7, <2>1, WireGrows DEF SendCancel
<1>8. CASE SendCancelFails
  BY <1>8 DEF SendCancelFails
<1>9. CASE ServerReads
  <2>1. wire' \in Seq(WireMsg) /\ Head(wire) \in WireMsg
    BY <1>9, WireShrinks DEF ServerReads
  <2>2. subs' \subseteq ReqIDs
    BY <1>9, <2>1 DEF ServerReads, WireMsg
  <2> QED
    BY <1>9, <2>1, <2>2 DEF ServerReads
<1>10. CASE Message \/ HandlerStep
  BY <1>10 DEF Message, OtherMessage, handleTick, handleTickSnapshotEnd, handleRealtimeBar,
               HandlerStep, MarkTickerPending, AppendBar, BatchContinues, OnDataProcessed
<1>11. CASE UNCHANGED vars
  BY <1>11
<1> QED
  BY <1>1, <1>2, <1>3, <1>4, <1>5, <1>6, <1>7, <1>8, <1>9, <1>10, <1>11 DEF Next, CallerStep

LEMMA CallInvariant == Spec => []CallInv
<1>1. Init => CallInv
  <2> SUFFICES ASSUME Init PROVE CallInv
    OBVIOUS
  <2>1. \A r \in ReqIDs : r >= 1 /\ r \in Nat
    BY BoundsAssumption DEF ReqIDs
  <2>2. wire \in Seq(WireMsg)
    BY EmptySeq DEF Init
  <2>3. DOMAIN con = {r \in ReqIDs : r < seq}
    BY <2>1 DEF Init
  <2> QED
    BY <2>1, <2>2, <2>3 DEF Init, CallInv, PCs
<1> QED
  BY <1>1, CallNext, PTL DEF Spec

-----------------------------------------------------------------------------
(* Late bars *)

LEMMA LateNext == CallInv /\ LateInv /\ [Next]_vars => LateInv'
<1> SUFFICES ASSUME CallInv, LateInv, [Next]_vars PROVE LateInv'
  OBVIOUS
<1>0. late \in [ReqIDs -> Nat] /\ \A r \in ReqIDs : late[r] <= 1
  BY DEF LateInv, AtMostOneLateBar
<1>1. ASSUME NEW c \in Contracts, NEW k \in {"stream", "snapshot", "bars"}, Begin(c, k),
             ReqID2Subscriber' = ReqID2Subscriber \/ ReqID2Subscriber' = ReqID2Subscriber \cup {seq},
             UNCHANGED <<late, rpc, job>>
      PROVE  LateInv'
  <2>1. /\ seq \in ReqIDs /\ pc[seq] = "none" /\ pc'[seq] = "send"
        /\ \A r \in ReqIDs : r # seq => pc'[r] = pc[r]
    BY <1>1, BeginEffect
  <2> QED
    BY <1>0, <1>1, <2>1 DEF LateInv, AtMostOneLateBar
<1>2. ASSUME NEW r \in ReqIDs, NEW l \in PCs \ {"none", "cancelled"}, GoTo(r, l), pc[r] \in {"send", "track"},
             ReqID2Subscriber' \subseteq ReqID2Subscriber, UNCHANGED <<seq, con, kind, late, rpc, job>>
      PROVE  LateInv'
  <2>1. pc'[r] = l /\ \A x \in ReqIDs : x # r => pc'[x] = pc[x]
    BY <1>2, CallGoesOn
  <2> QED
    BY <1>0, <1>2, <2>1 DEF LateInv, AtMostOneLateBar
<1>3. ASSUME NEW r \in ReqIDs, CancelRealTimeBars(r) PROVE LateInv'
  <2>1. /\ ReqID2Subscriber' = ReqID2Subscriber \ {r} /\ pc[r] = "done" /\ GoTo(r, "cancelled")
        /\ UNCHANGED <<seq, con, kind, late, rpc, job>>
    BY <1>3 DEF CancelRealTimeBars
  <2>2. pc'[r] = "cancelled" /\ \A x \in ReqIDs : x # r => pc'[x] = pc[x]
    BY <2>1, CallGoesOn DEF PCs
  <2> QED
    BY <1>0, <2>1, <2>2 DEF LateInv, AtMostOneLateBar
<1>4. ASSUME UNCHANGED <<pc, late, ReqID2Subscriber>>, rpc' = "bar" => rpc = "bar" /\ job' = job
      PROVE  LateInv'
  BY <1>0, <1>4 DEF LateInv, AtMostOneLateBar
<1>5. ASSUME NEW r \in ReqIDs, handleRealtimeBar(r) PROVE LateInv'
  <2>1. rpc' = "bar" => job' \in ReqID2Subscriber /\ UNCHANGED <<pc, late, ReqID2Subscriber>>
    BY <1>5 DEF handleRealtimeBar
  <2>2. UNCHANGED <<pc, late, ReqID2Subscriber>>
    BY <1>5 DEF handleRealtimeBar
  <2>3. \A x \in ReqID2Subscriber : x \in ReqIDs /\ late[x] = 0
    <3>1. \A x \in ReqID2Subscriber : x \in ReqIDs /\ ~(late[x] > 0) /\ late[x] \in Nat
      BY <1>0 DEF LateInv
    <3> QED
      BY <3>1
  <2> QED
    BY <1>0, <2>1, <2>2, <2>3 DEF LateInv, AtMostOneLateBar
<1>6. CASE AppendBar
  <2>1. /\ rpc = "bar" /\ rpc' = "batch" /\ UNCHANGED <<pc, ReqID2Subscriber>>
        /\ late' = [late EXCEPT ![job] = IF pc[job] = "cancelled" THEN @ + 1 ELSE @]
    BY <1>6 DEF AppendBar
  <2>2. job \in ReqIDs /\ late[job] = 0
    BY <2>1 DEF LateInv
  <2>3. /\ late' \in [ReqIDs -> Nat] /\ \A r \in ReqIDs : r # job => late'[r] = late[r]
        /\ late'[job] = IF pc[job] = "cancelled" THEN 1 ELSE 0
    BY <1>0, <2>1, <2>2
  <2> QED
    BY <1>0, <2>1, <2>2, <2>3 DEF LateInv, AtMostOneLateBar
<1>7. ASSUME NEW c \in Contracts, NEW k \in {"stream", "snapshot"}, ReqMktData(c, k) PROVE LateInv'
  BY <1>1, <1>7 DEF ReqMktData
<1>8. ASSUME NEW c \in Contracts, ReqRealTimeBars(c) PROVE LateInv'
  BY <1>1, <1>8 DEF ReqRealTimeBars
<1>9. ASSUME NEW r \in ReqIDs, SendReq(r) \/ SendReqFails(r) \/ StartReq(r) PROVE LateInv'
  <2>1. PICK l \in PCs \ {"none", "cancelled"} : GoTo(r, l)
    BY <1>9 DEF SendReq, SendReqFails, StartReq, PCs
  <2>2. /\ pc[r] \in {"send", "track"} /\ ReqID2Subscriber' \subseteq ReqID2Subscriber
        /\ UNCHANGED <<seq, con, kind, late, rpc, job>>
    BY <1>9 DEF SendReq, SendReqFails, StartReq
  <2> QED
    BY <1>2, <2>1, <2>2
<1>10. CASE \/ \E r \in ReqIDs : SendCancelBars(r)
            \/ \E c \in Contracts : CancelMktData(c)
            \/ SendCancel \/ SendCancelFails \/ ServerReads
  BY <1>4, <1>10 DEF SendCancelBars, CancelMktData, SendCancel, SendCancelFails, ServerReads
<1>11. CASE OtherMessage \/ \E r \in ReqIDs : handleTick(r) \/ handleTickSnapshotEnd(r)
  BY <1>4, <1>11 DEF OtherMessage, handleTick, handleTickSnapshotEnd
<1>12. CASE MarkTickerPending \/ BatchContinues \/ OnDataProcessed
  BY <1>4, <1>12 DEF MarkTickerPending, BatchContinues, OnDataProcessed
<1>13. CASE UNCHANGED vars
  BY <1>4, <1>13
<1> QED
  BY <1>3, <1>5, <1>6, <1>7, <1>8, <1>9, <1>10, <1>11, <1>12, <1>13
     DEF Next, CallerStep, Message, HandlerStep

\* A list that CancelRealTimeBars has removed gets at most one more bar, however the reader,
\* the caller and the server are scheduled.
THEOREM OneLateBar == Spec => []AtMostOneLateBar
<1>1. Init => LateInv
  BY DEF Init, LateInv, AtMostOneLateBar
<1>2. LateInv => AtMostOneLateBar
  BY DEF LateInv
<1> QED
  BY <1>1, <1>2, CallInvariant, LateNext, PTL DEF Spec

-----------------------------------------------------------------------------
(* Cancelling by contract *)

LEMMA TickerNext == ASSUME IsInjective(Key) PROVE CallInv /\ TickerInv /\ [Next]_vars => TickerInv'
<1> SUFFICES ASSUME CallInv, TickerInv, [Next]_vars PROVE TickerInv'
  OBVIOUS
<1>1. ASSUME UNCHANGED <<con, cancelArg>>,
             \A k \in DOMAIN Tickers' : k \in DOMAIN Tickers /\ Tickers'[k] = Tickers[k]
      PROVE  TickerInv'
  BY <1>1 DEF TickerInv, CancelOnlyOwn
<1>2. ASSUME NEW c \in Contracts, NEW k \in {"stream", "snapshot", "bars"}, Begin(c, k),
             Tickers' = Tickers \/ Tickers' = With(Tickers, Key[c], seq), cancelArg' = cancelArg
      PROVE  TickerInv'
  <2>1. /\ seq \notin DOMAIN con /\ DOMAIN con' = DOMAIN con \cup {seq} /\ con'[seq] = c
        /\ \A r \in DOMAIN con : con'[r] = con[r]
    BY <1>2, BeginEffect
  <2>2. \A x \in DOMAIN Tickers' : \/ x = Key[c] /\ Tickers'[x] = seq
                                   \/ x \in DOMAIN Tickers /\ Tickers'[x] = Tickers[x]
    BY <1>2 DEF With
  <2>3. \A x \in DOMAIN Tickers' : Tickers'[x] \in DOMAIN con' /\ Key[con'[Tickers'[x]]] = x
    BY <2>1, <2>2 DEF TickerInv
  <2> QED
    BY <1>2, <2>1, <2>3 DEF TickerInv, CancelOnlyOwn
<1>3. ASSUME NEW c \in Contracts, CancelMktData(c) PROVE TickerInv'
  <2>1. PICK r : r = Tickers[Key[c]]
    OBVIOUS
  <2>2. /\ Key[c] \in DOMAIN Tickers /\ con' = con
        /\ Tickers' = Without(Tickers, Key[c])
        /\ cancelArg' = cancelArg \/ cancelArg' = With(cancelArg, r, c)
    BY <1>3, <2>1 DEF CancelMktData
  <2>3. r \in DOMAIN con /\ Key[con[r]] = Key[c] /\ con[r] \in Contracts
    BY <2>1, <2>2 DEF TickerInv, CallInv
  <2>4. con[r] = c
    BY <2>3, KeyAssumption DEF IsInjective
  <2>5. \A x \in DOMAIN cancelArg' : \/ x = r /\ cancelArg'[x] = c
                                     \/ x \in DOMAIN cancelArg /\ cancelArg'[x] = cancelArg[x]
    BY <2>2 DEF With
  <2>6. \A k \in DOMAIN Tickers' : k \in DOMAIN Tickers /\ Tickers'[k] = Tickers[k]
    BY <2>2 DEF Without, Restrict
  <2> QED
    BY <2>2, <2>3, <2>4, <2>5, <2>6 DEF TickerInv, CancelOnlyOwn
<1>4. ASSUME NEW r \in ReqIDs, SendReqFails(r) PROVE TickerInv'
  BY <1>1, <1>4 DEF SendReqFails, Without, Restrict
<1>5. ASSUME NEW c \in Contracts, NEW k \in {"stream", "snapshot"}, ReqMktData(c, k) PROVE TickerInv'
  BY <1>2, <1>5 DEF ReqMktData
<1>6. ASSUME NEW c \in Contracts, ReqRealTimeBars(c) PROVE TickerInv'
  BY <1>2, <1>6 DEF ReqRealTimeBars
<1>7. ASSUME UNCHANGED <<con, cancelArg, Tickers>> PROVE TickerInv'
  BY <1>1, <1>7
<1>8. ASSUME NEW r \in ReqIDs, SendReq(r) \/ StartReq(r) \/ SendCancelBars(r) \/ CancelRealTimeBars(r)
      PROVE  TickerInv'
  BY <1>7, <1>8 DEF SendReq, StartReq, SendCancelBars, CancelRealTimeBars
<1>9. CASE SendCancel \/ SendCancelFails \/ ServerReads \/ UNCHANGED vars
  BY <1>7, <1>9 DEF SendCancel, SendCancelFails, ServerReads
<1>10. CASE Message \/ HandlerStep
  BY <1>7, <1>10 DEF Message, OtherMessage, handleTick, handleTickSnapshotEnd, handleRealtimeBar,
                     HandlerStep, MarkTickerPending, AppendBar, BatchContinues, OnDataProcessed
<1> QED
  BY <1>3, <1>4, <1>5, <1>6, <1>8, <1>9, <1>10 DEF Next, CallerStep

LEMMA TickerInvariant == ASSUME IsInjective(Key) PROVE Spec => []TickerInv
<1>1. Init => TickerInv
  BY DEF Init, TickerInv, CancelOnlyOwn
<1>2. CallInv /\ TickerInv /\ [Next]_vars => TickerInv'
  BY TickerNext
<1> QED
  BY <1>1, <1>2, CallInvariant, PTL DEF Spec

\* When Contract.Key tells the contracts in use apart, CancelMktData ends no subscription but
\* one of the contract it is given, even when a contract is subscribed more than once.
THEOREM CancelsOwnOnly == ASSUME IsInjective(Key) PROVE Spec => []CancelOnlyOwn
<1>1. TickerInv => CancelOnlyOwn
  BY DEF TickerInv
<1> QED
  BY <1>1, TickerInvariant, PTL

-----------------------------------------------------------------------------
(* No stream without an owner *)

\* Nothing is written or read by the server.
LEMMA StreamKept ==
    ASSUME CallInv, StreamInv, wire' = wire, subs' \subseteq subs, unsent \subseteq unsent',
           \A r \in ReqIDs : pc'[r] = pc[r] \/ (Sent(r) /\ Sent(r)'),
           kind' = kind, ReqID2Ticker' \subseteq ReqID2Ticker,
           \A r \in ReqIDs : mu' = r \/ r \in cancelling' => mu = r \/ r \in cancelling \/ Sent(r),
           \A r \in ReqIDs : mu = r => mu' = r \/ r \in unsent',
           \A r \in ReqIDs : r \in cancelling => r \in cancelling' \/ r \in unsent',
           \A r \in ReqIDs : Routed(r) => Routed(r)' \/ (Sent(r) /\ (mu' = r \/ r \in cancelling'))
    PROVE  StreamInv'
<1>1. \A r \in ReqIDs : (OnWire(r)' <=> OnWire(r)) /\ (CancelSent(r)' <=> CancelSent(r))
  BY DEF OnWire, CancelSent
<1>2. \A r \in ReqIDs : Ending(r) => Ending(r)'
  BY <1>1 DEF Ending
<1>3. \A r \in ReqIDs : /\ Sent(r)' <=> Sent(r)
                        /\ pc'[r] = "send" => pc[r] = "send"
                        /\ pc'[r] \in {"none", "failed"} => pc[r] \in {"none", "failed"}
  BY DEF Sent
<1>4. \A r \in ReqIDs : mu' = r \/ r \in cancelling' => Ending(r)'
  BY DEF Ending
<1>5. \A r \in ReqIDs : Sent(r)' => Routed(r)' \/ Ending(r)'
  BY <1>2, <1>3, <1>4 DEF StreamInv
<1>6. \A r \in ReqIDs : r \in subs' \/ OnWire(r)' \/ mu' = r \/ r \in cancelling' => Sent(r)'
  BY <1>1, <1>3 DEF StreamInv
<1>7. \A r \in ReqIDs : pc'[r] = "send" => Routed(r)'
  BY <1>3 DEF StreamInv, Sent
<1>8. \A r \in ReqID2Ticker' : kind'[r] # "bars" /\ pc'[r] \notin {"none", "failed"}
  BY <1>3 DEF StreamInv, CallInv
<1>9. \A i, j \in DOMAIN wire' :
        i < j /\ wire'[i].op = "cancel" /\ wire'[j].req = wire'[i].req => wire'[j].op = "cancel"
  BY DEF StreamInv
<1> QED
  BY <1>5, <1>6, <1>7, <1>8, <1>9 DEF StreamInv

\* A cancellation is written.
LEMMA CancelWritten ==
    ASSUME CallInv, StreamInv, NEW x \in ReqIDs, mu = x \/ x \in cancelling,
           wire' = Append(wire, [op |-> "cancel", req |-> x]),
           UNCHANGED <<callVars, tickerVars, ReqID2Subscriber, unsent, subs>>,
           \A r \in ReqIDs : (mu = r => mu' = r \/ r = x) /\ (r \in cancelling => r \in cancelling' \/ r = x),
           \A r \in ReqIDs : (mu' = r => mu = r) /\ (r \in cancelling' => r \in cancelling)
    PROVE  StreamInv'
<1> DEFINE n == Len(wire) + 1
           m == [op |-> "cancel", req |-> x]
<1>1. m \in WireMsg /\ m.op = "cancel" /\ m.req = x
  BY DEF WireMsg
<1>2. wire' = Append(wire, m)
  OBVIOUS
<1> HIDE DEF m, n
<1>3. /\ DOMAIN wire' = DOMAIN wire \cup {n} /\ wire'[n] = m
      /\ \A i \in DOMAIN wire : wire'[i] = wire[i] /\ i < n
      /\ DOMAIN wire \subseteq Nat /\ n \in Nat
  BY <1>1, <1>2, WireGrows DEF n
<1>4. \A r \in ReqIDs : /\ OnWire(r)' => OnWire(r) \/ r = x
                        /\ OnWire(r) => OnWire(r)'
                        /\ CancelSent(r) => CancelSent(r)'
  BY <1>1, <1>3 DEF OnWire, CancelSent
<1>5. CancelSent(x)'
  BY <1>1, <1>3 DEF CancelSent
<1>6. ASSUME NEW r \in ReqIDs, Ending(r) PROVE Ending(r)'
  <2>1. CASE r = x
    BY <1>5, <2>1 DEF Ending
  <2>2. CASE r # x
    BY <1>4, <1>6, <2>2 DEF Ending
  <2> QED
    BY <2>1, <2>2
<1>7. \A r \in ReqIDs : (Sent(r)' <=> Sent(r)) /\ (Routed(r)' <=> Routed(r))
  BY DEF Sent, Routed
<1>8. \A r \in ReqIDs : r \in subs' \/ OnWire(r)' \/ mu' = r \/ r \in cancelling' => Sent(r)'
  BY <1>4, <1>7 DEF StreamInv
<1>9. \A i, j \in DOMAIN wire' :
        i < j /\ wire'[i].op = "cancel" /\ wire'[j].req = wire'[i].req => wire'[j].op = "cancel"
  <2> SUFFICES ASSUME NEW i \in DOMAIN wire', NEW j \in DOMAIN wire', i < j,
                      wire'[i].op = "cancel", wire'[j].req = wire'[i].req
               PROVE  wire'[j].op = "cancel"
    OBVIOUS
  <2>1. CASE j = n
    BY <1>1, <1>3, <2>1
  <2>2. CASE j # n
    <3>1. i # n
      BY <1>3, <2>2
    <3> QED
      BY <1>3, <2>2, <3>1 DEF StreamInv
  <2> QED
    BY <2>1, <2>2
<1> QED
  BY <1>6, <1>7, <1>8, <1>9 DEF StreamInv

LEMMA ServerReadsStream ==
    ASSUME CallInv, StreamInv, ServerReads
    PROVE  StreamInv'
<1>1. PICK x \in ReqIDs : wire[1].req = x /\ wire[1].op \in {"req", "cancel"}
  BY WireShrinks DEF ServerReads, WireMsg
<1>2. /\ 1 \in DOMAIN wire /\ Head(wire) = wire[1]
      /\ \A i \in DOMAIN wire' : i + 1 \in DOMAIN wire /\ wire'[i] = wire[i + 1] /\ i + 1 > 1
      /\ \A i \in DOMAIN wire : i = 1 \/ (i - 1 \in DOMAIN wire' /\ wire'[i - 1] = wire[i])
      /\ DOMAIN wire \subseteq Nat /\ DOMAIN wire' \subseteq Nat
  BY WireShrinks DEF ServerReads
<1>3. /\ subs' = IF wire[1].op = "req" THEN subs \cup {x} ELSE subs \ {x}
      /\ UNCHANGED <<callVars, tickerVars, barVars, cancelVars>>
  BY <1>1, <1>2 DEF ServerReads
<1>4. OnWire(x) /\ Sent(x)
  BY <1>1, <1>2 DEF OnWire, StreamInv
<1>5. \A r \in ReqIDs : /\ OnWire(r)' => OnWire(r)
                        /\ CancelSent(r) /\ r # x => CancelSent(r)'
  BY <1>1, <1>2 DEF OnWire, CancelSent
<1>6. wire[1].op = "req" /\ CancelSent(x) => CancelSent(x)'
  BY <1>2 DEF CancelSent
<1>7. wire[1].op = "cancel" /\ OnWire(x)' => CancelSent(x)'
  <2> SUFFICES ASSUME wire[1].op = "cancel", NEW i \in DOMAIN wire', wire'[i].req = x
               PROVE  CancelSent(x)'
    BY DEF OnWire
  <2>1. PICK j : j = i + 1
    OBVIOUS
  <2>2. j \in DOMAIN wire /\ wire'[i] = wire[j] /\ 1 < j
    BY <1>2, <2>1
  <2>3. wire[j].op = "cancel"
    BY <1>1, <1>2, <2>2 DEF StreamInv
  <2> QED
    BY <2>2, <2>3 DEF CancelSent
<1>8. ASSUME NEW r \in ReqIDs, Ending(r) PROVE Ending(r)'
  <2>1. CASE r # x
    BY <1>3, <1>5, <1>8, <2>1 DEF Ending
  <2>2. CASE r = x /\ wire[1].op = "req"
    BY <1>3, <1>4, <1>6, <1>8, <2>2 DEF Ending
  <2>3. CASE r = x /\ wire[1].op = "cancel"
    BY <1>3, <1>7, <2>3 DEF Ending
  <2> QED
    BY <1>1, <2>1, <2>2, <2>3
<1>9. \A r \in ReqIDs : (Sent(r)' <=> Sent(r)) /\ (Routed(r)' <=> Routed(r))
  BY <1>3 DEF Sent, Routed
<1>10. \A r \in ReqIDs : r \in subs' \/ OnWire(r)' \/ mu' = r \/ r \in cancelling' => Sent(r)'
  BY <1>3, <1>4, <1>5, <1>9 DEF StreamInv
<1>11. \A i, j \in DOMAIN wire' :
        i < j /\ wire'[i].op = "cancel" /\ wire'[j].req = wire'[i].req => wire'[j].op = "cancel"
  <2> SUFFICES ASSUME NEW i \in DOMAIN wire', NEW j \in DOMAIN wire', i < j,
                      wire'[i].op = "cancel", wire'[j].req = wire'[i].req
               PROVE  wire'[j].op = "cancel"
    OBVIOUS
  <2>1. PICK a, b : a = i + 1 /\ b = j + 1
    OBVIOUS
  <2>2. /\ a \in DOMAIN wire /\ b \in DOMAIN wire /\ a < b
        /\ wire'[i] = wire[a] /\ wire'[j] = wire[b]
    BY <1>2, <2>1
  <2> QED
    BY <2>2 DEF StreamInv
<1> QED
  BY <1>3, <1>8, <1>9, <1>10, <1>11 DEF StreamInv

LEMMA BeginStream ==
    ASSUME CallInv, StreamInv, NEW c \in Contracts, NEW k \in {"stream", "snapshot", "bars"}, Begin(c, k),
           UNCHANGED <<cancelling, cancelVars, serverVars>>,
           ReqID2Ticker' = ReqID2Ticker \/ (k # "bars" /\ ReqID2Ticker' = ReqID2Ticker \cup {seq}),
           NEW s, s = seq, Routed(s)',
           \A r \in ReqIDs : r # seq /\ r \in DOMAIN con /\ Routed(r) => Routed(r)'
    PROVE  StreamInv'
<1>1. /\ seq \in ReqIDs /\ pc[seq] = "none" /\ pc'[seq] = "send" /\ kind'[seq] = k
      /\ \A r \in ReqIDs : r # seq => pc'[r] = pc[r] /\ kind'[r] = kind[r]
  BY BeginEffect
<1>2. \A r \in ReqIDs : pc[r] # "none" => r \in DOMAIN con
  <2>1. /\ seq \in Nat /\ \A r \in ReqIDs : r \in Nat /\ (pc[r] = "none" <=> r >= seq)
        /\ DOMAIN con = {r \in ReqIDs : r < seq}
    BY DEF CallInv, ReqIDs
  <2> QED
    BY <2>1
<1>3. \A r \in ReqIDs : Sent(r)' => r # seq /\ Sent(r) /\ pc[r] # "none"
  BY <1>1 DEF Sent
<1>4. \A r \in ReqIDs : (OnWire(r)' <=> OnWire(r)) /\ (Ending(r)' <=> Ending(r))
  BY DEF OnWire, Ending, CancelSent
<1>5. \A r \in ReqIDs : Sent(r) => Sent(r)'
  BY <1>1 DEF Sent
<1>6. \A r \in ReqIDs : Sent(r)' => Routed(r)' \/ Ending(r)'
  BY <1>2, <1>3, <1>4 DEF StreamInv
<1>7. \A r \in ReqIDs : pc'[r] = "send" => Routed(r)'
  BY <1>1, <1>2 DEF StreamInv
<1>8. \A r \in ReqID2Ticker' : kind'[r] # "bars" /\ pc'[r] \notin {"none", "failed"}
  BY <1>1 DEF StreamInv, CallInv
<1>9. \A r \in ReqIDs : r \in subs' \/ OnWire(r)' \/ mu' = r \/ r \in cancelling' => Sent(r)'
  BY <1>4, <1>5 DEF StreamInv
<1> QED
  BY <1>6, <1>7, <1>8, <1>9 DEF StreamInv

\* Only the call that made it may replace the ticker of a contract while it is subscribed.
LEMMA ReqMktDataStream ==
    ASSUME IsInjective(Key), Exclusive, CallInv, StreamInv,
           NEW c \in Contracts, NEW k \in {"stream", "snapshot"}, ReqMktData(c, k)
    PROVE  StreamInv'
<1>1. /\ Begin(c, k) /\ ~Open(c) /\ Tickers' = With(Tickers, Key[c], seq)
      /\ ReqID2Ticker' = ReqID2Ticker \cup {seq}
      /\ UNCHANGED <<barVars, cancelVars, serverVars>>
  BY DEF ReqMktData
<1>2. /\ seq \in ReqIDs /\ seq \notin DOMAIN con /\ kind'[seq] = k /\ con'[seq] = c
      /\ \A r \in ReqIDs : r # seq => kind'[r] = kind[r]
      /\ \A r \in DOMAIN con : con'[r] = con[r]
  BY <1>1, BeginEffect
<1>3. /\ DOMAIN Tickers' = DOMAIN Tickers \cup {Key[c]} /\ Tickers'[Key[c]] = seq
      /\ \A x \in DOMAIN Tickers : x # Key[c] => Tickers'[x] = Tickers[x]
  BY <1>1 DEF With
<1>4. PICK s : s = seq
  OBVIOUS
<1>5. Routed(s)'
  BY <1>1, <1>2, <1>3, <1>4 DEF Routed
<1>6. ASSUME NEW r \in ReqIDs, r # seq, r \in DOMAIN con, Routed(r) PROVE Routed(r)'
  <2>1. CASE kind[r] = "bars"
    BY <1>1, <1>2, <1>6, <2>1 DEF Routed
  <2>2. CASE kind[r] # "bars"
    <3>1. con[r] # c
      BY <1>1, <1>6, <2>2 DEF Open, Routed
    <3>2. con[r] \in Contracts
      BY <1>6 DEF CallInv
    <3>3. Key[con[r]] # Key[c]
      BY <3>1, <3>2, KeyAssumption DEF IsInjective
    <3> QED
      BY <1>1, <1>2, <1>3, <1>6, <2>2, <3>3 DEF Routed
  <2> QED
    BY <2>1, <2>2
<1> QED
  BY <1>1, <1>4, <1>5, <1>6, BeginStream

LEMMA SendReqStream ==
    ASSUME CallInv, StreamInv, NEW x \in ReqIDs, SendReq(x)
    PROVE  StreamInv'
<1> DEFINE n == Len(wire) + 1
           m == [op |-> "req", req |-> x]
<1>1. m \in WireMsg /\ m.op = "req" /\ m.req = x
  BY DEF WireMsg
<1>2. /\ wire' = Append(wire, m) /\ pc[x] = "send"
      /\ UNCHANGED <<seq, con, kind, tickerVars, barVars, cancelVars, subs>>
  BY DEF SendReq
<1> HIDE DEF m, n
<1>3. /\ DOMAIN wire' = DOMAIN wire \cup {n} /\ wire'[n] = m
      /\ \A i \in DOMAIN wire : wire'[i] = wire[i] /\ i < n
      /\ DOMAIN wire \subseteq Nat /\ n \in Nat
  BY <1>1, <1>2, WireGrows DEF n
<1>4. pc'[x] \in {"track", "done"} /\ \A r \in ReqIDs : r # x => pc'[r] = pc[r]
  BY DEF SendReq, GoTo, CallInv
<1>5. Routed(x) /\ ~OnWire(x)
  BY <1>2 DEF StreamInv, Sent
<1>6. \A r \in ReqIDs : Routed(r)' <=> Routed(r)
  BY <1>2 DEF Routed
<1>7. \A r \in ReqIDs : /\ OnWire(r)' => OnWire(r) \/ r = x
                        /\ CancelSent(r) => CancelSent(r)'
  BY <1>1, <1>3 DEF OnWire, CancelSent
<1>8. \A r \in ReqIDs : r # x /\ Ending(r) => Ending(r)'
  BY <1>2, <1>7 DEF Ending
<1>9. \A r \in ReqIDs : (Sent(r) => Sent(r)') /\ (Sent(r)' => Sent(r) \/ r = x) /\ Sent(x)'
  BY <1>4 DEF Sent
<1>10. \A r \in ReqIDs : r \in subs' \/ OnWire(r)' \/ mu' = r \/ r \in cancelling' => Sent(r)'
  BY <1>2, <1>7, <1>9 DEF StreamInv
<1>11. \A i, j \in DOMAIN wire' :
        i < j /\ wire'[i].op = "cancel" /\ wire'[j].req = wire'[i].req => wire'[j].op = "cancel"
  <2> SUFFICES ASSUME NEW i \in DOMAIN wire', NEW j \in DOMAIN wire', i < j,
                      wire'[i].op = "cancel", wire'[j].req = wire'[i].req
               PROVE  wire'[j].op = "cancel"
    OBVIOUS
  <2>1. i # n
    BY <1>1, <1>3
  <2>2. j # n
    BY <1>1, <1>3, <1>5, <2>1 DEF OnWire
  <2> QED
    BY <1>3, <2>1, <2>2 DEF StreamInv
<1>12. \A r \in ReqIDs : Sent(r)' => Routed(r)' \/ Ending(r)'
  BY <1>5, <1>6, <1>8, <1>9 DEF StreamInv
<1>13. /\ \A r \in ReqIDs : pc'[r] = "send" => Routed(r)'
       /\ \A r \in ReqID2Ticker' : kind'[r] # "bars" /\ pc'[r] \notin {"none", "failed"}
  BY <1>2, <1>4, <1>6 DEF StreamInv, CallInv
<1> QED
  BY <1>10, <1>11, <1>12, <1>13 DEF StreamInv

LEMMA SendReqFailsStream ==
    ASSUME CallInv, StreamInv, NEW x \in ReqIDs, SendReqFails(x)
    PROVE  StreamInv'
<1>1. /\ pc[x] = "send" /\ Routed(x)
      /\ UNCHANGED <<seq, con, kind, cancelling, mu, unsent, wire, subs>>
  BY DEF SendReqFails, StreamInv
<1>2. pc'[x] = "failed" /\ \A r \in ReqIDs : r # x => pc'[r] = pc[r]
  BY DEF SendReqFails, GoTo, CallInv
<1>3. ASSUME NEW r \in ReqIDs, r # x, Routed(r) PROVE Routed(r)'
  <2>1. CASE kind[x] = "bars"
    BY <1>1, <1>3, <2>1 DEF SendReqFails, Routed
  <2>2. CASE kind[x] # "bars"
    <3>1. /\ Tickers' = Without(Tickers, Key[con[x]]) /\ ReqID2Ticker' = ReqID2Ticker \ {x}
          /\ ReqID2Subscriber' = ReqID2Subscriber
      BY <2>2 DEF SendReqFails
    <3>2. DOMAIN Tickers' = DOMAIN Tickers \ {Key[con[x]]} /\ \A k \in DOMAIN Tickers' : Tickers'[k] = Tickers[k]
      BY <3>1 DEF Without, Restrict
    <3>3. kind[r] # "bars" => Key[con[r]] # Key[con[x]]
      BY <1>1, <1>3, <2>2 DEF Routed
    <3> QED
      BY <1>1, <1>3, <3>1, <3>2, <3>3 DEF Routed
  <2> QED
    BY <2>1, <2>2
<1>4. \A r \in ReqIDs : (OnWire(r)' <=> OnWire(r)) /\ (Ending(r)' <=> Ending(r))
  BY <1>1 DEF OnWire, Ending, CancelSent
<1>5. \A r \in ReqIDs : (Sent(r)' <=> Sent(r)) /\ ~Sent(x)
  BY <1>1, <1>2 DEF Sent
<1>6. x \notin ReqID2Ticker' /\ ReqID2Ticker' \subseteq ReqID2Ticker
  <2>1. CASE kind[x] # "bars"
    BY <2>1 DEF SendReqFails
  <2>2. CASE kind[x] = "bars"
    BY <2>2 DEF SendReqFails, StreamInv
  <2> QED
    BY <2>1, <2>2
<1>7. \A r \in ReqIDs : Sent(r)' => Routed(r)' \/ Ending(r)'
  BY <1>3, <1>4, <1>5 DEF StreamInv
<1>8. /\ \A r \in ReqIDs : pc'[r] = "send" => Routed(r)'
      /\ \A r \in ReqID2Ticker' : kind'[r] # "bars" /\ pc'[r] \notin {"none", "failed"}
  BY <1>1, <1>2, <1>3, <1>6 DEF StreamInv, CallInv
<1>9. \A r \in ReqIDs : r \in subs' \/ OnWire(r)' \/ mu' = r \/ r \in cancelling' => Sent(r)'
  BY <1>1, <1>4, <1>5 DEF StreamInv
<1> QED
  BY <1>1, <1>7, <1>8, <1>9 DEF StreamInv

LEMMA CancelMktDataStream ==
    ASSUME Exclusive, CallInv, StreamInv, NEW c \in Contracts, CancelMktData(c)
    PROVE  StreamInv'
<1>1. PICK x : x = Tickers[Key[c]]
  OBVIOUS
<1>2. /\ mu = Nobody /\ Key[c] \in DOMAIN Tickers /\ pc[x] \in {"done", "failed"}
      /\ Tickers' = Without(Tickers, Key[c]) /\ ReqID2Ticker' = ReqID2Ticker \ {x}
      /\ mu' = (IF x \in ReqID2Ticker THEN x ELSE mu)
      /\ UNCHANGED <<callVars, barVars, unsent, serverVars>>
  BY <1>1 DEF CancelMktData, Unlocked
<1>3. x \in ReqID2Ticker => x \in ReqIDs /\ Sent(x)
  BY <1>2 DEF StreamInv, Sent, CallInv
<1>4. DOMAIN Tickers' = DOMAIN Tickers \ {Key[c]} /\ \A k \in DOMAIN Tickers' : Tickers'[k] = Tickers[k]
  BY <1>2 DEF Without, Restrict
<1>5. Nobody \notin ReqIDs
  BY BoundsAssumption DEF ReqIDs, Nobody
<1>6. ASSUME NEW r \in ReqIDs, Routed(r) PROVE Routed(r)' \/ (Sent(r) /\ mu' = r)
  <2>1. CASE r = x /\ kind[r] # "bars"
    BY <1>2, <1>3, <1>6, <2>1 DEF Routed
  <2>2. CASE r # x /\ kind[r] # "bars"
    <3>1. Key[con[r]] # Key[c]
      BY <1>1, <1>6, <2>2 DEF Routed
    <3> QED
      BY <1>2, <1>4, <1>6, <2>2, <3>1 DEF Routed
  <2>3. CASE kind[r] = "bars"
    BY <1>2, <1>6, <2>3 DEF Routed
  <2> QED
    BY <2>1, <2>2, <2>3
<1>7. \A r \in ReqIDs : mu' = r \/ r \in cancelling' => mu = r \/ r \in cancelling \/ Sent(r)
  BY <1>2, <1>3
<1>8. \A r \in ReqIDs : mu = r => mu' = r \/ r \in unsent'
  BY <1>2, <1>5
<1> QED
  BY <1>2, <1>6, <1>7, <1>8, StreamKept

LEMMA StreamNext ==
    ASSUME IsInjective(Key), Exclusive
    PROVE  CallInv /\ StreamInv /\ [Next]_vars => StreamInv'
<1> SUFFICES ASSUME CallInv, StreamInv, [Next]_vars PROVE StreamInv'
  OBVIOUS
<1>1. ASSUME NEW c \in Contracts, ReqRealTimeBars(c) PROVE StreamInv'
  <2>1. /\ Begin(c, "bars") /\ ReqID2Subscriber' = ReqID2Subscriber \cup {seq}
        /\ UNCHANGED <<tickerVars, cancelling, late, cancelVars, serverVars>>
    BY <1>1 DEF ReqRealTimeBars
  <2>2. /\ kind'[seq] = "bars" /\ \A r \in ReqIDs : r # seq => kind'[r] = kind[r]
        /\ \A r \in DOMAIN con : con'[r] = con[r]
    BY <2>1, BeginEffect
  <2>3. PICK s : s = seq
    OBVIOUS
  <2>4. Routed(s)'
    BY <2>1, <2>2, <2>3 DEF Routed
  <2>5. \A r \in ReqIDs : r # seq /\ r \in DOMAIN con /\ Routed(r) => Routed(r)'
    BY <2>1, <2>2 DEF Routed
  <2> QED
    BY <2>1, <2>3, <2>4, <2>5, BeginStream
<1>2. ASSUME UNCHANGED <<wire, unsent, pc, con, kind, Tickers, ReqID2Ticker, ReqID2Subscriber, mu, cancelling>>,
             subs' \subseteq subs
      PROVE  StreamInv'
  <2>1. \A r \in ReqIDs : Routed(r)' <=> Routed(r)
    BY <1>2 DEF Routed
  <2> QED
    BY <1>2, <2>1, StreamKept
<1>3. ASSUME NEW x \in ReqIDs, StartReq(x) PROVE StreamInv'
  <2>1. /\ pc[x] = "track" /\ pc' = [pc EXCEPT ![x] = "done"]
        /\ UNCHANGED <<wire, subs, unsent, con, kind, Tickers, ReqID2Ticker, ReqID2Subscriber, mu, cancelling>>
    BY <1>3 DEF StartReq, GoTo
  <2>2. \A r \in ReqIDs : pc'[r] = pc[r] \/ (Sent(r) /\ Sent(r)')
    BY <2>1 DEF CallInv, Sent
  <2>3. \A r \in ReqIDs : Routed(r)' <=> Routed(r)
    BY <2>1 DEF Routed
  <2> QED
    BY <2>1, <2>2, <2>3, StreamKept
<1>4. ASSUME NEW x \in ReqIDs, CancelRealTimeBars(x) PROVE StreamInv'
  <2>1. /\ pc[x] = "done" /\ kind[x] = "bars" /\ pc' = [pc EXCEPT ![x] = "cancelled"]
        /\ ReqID2Subscriber' = ReqID2Subscriber \ {x} /\ cancelling' = cancelling \cup {x}
        /\ UNCHANGED <<wire, subs, unsent, con, kind, Tickers, ReqID2Ticker, mu>>
    BY <1>4 DEF CancelRealTimeBars, GoTo
  <2>2. (\A r \in ReqIDs : pc'[r] = pc[r] \/ (Sent(r) /\ Sent(r)')) /\ Sent(x)
    BY <2>1 DEF CallInv, Sent
  <2>3. \A r \in ReqIDs : Routed(r) => Routed(r)' \/ (Sent(r) /\ r \in cancelling')
    BY <2>1, <2>2 DEF Routed
  <2> QED
    BY <2>1, <2>2, <2>3, StreamKept
<1>5. ASSUME NEW x \in ReqIDs, SendCancelBars(x) PROVE StreamInv'
  <2>1. /\ x \in cancelling /\ cancelling' = cancelling \ {x}
        /\ UNCHANGED <<callVars, tickerVars, ReqID2Subscriber, mu, subs>>
    BY <1>5 DEF SendCancelBars
  <2>2. CASE wire' = Append(wire, [op |-> "cancel", req |-> x]) /\ unsent' = unsent
    BY <2>1, <2>2, CancelWritten
  <2>3. CASE unsent' = unsent \cup {x} /\ wire' = wire
    <3>1. \A r \in ReqIDs : Routed(r)' <=> Routed(r)
      BY <2>1 DEF Routed
    <3> QED
      BY <2>1, <2>3, <3>1, StreamKept
  <2> QED
    BY <1>5, <2>2, <2>3 DEF SendCancelBars
<1>6. Nobody \notin ReqIDs /\ mu \in ReqIDs \cup {Nobody}
  BY BoundsAssumption DEF ReqIDs, Nobody, CallInv
<1>7. CASE SendCancel
  <2>1. PICK x : x = mu
    OBVIOUS
  <2>2. /\ x \in ReqIDs /\ mu' = Nobody /\ wire' = Append(wire, [op |-> "cancel", req |-> x])
        /\ UNCHANGED <<callVars, tickerVars, barVars, unsent, subs>>
    BY <1>6, <1>7, <2>1 DEF SendCancel
  <2> QED
    BY <1>6, <2>1, <2>2, CancelWritten
<1>8. CASE SendCancelFails
  <2>1. /\ mu' = Nobody /\ unsent' = unsent \cup {mu}
        /\ UNCHANGED <<callVars, tickerVars, barVars, serverVars>>
    BY <1>8 DEF SendCancelFails
  <2>2. \A r \in ReqIDs : Routed(r)' <=> Routed(r)
    BY <2>1 DEF Routed
  <2> QED
    BY <1>6, <2>1, <2>2, StreamKept
<1>9. CASE Message \/ HandlerStep \/ UNCHANGED vars
  BY <1>2, <1>9 DEF Message, OtherMessage, handleTick, handleTickSnapshotEnd, handleRealtimeBar,
                    HandlerStep, MarkTickerPending, AppendBar, BatchContinues, OnDataProcessed
<1> QED
  BY <1>1, <1>3, <1>4, <1>5, <1>7, <1>8, <1>9, ReqMktDataStream, SendReqStream, SendReqFailsStream,
     CancelMktDataStream, ServerReadsStream DEF Next, CallerStep

\* When Contract.Key tells the contracts apart and a contract is subscribed by one call at a
\* time, the server streams to nobody unless the write of a cancellation failed: whatever it
\* streams is routed to the ticker or bars of its call, and can be cancelled through them.
THEOREM StreamsHaveOwners ==
    ASSUME IsInjective(Key), Exclusive
    PROVE  Spec => []NoOrphanStream
<1>1. Init => StreamInv
  BY DEF Init, StreamInv, OnWire, Sent, Nobody
<1>2. CallInv /\ StreamInv /\ [Next]_vars => StreamInv'
  BY StreamNext
<1>3. ASSUME CallInv, StreamInv PROVE NoOrphanStream
  <2> SUFFICES ASSUME NEW r \in subs \ unsent, Settled(r) PROVE Routed(r)
    BY DEF NoOrphanStream, Routed
  <2>1. r \in ReqIDs /\ Sent(r)
    BY <1>3 DEF StreamInv, CallInv
  <2>2. ~OnWire(r)
    BY DEF Settled, OnWire, Range
  <2>3. ~CancelSent(r)
    BY <2>2 DEF OnWire, CancelSent
  <2>4. ~Ending(r)
    BY <2>2, <2>3 DEF Ending, Settled
  <2> QED
    BY <1>3, <2>1, <2>4 DEF StreamInv
<1> QED
  BY <1>1, <1>2, <1>3, CallInvariant, PTL DEF Spec

-----------------------------------------------------------------------------
(* The keys of contracts that TWS has numbered *)

\* No combos, every ConID known, and no two contracts with one ConID but a continuous
\* future and the future it stands for.
Numbered(cs) ==
    /\ \A c \in cs : c.secType # "BAG" /\ c.conID \in Nat \ {0}
    /\ \A c, d \in cs :
          c.conID = d.conID /\ (c.secType = "CONTFUT" <=> d.secType = "CONTFUT") => c = d

\* The sign of the key of a continuous future keeps it from all the others.
LEMMA NumberedApart ==
    ASSUME NEW cs, Numbered(cs)
    PROVE  IsInjective([c \in cs |-> KeyOf(c)])
<1> SUFFICES ASSUME NEW c \in cs, NEW d \in cs, KeyOf(c) = KeyOf(d)
             PROVE  c = d
  BY DEF IsInjective
<1>1. \A x \in cs : /\ x.secType = "CONTFUT" => KeyOf(x) = -x.conID
                    /\ x.secType # "CONTFUT" => KeyOf(x) = x.conID
                    /\ x.conID \in Nat \ {0}
  BY DEF Numbered, KeyOf
<1>2. c.conID = d.conID /\ (c.secType = "CONTFUT" <=> d.secType = "CONTFUT")
  BY <1>1
<1> QED
  BY <1>2 DEF Numbered

\* For contracts that TWS has numbered, continuous futures beside the futures they stand
\* for included, Contract.Key is all it takes: CancelMktData ends its own contract's
\* subscription, and, while each is subscribed by one call at a time, no stream is left
\* without an owner (contract.go:69-79).
THEOREM NumberedContractsKeptApart ==
    ASSUME Numbered(Contracts), Key = [c \in Contracts |-> KeyOf(c)]
    PROVE  /\ Spec => []CancelOnlyOwn
           /\ Exclusive => (Spec => []NoOrphanStream)
<1>1. IsInjective(Key)
  BY NumberedApart
<1>2. Spec => []CancelOnlyOwn
  BY <1>1, CancelsOwnOnly
<1>3. ASSUME Exclusive PROVE Spec => []NoOrphanStream
  BY <1>1, <1>3, StreamsHaveOwners
<1> QED
  BY <1>2, <1>3
=============================================================================
