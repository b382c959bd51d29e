--------------------------- MODULE RequestsProofs ---------------------------
(***************************************************************************)
(* Proofs about Requests, for any number of calls, partial results and     *)
(* connection attempts, with and without ConnectWithReconnect and with or  *)
(* without a goroutine that calls Disconnect; it implements Calls.         *)
(***************************************************************************)
EXTENDS RequestsRefinement, SequenceTheorems, TLAPS

USE DEF vars, callVars, chanVars, resultVars, readerVars, loopVars, connVars,
        serverVars

-----------------------------------------------------------------------------
(* The values *)

LEMMA ReqIDsNat == ReqIDs \subseteq Nat \ {0} /\ 1 \in ReqIDs
BY BoundsAssumption DEF ReqIDs

\* Items(r, n) is the sequence of the first n partial results of r.
LEMMA ItemsValue ==
    ASSUME NEW r \in ReqIDs, NEW n \in 0 .. MaxItems
    PROVE  /\ Items(r, n) \in Values
           /\ Len(Items(r, n)) = n
           /\ \A i \in 1 .. n : Items(r, n)[i] = Item(r, i)
<1>1. n \in Nat
  BY BoundsAssumption
<1>2. \A i \in 1 .. n : Item(r, i) \in ReqIDs \X (1 .. MaxItems)
  BY BoundsAssumption DEF Item
<1>3. Items(r, n) \in Values /\ Len(Items(r, n)) = n
  BY <1>1, <1>2, IsASeq DEF Items, Values
<1> QED
  BY <1>3 DEF Items

LEMMA ItemsEmpty == \A r : Items(r, 0) = <<>>
BY DEF Items

\* AppendResult on what was accumulated gives one partial result more.
LEMMA ItemsAppend ==
    ASSUME NEW r \in ReqIDs, NEW n \in 0 .. MaxItems, n < MaxItems
    PROVE  Append(Items(r, n), Item(r, n + 1)) = Items(r, n + 1)
<1>1. n \in Nat /\ n + 1 \in 0 .. MaxItems
  BY BoundsAssumption
<1>2. /\ Items(r, n) \in Values /\ Len(Items(r, n)) = n
      /\ Items(r, n + 1) \in Values /\ Len(Items(r, n + 1)) = n + 1
  BY <1>1, ItemsValue
<1>3. Item(r, n + 1) \in ReqIDs \X (1 .. MaxItems)
  BY <1>1, BoundsAssumption DEF Item
<1> DEFINE a == Items(r, n)
           s == Append(a, Item(r, n + 1))
<1>4. /\ s \in Values /\ Len(s) = n + 1
      /\ \A i \in 1 .. n : s[i] = a[i]
      /\ s[n + 1] = Item(r, n + 1)
  <2> HIDE DEF a
  <2> QED
    BY <1>2, <1>3, AppendProperties DEF Values, a
<1>5. \A i \in 1 .. n + 1 : s[i] = Items(r, n + 1)[i]
  <2>1. \A i \in 1 .. n : a[i] = Item(r, i)
    BY ItemsValue
  <2>2. \A i \in 1 .. n + 1 : Items(r, n + 1)[i] = Item(r, i)
    BY <1>1, ItemsValue
  <2> HIDE DEF s, a
  <2> QED
    BY <1>1, <1>4, <2>1, <2>2
<1> QED
  BY <1>2, <1>4, <1>5, SeqEqual DEF Values

-----------------------------------------------------------------------------
(* Type correctness *)

\* Adding or replacing one entry of Results keeps it a map of values.
LEMMA StoreResult ==
    ASSUME NEW r \in ReqIDs, NEW v \in Values,
           DOMAIN Results \subseteq ReqIDs,
           \A k \in DOMAIN Results : Results[k] \in Values,
           Results' = [k \in DOMAIN Results \cup {r} |->
                         IF k = r THEN v ELSE Results[k]]
    PROVE  /\ DOMAIN Results' \subseteq ReqIDs
           /\ \A k \in DOMAIN Results' : Results'[k] \in Values
OBVIOUS

LEMMA EmptyValue == <<>> \in Values
BY DEF Values

\* The send of an answer leaves one result in the channel.
LEMMA DeliverType ==
    ASSUME ChanTypeOK, NEW r \in ReqIDs, NEW res \in Result, Deliver(r, res)
    PROVE  /\ buf' \in [ReqIDs -> Seq(Result)]
           /\ \A q \in ReqIDs : Len(buf'[q]) <= 1
           /\ closed' \subseteq ReqIDs
BY DEF ChanTypeOK, Deliver

\* What the receive of ReceiveResult yields, the zero Result included.
LEMMA ReceivedType ==
    ASSUME ChanTypeOK, NEW r \in ReqIDs
    PROVE  (IF buf[r] = <<>> THEN ZeroResult ELSE buf[r][1]) \in Result
<1>1. ZeroResult \in Result
  BY EmptyValue DEF ZeroResult, Result, Errors
<1>2. ASSUME buf[r] # <<>> PROVE buf[r][1] \in Result
  <2>1. buf[r] \in Seq(Result)
    BY DEF ChanTypeOK
  <2>2. Len(buf[r]) \in Nat /\ Len(buf[r]) # 0
    BY <1>2, <2>1, EmptySeq, LenProperties
  <2> QED
    BY <2>1, <2>2, ElementOfSeq
<1> QED
  BY <1>1, <1>2

LEMMA TypeInit == Init => TypeOK
BY BoundsAssumption, ReqIDsNat, EmptyValue
DEF Init, TypeOK, CallTypeOK, ChanTypeOK, ResultTypeOK, GoroutineTypeOK,
    ConnTypeOK, ServerTypeOK, ReqIDs, Conns, CallerPC, ReaderPC, LoopPC, UserPC,
    Outcome, NoOutcome, Tags, NoJob, NoErr, Errors

LEMMA TypeNext == TypeOK /\ [Next]_vars => TypeOK'
<1> SUFFICES ASSUME TypeOK, [Next]_vars PROVE TypeOK'
  OBVIOUS
<1> USE BoundsAssumption, EmptyValue DEF TypeOK
<1>1. CASE Call
  <2>1. PICK k \in Kinds, b \in BOOLEAN : Begin(k, b)
    BY <1>1 DEF Call, ReqContractDetails, ReqAccountSummary,
       ReqSecDefOptParams, ReqHistoricalData, Begin
  <2>2. CallTypeOK'
    BY <2>1, KindsAssumption DEF Begin, CallTypeOK, GoTo, CallerPC, ReqIDs
  <2>3. ResultTypeOK'
    BY <2>1 DEF Begin, ResultTypeOK
  <2> QED
    BY <2>1, <2>2, <2>3 DEF Begin, ChanTypeOK, GoroutineTypeOK, ConnTypeOK,
       ServerTypeOK
<1>2. ASSUME NEW r \in ReqIDs, CallerStep(r) \/ ContextExpires(r)
      PROVE  TypeOK'
  <2>1. CASE StartReq(r)
    <3>1. CallTypeOK'
      BY <2>1 DEF StartReq, CallTypeOK, GoTo, CallerPC
    <3>2. ResultTypeOK'
      BY <2>1, StoreResult DEF StartReq, ResultTypeOK
    <3> QED
      BY <2>1, <3>1, <3>2 DEF StartReq, ChanTypeOK, GoroutineTypeOK,
         ConnTypeOK, ServerTypeOK
  <2>2. CASE Start(r)
    <3>1. CallTypeOK'
      BY <2>2 DEF Start, CallTypeOK, GoTo, CallerPC
    <3>2. ChanTypeOK'
      BY <2>2 DEF Start, ChanTypeOK
    <3> QED
      BY <2>2, <3>1, <3>2 DEF Start, ResultTypeOK, GoroutineTypeOK, ConnTypeOK,
         ServerTypeOK
  <2>3. CASE SendMessage(r)
    <3>1. CallTypeOK'
      BY <2>3 DEF SendMessage, CallTypeOK, GoTo, CallerPC, ConnTypeOK
    <3> QED
      BY <2>3, <3>1 DEF SendMessage, ChanTypeOK, ResultTypeOK, GoroutineTypeOK,
         ConnTypeOK, ServerTypeOK
  <2>4. CASE SendFails(r)
    <3>1. CallTypeOK'
      BY <2>4 DEF SendFails, CallTypeOK, GoTo, CallerPC
    <3> QED
      BY <2>4, <3>1 DEF SendFails, ChanTypeOK, ResultTypeOK, GoroutineTypeOK,
         ConnTypeOK, ServerTypeOK
  <2>5. CASE Done(r)
    <3>1. CallTypeOK'
      BY <2>5 DEF Done, CallTypeOK, GoTo, CallerPC, ConnTypeOK, Conns
    <3> QED
      BY <2>5, <3>1 DEF Done, ChanTypeOK, ResultTypeOK, GoroutineTypeOK,
         ConnTypeOK, ServerTypeOK
  <2>6. CASE ReceiveResult(r)
    <3>1. CallTypeOK'
      <4> DEFINE res == IF buf[r] = <<>> THEN ZeroResult ELSE buf[r][1]
      <4>1. res \in Result
        BY ReceivedType
      <4> HIDE DEF res
      <4>2. \E tag \in Tags, val \in Values : Return(r, tag, val)
        BY <2>6, <4>1 DEF ReceiveResult, Result, Errors, NoErr, Tags, res
      <4>3. pc' \in [ReqIDs -> CallerPC] /\ outcome' \in [ReqIDs -> Outcome]
        BY <4>2 DEF CallTypeOK, Return, GoTo, CallerPC, Outcome
      <4> QED
        BY <2>6, <4>3 DEF ReceiveResult, CallTypeOK
    <3>2. ChanTypeOK'
      BY <2>6 DEF ReceiveResult, ChanTypeOK
    <3> QED
      BY <2>6, <3>1, <3>2 DEF ReceiveResult, ResultTypeOK, GoroutineTypeOK,
         ConnTypeOK, ServerTypeOK
  <2>7. CASE ReturnDisconnected(r)
    <3>1. CallTypeOK'
      BY <2>7 DEF ReturnDisconnected, CallTypeOK, Return, GoTo, CallerPC,
         Outcome, Tags
    <3> QED
      BY <2>7, <3>1 DEF ReturnDisconnected, ChanTypeOK, ResultTypeOK,
         GoroutineTypeOK, ConnTypeOK, ServerTypeOK
  <2>8. CASE ContextExpires(r)
    <3>1. CallTypeOK'
      BY <2>8 DEF ContextExpires, CallTypeOK, GoTo, CallerPC
    <3> QED
      BY <2>8, <3>1 DEF ContextExpires, ChanTypeOK, ResultTypeOK,
         GoroutineTypeOK, ConnTypeOK, ServerTypeOK
  <2>9. CASE Cancel(r)
    <3>1. CallTypeOK'
      BY <2>9 DEF Cancel, CallTypeOK, Return, GoTo, CallerPC, Outcome, Tags
    <3>2. ChanTypeOK'
      BY <2>9 DEF Cancel, ChanTypeOK
    <3> QED
      BY <2>9, <3>1, <3>2 DEF Cancel, ResultTypeOK, GoroutineTypeOK,
         ConnTypeOK, ServerTypeOK
  <2> QED
    BY <1>2, <2>1, <2>2, <2>3, <2>4, <2>5, <2>6, <2>7, <2>8, <2>9 DEF
       CallerStep
<1>3. ASSUME NEW r \in ReqIDs, Message(r)
      PROVE  TypeOK'
  <2>1. CASE AppendResult(r)
    <3>1. sent[r] + 1 \in 1 .. MaxItems
      BY <2>1 DEF ServerTypeOK, AppendResult
    <3>2. r \in DOMAIN Results
             => Append(Results[r], Item(r, sent[r] + 1)) \in Values
      BY <3>1 DEF ResultTypeOK, Values, Item
    <3>3. ServerTypeOK'
      BY <2>1, <3>1 DEF AppendResult, ServerTypeOK
    <3>4. GoroutineTypeOK'
      <4>1. sent'[r] = sent[r] + 1
        BY <2>1 DEF AppendResult, ServerTypeOK
      <4>2. rpc' \in ReaderPC
        BY <2>1 DEF AppendResult, GoroutineTypeOK, NextMessage, ReaderPC
      <4>3. job' \in [req : ReqIDs, val : Values, err : Errors]
        <5>1. CASE r \in DOMAIN Results
          <6> DEFINE v == Append(Results[r], Item(r, sent[r] + 1))
          <6>1. job' = [req |-> r, err |-> NoErr, val |-> v]
            BY <2>1, <4>1, <5>1, Zenon DEF AppendResult
          <6>2. v \in Values
            BY <3>2, <5>1
          <6> HIDE DEF v
          <6> QED
            BY <6>1, <6>2 DEF Errors
        <5>2. CASE r \notin DOMAIN Results
          BY <2>1, <5>2 DEF AppendResult, GoroutineTypeOK
        <5> QED
          BY <5>1, <5>2
      <4> QED
        BY <2>1, <4>2, <4>3 DEF AppendResult, GoroutineTypeOK
    <3> QED
      BY <2>1, <3>3, <3>4 DEF AppendResult, CallTypeOK, ChanTypeOK, ResultTypeOK,
         ConnTypeOK
  <2>2. CASE End(r)
    <3>1. GoroutineTypeOK'
      BY <2>2 DEF End, GoroutineTypeOK, CallEndReq, ReaderPC, Errors, NoErr
    <3>2. ServerTypeOK'
      BY <2>2 DEF End, ServerTypeOK
    <3> QED
      BY <2>2, <3>1, <3>2 DEF End, CallTypeOK, ChanTypeOK, ResultTypeOK,
         ConnTypeOK, CallEndReq
  <2>3. CASE handleHistoricalData(r)
    <3>1. GoroutineTypeOK'
      BY <2>3, ItemsValue DEF handleHistoricalData, GoroutineTypeOK,
         CallEndReq, ReaderPC, Errors, NoErr
    <3>2. ServerTypeOK'
      BY <2>3 DEF handleHistoricalData, ServerTypeOK
    <3> QED
      BY <2>3, <3>1, <3>2 DEF handleHistoricalData, CallTypeOK, ChanTypeOK,
         ResultTypeOK, ConnTypeOK, CallEndReq
  <2>4. CASE handleError(r)
    <3>1. GoroutineTypeOK'
      BY <2>4 DEF handleError, GoroutineTypeOK, CallEndReq, ReaderPC, Errors,
         NoErr
    <3> QED
      BY <2>4, <3>1 DEF handleError, CallTypeOK, ChanTypeOK, ResultTypeOK,
         ConnTypeOK, ServerTypeOK, CallEndReq
  <2> QED
    BY <1>3, <2>1, <2>2, <2>3, <2>4 DEF Message, handleContractDetails,
       handleContractDetailsEnd, handleAccountSummary, handleAccountSummaryEnd,
       handleSecDefOptParams, handleSecDefOptParamsEnd
<1>4. CASE ReaderStep
  <2>1. CASE AppendStore
    <3>1. ResultTypeOK'
      BY <2>1, StoreResult DEF AppendStore, ResultTypeOK, GoroutineTypeOK
    <3>2. GoroutineTypeOK'
      BY <2>1 DEF AppendStore, GoroutineTypeOK, ReaderPC, NextMessage
    <3> QED
      BY <2>1, <3>1, <3>2 DEF AppendStore, CallTypeOK, ChanTypeOK, ConnTypeOK,
         ServerTypeOK
  <2>2. CASE EndReq
    <3>1. ResultTypeOK'
      BY <2>2 DEF EndReq, ResultTypeOK, GoroutineTypeOK, Restrict
    <3>2. GoroutineTypeOK'
      BY <2>2 DEF EndReq, GoroutineTypeOK, ReaderPC, ResultTypeOK
    <3> QED
      BY <2>2, <3>1, <3>2 DEF EndReq, CallTypeOK, ChanTypeOK, ConnTypeOK,
         ServerTypeOK
  <2>3. CASE Complete
    <3>1. ChanTypeOK'
      BY <2>3 DEF Complete, ChanTypeOK
    <3>2. GoroutineTypeOK'
      BY <2>3 DEF Complete, GoroutineTypeOK, ReaderPC, NextMessage
    <3> QED
      BY <2>3, <3>1, <3>2 DEF Complete, CallTypeOK, ResultTypeOK, ConnTypeOK,
         ServerTypeOK
  <2>4. CASE CompleteSend
    <3>1. ChanTypeOK'
      BY <2>4, DeliverType DEF CompleteSend, ChanTypeOK, GoroutineTypeOK,
         Result
    <3>2. GoroutineTypeOK'
      BY <2>4 DEF CompleteSend, GoroutineTypeOK, ReaderPC, NextMessage
    <3> QED
      BY <2>4, <3>1, <3>2 DEF CompleteSend, CallTypeOK, ResultTypeOK,
         ConnTypeOK, ServerTypeOK
  <2>5. CASE ReadFails
    <3>1. GoroutineTypeOK'
      BY <2>5 DEF ReadFails, GoroutineTypeOK, ReaderPC
    <3> QED
      BY <2>5, <3>1 DEF ReadFails, CallTypeOK, ChanTypeOK, ResultTypeOK,
         ConnTypeOK, ServerTypeOK
  <2>6. CASE ReaderCloseDone
    <3>1. GoroutineTypeOK'
      BY <2>6 DEF ReaderCloseDone, GoroutineTypeOK, ReaderPC
    <3>2. ConnTypeOK'
      BY <2>6 DEF ReaderCloseDone, ConnTypeOK, closeDone
    <3> QED
      BY <2>6, <3>1, <3>2 DEF ReaderCloseDone, CallTypeOK, ChanTypeOK,
         ResultTypeOK, ServerTypeOK
  <2>7. CASE ReaderDrainAll
    <3>1. ChanTypeOK'
      BY <2>7 DEF ReaderDrainAll, ChanTypeOK
    <3>2. GoroutineTypeOK'
      BY <2>7 DEF ReaderDrainAll, GoroutineTypeOK, ReaderPC, ChanTypeOK
    <3> QED
      BY <2>7, <3>1, <3>2 DEF ReaderDrainAll, CallTypeOK, ResultTypeOK,
         ConnTypeOK, ServerTypeOK
  <2>8. CASE ReaderDown
    <3>1. GoroutineTypeOK'
      BY <2>8 DEF ReaderDown, GoroutineTypeOK, ReaderPC
    <3> QED
      BY <2>8, <3>1 DEF ReaderDown, CallTypeOK, ChanTypeOK, ResultTypeOK,
         ConnTypeOK, ServerTypeOK
  <2>9. ASSUME NEW r \in ReqIDs, ReaderDrainSend(r) PROVE TypeOK'
    <3>1. ChanTypeOK'
      BY <2>9, DeliverType DEF ReaderDrainSend, ChanTypeOK, DrainResult,
         Result, Errors
    <3>2. GoroutineTypeOK'
      BY <2>9 DEF ReaderDrainSend, GoroutineTypeOK
    <3> QED
      BY <2>9, <3>1, <3>2 DEF ReaderDrainSend, CallTypeOK, ResultTypeOK,
         ConnTypeOK, ServerTypeOK
  <2> QED
    BY <1>4, <2>1, <2>2, <2>3, <2>4, <2>5, <2>6, <2>7, <2>8, <2>9 DEF
       ReaderStep
<1>5. CASE LoopStep
  <2>1. CASE LoopSeesDone
    <3>1. GoroutineTypeOK'
      BY <2>1 DEF LoopSeesDone, GoroutineTypeOK, LoopPC, LoopGoTo
    <3> QED
      BY <2>1, <3>1 DEF LoopSeesDone, CallTypeOK, ChanTypeOK, ResultTypeOK,
         ConnTypeOK, ServerTypeOK
  <2>2. CASE LoopDrainAll
    <3>1. ChanTypeOK'
      BY <2>2 DEF LoopDrainAll, ChanTypeOK
    <3>2. GoroutineTypeOK'
      BY <2>2 DEF LoopDrainAll, GoroutineTypeOK, LoopPC, LoopGoTo, ChanTypeOK
    <3> QED
      BY <2>2, <3>1, <3>2 DEF LoopDrainAll, CallTypeOK, ResultTypeOK,
         ConnTypeOK, ServerTypeOK
  <2>3. CASE LoopDrained
    <3>1. GoroutineTypeOK'
      BY <2>3 DEF LoopDrained, GoroutineTypeOK, LoopPC, LoopGoTo
    <3> QED
      BY <2>3, <3>1 DEF LoopDrained, CallTypeOK, ChanTypeOK, ResultTypeOK,
         ConnTypeOK, ServerTypeOK
  <2>4. CASE LoopReset
    <3>1. ResultTypeOK'
      BY <2>4 DEF LoopReset, ResultTypeOK, Reset
    <3>2. GoroutineTypeOK'
      BY <2>4 DEF LoopReset, GoroutineTypeOK, LoopPC, LoopGoTo
    <3> QED
      BY <2>4, <3>1, <3>2 DEF LoopReset, CallTypeOK, ChanTypeOK, ConnTypeOK,
         ServerTypeOK
  <2>5. CASE Connect
    <3>1. GoroutineTypeOK'
      BY <2>5 DEF Connect, GoroutineTypeOK, LoopPC, LoopGoTo
    <3>2. ConnTypeOK'
      BY <2>5 DEF Connect, ConnTypeOK, Conns
    <3> QED
      BY <2>5, <3>1, <3>2 DEF Connect, CallTypeOK, ChanTypeOK, ResultTypeOK,
         ServerTypeOK
  <2>6. CASE DialOK
    <3>1. GoroutineTypeOK'
      BY <2>6 DEF DialOK, GoroutineTypeOK, LoopPC, LoopGoTo, ReaderPC
    <3>2. ConnTypeOK'
      BY <2>6 DEF DialOK, ConnTypeOK, Conns
    <3> QED
      BY <2>6, <3>1, <3>2 DEF DialOK, CallTypeOK, ChanTypeOK, ResultTypeOK,
         ServerTypeOK
  <2>7. CASE DialFails
    <3>1. GoroutineTypeOK'
      BY <2>7 DEF DialFails, GoroutineTypeOK, LoopPC, LoopGoTo
    <3> QED
      BY <2>7, <3>1 DEF DialFails, CallTypeOK, ChanTypeOK, ResultTypeOK,
         ConnTypeOK, ServerTypeOK
  <2>8. CASE HandshakeReady
    <3>1. GoroutineTypeOK'
      BY <2>8 DEF HandshakeReady, GoroutineTypeOK, LoopPC, LoopGoTo
    <3> QED
      BY <2>8, <3>1 DEF HandshakeReady, CallTypeOK, ChanTypeOK, ResultTypeOK,
         ConnTypeOK, ServerTypeOK
  <2>9. CASE HandshakeClosed
    <3>1. GoroutineTypeOK'
      BY <2>9 DEF HandshakeClosed, GoroutineTypeOK, LoopPC, LoopGoTo
    <3> QED
      BY <2>9, <3>1 DEF HandshakeClosed, CallTypeOK, ChanTypeOK, ResultTypeOK,
         ConnTypeOK, ServerTypeOK
  <2>10. CASE HandshakeFails
    <3>1. GoroutineTypeOK'
      BY <2>10 DEF HandshakeFails, GoroutineTypeOK, LoopPC, LoopGoTo
    <3>2. ConnTypeOK'
      BY <2>10 DEF HandshakeFails, ConnTypeOK
    <3> QED
      BY <2>10, <3>1, <3>2 DEF HandshakeFails, CallTypeOK, ChanTypeOK,
         ResultTypeOK, ServerTypeOK
  <2>11. CASE LoopCloseDone
    <3>1. GoroutineTypeOK'
      BY <2>11 DEF LoopCloseDone, GoroutineTypeOK, LoopPC, LoopGoTo
    <3>2. ConnTypeOK'
      BY <2>11 DEF LoopCloseDone, ConnTypeOK, closeDone
    <3> QED
      BY <2>11, <3>1, <3>2 DEF LoopCloseDone, CallTypeOK, ChanTypeOK,
         ResultTypeOK, ServerTypeOK
  <2>12. ASSUME NEW r \in ReqIDs, LoopDrainSend(r) PROVE TypeOK'
    <3>1. ChanTypeOK'
      BY <2>12, DeliverType DEF LoopDrainSend, ChanTypeOK, DrainResult, Result,
         Errors
    <3>2. GoroutineTypeOK'
      BY <2>12 DEF LoopDrainSend, GoroutineTypeOK
    <3> QED
      BY <2>12, <3>1, <3>2 DEF LoopDrainSend, CallTypeOK, ResultTypeOK,
         ConnTypeOK, ServerTypeOK
  <2> QED
    BY <1>5, <2>1, <2>2, <2>3, <2>4, <2>5, <2>6, <2>7, <2>8, <2>9, <2>10,
       <2>11, <2>12 DEF LoopStep
<1>6. CASE PeerClose
  <2>1. ConnTypeOK'
    BY <1>6 DEF PeerClose, ConnTypeOK
  <2> QED
    BY <1>6, <2>1 DEF PeerClose, CallTypeOK, ChanTypeOK, ResultTypeOK,
       GoroutineTypeOK, ServerTypeOK
<1>7. CASE Disconnect
  <2>1. GoroutineTypeOK'
    BY <1>7 DEF Disconnect, GoroutineTypeOK, UserPC
  <2>2. ConnTypeOK'
    BY <1>7 DEF Disconnect, ConnTypeOK
  <2> QED
    BY <1>7, <2>1, <2>2 DEF Disconnect, CallTypeOK, ChanTypeOK, ResultTypeOK,
       ServerTypeOK
<1>8. CASE UserCloseDone
  <2>1. GoroutineTypeOK'
    BY <1>8 DEF UserCloseDone, GoroutineTypeOK, UserPC
  <2>2. ConnTypeOK'
    BY <1>8 DEF UserCloseDone, ConnTypeOK, closeDone
  <2> QED
    BY <1>8, <2>1, <2>2 DEF UserCloseDone, CallTypeOK, ChanTypeOK,
       ResultTypeOK, ServerTypeOK
<1>9. CASE UserReset
  <2>1. ResultTypeOK'
    BY <1>9 DEF UserReset, ResultTypeOK, Reset
  <2>2. GoroutineTypeOK'
    BY <1>9 DEF UserReset, GoroutineTypeOK, UserPC
  <2> QED
    BY <1>9, <2>1, <2>2 DEF UserReset, CallTypeOK, ChanTypeOK, ConnTypeOK,
       ServerTypeOK
<1>10. CASE UNCHANGED vars
  BY <1>10 DEF CallTypeOK, ChanTypeOK, ResultTypeOK, GoroutineTypeOK,
     ConnTypeOK, ServerTypeOK
<1> QED
  BY <1>1, <1>2, <1>3, <1>4, <1>5, <1>6, <1>7, <1>8, <1>9, <1>10
  DEF Next, UserStep

\* Type correctness of the request machinery in every reachable state.
THEOREM TypeCorrect == Spec => []TypeOK
BY TypeInit, TypeNext, PTL DEF Spec

-----------------------------------------------------------------------------
(* One answer per call *)

LEMMA OwnershipInit == Init => OwnershipInv
<1> SUFFICES ASSUME Init PROVE OwnershipInv
  OBVIOUS
<1>1. TypeOK
  BY TypeInit
<1>2. AnsweredOnce
  BY DEF Init, AnsweredOnce, ChannelOK, Owned, Owns, Owner, Registered
<1>3. DrainPhase /\ FreshIDs
  BY DEF Init, DrainPhase, FreshIDs
<1> QED
  BY <1>1, <1>2, <1>3 DEF OwnershipInv

\* A step that moves no channel between owners and leaves the caller on the same
\* side of Start keeps the channel in order.
LEMMA ChannelFrame ==
    ASSUME NEW r \in ReqIDs, ChannelOK(r),
           \A o \in Owner : Owns(o, r)' <=> Owns(o, r),
           buf'[r] = buf[r],
           r \in closed' <=> r \in closed,
           Registered(r)' <=> Registered(r),
           pc'[r] \in {"send", "select", "wait"}
             => pc[r] \in {"send", "select", "wait"}
    PROVE  ChannelOK(r)'
BY DEF ChannelOK, Owned

LEMMA OwnershipNext == OwnershipInv /\ TypeOK' /\ [Next]_vars => OwnershipInv'
<1> SUFFICES ASSUME TypeOK, AnsweredOnce, DrainPhase, FreshIDs, TypeOK',
                    [Next]_vars
             PROVE  AnsweredOnce' /\ DrainPhase' /\ FreshIDs'
  BY DEF OwnershipInv
<1> USE DEF Owns, Owner, Registered
<1>1. CASE Call
  <2>1. PICK k \in Kinds, b \in BOOLEAN : Begin(k, b)
    BY <1>1 DEF Call, ReqContractDetails, ReqAccountSummary,
       ReqSecDefOptParams, ReqHistoricalData, Begin
  <2>2. pc[seq] = "none" /\ pc' = [pc EXCEPT ![seq] = "track"]
    BY <2>1 DEF Begin, FreshIDs, GoTo, ReqIDs
  <2>3. AnsweredOnce'
    BY <2>1, <2>2, ChannelFrame DEF Begin, AnsweredOnce, TypeOK, CallTypeOK
  <2>4. FreshIDs'
    BY <2>1, <2>2 DEF Begin, FreshIDs, TypeOK, CallTypeOK, ReqIDs
  <2> QED
    BY <2>1, <2>3, <2>4 DEF Begin, DrainPhase
<1>2. ASSUME NEW c \in ReqIDs, CallerStep(c) \/ ContextExpires(c)
      PROVE  AnsweredOnce' /\ DrainPhase' /\ FreshIDs'
  <2>1. \E l \in CallerPC : pc[c] # "none" /\ pc' = [pc EXCEPT ![c] = l]
    BY <1>2 DEF CallerStep, ContextExpires, StartReq, Start, SendMessage,
       SendFails, Done, ReceiveResult, ReturnDisconnected, Cancel, GoTo, Return,
       CallerPC
  <2>2. FreshIDs'
    BY <1>2, <2>1 DEF FreshIDs, TypeOK, CallTypeOK, CallerStep, ContextExpires,
       StartReq, Start, SendMessage, SendFails, Done, ReceiveResult,
       ReturnDisconnected, Cancel
  <2>3. DrainPhase'
    BY <1>2 DEF DrainPhase, CallerStep, ContextExpires, StartReq, Start,
       SendMessage, SendFails, Done, ReceiveResult, ReturnDisconnected, Cancel
  <2>4. AnsweredOnce'
    <3> SUFFICES ASSUME NEW r \in ReqIDs PROVE ChannelOK(r)'
      BY DEF AnsweredOnce
    <3>1. ChannelOK(r)
      BY DEF AnsweredOnce
    <3>2. CASE StartReq(c)
      BY <3>1, <3>2, ChannelFrame DEF StartReq, GoTo, TypeOK, CallTypeOK
    <3>3. CASE Start(c)
      BY <3>1, <3>3 DEF Start, GoTo, TypeOK, CallTypeOK, ChannelOK, Owned
    <3>4. CASE SendMessage(c)
      BY <3>1, <3>4, ChannelFrame DEF SendMessage, GoTo, TypeOK, CallTypeOK
    <3>5. CASE SendFails(c)
      BY <3>1, <3>5, ChannelFrame DEF SendFails, GoTo, TypeOK, CallTypeOK
    <3>6. CASE Done(c)
      BY <3>1, <3>6, ChannelFrame DEF Done, GoTo, TypeOK, CallTypeOK
    <3>7. CASE ReceiveResult(c)
      BY <3>1, <3>7 DEF ReceiveResult, Return, GoTo, TypeOK, CallTypeOK,
         ChanTypeOK, ChannelOK, Owned
    <3>8. CASE ReturnDisconnected(c)
      BY <3>1, <3>8, ChannelFrame DEF ReturnDisconnected, Return, GoTo, TypeOK,
         CallTypeOK
    <3>9. CASE ContextExpires(c)
      BY <3>1, <3>9, ChannelFrame DEF ContextExpires, GoTo, TypeOK, CallTypeOK
    <3>10. CASE Cancel(c)
      BY <3>1, <3>10 DEF Cancel, Return, GoTo, TypeOK, CallTypeOK, ChannelOK,
         Owned
    <3> QED
      BY <1>2, <3>2, <3>3, <3>4, <3>5, <3>6, <3>7, <3>8, <3>9, <3>10
      DEF CallerStep
  <2> QED
    BY <2>2, <2>3, <2>4
<1>3. ASSUME NEW m \in ReqIDs, Message(m)
      PROVE  AnsweredOnce' /\ DrainPhase' /\ FreshIDs'
  <2>1. /\ rpc = "read" /\ rpc' \notin {"deliver", "drain"}
        /\ UNCHANGED <<callVars, chanVars, rdrain, loopVars>>
    BY <1>3 DEF Message, handleContractDetails, handleContractDetailsEnd,
       handleAccountSummary, handleAccountSummaryEnd, handleSecDefOptParams,
       handleSecDefOptParamsEnd, handleHistoricalData, handleError,
       AppendResult, End, CallEndReq, Readable, NextMessage
  <2>2. AnsweredOnce'
    BY <2>1, ChannelFrame DEF AnsweredOnce
  <2> QED
    BY <2>1, <2>2 DEF DrainPhase, FreshIDs
<1>4. CASE ReaderStep
  <2>1. FreshIDs'
    BY <1>4 DEF FreshIDs, ReaderStep, AppendStore, EndReq, Complete,
       CompleteSend, ReadFails, ReaderCloseDone, ReaderDrainAll, ReaderDown,
       ReaderDrainSend
  <2>2. CASE AppendStore \/ EndReq \/ ReadFails \/ ReaderCloseDone
    <3>1. /\ rpc \notin {"deliver", "drain", "down"}
          /\ rpc' \notin {"deliver", "drain"}
          /\ UNCHANGED <<callVars, chanVars, rdrain, loopVars>>
      BY <2>2 DEF AppendStore, EndReq, ReadFails, ReaderCloseDone, NextMessage
    <3>2. AnsweredOnce'
      BY <3>1, ChannelFrame DEF AnsweredOnce
    <3> QED
      BY <2>1, <3>1, <3>2 DEF DrainPhase
  <2>3. CASE Complete
    <3>1. AnsweredOnce'
      <4> SUFFICES ASSUME NEW r \in ReqIDs PROVE ChannelOK(r)'
        BY DEF AnsweredOnce
      <4>1. ChannelOK(r)
        BY DEF AnsweredOnce
      <4> QED
        BY <2>3, <4>1 DEF Complete, NextMessage, ChannelOK, Owned
    <3> QED
      BY <2>1, <2>3, <3>1 DEF Complete, NextMessage, DrainPhase
  <2>4. CASE CompleteSend
    <3>1. AnsweredOnce'
      <4> SUFFICES ASSUME NEW r \in ReqIDs PROVE ChannelOK(r)'
        BY DEF AnsweredOnce
      <4>1. ChannelOK(r)
        BY DEF AnsweredOnce
      <4> QED
        BY <2>4, <4>1 DEF CompleteSend, Deliver, NextMessage, ChannelOK, Owned,
           TypeOK, ChanTypeOK, GoroutineTypeOK
    <3> QED
      BY <2>1, <2>4, <3>1 DEF CompleteSend, NextMessage, DrainPhase
  <2>5. CASE ReaderDrainAll
    <3>1. rdrain = {}
      BY <2>5 DEF ReaderDrainAll, DrainPhase
    <3>2. AnsweredOnce'
      <4> SUFFICES ASSUME NEW r \in ReqIDs PROVE ChannelOK(r)'
        BY DEF AnsweredOnce
      <4>1. ChannelOK(r)
        BY DEF AnsweredOnce
      <4> QED
        BY <2>5, <3>1, <4>1 DEF ReaderDrainAll, ChannelOK, Owned
    <3> QED
      BY <2>1, <2>5, <3>2 DEF ReaderDrainAll, DrainPhase
  <2>6. CASE ReaderDown
    <3>1. AnsweredOnce'
      BY <2>6, ChannelFrame DEF ReaderDown, AnsweredOnce
    <3> QED
      BY <2>1, <2>6, <3>1 DEF ReaderDown, DrainPhase
  <2>7. ASSUME NEW d \in ReqIDs, ReaderDrainSend(d)
        PROVE  AnsweredOnce' /\ DrainPhase'
    <3>1. AnsweredOnce'
      <4> SUFFICES ASSUME NEW r \in ReqIDs PROVE ChannelOK(r)'
        BY DEF AnsweredOnce
      <4>1. ChannelOK(r)
        BY DEF AnsweredOnce
      <4> QED
        BY <2>7, <4>1 DEF ReaderDrainSend, Deliver, ChannelOK, Owned, TypeOK,
           ChanTypeOK
    <3> QED
      BY <2>7, <3>1 DEF ReaderDrainSend, DrainPhase
  <2> QED
    BY <1>4, <2>1, <2>2, <2>3, <2>4, <2>5, <2>6, <2>7 DEF ReaderStep
<1>5. CASE LoopStep
  <2>1. FreshIDs'
    BY <1>5 DEF FreshIDs, LoopStep, LoopSeesDone, LoopDrainAll, LoopDrained,
       LoopReset, Connect, DialOK, DialFails, HandshakeReady, HandshakeClosed,
       HandshakeFails, LoopCloseDone, LoopDrainSend
  <2>2. CASE LoopDrainAll
    <3>1. ldrain = {}
      BY <2>2 DEF LoopDrainAll, DrainPhase
    <3>2. AnsweredOnce'
      <4> SUFFICES ASSUME NEW r \in ReqIDs PROVE ChannelOK(r)'
        BY DEF AnsweredOnce
      <4>1. ChannelOK(r)
        BY DEF AnsweredOnce
      <4> QED
        BY <2>2, <3>1, <4>1 DEF LoopDrainAll, ChannelOK, Owned
    <3> QED
      BY <2>1, <2>2, <3>2 DEF LoopDrainAll, LoopGoTo, DrainPhase
  <2>3. ASSUME NEW d \in ReqIDs, LoopDrainSend(d)
        PROVE  AnsweredOnce' /\ DrainPhase'
    <3>1. AnsweredOnce'
      <4> SUFFICES ASSUME NEW r \in ReqIDs PROVE ChannelOK(r)'
        BY DEF AnsweredOnce
      <4>1. ChannelOK(r)
        BY DEF AnsweredOnce
      <4> QED
        BY <2>3, <4>1 DEF LoopDrainSend, Deliver, ChannelOK, Owned, TypeOK,
           ChanTypeOK
    <3> QED
      BY <2>3, <3>1 DEF LoopDrainSend, DrainPhase
  <2>4. CASE DialOK
    <3>1. rpc = "down"
      BY <2>4 DEF DialOK, DrainPhase
    <3>2. AnsweredOnce'
      BY <2>4, <3>1, ChannelFrame DEF DialOK, AnsweredOnce
    <3> QED
      BY <2>1, <2>4, <3>1, <3>2 DEF DialOK, LoopGoTo, DrainPhase
  <2>5. CASE \/ LoopSeesDone \/ LoopDrained \/ LoopReset \/ Connect \/ DialFails
             \/ HandshakeReady \/ HandshakeClosed \/ HandshakeFails
             \/ LoopCloseDone
    <3>1. /\ UNCHANGED <<callVars, chanVars, readerVars, ldrain>>
          /\ lpc = "drain" => ldrain = {}
          /\ lpc' = "dial" => rpc = "down"
      BY <2>5 DEF LoopGoTo, LoopSeesDone, LoopDrained, LoopReset, Connect, DialFails,
         HandshakeReady, HandshakeClosed, HandshakeFails, LoopCloseDone
    <3>2. AnsweredOnce'
      BY <3>1, ChannelFrame DEF AnsweredOnce
    <3> QED
      BY <2>1, <3>1, <3>2 DEF DrainPhase
  <2> QED
    BY <1>5, <2>1, <2>2, <2>3, <2>4, <2>5 DEF LoopStep
<1>6. CASE PeerClose \/ Disconnect \/ UserStep
  <2>1. UNCHANGED <<callVars, chanVars, readerVars, loopVars>>
    BY <1>6 DEF PeerClose, Disconnect, UserStep, UserCloseDone, UserReset
  <2>2. AnsweredOnce'
    BY <2>1, ChannelFrame DEF AnsweredOnce
  <2> QED
    BY <2>1, <2>2 DEF DrainPhase, FreshIDs
<1>7. CASE UNCHANGED vars
  <2>1. AnsweredOnce'
    BY <1>7, ChannelFrame DEF AnsweredOnce
  <2> QED
    BY <1>7, <2>1 DEF DrainPhase, FreshIDs
<1> QED
  BY <1>1, <1>2, <1>3, <1>4, <1>5, <1>6, <1>7 DEF Next

\* Every call that RequestMap.Start registered is answered exactly once, through
\* an open, empty channel, whatever the interleaving of Complete, Cancel and the
\* two DrainAlls.
THEOREM AnsweredExactlyOnce == Spec => []AnsweredOnce
<1>1. Init => OwnershipInv
  BY OwnershipInit
<1>2. OwnershipInv /\ [Next]_vars => OwnershipInv'
  BY OwnershipNext, TypeNext DEF OwnershipInv
<1>3. OwnershipInv => AnsweredOnce
  BY DEF OwnershipInv
<1> QED
  BY <1>1, <1>2, <1>3, PTL DEF Spec

-----------------------------------------------------------------------------
(* No partial answer *)

AnswerParts == NothingBeforeSend /\ ResultsExact /\ AnswersExact

LEMMA AnswerInit == Init => AnswerInv
<1> SUFFICES ASSUME Init PROVE AnswerInv
  OBVIOUS
<1>1. OwnershipInv
  BY OwnershipInit
<1>2. NothingBeforeSend /\ ResultsExact /\ AnswersExact
  BY DEF Init, NothingBeforeSend, ResultsExact, AnswersExact, NoOutcome
<1> QED
  BY <1>1, <1>2 DEF AnswerInv

\* What a reader-side step must leave alone for the three parts to survive.
LEMMA AnswerFrame ==
    ASSUME AnswerParts,
           UNCHANGED <<pc, kind, outcome, via, buf, Results, job, sent, ended>>,
           rpc' = rpc \/ (rpc # "append" /\ rpc' \notin {"append", "endReq"}
                          /\ (rpc' \in {"complete", "deliver"}
                                => rpc \in {"endReq", "complete", "deliver"}))
    PROVE  AnswerParts'
<1>1. NothingBeforeSend'
  BY DEF AnswerParts, NothingBeforeSend
<1>2. ResultsExact'
  BY DEF AnswerParts, ResultsExact
<1>3. AnswersExact'
  BY DEF AnswerParts, AnswersExact, Reportable
<1> QED
  BY <1>1, <1>2, <1>3 DEF AnswerParts

LEMMA AnswerNext ==
    OwnershipInv /\ AnswerParts /\ [Next]_vars => AnswerParts'
<1> SUFFICES ASSUME TypeOK, FreshIDs, DrainPhase, AnswerParts, [Next]_vars
             PROVE  AnswerParts'
  BY DEF OwnershipInv
<1>0. NothingBeforeSend /\ ResultsExact /\ AnswersExact
  BY DEF AnswerParts
<1>1. CASE Call
  <2>1. PICK k \in Kinds, b \in BOOLEAN : Begin(k, b)
    BY <1>1 DEF Call, ReqContractDetails, ReqAccountSummary,
       ReqSecDefOptParams, ReqHistoricalData, Begin
  <2>2. pc[seq] = "none" /\ via[seq] = 0 /\ sent[seq] = 0
    BY <1>0, <2>1 DEF Begin, FreshIDs, NothingBeforeSend, ReqIDs
  <2>3. NothingBeforeSend'
    BY <1>0, <2>1, <2>2 DEF Begin, GoTo, NothingBeforeSend, TypeOK, CallTypeOK
  <2>4. ResultsExact'
    <3>1. \A r \in ReqIDs \ {seq} : kind'[r] = kind[r]
      BY <2>1 DEF Begin, TypeOK, CallTypeOK
    <3>2. rpc = "append" => job.req # seq /\ job.req \in ReqIDs
      BY <1>0, <2>2 DEF NothingBeforeSend, TypeOK, GoroutineTypeOK
    <3>3. seq \in DOMAIN Results => Results[seq] = <<>>
      BY <1>0, <2>2, <3>2, ItemsEmpty DEF ResultsExact
    <3> QED
      BY <1>0, <2>1, <2>2, <3>1, <3>2, <3>3, ItemsEmpty
      DEF Begin, ResultsExact, TypeOK, ResultTypeOK
  <2>5. AnswersExact'
    BY <1>0, <2>1 DEF Begin, AnswersExact, Reportable
  <2> QED
    BY <2>3, <2>4, <2>5 DEF AnswerParts
<1>2. ASSUME NEW c \in ReqIDs, CallerStep(c) \/ ContextExpires(c)
      PROVE  AnswerParts'
  <2>1. CASE StartReq(c)
    <3>1. via[c] = 0 /\ sent[c] = 0 /\ ~(rpc = "append" /\ job.req = c)
      BY <1>0, <2>1 DEF StartReq, NothingBeforeSend
    <3>2. ResultsExact'
      BY <1>0, <2>1, <3>1, ItemsEmpty DEF StartReq, ResultsExact
    <3>3. NothingBeforeSend'
      BY <1>0, <2>1 DEF StartReq, GoTo, NothingBeforeSend, TypeOK, CallTypeOK
    <3>4. AnswersExact'
      BY <1>0, <2>1 DEF StartReq, AnswersExact, Reportable
    <3> QED
      BY <3>2, <3>3, <3>4 DEF AnswerParts
  <2>2. CASE SendMessage(c)
    <3>1. NothingBeforeSend'
      BY <1>0, <2>2 DEF SendMessage, GoTo, NothingBeforeSend, TypeOK, CallTypeOK
    <3> QED
      BY <1>0, <2>2, <3>1 DEF SendMessage, ResultsExact, AnswersExact, Reportable,
         AnswerParts
  <2>3. CASE ReceiveResult(c)
    <3>1. AnswersExact'
      <4> DEFINE res == IF buf[c] = <<>> THEN ZeroResult ELSE buf[c][1]
      <4>1. res.err = NoErr => Reportable(c, res.val)
        BY <1>0 DEF AnswersExact, Reportable, ZeroResult
      <4>2. res.err = NoErr
              => outcome' = [outcome EXCEPT ![c] = [tag |-> "ok", val |-> res.val]]
        BY <2>3 DEF ReceiveResult, Return
      <4>3. res.err # NoErr
              => outcome' = [outcome EXCEPT ![c] = [tag |-> res.err, val |-> <<>>]]
        BY <2>3 DEF ReceiveResult, Return
      <4>4. UNCHANGED <<rpc, job, sent, ended>> /\ buf' = [buf EXCEPT ![c] = <<>>]
        BY <2>3 DEF ReceiveResult
      <4>5. res.err # "ok"
        BY ReceivedType DEF Result, Errors, NoErr, TypeOK
      <4> HIDE DEF res
      <4>6. \A r \in ReqIDs : outcome'[r].tag = "ok" => Reportable(r, outcome'[r].val)
        <5> SUFFICES ASSUME NEW r \in ReqIDs, outcome'[r].tag = "ok"
                     PROVE  Reportable(r, outcome'[r].val)
          OBVIOUS
        <5>1. CASE r # c
          <6>1. outcome'[r] = outcome[r]
            BY <4>2, <4>3, <5>1 DEF TypeOK, CallTypeOK
          <6> QED
            BY <1>0, <6>1 DEF AnswersExact
        <5>2. CASE r = c
          BY <4>1, <4>2, <4>3, <4>5, <5>2 DEF TypeOK, CallTypeOK
        <5> QED
          BY <5>1, <5>2
      <4>7. \A r \in ReqIDs : buf'[r] # <<>> => buf'[r] = buf[r]
        BY <4>4 DEF TypeOK, ChanTypeOK
      <4> QED
        BY <1>0, <4>4, <4>6, <4>7 DEF AnswersExact, Reportable
    <3>2. NothingBeforeSend'
      BY <1>0, <2>3 DEF ReceiveResult, Return, GoTo, NothingBeforeSend, TypeOK,
         CallTypeOK
    <3> QED
      BY <1>0, <2>3, <3>1, <3>2 DEF ReceiveResult, ResultsExact, AnswerParts
  <2>4. CASE ReturnDisconnected(c) \/ Cancel(c)
    <3>1. \E tag \in Tags \ {"ok"} :
             /\ pc' = [pc EXCEPT ![c] = "returned"]
             /\ outcome' = [outcome EXCEPT ![c] = [tag |-> tag, val |-> <<>>]]
      BY <2>4 DEF ReturnDisconnected, Cancel, Return, GoTo, Tags
    <3>2. UNCHANGED <<kind, via, buf, Results, rpc, job, sent, ended>>
      BY <2>4 DEF ReturnDisconnected, Cancel
    <3>3. AnswersExact'
      BY <1>0, <3>1, <3>2 DEF AnswersExact, Reportable, TypeOK, CallTypeOK
    <3>4. NothingBeforeSend'
      BY <1>0, <3>1, <3>2 DEF NothingBeforeSend, TypeOK, CallTypeOK
    <3> QED
      BY <1>0, <3>2, <3>3, <3>4 DEF ResultsExact, AnswerParts
  <2>5. CASE Start(c) \/ SendFails(c) \/ Done(c) \/ ContextExpires(c)
    <3>1. /\ pc' = [pc EXCEPT ![c] = pc'[c]]
          /\ pc'[c] \in {"none", "track", "register", "send"}
               => pc[c] \in {"none", "track", "register", "send"}
          /\ UNCHANGED <<kind, outcome, via, buf, Results, rpc, job, sent, ended>>
      BY <2>5 DEF Start, SendFails, Done, ContextExpires, GoTo, TypeOK, CallTypeOK
    <3>2. NothingBeforeSend'
      BY <1>0, <3>1 DEF NothingBeforeSend, TypeOK, CallTypeOK
    <3> QED
      BY <1>0, <3>1, <3>2 DEF ResultsExact, AnswersExact, Reportable, AnswerParts
  <2> QED
    BY <1>2, <2>1, <2>2, <2>3, <2>4, <2>5 DEF CallerStep
<1>3. ASSUME NEW m \in ReqIDs, Message(m)
      PROVE  AnswerParts'
  <2>1. rpc = "read" /\ via[m] # 0
    BY <1>3 DEF Message, handleContractDetails, handleContractDetailsEnd,
       handleAccountSummary, handleAccountSummaryEnd, handleSecDefOptParams,
       handleSecDefOptParamsEnd, handleHistoricalData, handleError,
       AppendResult, End, Readable, TypeOK, ConnTypeOK, Conns
  <2>2. CASE AppendResult(m) /\ kind[m] # "HistoricalData"
    <3>1. /\ sent[m] \in 0 .. MaxItems /\ sent[m] < MaxItems
          /\ sent' = [sent EXCEPT ![m] = sent[m] + 1]
          /\ sent'[m] = sent[m] + 1
          /\ m \notin ended
      BY <2>2 DEF AppendResult, TypeOK, ServerTypeOK
    <3>2. \A r \in ReqIDs \ {m} : sent'[r] = sent[r]
      BY <3>1 DEF TypeOK, ServerTypeOK
    <3>3. UNCHANGED <<pc, kind, outcome, via, buf, Results, ended>>
      BY <2>2 DEF AppendResult
    <3>4. CASE m \in DOMAIN Results
      <4>1. Results[m] = Items(m, sent[m])
        BY <1>0, <2>1, <2>2, <3>4 DEF ResultsExact
      <4>2. /\ rpc' = "append" /\ job'.req = m
            /\ job'.val = Append(Results[m], Item(m, sent[m] + 1))
        BY <2>2, <3>1, <3>4 DEF AppendResult
      <4>3. job'.val = Items(m, sent'[m])
        BY <3>1, <4>1, <4>2, ItemsAppend
      <4>4. ResultsExact'
        BY <1>0, <2>1, <2>2, <3>1, <3>2, <3>3, <4>1, <4>2, <4>3
        DEF ResultsExact, TypeOK, ResultTypeOK, ServerTypeOK
      <4>5. NothingBeforeSend'
        BY <1>0, <2>1, <3>2, <3>3, <4>2 DEF NothingBeforeSend
      <4>6. AnswersExact'
        BY <1>0, <3>1, <3>2, <3>3, <4>2 DEF AnswersExact, Reportable
      <4> QED
        BY <4>4, <4>5, <4>6 DEF AnswerParts
    <3>5. CASE m \notin DOMAIN Results
      <4>1. rpc' \in {"read", "exit"}
        BY <2>2, <3>5 DEF AppendResult, NextMessage
      <4>2. ResultsExact'
        BY <1>0, <2>1, <3>2, <3>3, <3>5, <4>1 DEF ResultsExact, TypeOK, ResultTypeOK
      <4>3. NothingBeforeSend'
        BY <1>0, <2>1, <3>2, <3>3, <4>1 DEF NothingBeforeSend
      <4>4. AnswersExact'
        BY <1>0, <3>1, <3>2, <3>3, <4>1 DEF AnswersExact, Reportable
      <4> QED
        BY <4>2, <4>3, <4>4 DEF AnswerParts
    <3> QED
      BY <3>4, <3>5
  <2>3. CASE End(m) \/ handleError(m)
    <3>1. /\ rpc' = "endReq" /\ job'.req = m /\ job'.val = <<>>
          /\ UNCHANGED <<pc, kind, outcome, via, buf, Results, sent>>
          /\ \/ ended' = ended \cup {m}
             \/ ended' = ended /\ job'.err # NoErr
      BY <2>3 DEF End, handleError, CallEndReq, NoErr
    <3>2. ResultsExact'
      BY <1>0, <2>1, <3>1 DEF ResultsExact
    <3>3. NothingBeforeSend'
      BY <1>0, <2>1, <3>1 DEF NothingBeforeSend
    <3>4. AnswersExact'
      BY <1>0, <3>1 DEF AnswersExact, Reportable
    <3> QED
      BY <3>2, <3>3, <3>4 DEF AnswerParts
  <2>4. CASE handleHistoricalData(m)
    <3>1. PICK n \in 0 .. MaxItems : /\ sent' = [sent EXCEPT ![m] = n]
                                     /\ CallEndReq(m, Items(m, n), NoErr)
      BY <2>4 DEF handleHistoricalData
    <3>2. /\ rpc' = "endReq" /\ job'.req = m /\ job'.val = Items(m, n)
          /\ UNCHANGED <<pc, kind, outcome, via, buf, Results>>
      BY <3>1 DEF CallEndReq
    <3>3. /\ kind[m] = "HistoricalData" /\ m \notin ended
          /\ ended' = ended \cup {m}
      BY <2>4 DEF handleHistoricalData
    <3>4. sent'[m] = n /\ \A r \in ReqIDs \ {m} : sent'[r] = sent[r]
      BY <3>1 DEF TypeOK, ServerTypeOK
    <3>5. ResultsExact'
      BY <1>0, <2>1, <3>2, <3>3, <3>4 DEF ResultsExact, TypeOK, ResultTypeOK
    <3>6. NothingBeforeSend'
      BY <1>0, <2>1, <3>2, <3>4 DEF NothingBeforeSend
    <3>7. AnswersExact'
      BY <1>0, <3>2, <3>3, <3>4 DEF AnswersExact, Reportable
    <3> QED
      BY <3>5, <3>6, <3>7 DEF AnswerParts
  <2> QED
    BY <1>3, <2>2, <2>3, <2>4 DEF Message, handleContractDetails,
       handleContractDetailsEnd, handleAccountSummary, handleAccountSummaryEnd,
       handleSecDefOptParams, handleSecDefOptParamsEnd
<1>4. CASE ReaderStep
  <2>1. CASE AppendStore
    <3>1. ResultsExact'
      BY <1>0, <2>1 DEF AppendStore, NextMessage, ResultsExact
    <3> QED
      BY <1>0, <2>1, <3>1 DEF AppendStore, NextMessage, NothingBeforeSend,
         AnswersExact, Reportable, AnswerParts
  <2>2. CASE EndReq
    <3>1. /\ rpc = "endReq" /\ rpc' = "complete"
          /\ job'.req = job.req /\ job'.err = job.err
          /\ job'.val = IF job.val = <<>> /\ job.req \in DOMAIN Results
                        THEN Results[job.req] ELSE job.val
          /\ UNCHANGED <<pc, kind, outcome, via, buf, sent, ended>>
      BY <2>2 DEF EndReq, TypeOK, GoroutineTypeOK
    <3>2. job.req \in DOMAIN Results
             => Results[job.req] \in {<<>>, Items(job.req, sent[job.req])}
      BY <1>0, <3>1 DEF ResultsExact
    <3>3. AnswersExact'
      BY <1>0, <3>1, <3>2 DEF AnswersExact, Reportable
    <3>4. ResultsExact'
      BY <1>0, <2>2, <3>1 DEF EndReq, Restrict, ResultsExact
    <3>5. NothingBeforeSend'
      BY <1>0, <3>1 DEF NothingBeforeSend
    <3> QED
      BY <3>3, <3>4, <3>5 DEF AnswerParts
  <2>3. CASE CompleteSend
    <3>1. AnswersExact'
      BY <1>0, <2>3 DEF CompleteSend, Deliver, NextMessage, AnswersExact,
         Reportable, TypeOK, ChanTypeOK, GoroutineTypeOK
    <3> QED
      BY <1>0, <2>3, <3>1 DEF CompleteSend, NextMessage, NothingBeforeSend,
         ResultsExact, AnswerParts
  <2>4. ASSUME NEW d \in ReqIDs, ReaderDrainSend(d) PROVE AnswerParts'
    <3>1. AnswersExact'
      BY <1>0, <2>4 DEF ReaderDrainSend, Deliver, DrainResult, NoErr, AnswersExact,
         Reportable, TypeOK, ChanTypeOK
    <3> QED
      BY <1>0, <2>4, <3>1 DEF ReaderDrainSend, NothingBeforeSend, ResultsExact,
         AnswerParts
  <2>5. CASE Complete \/ ReadFails \/ ReaderCloseDone \/ ReaderDrainAll \/ ReaderDown
    BY <2>5, AnswerFrame DEF Complete, ReadFails, ReaderCloseDone, ReaderDrainAll,
       ReaderDown, NextMessage
  <2> QED
    BY <1>4, <2>1, <2>2, <2>3, <2>4, <2>5 DEF ReaderStep
<1>5. CASE LoopReset \/ UserReset
  <2>1. /\ Results' = <<>>
        /\ UNCHANGED <<pc, kind, outcome, via, buf, rpc, job, sent, ended>>
    BY <1>5 DEF LoopReset, UserReset, Reset
  <2> QED
    BY <1>0, <2>1 DEF NothingBeforeSend, ResultsExact, AnswersExact, Reportable,
       AnswerParts
<1>6. ASSUME NEW d \in ReqIDs, LoopDrainSend(d) PROVE AnswerParts'
  <2>1. AnswersExact'
    BY <1>0, <1>6 DEF LoopDrainSend, Deliver, DrainResult, NoErr, AnswersExact,
       Reportable, TypeOK, ChanTypeOK
  <2> QED
    BY <1>0, <1>6, <2>1 DEF LoopDrainSend, NothingBeforeSend, ResultsExact,
       AnswerParts
<1>7. CASE DialOK
  <2>1. rpc = "down"
    BY <1>7 DEF DialOK, DrainPhase
  <2> QED
    BY <1>7, <2>1, AnswerFrame DEF DialOK
<1>8. CASE LoopStep /\ ~LoopReset /\ ~DialOK /\ ~\E d \in ReqIDs : LoopDrainSend(d)
  BY <1>8, AnswerFrame DEF LoopStep, LoopSeesDone, LoopDrainAll, LoopDrained,
     Connect, DialFails, HandshakeReady, HandshakeClosed, HandshakeFails,
     LoopCloseDone
<1>9. CASE PeerClose \/ Disconnect \/ UserCloseDone \/ UNCHANGED vars
  BY <1>9, AnswerFrame DEF PeerClose, Disconnect, UserCloseDone
<1> QED
  BY <1>1, <1>2, <1>3, <1>4, <1>5, <1>6, <1>7, <1>8, <1>9
  DEF Next, UserStep

\* A method that reports success returns nothing or all the partial results the
\* server sent for the call, in order, even when Reset empties Results between
\* two of them or between the read and the write of AppendResult.
THEOREM NeverPartial == Spec => []NoPartialAnswer
<1>1. Init => AnswerInv
  BY AnswerInit
<1>2. AnswerInv /\ [Next]_vars => AnswerInv'
  BY OwnershipNext, TypeNext, AnswerNext DEF AnswerInv, OwnershipInv, AnswerParts
<1>3. AnswerInv => NoPartialAnswer
  BY DEF AnswerInv, AnswersExact, Reportable, NoPartialAnswer
<1> QED
  BY <1>1, <1>2, <1>3, PTL DEF Spec

-----------------------------------------------------------------------------
(* What backs an outcome *)

\* The server has ended only requests that were written to a socket, an outcome
\* is there only once the method has returned, and the server never got a
\* request whose caller was told that the send failed.
SentBacked ==
    \A r \in ReqIDs :
        /\ r \in ended => via[r] # 0
        /\ pc[r] # "returned" => outcome[r].tag = "none"
        /\ pc[r] = "cancelSend" \/ outcome[r].tag = "sendError" => via[r] = 0

\* A successful result on its way to a caller answers a request that was ended.
SuccessBacked ==
    \A r \in ReqIDs : buf[r] # <<>> /\ buf[r][1].err = NoErr => r \in ended

\* Nobody is told of a lost connection before a done channel was closed: only
\* then do the reader and the loop come to their DrainAll.
DownBacked ==
    /\ job.err # "disconnected"
    /\ closedDone = {} =>
          /\ rpc \notin {"swap", "drain", "down"}
          /\ lpc \in {"off", "wait"}
          /\ \A r \in ReqIDs : buf[r] # <<>> => buf[r][1].err # "disconnected"

BackedParts == SentBacked /\ SuccessBacked /\ DownBacked

\* The inductive invariant under which every step is a step of Calls.
BackedInv == AnswerInv /\ BackedParts

\* The reader is never between the read and the write of AppendResult for a
\* request that has been ended.
NoLateAppend == rpc = "append" => job.req \notin ended

\* The inductive invariant behind AnsweredIsForgotten.
ForgottenInv == BackedInv /\ NoLateAppend /\ AnsweredIsForgotten

\* Without Reset a pending call keeps its entry of Results until EndReq takes
\* it out, and what EndReq makes of it is the complete answer.
PendingKept ==
    /\ \A r \in ReqIDs : pc[r] = "register" => r \in DOMAIN Results
    /\ \A r \in pending : r \in DOMAIN Results \/ (rpc = "complete" /\ job.req = r)
Whole(r, v) == r \in ended /\ v = Items(r, sent[r])
WholeAnswers ==
    /\ rpc = "endReq" /\ job.err = NoErr /\ kind[job.req] = "HistoricalData" =>
          job.val = Items(job.req, sent[job.req])
    /\ rpc = "endReq" /\ kind[job.req] # "HistoricalData" => job.val = <<>>
    /\ rpc = "complete" /\ job.err = NoErr /\ job.req \in pending =>
          Whole(job.req, job.val)
    /\ rpc = "deliver" /\ job.err = NoErr => Whole(job.req, job.val)
    /\ \A r \in ReqIDs : buf[r] # <<>> /\ buf[r][1].err = NoErr =>
          Whole(r, buf[r][1].val)
NoTeardown == lpc = "off" /\ upc = "idle"

\* The inductive invariant behind CompleteAnswer.
CompleteInv ==
    BackedInv /\ NoTeardown /\ PendingKept /\ WholeAnswers /\ CompleteAnswer

-----------------------------------------------------------------------------
LEMMA BackedInit == Init => BackedInv
<1> SUFFICES ASSUME Init PROVE BackedInv
  OBVIOUS
<1>1. AnswerInv
  BY AnswerInit
<1>2. BackedParts
  BY DEF Init, BackedParts, SentBacked, SuccessBacked, DownBacked, NoOutcome,
     NoJob, NoErr
<1> QED
  BY <1>1, <1>2 DEF BackedInv

\* What most steps leave alone.
LEMMA BackedFrame ==
    ASSUME BackedParts,
           UNCHANGED <<pc, outcome, via, buf, job, ended>>,
           closedDone \subseteq closedDone',
           closedDone' = {} => /\ rpc' \notin {"swap", "drain", "down"}
                               /\ lpc' \in {"off", "wait"}
    PROVE  BackedParts'
BY DEF BackedParts, SentBacked, SuccessBacked, DownBacked

LEMMA BackedNext == AnswerInv /\ BackedParts /\ [Next]_vars => BackedParts'
<1> SUFFICES ASSUME TypeOK, FreshIDs, DrainPhase, AnswerParts, BackedParts,
                    [Next]_vars
             PROVE  BackedParts'
  BY DEF AnswerInv, OwnershipInv, AnswerParts
<1>0. /\ SentBacked /\ SuccessBacked /\ DownBacked
      /\ NothingBeforeSend /\ AnswersExact
  BY DEF BackedParts, AnswerParts
<1>1. CASE Call
  <2>1. PICK k \in Kinds, b \in BOOLEAN : Begin(k, b)
    BY <1>1 DEF Call, ReqContractDetails, ReqAccountSummary,
       ReqSecDefOptParams, ReqHistoricalData, Begin
  <2>2. pc[seq] = "none"
    BY <2>1 DEF Begin, FreshIDs, ReqIDs
  <2>3. SentBacked'
    BY <1>0, <2>1, <2>2 DEF Begin, GoTo, SentBacked, TypeOK, CallTypeOK
  <2> QED
    BY <1>0, <2>1, <2>3 DEF Begin, BackedParts, SuccessBacked, DownBacked
<1>2. ASSUME NEW c \in ReqIDs, CallerStep(c) \/ ContextExpires(c)
      PROVE  BackedParts'
  <2>1. CASE SendMessage(c)
    <3>1. /\ pc[c] = "send" /\ pc'[c] = "select" /\ via'[c] # 0
          /\ \A r \in ReqIDs \ {c} : pc'[r] = pc[r] /\ via'[r] = via[r]
          /\ UNCHANGED <<outcome, ended, buf, job, closedDone, rpc, lpc>>
      BY <2>1 DEF SendMessage, GoTo, TypeOK, CallTypeOK, ConnTypeOK
    <3> QED
      BY <1>0, <3>1 DEF BackedParts, SentBacked, SuccessBacked, DownBacked
  <2>2. CASE ReceiveResult(c)
    <3> DEFINE res == IF buf[c] = <<>> THEN ZeroResult ELSE buf[c][1]
               tag == IF res.err = NoErr THEN "ok" ELSE res.err
    <3>1. /\ pc[c] = "wait" /\ pc'[c] = "returned"
          /\ \A r \in ReqIDs \ {c} : pc'[r] = pc[r] /\ outcome'[r] = outcome[r]
          /\ outcome'[c].tag = tag
      BY <2>2 DEF ReceiveResult, Return, GoTo, TypeOK, CallTypeOK
    <3>2. tag # "sendError"
      BY ReceivedType DEF Result, Errors, NoErr, TypeOK
    <3>3. /\ \A r \in ReqIDs : buf'[r] # <<>> => buf'[r] = buf[r]
          /\ UNCHANGED <<via, ended, job, closedDone, rpc, lpc>>
      BY <2>2 DEF ReceiveResult, TypeOK, ChanTypeOK
    <3> HIDE DEF tag
    <3> QED
      BY <1>0, <3>1, <3>2, <3>3
      DEF BackedParts, SentBacked, SuccessBacked, DownBacked
  <2>3. CASE ReturnDisconnected(c) \/ Cancel(c)
    <3>1. /\ pc'[c] = "returned"
          /\ \A r \in ReqIDs \ {c} : pc'[r] = pc[r] /\ outcome'[r] = outcome[r]
          /\ outcome'[c].tag = "sendError" => pc[c] = "cancelSend"
          /\ UNCHANGED <<via, ended, buf, job, closedDone, rpc, lpc>>
      BY <2>3 DEF ReturnDisconnected, Cancel, Return, GoTo, TypeOK, CallTypeOK
    <3> QED
      BY <1>0, <3>1 DEF BackedParts, SentBacked, SuccessBacked, DownBacked
  <2>4. CASE StartReq(c) \/ Start(c) \/ SendFails(c) \/ Done(c) \/ ContextExpires(c)
    <3>1. /\ pc[c] # "returned"
          /\ pc'[c] = "cancelSend" => pc[c] = "send"
          /\ \A r \in ReqIDs \ {c} : pc'[r] = pc[r]
          /\ UNCHANGED <<outcome, via, ended, buf, job, closedDone, rpc, lpc>>
      BY <2>4 DEF StartReq, Start, SendFails, Done, ContextExpires, GoTo, TypeOK,
         CallTypeOK
    <3> QED
      BY <1>0, <3>1 DEF BackedParts, SentBacked, SuccessBacked, DownBacked,
         NothingBeforeSend
  <2> QED
    BY <1>2, <2>1, <2>2, <2>3, <2>4 DEF CallerStep
<1>3. ASSUME NEW m \in ReqIDs, Message(m)
      PROVE  BackedParts'
  <2>1. /\ via[m] # 0 /\ rpc = "read"
        /\ ended' \in {ended, ended \cup {m}}
        /\ rpc' \in {"append", "endReq", "read", "exit"}
        /\ job' = job \/ job'.err \in {NoErr, "apiError"}
        /\ UNCHANGED <<pc, outcome, via, buf, closedDone, lpc>>
    BY <1>3 DEF Message, handleContractDetails, handleContractDetailsEnd,
       handleAccountSummary, handleAccountSummaryEnd, handleSecDefOptParams,
       handleSecDefOptParamsEnd, handleHistoricalData, handleError,
       AppendResult, NextMessage, End, CallEndReq, Readable, TypeOK, ConnTypeOK,
       Conns
  <2>2. SentBacked'
    BY <1>0, <2>1 DEF SentBacked
  <2>3. SuccessBacked'
    BY <1>0, <2>1 DEF SuccessBacked
  <2>4. DownBacked'
    BY <1>0, <2>1 DEF DownBacked, NoErr
  <2> QED
    BY <2>2, <2>3, <2>4 DEF BackedParts
<1>4. CASE ReaderStep
  <2>1. CASE EndReq
    BY <1>0, <2>1 DEF EndReq, BackedParts, SentBacked, SuccessBacked, DownBacked,
       TypeOK, GoroutineTypeOK
  <2>2. CASE CompleteSend
    <3>1. /\ rpc = "deliver" /\ rpc' \in {"read", "exit"}
          /\ \A r \in ReqIDs : r # job.req => buf'[r] = buf[r]
          /\ buf'[job.req] = <<[val |-> job.val, err |-> job.err]>>
          /\ UNCHANGED <<pc, outcome, via, job, ended, closedDone, lpc>>
      BY <2>2 DEF CompleteSend, Deliver, NextMessage, TypeOK, ChanTypeOK,
         GoroutineTypeOK
    <3>2. SuccessBacked'
      BY <1>0, <3>1 DEF SuccessBacked, AnswersExact
    <3>3. DownBacked'
      BY <1>0, <3>1 DEF DownBacked
    <3> QED
      BY <1>0, <3>1, <3>2, <3>3 DEF BackedParts, SentBacked
  <2>3. ASSUME NEW d \in ReqIDs, ReaderDrainSend(d) PROVE BackedParts'
    <3>1. /\ rpc = "drain"
          /\ \A r \in ReqIDs \ {d} : buf'[r] = buf[r]
          /\ buf'[d] = <<DrainResult>>
          /\ UNCHANGED <<pc, outcome, via, job, ended, closedDone, rpc, lpc>>
      BY <2>3 DEF ReaderDrainSend, Deliver, TypeOK, ChanTypeOK
    <3> QED
      BY <1>0, <3>1 DEF BackedParts, SentBacked, SuccessBacked, DownBacked,
         DrainResult, NoErr
  <2>4. CASE ReaderCloseDone
    BY <2>4, BackedFrame DEF ReaderCloseDone, closeDone
  <2>5. CASE \/ AppendStore \/ Complete \/ ReadFails \/ ReaderDrainAll
             \/ ReaderDown
    <3>1. /\ UNCHANGED <<pc, outcome, via, buf, job, ended, closedDone, lpc>>
          /\ rpc' \in {"swap", "drain", "down"} => rpc \in {"swap", "drain", "down"}
      BY <2>5 DEF AppendStore, NextMessage, Complete, ReadFails, ReaderDrainAll,
         ReaderDown
    <3> QED
      BY <1>0, <3>1, BackedFrame DEF DownBacked
  <2> QED
    BY <1>4, <2>1, <2>2, <2>3, <2>4, <2>5 DEF ReaderStep
<1>5. ASSUME NEW d \in ReqIDs, LoopDrainSend(d) PROVE BackedParts'
  <2>1. /\ lpc = "drain"
        /\ \A r \in ReqIDs \ {d} : buf'[r] = buf[r]
        /\ buf'[d] = <<DrainResult>>
        /\ UNCHANGED <<pc, outcome, via, job, ended, closedDone, rpc, lpc>>
    BY <1>5 DEF LoopDrainSend, Deliver, TypeOK, ChanTypeOK
  <2> QED
    BY <1>0, <2>1 DEF BackedParts, SentBacked, SuccessBacked, DownBacked,
       DrainResult, NoErr
<1>6. CASE LoopCloseDone
  BY <1>6, BackedFrame DEF LoopCloseDone, closeDone
<1>7. CASE LoopStep /\ ~LoopCloseDone /\ ~\E d \in ReqIDs : LoopDrainSend(d)
  <2>1. /\ UNCHANGED <<pc, outcome, via, buf, job, ended, closedDone>>
        /\ lpc \notin {"off", "wait"} \/ closedDone # {}
    BY <1>7 DEF LoopStep, LoopSeesDone, LoopDrainAll, LoopDrained, LoopReset,
       Connect, DialOK, DialFails, HandshakeReady, HandshakeClosed, HandshakeFails
  <2> QED
    BY <1>0, <2>1, BackedFrame DEF DownBacked
<1>8. CASE UserCloseDone
  BY <1>8, BackedFrame DEF UserCloseDone, closeDone
<1>9. CASE PeerClose \/ Disconnect \/ UserReset \/ UNCHANGED vars
  <2>1. UNCHANGED <<pc, outcome, via, buf, job, ended, closedDone, rpc, lpc>>
    BY <1>9 DEF PeerClose, Disconnect, UserReset
  <2> QED
    BY <1>0, <2>1, BackedFrame DEF DownBacked
<1> QED
  BY <1>1, <1>2, <1>3, <1>4, <1>5, <1>6, <1>7, <1>8, <1>9
  DEF Next, UserStep

LEMMA BackedNextInv == BackedInv /\ [Next]_vars => BackedInv'
BY OwnershipNext, TypeNext, AnswerNext, BackedNext
DEF BackedInv, AnswerInv, OwnershipInv, AnswerParts

-----------------------------------------------------------------------------
(* The refinement *)

LEMMA RefinesInit == Init => Abstract!Init
BY DEF Init, Abstract!Init, Abstract!None, NoOutcome, CallStatus, CallAnswer

\* A step that draws no request id, makes no call return, ends no request and
\* leaves the answers of those that ended alone is invisible to the callers,
\* except that it may be the end of a connection.
LEMMA RefinesStutter ==
    ASSUME UNCHANGED <<outcome, ended>>,
           \A r \in ReqIDs : pc'[r] = "none" <=> pc[r] = "none",
           \A r \in ReqIDs : pc'[r] = "returned" <=> pc[r] = "returned",
           \A r \in ended : sent'[r] = sent[r],
           closedDone \subseteq closedDone'
    PROVE  [Abstract!Next]_(Abstract!vars)
<1>1. CallStatus' = CallStatus
  BY DEF CallStatus
<1>2. CallAnswer' = CallAnswer
  BY DEF CallAnswer
<1>3. CASE (closedDone # {})' = (closedDone # {})
  BY <1>1, <1>2, <1>3 DEF Abstract!vars
<1>4. CASE (closedDone # {})' # (closedDone # {})
  <2>1. Abstract!ConnectionEnds
    BY <1>1, <1>2, <1>4 DEF Abstract!ConnectionEnds
  <2> QED
    BY <2>1 DEF Abstract!Next
<1> QED
  BY <1>3, <1>4

\* The step in which call c returns.
LEMMA RefinesReturn ==
    ASSUME TypeOK, NEW c \in ReqIDs, NEW res,
           pc[c] \notin {"none", "returned"},
           pc' = [pc EXCEPT ![c] = "returned"],
           outcome' = [outcome EXCEPT ![c] = res],
           UNCHANGED <<ended, sent, closedDone>>
    PROVE  Abstract!Return(c, res)
<1>1. CallStatus[c] = "open"
  BY DEF CallStatus
<1>2. CallStatus' = [CallStatus EXCEPT ![c] = "returned"]
  BY DEF CallStatus, TypeOK, CallTypeOK
<1>3. CallAnswer' = CallAnswer
  BY DEF CallAnswer
<1> QED
  BY <1>1, <1>2, <1>3 DEF Abstract!Return

LEMMA RefinesStep == BackedInv /\ [Next]_vars => [Abstract!Next]_(Abstract!vars)
<1> SUFFICES ASSUME BackedInv, [Next]_vars PROVE [Abstract!Next]_(Abstract!vars)
  OBVIOUS
<1>0. /\ TypeOK /\ FreshIDs /\ AnsweredOnce
      /\ NothingBeforeSend /\ AnswersExact
      /\ SentBacked /\ SuccessBacked /\ DownBacked
  BY DEF BackedInv, BackedParts, AnswerInv, OwnershipInv
<1>1. CASE Call
  <2>1. PICK k \in Kinds, b \in BOOLEAN : Begin(k, b)
    BY <1>1 DEF Call, ReqContractDetails, ReqAccountSummary,
       ReqSecDefOptParams, ReqHistoricalData, Begin
  <2>2. seq \in ReqIDs /\ pc[seq] = "none" /\ pc' = [pc EXCEPT ![seq] = "track"]
    BY <1>0, <2>1 DEF Begin, GoTo, FreshIDs, ReqIDs
  <2>3. /\ CallStatus[seq] = "idle"
        /\ CallStatus' = [CallStatus EXCEPT ![seq] = "open"]
    BY <1>0, <2>2 DEF CallStatus, TypeOK, CallTypeOK
  <2>4. CallAnswer' = CallAnswer /\ UNCHANGED <<outcome, closedDone>>
    BY <2>1 DEF Begin, CallAnswer
  <2>5. Abstract!Call(seq)
    BY <2>3, <2>4 DEF Abstract!Call
  <2> QED
    BY <2>2, <2>5 DEF Abstract!Next
<1>2. ASSUME NEW c \in ReqIDs, CallerStep(c) \/ ContextExpires(c)
      PROVE  [Abstract!Next]_(Abstract!vars)
  <2>1. CASE ReceiveResult(c)
    <3> DEFINE res == IF buf[c] = <<>> THEN ZeroResult ELSE buf[c][1]
               out == IF res.err = NoErr THEN [tag |-> "ok", val |-> res.val]
                                         ELSE [tag |-> res.err, val |-> <<>>]
    \* A caller in the select never meets a closed, empty channel.
    <3>1. buf[c] # <<>> /\ pc[c] = "wait"
      <4>1. ChannelOK(c)
        BY <1>0 DEF AnsweredOnce
      <4> QED
        BY <2>1, <4>1 DEF ReceiveResult, ChannelOK, Owned
    <3>2. Abstract!Return(c, out)
      BY <1>0, <2>1, <3>1, RefinesReturn DEF ReceiveResult, Return, GoTo
    <3>3. CASE res.err = NoErr
      <4>1. c \in ended /\ res.val \in {<<>>, Items(c, sent[c])}
        BY <1>0, <3>1, <3>3 DEF SuccessBacked, AnswersExact, Reportable
      <4>2. CallAnswer[c] # <<>> /\ res.val \in {<<>>, CallAnswer[c][1]}
        BY <4>1 DEF CallAnswer
      <4>3. Abstract!Succeed(c)
        BY <3>2, <3>3, <4>2 DEF Abstract!Succeed
      <4> QED
        BY <4>3 DEF Abstract!Next
    <3>4. CASE res.err = "apiError"
      <4>1. Abstract!Fail(c)
        BY <3>2, <3>4 DEF Abstract!Fail, Abstract!Error, NoErr
      <4> QED
        BY <4>1 DEF Abstract!Next
    <3>5. CASE res.err = "disconnected"
      <4>1. closedDone # {}
        BY <1>0, <3>1, <3>5 DEF DownBacked
      <4>2. Abstract!Fail(c)
        BY <3>2, <3>5, <4>1 DEF Abstract!Fail, Abstract!Error, NoErr
      <4> QED
        BY <4>2 DEF Abstract!Next
    <3> QED
      BY <1>0, <3>3, <3>4, <3>5, ReceivedType DEF Result, Errors, TypeOK
  <2>2. CASE ReturnDisconnected(c)
    <3>1. Abstract!Return(c, [tag |-> "disconnected", val |-> <<>>])
      BY <1>0, <2>2, RefinesReturn DEF ReturnDisconnected, Return, GoTo
    <3>2. closedDone # {}
      BY <2>2 DEF ReturnDisconnected
    <3>3. Abstract!Fail(c)
      BY <3>1, <3>2 DEF Abstract!Fail, Abstract!Error
    <3> QED
      BY <3>3 DEF Abstract!Next
  <2>3. CASE Cancel(c) /\ pc[c] = "cancelCtx"
    <3>1. Abstract!Return(c, [tag |-> "ctx", val |-> <<>>])
      BY <1>0, <2>3, RefinesReturn DEF Cancel, Return, GoTo
    <3>2. Abstract!Fail(c)
      BY <3>1 DEF Abstract!Fail, Abstract!Error
    <3> QED
      BY <3>2 DEF Abstract!Next
  <2>4. CASE Cancel(c) /\ pc[c] = "cancelSend"
    <3>1. Abstract!Return(c, [tag |-> "sendError", val |-> <<>>])
      BY <1>0, <2>4, RefinesReturn DEF Cancel, Return, GoTo
    <3>2. CallAnswer[c] = <<>>
      BY <1>0, <2>4 DEF SentBacked, CallAnswer
    <3>3. Abstract!Fail(c)
      BY <3>1, <3>2 DEF Abstract!Fail, Abstract!Error
    <3> QED
      BY <3>3 DEF Abstract!Next
  <2>5. CASE \/ StartReq(c) \/ Start(c) \/ SendMessage(c) \/ SendFails(c)
             \/ Done(c) \/ ContextExpires(c)
    <3>1. /\ pc[c] \notin {"none", "returned"}
          /\ pc'[c] \notin {"none", "returned"}
          /\ \A r \in ReqIDs \ {c} : pc'[r] = pc[r]
          /\ UNCHANGED <<outcome, ended, sent, closedDone>>
      BY <1>0, <2>5 DEF StartReq, Start, SendMessage, SendFails, Done,
         ContextExpires, GoTo, TypeOK, CallTypeOK
    <3> QED
      BY <3>1, RefinesStutter
  <2> QED
    BY <1>2, <2>1, <2>2, <2>3, <2>4, <2>5 DEF CallerStep, Cancel
<1>3. ASSUME NEW m \in ReqIDs, Message(m)
      PROVE  [Abstract!Next]_(Abstract!vars)
  <2>1. /\ via[m] # 0
        /\ UNCHANGED <<pc, outcome, closedDone>>
        /\ \/ ended' = ended /\ \A r \in ended : sent'[r] = sent[r]
           \/ /\ m \notin ended /\ ended' = ended \cup {m}
              /\ \A r \in ReqIDs \ {m} : sent'[r] = sent[r]
    BY <1>0, <1>3 DEF Message, handleContractDetails, handleContractDetailsEnd,
       handleAccountSummary, handleAccountSummaryEnd, handleSecDefOptParams,
       handleSecDefOptParamsEnd, handleHistoricalData, handleError,
       AppendResult, NextMessage, End, CallEndReq, Readable, TypeOK, ConnTypeOK,
       ServerTypeOK, Conns
  <2>2. CASE ended' = ended /\ \A r \in ended : sent'[r] = sent[r]
    BY <2>1, <2>2, RefinesStutter
  <2>3. CASE /\ m \notin ended /\ ended' = ended \cup {m}
             /\ \A r \in ReqIDs \ {m} : sent'[r] = sent[r]
    <3>1. CallStatus[m] # "idle" /\ CallStatus' = CallStatus
      BY <1>0, <2>1 DEF CallStatus, NothingBeforeSend
    <3>2. CallAnswer[m] = <<>> /\ outcome[m].tag # "sendError"
      BY <1>0, <2>1, <2>3 DEF CallAnswer, SentBacked
    <3>3. CallAnswer' = [CallAnswer EXCEPT ![m] = <<Items(m, sent'[m])>>]
      BY <2>3 DEF CallAnswer
    <3>4. sent'[m] \in 0 .. MaxItems
      BY <1>0, TypeNext DEF TypeOK, ServerTypeOK
    <3>5. Abstract!Answer(m)
      BY <2>1, <3>1, <3>2, <3>3, <3>4 DEF Abstract!Answer
    <3> QED
      BY <3>5 DEF Abstract!Next
  <2> QED
    BY <2>1, <2>2, <2>3
<1>4. CASE ReaderStep
  <2>1. UNCHANGED <<pc, outcome, ended, sent>> /\ closedDone \subseteq closedDone'
    BY <1>4 DEF ReaderStep, AppendStore, EndReq, Complete, CompleteSend, ReadFails,
       ReaderCloseDone, closeDone, ReaderDrainAll, ReaderDown, ReaderDrainSend
  <2> QED
    BY <2>1, RefinesStutter
<1>5. CASE LoopStep
  <2>1. UNCHANGED <<pc, outcome, ended, sent>> /\ closedDone \subseteq closedDone'
    BY <1>5 DEF LoopStep, LoopSeesDone, LoopDrainAll, LoopDrained, LoopReset,
       Connect, DialOK, DialFails, HandshakeReady, HandshakeClosed, HandshakeFails,
       LoopCloseDone, closeDone, LoopDrainSend
  <2> QED
    BY <2>1, RefinesStutter
<1>6. CASE PeerClose \/ Disconnect \/ UserStep \/ UNCHANGED vars
  <2>1. UNCHANGED <<pc, outcome, ended, sent>> /\ closedDone \subseteq closedDone'
    BY <1>6 DEF PeerClose, Disconnect, UserStep, UserCloseDone, closeDone, UserReset
  <2> QED
    BY <2>1, RefinesStutter
<1> QED
  BY <1>1, <1>2, <1>3, <1>4, <1>5, <1>6 DEF Next

\* The request machinery implements the promise made to a caller: every behaviour
\* of the callers, the reader, the reconnect loop and Disconnect, seen through
\* the mapping, is one of Calls.
THEOREM RequestsImplementsCalls == Spec => ImplementsCalls
<1>1. Init => BackedInv
  BY BackedInit
<1>2. BackedInv /\ [Next]_vars => BackedInv'
  BY BackedNextInv
<1>3. Init => Abstract!Init
  BY RefinesInit
<1>4. BackedInv /\ [Next]_vars => [Abstract!Next]_(Abstract!vars)
  BY RefinesStep
<1> QED
  BY <1>1, <1>2, <1>3, <1>4, PTL DEF Spec, ImplementsCalls, Abstract!Spec

-----------------------------------------------------------------------------
(* Nothing is kept about an answered request *)

ForgottenParts == NoLateAppend /\ AnsweredIsForgotten

LEMMA ForgottenNext ==
    BackedInv /\ ForgottenParts /\ [Next]_vars => ForgottenParts'
<1> SUFFICES ASSUME BackedInv, NoLateAppend, AnsweredIsForgotten, [Next]_vars
             PROVE  NoLateAppend' /\ AnsweredIsForgotten'
  BY DEF ForgottenParts
<1>0. TypeOK /\ FreshIDs /\ DrainPhase /\ NothingBeforeSend /\ SentBacked
  BY DEF BackedInv, BackedParts, AnswerInv, OwnershipInv
<1>1. CASE Call
  <2>1. PICK k \in Kinds, b \in BOOLEAN : Begin(k, b)
    BY <1>1 DEF Call, ReqContractDetails, ReqAccountSummary,
       ReqSecDefOptParams, ReqHistoricalData, Begin
  <2>2. seq \notin ended
    BY <1>0, <2>1 DEF Begin, FreshIDs, ReqIDs, NothingBeforeSend, SentBacked
  <2> QED
    BY <2>1, <2>2 DEF Begin, NoLateAppend, AnsweredIsForgotten
<1>2. ASSUME NEW c \in ReqIDs, CallerStep(c) \/ ContextExpires(c)
      PROVE  NoLateAppend' /\ AnsweredIsForgotten'
  <2>1. CASE StartReq(c)
    <3>1. c \notin ended
      BY <1>0, <2>1 DEF StartReq, NothingBeforeSend, SentBacked
    <3> QED
      BY <2>1, <3>1 DEF StartReq, NoLateAppend, AnsweredIsForgotten
  <2>2. CASE ~StartReq(c)
    <3>1. UNCHANGED <<Results, ReqID2Contract, rpc, job, ended>>
      BY <1>2, <2>2 DEF CallerStep, ContextExpires, Start, SendMessage, SendFails,
         Done, ReceiveResult, ReturnDisconnected, Cancel
    <3> QED
      BY <3>1 DEF NoLateAppend, AnsweredIsForgotten
  <2> QED
    BY <2>1, <2>2
<1>3. ASSUME NEW m \in ReqIDs, Message(m)
      PROVE  NoLateAppend' /\ AnsweredIsForgotten'
  <2>1. rpc = "read" /\ UNCHANGED <<Results, ReqID2Contract>>
    BY <1>3 DEF Message, handleContractDetails, handleContractDetailsEnd,
       handleAccountSummary, handleAccountSummaryEnd, handleSecDefOptParams,
       handleSecDefOptParamsEnd, handleHistoricalData, handleError,
       AppendResult, NextMessage, End, CallEndReq, Readable
  <2>2. \/ /\ ended' = ended
           /\ rpc' = "append" => job'.req \notin ended
        \/ rpc' = "endReq" /\ job'.req = m /\ ended' = ended \cup {m}
    BY <1>3 DEF Message, handleContractDetails, handleContractDetailsEnd,
       handleAccountSummary, handleAccountSummaryEnd, handleSecDefOptParams,
       handleSecDefOptParamsEnd, handleHistoricalData, handleError,
       AppendResult, NextMessage, End, CallEndReq, Readable
  <2> QED
    BY <2>1, <2>2 DEF NoLateAppend, AnsweredIsForgotten
<1>4. CASE ReaderStep
  <2>1. CASE AppendStore
    BY <2>1 DEF AppendStore, NextMessage, NoLateAppend, AnsweredIsForgotten
  <2>2. CASE EndReq
    <3>1. /\ rpc = "endReq" /\ rpc' = "complete" /\ UNCHANGED ended
          /\ DOMAIN Results' = DOMAIN Results \ {job.req}
          /\ ReqID2Contract' = ReqID2Contract \ {job.req}
      BY <2>2 DEF EndReq, Restrict
    <3> QED
      BY <3>1 DEF NoLateAppend, AnsweredIsForgotten
  <2>3. CASE ~AppendStore /\ ~EndReq
    <3>1. /\ UNCHANGED <<Results, ReqID2Contract, job, ended>>
          /\ rpc \notin {"append", "endReq"} /\ rpc' # "append"
      BY <1>4, <2>3 DEF ReaderStep, Complete, CompleteSend, NextMessage, ReadFails,
         ReaderCloseDone, ReaderDrainAll, ReaderDown, ReaderDrainSend
    <3> QED
      BY <3>1 DEF NoLateAppend, AnsweredIsForgotten
  <2> QED
    BY <2>1, <2>2, <2>3
<1>5. CASE LoopReset \/ UserReset
  BY <1>5 DEF LoopReset, UserReset, Reset, NoLateAppend, AnsweredIsForgotten
<1>6. CASE DialOK
  <2>1. rpc = "down"
    BY <1>0, <1>6 DEF DialOK, DrainPhase
  <2> QED
    BY <1>6, <2>1 DEF DialOK, NoLateAppend, AnsweredIsForgotten
<1>7. CASE \/ LoopStep /\ ~LoopReset /\ ~DialOK
           \/ PeerClose \/ Disconnect \/ UserCloseDone \/ UNCHANGED vars
  <2>1. UNCHANGED <<Results, ReqID2Contract, rpc, job, ended>>
    BY <1>7 DEF LoopStep, LoopSeesDone, LoopDrainAll, LoopDrained, Connect,
       DialFails, HandshakeReady, HandshakeClosed, HandshakeFails, LoopCloseDone,
       LoopDrainSend, PeerClose, Disconnect, UserCloseDone
  <2> QED
    BY <2>1 DEF NoLateAppend, AnsweredIsForgotten
<1> QED
  BY <1>1, <1>2, <1>3, <1>4, <1>5, <1>6, <1>7 DEF Next, UserStep

\* Once EndReq is done with a request that the server has ended, the Manager
\* holds neither Results nor ReqID2Contract of it, even if its caller had given
\* up and a Reset or a reconnect came in between: no entry outlives its answer.
THEOREM AnsweredForgotten == Spec => []AnsweredIsForgotten
<1>1. Init => ForgottenInv
  BY BackedInit DEF Init, ForgottenInv, NoLateAppend, AnsweredIsForgotten
<1>2. ForgottenInv /\ [Next]_vars => ForgottenInv'
  BY BackedNextInv, ForgottenNext DEF ForgottenInv, ForgottenParts
<1>3. ForgottenInv => AnsweredIsForgotten
  BY DEF ForgottenInv
<1> QED
  BY <1>1, <1>2, <1>3, PTL DEF Spec

-----------------------------------------------------------------------------
(* The complete answer, on one connection that nobody tears down *)

CompleteParts == NoTeardown /\ PendingKept /\ WholeAnswers /\ CompleteAnswer

LEMMA CompleteNext ==
    ASSUME ~Reconnect, ~UserDisconnect
    PROVE  BackedInv /\ CompleteParts /\ [Next]_vars => CompleteParts'
<1> SUFFICES ASSUME BackedInv, NoTeardown, PendingKept, WholeAnswers,
                    CompleteAnswer, [Next]_vars
             PROVE  /\ NoTeardown' /\ PendingKept' /\ WholeAnswers'
                    /\ CompleteAnswer'
  BY DEF CompleteParts
<1>0. /\ TypeOK /\ FreshIDs /\ DrainPhase /\ AnsweredOnce
      /\ NothingBeforeSend /\ ResultsExact /\ AnswersExact /\ SentBacked
  BY DEF BackedInv, BackedParts, AnswerInv, OwnershipInv
<1> USE DEF Whole
<1>1. CASE Call
  <2>1. PICK k \in Kinds, b \in BOOLEAN : Begin(k, b)
    BY <1>1 DEF Call, ReqContractDetails, ReqAccountSummary,
       ReqSecDefOptParams, ReqHistoricalData, Begin
  <2>2. /\ seq \in ReqIDs /\ pc[seq] = "none" /\ via[seq] = 0
        /\ \A r \in ReqIDs \ {seq} : kind'[r] = kind[r] /\ pc'[r] = pc[r]
        /\ pc'[seq] = "track"
        /\ UNCHANGED <<outcome, Results, pending, buf, rpc, job, lpc, upc, sent, ended>>
    BY <1>0, <2>1 DEF Begin, GoTo, FreshIDs, ReqIDs, NothingBeforeSend, TypeOK,
       CallTypeOK
  <2>3. rpc \in {"endReq", "complete", "deliver"} => job.req \in ReqIDs \ {seq}
    BY <1>0, <2>2 DEF NothingBeforeSend, TypeOK, GoroutineTypeOK
  <2> QED
    BY <2>2, <2>3 DEF NoTeardown, PendingKept, WholeAnswers, CompleteAnswer
<1>2. ASSUME NEW c \in ReqIDs, CallerStep(c) \/ ContextExpires(c)
      PROVE  NoTeardown' /\ PendingKept' /\ WholeAnswers' /\ CompleteAnswer'
  <2>0. /\ UNCHANGED <<kind, rpc, job, lpc, upc, sent, ended>>
        /\ \A r \in ReqIDs \ {c} : pc'[r] = pc[r] /\ outcome'[r] = outcome[r]
    BY <1>0, <1>2 DEF CallerStep, ContextExpires, StartReq, Start, SendMessage,
       SendFails, Done, ReceiveResult, ReturnDisconnected, Cancel, GoTo, Return,
       TypeOK, CallTypeOK
  <2>1. CASE StartReq(c)
    BY <1>0, <2>0, <2>1 DEF StartReq, GoTo, NoTeardown, PendingKept, WholeAnswers,
       CompleteAnswer, TypeOK, CallTypeOK
  <2>2. CASE Start(c)
    <3>1. c \in DOMAIN Results
      BY <2>2 DEF Start, PendingKept
    <3>2. rpc = "complete" => job.req # c
      BY <1>0, <2>2 DEF Start, NothingBeforeSend
    <3>3. /\ pc'[c] = "send" /\ pending' = pending \cup {c}
          /\ UNCHANGED <<outcome, buf, Results>>
      BY <1>0, <2>2 DEF Start, GoTo, TypeOK, CallTypeOK
    <3> QED
      BY <2>0, <3>1, <3>2, <3>3 DEF NoTeardown, PendingKept, WholeAnswers,
         CompleteAnswer
  <2>3. CASE ReceiveResult(c)
    <3> DEFINE res == IF buf[c] = <<>> THEN ZeroResult ELSE buf[c][1]
    <3>1. buf[c] # <<>> /\ pc[c] = "wait"
      <4>1. ChannelOK(c)
        BY <1>0 DEF AnsweredOnce
      <4> QED
        BY <2>3, <4>1 DEF ReceiveResult, ChannelOK, Owned
    <3>2. /\ UNCHANGED <<pending, Results>>
          /\ \A r \in ReqIDs : buf'[r] # <<>> => buf'[r] = buf[r]
          /\ pc'[c] = "returned"
          /\ outcome'[c] = IF res.err = NoErr THEN [tag |-> "ok", val |-> res.val]
                                              ELSE [tag |-> res.err, val |-> <<>>]
      BY <1>0, <2>3 DEF ReceiveResult, Return, GoTo, TypeOK, CallTypeOK, ChanTypeOK
    <3>3. res.err # "ok"
      BY <1>0, ReceivedType DEF Result, Errors, NoErr, TypeOK
    <3>4. outcome'[c].tag = "ok" => Whole(c, outcome'[c].val)
      BY <3>1, <3>2, <3>3 DEF WholeAnswers
    <3> QED
      BY <2>0, <3>2, <3>4 DEF NoTeardown, PendingKept, WholeAnswers, CompleteAnswer
  <2>4. CASE \/ SendMessage(c) \/ SendFails(c) \/ Done(c) \/ ReturnDisconnected(c)
             \/ ContextExpires(c) \/ Cancel(c)
    <3>1. /\ pending' \subseteq pending /\ UNCHANGED <<buf, Results>>
          /\ pc'[c] # "register"
          /\ outcome'[c] = outcome[c] \/ outcome'[c].tag # "ok"
      BY <1>0, <2>4 DEF SendMessage, SendFails, Done, ReturnDisconnected,
         ContextExpires, Cancel, Return, GoTo, TypeOK, CallTypeOK
    <3> QED
      BY <2>0, <3>1 DEF NoTeardown, PendingKept, WholeAnswers, CompleteAnswer
  <2> QED
    BY <1>2, <2>1, <2>2, <2>3, <2>4 DEF CallerStep
<1>3. ASSUME NEW m \in ReqIDs, Message(m)
      PROVE  NoTeardown' /\ PendingKept' /\ WholeAnswers' /\ CompleteAnswer'
  <2>0. /\ rpc = "read"
        /\ UNCHANGED <<pc, kind, outcome, pending, buf, Results, lpc, upc>>
    BY <1>3 DEF Message, handleContractDetails, handleContractDetailsEnd,
       handleAccountSummary, handleAccountSummaryEnd, handleSecDefOptParams,
       handleSecDefOptParamsEnd, handleHistoricalData, handleError,
       AppendResult, NextMessage, End, CallEndReq, Readable
  <2>1. NoTeardown' /\ PendingKept'
    BY <2>0 DEF NoTeardown, PendingKept
  <2>2. /\ rpc' \notin {"complete", "deliver"}
        /\ ended \subseteq ended'
        /\ \A r \in ended : sent'[r] = sent[r]
    BY <1>0, <1>3 DEF Message, handleContractDetails, handleContractDetailsEnd,
       handleAccountSummary, handleAccountSummaryEnd, handleSecDefOptParams,
       handleSecDefOptParamsEnd, handleHistoricalData, handleError,
       AppendResult, NextMessage, End, CallEndReq, TypeOK, ServerTypeOK
  <2>3. rpc' = "endReq" =>
           /\ kind[job'.req] # "HistoricalData" => job'.val = <<>>
           /\ kind[job'.req] = "HistoricalData" /\ job'.err = NoErr
                => job'.val = Items(job'.req, sent'[job'.req])
    <3>1. CASE handleHistoricalData(m)
      <4>1. PICK n \in 0 .. MaxItems : /\ sent' = [sent EXCEPT ![m] = n]
                                       /\ CallEndReq(m, Items(m, n), NoErr)
        BY <3>1 DEF handleHistoricalData
      <4>2. kind[m] = "HistoricalData" /\ sent'[m] = n
        BY <1>0, <3>1, <4>1 DEF handleHistoricalData, TypeOK, ServerTypeOK
      <4> QED
        BY <4>1, <4>2 DEF CallEndReq
    <3>2. CASE handleError(m)
      BY <3>2 DEF handleError, CallEndReq, NoErr
    <3>3. CASE ~handleHistoricalData(m) /\ ~handleError(m)
      BY <1>3, <2>0, <3>3 DEF Message, handleContractDetails,
         handleContractDetailsEnd, handleAccountSummary, handleAccountSummaryEnd,
         handleSecDefOptParams, handleSecDefOptParamsEnd, AppendResult, NextMessage,
         End, CallEndReq
    <3> QED
      BY <3>1, <3>2, <3>3
  <2>4. WholeAnswers'
    BY <2>0, <2>2, <2>3 DEF WholeAnswers
  <2>5. CompleteAnswer'
    BY <2>0, <2>2 DEF CompleteAnswer
  <2> QED
    BY <2>1, <2>4, <2>5
<1>4. CASE ReaderStep
  <2>0. UNCHANGED <<pc, kind, outcome, lpc, upc, sent, ended>>
    BY <1>4 DEF ReaderStep, AppendStore, EndReq, Complete, CompleteSend, ReadFails,
       ReaderCloseDone, ReaderDrainAll, ReaderDown, ReaderDrainSend
  <2>1. NoTeardown' /\ CompleteAnswer'
    BY <2>0 DEF NoTeardown, CompleteAnswer
  <2>2. CASE AppendStore
    <3>1. /\ DOMAIN Results \subseteq DOMAIN Results' /\ UNCHANGED <<pending, buf>>
          /\ rpc = "append" /\ rpc' \in {"read", "exit"}
      BY <2>2 DEF AppendStore, NextMessage
    <3> QED
      BY <2>0, <2>1, <3>1 DEF PendingKept, WholeAnswers
  <2>3. CASE EndReq
    <3>1. /\ rpc = "endReq" /\ rpc' = "complete"
          /\ job'.req = job.req /\ job'.err = job.err
          /\ job'.val = IF job.val = <<>> /\ job.req \in DOMAIN Results
                        THEN Results[job.req] ELSE job.val
          /\ DOMAIN Results' = DOMAIN Results \ {job.req}
          /\ UNCHANGED <<pending, buf>>
      BY <1>0, <2>3 DEF EndReq, Restrict, TypeOK, GoroutineTypeOK
    <3>2. job.req \in ReqIDs /\ pc[job.req] # "register"
      BY <1>0, <3>1 DEF NothingBeforeSend, TypeOK, GoroutineTypeOK
    <3>3. PendingKept'
      BY <2>0, <3>1, <3>2 DEF PendingKept
    <3>4. job.err = NoErr /\ job.req \in pending => Whole(job'.req, job'.val)
      <4> SUFFICES ASSUME job.err = NoErr, job.req \in pending
                   PROVE  Whole(job.req, job'.val)
        BY <3>1
      <4>1. job.req \in ended /\ job.req \in DOMAIN Results
        BY <1>0, <3>1 DEF AnswersExact, PendingKept
      <4>2. CASE kind[job.req] = "HistoricalData"
        BY <1>0, <3>1, <4>1, <4>2 DEF WholeAnswers, ResultsExact
      <4>3. CASE kind[job.req] # "HistoricalData"
        BY <1>0, <3>1, <4>1, <4>3 DEF WholeAnswers, ResultsExact
      <4> QED
        BY <4>2, <4>3
    <3>5. WholeAnswers'
      BY <2>0, <3>1, <3>4 DEF WholeAnswers
    <3> QED
      BY <2>1, <3>3, <3>5
  <2>4. CASE Complete
    <3>1. /\ rpc = "complete" /\ pending' = pending \ {job.req}
          /\ rpc' = "deliver" => job.req \in pending
          /\ rpc' \in {"deliver", "read", "exit"}
          /\ UNCHANGED <<buf, Results, job>>
      BY <2>4 DEF Complete, NextMessage
    <3> QED
      BY <2>0, <2>1, <3>1 DEF PendingKept, WholeAnswers
  <2>5. CASE CompleteSend
    <3>1. /\ rpc = "deliver" /\ rpc' \in {"read", "exit"}
          /\ \A r \in ReqIDs : r # job.req => buf'[r] = buf[r]
          /\ buf'[job.req] = <<[val |-> job.val, err |-> job.err]>>
          /\ UNCHANGED <<pending, Results>>
      BY <1>0, <2>5 DEF CompleteSend, Deliver, NextMessage, TypeOK, ChanTypeOK,
         GoroutineTypeOK
    <3> QED
      BY <2>0, <2>1, <3>1 DEF PendingKept, WholeAnswers
  <2>6. ASSUME NEW d \in ReqIDs, ReaderDrainSend(d)
        PROVE  PendingKept' /\ WholeAnswers'
    <3>1. /\ rpc = "drain" /\ rpc' = "drain"
          /\ \A r \in ReqIDs \ {d} : buf'[r] = buf[r]
          /\ buf'[d] = <<DrainResult>>
          /\ UNCHANGED <<pending, Results>>
      BY <1>0, <2>6 DEF ReaderDrainSend, Deliver, TypeOK, ChanTypeOK
    <3> QED
      BY <2>0, <3>1 DEF PendingKept, WholeAnswers, DrainResult, NoErr
  <2>7. CASE ReadFails \/ ReaderCloseDone \/ ReaderDrainAll \/ ReaderDown
    <3>1. /\ rpc \in {"read", "exit", "swap", "drain"}
          /\ rpc' \in {"exit", "swap", "drain", "down"}
          /\ pending' \subseteq pending /\ UNCHANGED <<buf, Results>>
      BY <2>7 DEF ReadFails, ReaderCloseDone, ReaderDrainAll, ReaderDown
    <3> QED
      BY <2>0, <2>1, <3>1 DEF PendingKept, WholeAnswers
  <2> QED
    BY <1>4, <2>1, <2>2, <2>3, <2>4, <2>5, <2>6, <2>7 DEF ReaderStep
<1>5. ~LoopStep /\ ~UserStep /\ ~Disconnect
  BY DEF NoTeardown, LoopStep, LoopSeesDone, LoopDrainAll, LoopDrained, LoopReset,
     Connect, DialOK, DialFails, HandshakeReady, HandshakeClosed, HandshakeFails,
     LoopCloseDone, LoopDrainSend, UserStep, UserCloseDone, UserReset, Disconnect
<1>6. CASE PeerClose \/ UNCHANGED vars
  BY <1>6 DEF PeerClose, NoTeardown, PendingKept, WholeAnswers, CompleteAnswer
<1> QED
  BY <1>1, <1>2, <1>3, <1>4, <1>5, <1>6 DEF Next

\* On one connection that nobody closes from this side (no ConnectWithReconnect,
\* no Disconnect, hence no Reset), success means the complete answer: the server
\* has ended the request, and every partial result it sent is there, in order,
\* although errors, repeated End messages, expired contexts and the loss of the
\* connection compete for the same entry of Results and the same channel.
THEOREM SuccessIsComplete ==
    ASSUME ~Reconnect, ~UserDisconnect
    PROVE  Spec => []CompleteAnswer
<1>1. Init => CompleteInv
  <2> SUFFICES ASSUME Init PROVE CompleteInv
    OBVIOUS
  <2>1. BackedInv
    BY BackedInit
  <2>2. CompleteParts
    BY DEF Init, CompleteParts, NoTeardown, PendingKept, WholeAnswers,
       CompleteAnswer, NoOutcome
  <2> QED
    BY <2>1, <2>2 DEF CompleteInv, CompleteParts
<1>2. CompleteInv /\ [Next]_vars => CompleteInv'
  BY BackedNextInv, CompleteNext DEF CompleteInv, CompleteParts
<1>3. CompleteInv => CompleteAnswer
  BY DEF CompleteInv
<1> QED
  BY <1>1, <1>2, <1>3, PTL DEF Spec
=============================================================================
