------------------------- MODULE SharedStreamsProofs -------------------------
(***************************************************************************)
(* Proofs about the requests without an id, for any number of calls, items *)
(* and live executions.                                                    *)
(***************************************************************************)
EXTENDS SharedStreams, LoopsProofs

USE DEF vars, callVars, keyVars, stateVars, fillVars, serverVars

-----------------------------------------------------------------------------
(* The inductive invariant *)

Value    == Entry \cup {Fill}
Called   == {k \in Keys : stream[k] # "none"}
PCs      == {"none", "send", "wait", "returned"}
Jobs     == {"none", "lockItem", "lockEnd", "item", "end"}

StreamTypes ==
    /\ syntheticReqID \in (-MaxCalls) .. 0
    /\ pc \in [Keys -> PCs]
    /\ stream \in [Keys -> Streams \cup {"none"}]
    /\ outcome \in [Keys -> [tag : {"none", "ok", "sendError", "ctx"},
                             held : SUBSET Nat, trades : Seq(Value)]]
    /\ active \in [Streams -> Keys \cup {Absent}]
    /\ mu \in [Streams -> Keys \cup {Absent}]
    /\ buf \in [Keys -> Seq(Seq(Value))]
    /\ DOMAIN Results \subseteq Keys
    /\ \A k \in DOMAIN Results : Results[k] \in Seq(Value)
    /\ Positions \subseteq Nat
    /\ job \in [stream : Streams \cup {"none"}, what : Jobs, key : Keys \cup {Absent},
                entry : Value]
    /\ wire \subseteq Keys
    /\ waiting \in [Streams -> SUBSET Keys]
    /\ listed \in [Streams -> Seq(Entry)]
    /\ answers \in [Streams -> SUBSET Seq(Entry)]

\* A key is drawn once, and the key remembered for a method is of a call of it.
KeyInv ==
    /\ \A k \in Keys : stream[k] = "none" <=> k < syntheticReqID
    /\ \A k \in Keys : pc[k] = "none" <=> stream[k] = "none"
    /\ \A k \in Keys : pc[k] # "returned" => outcome[k].tag = "none"
    /\ \A s \in Streams : active[s] # Absent => stream[active[s]] = s
    /\ \A k \in Called : active[stream[k]] # Absent
    /\ DOMAIN Results \subseteq Called
    /\ \A k \in Keys : buf[k] # <<>> => k \in Called

\* The server answers what has been written, once; an item or an End in the reader's
\* hands is of the answer it is sending or has just ended.
ServerInv ==
    /\ \A k \in wire : pc[k] \in {"wait", "returned"} /\ k \notin waiting[stream[k]]
    /\ \A s \in Streams : \A k \in waiting[s] : stream[k] = s /\ pc[k] \in {"wait", "returned"}
    /\ \A s \in Streams : waiting[s] = {} => listed[s] = <<>>
    /\ \A s \in Streams : \A i \in 1 .. Len(listed[s]) : listed[s][i].n = i

JobInv ==
    /\ job.stream = "none" <=> job.what = "none"
    /\ job.what \in {"lockItem", "item"} =>
          /\ job.stream = "completedOrders" /\ waiting[job.stream] # {}
          /\ job.entry \in Entry
    /\ job.what \in {"item", "end"} => job.key \in Keys /\ stream[job.key] = job.stream

Ending(s)  == job.stream = s /\ job.what \in {"lockEnd", "end"}
InHand(s)  == job.stream = s /\ job.what \in {"lockItem", "item"}

\* Nothing has happened on a stream nobody has called.
Untouched(s) ==
    (\A k \in Keys : stream[k] # s) =>
        /\ answers[s] = {} /\ job.stream # s
        /\ s = "positions" => Positions = {}

\* The only call of its method: the server answers it once, and until EndReq takes
\* the entry out of Results it holds, among fills that strayed into it, what the
\* server has listed, less the item the reader has in hand.
SoleCall(k) ==
    LET s == stream[k] IN
    /\ answers[s] # {} => pc[k] # "send" /\ k \notin wire /\ waiting[s] = {}
    /\ answers[s] = {} \/ Ending(s) => k \in DOMAIN Results
    /\ Ending(s) => answers[s] # {}
    /\ buf[k] # <<>> => answers[s] # {}
    /\ outcome[k].tag = "ok" => IsAnswer(k)

SolePositions(k) ==
    stream[k] = "positions" =>
        /\ answers["positions"] = {} => Positions = Held(listed["positions"])
        /\ \A a \in answers["positions"] : Positions = Held(a)

SoleOrders(k) ==
    stream[k] = "completedOrders" =>
        LET s == "completedOrders" IN
        /\ k \in DOMAIN Results =>
              IF InHand(s) THEN Append(Kept(Results[k], Entry), job.entry) = listed[s]
              ELSE /\ answers[s] = {} => Kept(Results[k], Entry) = listed[s]
                   /\ \A a \in answers[s] : Kept(Results[k], Entry) = a
        /\ buf[k] # <<>> => \A a \in answers[s] : Kept(buf[k][1], Entry) = a

SoleInv ==
    /\ \A s \in Streams : Untouched(s)
    /\ \A k \in Called : Sole(k) => SoleCall(k) /\ SolePositions(k) /\ SoleOrders(k)

StreamInv == StreamTypes /\ KeyInv /\ ServerInv /\ JobInv /\ SoleInv

\* What a live execution leaves in Results is told from what the server listed.
LEMMA FillIsNoEntry == Fill \notin Entry
BY BoundsAssumption DEF Fill, Entry

\* A key drawn, and the streams there are.
LEMMA KeyFacts ==
    /\ Keys \subseteq Int
    /\ \A k \in Keys : k < 0 /\ k >= -MaxCalls
    /\ Absent \notin Keys
    /\ "none" \notin Streams
    /\ \A s \in Streams : s = "positions" \/ s = "completedOrders"
BY BoundsAssumption, StreamsAssumption DEF Keys, Absent, AllStreams

-----------------------------------------------------------------------------
(* The callers *)

\* No call has been made.
LEMMA StreamInit == Init => StreamInv
<1> SUFFICES ASSUME Init PROVE StreamInv
  OBVIOUS
<1> USE DEF Init
<1>1. StreamTypes
  BY KeyFacts, BoundsAssumption DEF StreamTypes, NoOutcome, Failed, PCs, Jobs, NoJob, Value
<1>2. KeyInv
  BY KeyFacts DEF KeyInv, Called, NoOutcome, Failed
<1>3. ServerInv
  BY DEF ServerInv
<1>4. JobInv
  BY DEF JobInv, NoJob
<1>5. SoleInv
  BY KeyFacts DEF SoleInv, Untouched, Called, NoJob
<1> QED
  BY <1>1, <1>2, <1>3, <1>4, <1>5 DEF StreamInv

\* A call begins with a key below all the others, on a stream where nothing has happened
\* if it is the only one.
LEMMA RegisterKeeps ==
    ASSUME StreamInv, NEW s \in Streams, Register(s)
    PROVE  StreamInv'
<1> USE DEF StreamInv
<1>0. syntheticReqID \in Int /\ syntheticReqID - 1 \in Keys
  BY BoundsAssumption DEF Register, StreamTypes, Keys
<1> PICK k \in Keys : k = syntheticReqID - 1
  BY <1>0
<1>1. /\ stream[k] = "none" /\ pc[k] = "none"
      /\ \A j \in Keys : j < k <=> j < syntheticReqID /\ j # k
  BY <1>0, KeyFacts DEF KeyInv
<1>2. /\ syntheticReqID' = k
      /\ pc' = [pc EXCEPT ![k] = "send"]
      /\ stream' = [stream EXCEPT ![k] = s]
      /\ mu' = [mu EXCEPT ![s] = k]
      /\ active' = [active EXCEPT ![s] = k]
      /\ Results' = [x \in DOMAIN Results \cup {k} |-> IF x = k THEN <<>> ELSE Results[x]]
      /\ UNCHANGED <<outcome, buf, Positions, job, fillVars, serverVars>>
  BY DEF Register, GoTo
<1>3. /\ stream' \in [Keys -> Streams \cup {"none"}]
      /\ stream'[k] = s
      /\ \A j \in Keys \ {k} : stream'[j] = stream[j]
      /\ pc' \in [Keys -> PCs]
      /\ pc'[k] = "send"
      /\ \A j \in Keys \ {k} : pc'[j] = pc[j]
      /\ active' \in [Streams -> Keys \cup {Absent}]
      /\ active'[s] = k
      /\ \A t \in Streams \ {s} : active'[t] = active[t]
  BY <1>1, <1>2 DEF StreamTypes, PCs
<1>4. /\ DOMAIN Results' = DOMAIN Results \cup {k}
      /\ Results'[k] = <<>>
      /\ \A j \in DOMAIN Results \ {k} : Results'[j] = Results[j]
  BY <1>2
<1>5. StreamTypes'
  <2>1. \A j \in DOMAIN Results' : Results'[j] \in Seq(Value)
    <3>1. <<>> \in Seq(Value)
      OBVIOUS
    <3> QED
      BY <1>4, <3>1 DEF StreamTypes
  <2>2. syntheticReqID' \in (-MaxCalls) .. 0
    BY <1>1, <1>2, KeyFacts, BoundsAssumption
  <2> QED
    BY <1>1, <1>2, <1>3, <1>4, <2>1, <2>2 DEF StreamTypes
<1>6. KeyInv'
  <2>0. Called' = Called \cup {k}
    BY <1>1, <1>3, KeyFacts DEF Called
  <2>1. \A j \in Keys : stream'[j] = "none" <=> j < syntheticReqID'
    BY <1>1, <1>2, <1>3, KeyFacts DEF KeyInv
  <2>2. \A j \in Keys : pc'[j] = "none" <=> stream'[j] = "none"
    BY <1>1, <1>3, KeyFacts DEF KeyInv
  <2>3. \A j \in Keys : pc'[j] # "returned" => outcome'[j].tag = "none"
    BY <1>1, <1>2, <1>3 DEF KeyInv
  <2>4. ASSUME NEW t \in Streams, active'[t] # Absent PROVE stream'[active'[t]] = t
    <3>1. CASE t = s
      BY <1>3, <3>1
    <3>2. CASE t # s
      <4>1. active'[t] = active[t] /\ active[t] \in Keys /\ stream[active[t]] = t
        BY <1>3, <2>4, <3>2 DEF KeyInv, StreamTypes
      <4>2. active[t] # k
        BY <1>1, <4>1, KeyFacts
      <4> QED
        BY <1>3, <4>1, <4>2
    <3> QED
      BY <3>1, <3>2
  <2>5. \A j \in Called' : active'[stream'[j]] # Absent
    BY <1>1, <1>3, <2>0, KeyFacts DEF KeyInv, StreamTypes, Called
  <2>6. DOMAIN Results' \subseteq Called'
    BY <1>4, <2>0 DEF KeyInv
  <2>7. \A j \in Keys : buf'[j] # <<>> => j \in Called'
    BY <1>2, <2>0 DEF KeyInv
  <2> QED
    BY <2>1, <2>2, <2>3, <2>4, <2>5, <2>6, <2>7 DEF KeyInv
<1>7. ServerInv'
  <2>1. \A j \in wire : j # k
    BY <1>1 DEF ServerInv
  <2>2. \A t \in Streams : \A j \in waiting[t] : j # k
    BY <1>1 DEF ServerInv
  <2> QED
    BY <1>2, <1>3, <2>1, <2>2 DEF ServerInv, StreamTypes
<1>8. JobInv'
  <2>1. job.what \in {"item", "end"} => job.key # k
    BY <1>1 DEF JobInv, StreamTypes
  <2> QED
    BY <1>1, <1>2, <1>3, <2>1, KeyFacts DEF JobInv, StreamTypes
<1>9. SoleInv'
  <2>1. ASSUME NEW t \in Streams PROVE Untouched(t)'
    <3>1. ASSUME \A j \in Keys : stream'[j] # t PROVE \A j \in Keys : stream[j] # t
      BY <1>1, <1>3, <3>1, KeyFacts
    <3>2. Untouched(t)
      BY DEF SoleInv
    <3> QED
      BY <1>2, <3>1, <3>2 DEF Untouched
  <2>2. ASSUME NEW j \in Called', Sole(j)'
        PROVE  SoleCall(j)' /\ SolePositions(j)' /\ SoleOrders(j)'
    <3>0. j \in Keys
      BY <2>2 DEF Called
    <3>1. CASE j = k
      <4>1. \A i \in Keys : stream[i] # s
        BY <1>1, <1>3, <2>2, <3>1, KeyFacts DEF Sole
      <4>2. /\ answers[s] = {} /\ job.stream # s
            /\ s = "positions" => Positions = {}
        BY <4>1 DEF SoleInv, Untouched
      <4>3. waiting[s] = {} /\ listed[s] = <<>>
        BY <4>1 DEF ServerInv, StreamTypes
      <4>4. buf[k] = <<>> /\ outcome[k].tag = "none"
        BY <1>1 DEF KeyInv, Called
      <4>5. Held(<<>>) = {}
        BY DEF Held, Range
      <4>6. Kept(<<>>, Entry) = <<>>
        BY KeptEmpty
      <4>7. SoleCall(k)'
        BY <1>1, <1>2, <1>3, <1>4, <4>2, <4>4 DEF SoleCall, Ending
      <4>8. SolePositions(k)'
        BY <1>2, <1>3, <4>2, <4>3, <4>5 DEF SolePositions
      <4>9. SoleOrders(k)'
        BY <1>2, <1>3, <1>4, <4>2, <4>3, <4>4, <4>6 DEF SoleOrders, InHand
      <4> QED
        BY <3>1, <4>7, <4>8, <4>9
    <3>2. CASE j # k
      <4>1. stream'[j] = stream[j] /\ j \in Called
        BY <1>3, <2>2, <3>0, <3>2 DEF Called
      <4>2. Sole(j)
        BY <1>1, <1>3, <2>2, <3>0, <3>2, <4>1 DEF Sole, Called
      <4>3. SoleCall(j) /\ SolePositions(j) /\ SoleOrders(j)
        BY <4>1, <4>2 DEF SoleInv
      <4>4. j \in DOMAIN Results <=> j \in DOMAIN Results'
        BY <1>4, <3>2
      <4>5. j \in DOMAIN Results => Results'[j] = Results[j]
        BY <1>4, <3>2
      <4>6. SoleCall(j)'
        BY <1>2, <1>3, <3>0, <3>2, <4>1, <4>3, <4>4 DEF SoleCall, Ending, IsAnswer
      <4>7. SolePositions(j)'
        BY <1>2, <4>1, <4>3 DEF SolePositions
      <4>8. SoleOrders(j)'
        BY <1>2, <4>1, <4>3, <4>4, <4>5 DEF SoleOrders, InHand
      <4> QED
        BY <4>6, <4>7, <4>8
    <3> QED
      BY <3>1, <3>2
  <2> QED
    BY <2>1, <2>2 DEF SoleInv
<1> QED
  BY <1>5, <1>6, <1>7, <1>8, <1>9

\* A step that calls no method and takes nothing in from the server.
Aside == UNCHANGED <<syntheticReqID, stream, active, Results, Positions, job, listed,
                     answers>>

\* Such a step leaves the calls and what has been accumulated for them alone.
LEMMA AsideFrame ==
    ASSUME StreamInv, Aside
    PROVE  /\ Called' = Called
           /\ \A s \in Streams : Untouched(s)'
           /\ \A k \in Called :
                 Sole(k)' => SoleCall(k) /\ SolePositions(k)' /\ SoleOrders(k)
<1> USE DEF Aside
<1>1. Called' = Called
  BY DEF Called
<1>2. \A s \in Streams : Untouched(s)'
  BY DEF StreamInv, SoleInv, Untouched
<1>3. ASSUME NEW k \in Called, Sole(k)'
      PROVE  SoleCall(k) /\ SolePositions(k)' /\ SoleOrders(k)
  <2>1. Sole(k)
    BY <1>3 DEF Sole
  <2>2. SoleCall(k) /\ SolePositions(k) /\ SoleOrders(k)
    BY <2>1 DEF StreamInv, SoleInv
  <2> QED
    BY <2>2 DEF SolePositions
<1> QED
  BY <1>1, <1>2, <1>3

\* The request of a call that is still sending has not been answered.
LEMMA SendRequestKeeps ==
    ASSUME StreamInv, NEW k \in Keys, SendRequest(k)
    PROVE  StreamInv'
<1> USE DEF StreamInv
<1>1. /\ pc[k] = "send"
      /\ pc' = [pc EXCEPT ![k] = "wait"]
      /\ mu' = [mu EXCEPT ![stream[k]] = Absent]
      /\ wire' = wire \cup {k}
      /\ Aside
      /\ UNCHANGED <<outcome, buf, waiting>>
  BY DEF SendRequest, GoTo, Aside
<1>2. stream[k] \in Streams /\ k \in Called
  BY <1>1 DEF KeyInv, StreamTypes, Called
<1>3. StreamTypes'
  BY <1>1 DEF StreamTypes, PCs, Aside
<1>4. KeyInv'
  BY <1>1, AsideFrame DEF KeyInv, StreamTypes, Aside
<1>5. ServerInv'
  BY <1>1, <1>2 DEF ServerInv, StreamTypes, Aside
<1>6. JobInv'
  BY <1>1 DEF JobInv, Aside
<1>7. ASSUME NEW j \in Called, Sole(j)'
      PROVE  SoleCall(j)' /\ SolePositions(j)' /\ SoleOrders(j)'
  <2>1. SoleCall(j) /\ SolePositions(j)' /\ SoleOrders(j)
    BY <1>1, <1>7, AsideFrame
  <2>2. j = k => answers[stream[j]] = {}
    BY <1>1, <2>1 DEF SoleCall
  <2>3. SoleCall(j)'
    BY <1>1, <2>1, <2>2 DEF SoleCall, Aside, Ending, IsAnswer, StreamTypes, Called
  <2>4. SoleOrders(j)'
    BY <1>1, <2>1 DEF SoleOrders, Aside, InHand
  <2> QED
    BY <2>1, <2>3, <2>4
<1>8. SoleInv'
  BY <1>1, <1>7, AsideFrame DEF SoleInv
<1> QED
  BY <1>3, <1>4, <1>5, <1>6, <1>8

\* A call returns.  What it has left to say of its answer is the same if it keeps
\* its channel.
Returns(k) ==
    /\ pc[k] \in {"send", "wait"}
    /\ pc' = [pc EXCEPT ![k] = "returned"]
    /\ Aside
    /\ UNCHANGED <<wire, waiting>>

\* All there is to show of a step that returns is that success means an answer.
LEMMA ReturnsFrame ==
    ASSUME StreamInv, NEW k \in Keys, Returns(k),
           NEW o, outcome' = [outcome EXCEPT ![k] = o],
           buf' = buf \/ buf' = [buf EXCEPT ![k] = <<>>]
    PROVE  /\ KeyInv' /\ ServerInv' /\ JobInv'
           /\ (Sole(k) /\ o.tag = "ok" => IsAnswer(k)') => SoleInv'
<1> USE DEF StreamInv, Returns
<1>1. k \in Called
  BY DEF KeyInv, StreamTypes, Called
<1>2. buf' \in [Keys -> Seq(Seq(Value))] /\ \A j \in Keys : buf'[j] # <<>> => buf'[j] = buf[j]
  <2>1. <<>> \in Seq(Seq(Value)) /\ buf \in [Keys -> Seq(Seq(Value))]
    BY DEF StreamTypes
  <2> QED
    BY <2>1
<1>3. KeyInv'
  BY <1>2, AsideFrame DEF KeyInv, StreamTypes, Aside
<1>4. ServerInv'
  BY DEF ServerInv, StreamTypes, Aside
<1>5. JobInv'
  BY DEF JobInv, Aside
<1>6. ASSUME Sole(k) /\ o.tag = "ok" => IsAnswer(k)',
             NEW j \in Called, Sole(j)'
      PROVE  SoleCall(j)' /\ SolePositions(j)' /\ SoleOrders(j)'
  <2>1. SoleCall(j) /\ SolePositions(j)' /\ SoleOrders(j)
    BY <1>6, AsideFrame
  <2>2. Sole(j) /\ j \in Keys
    BY <1>6 DEF Sole, Aside, Called
  <2>3. outcome'[j].tag = "ok" => IsAnswer(j)'
    <3>1. CASE j = k
      BY <1>6, <2>2, <3>1 DEF StreamTypes
    <3>2. CASE j # k
      BY <2>1, <2>2, <3>2 DEF SoleCall, IsAnswer, Aside, StreamTypes
    <3> QED
      BY <3>1, <3>2
  <2>4. SoleCall(j)'
    BY <1>2, <2>1, <2>2, <2>3 DEF SoleCall, Aside, Ending, StreamTypes
  <2>5. SoleOrders(j)'
    BY <1>2, <2>1, <2>2 DEF SoleOrders, Aside, InHand
  <2> QED
    BY <2>1, <2>4, <2>5
<1>7. (Sole(k) /\ o.tag = "ok" => IsAnswer(k)') => SoleInv'
  BY <1>6, AsideFrame DEF SoleInv
<1> QED
  BY <1>3, <1>4, <1>5, <1>7

\* SendFails and ContextExpires.
LEMMA FailureKeeps ==
    ASSUME StreamInv, NEW k \in Keys, SendFails(k) \/ ContextExpires(k)
    PROVE  StreamInv'
<1> USE DEF StreamInv
<1>1. Returns(k) /\ buf' = buf
  BY DEF SendFails, ContextExpires, Returns, Return, GoTo, Aside
<1>2. PICK tag \in {"sendError", "ctx"} : outcome' = [outcome EXCEPT ![k] = Failed(tag)]
  BY DEF SendFails, ContextExpires, Return
<1>3. Failed(tag).tag # "ok"
  BY DEF Failed
<1>4. StreamTypes'
  <2>1. mu' \in [Streams -> Keys \cup {Absent}]
    BY DEF SendFails, ContextExpires, StreamTypes
  <2>2. Failed(tag) \in [tag : {"none", "ok", "sendError", "ctx"},
                         held : SUBSET Nat, trades : Seq(Value)]
    BY DEF Failed
  <2> QED
    BY <1>1, <1>2, <2>1, <2>2 DEF StreamTypes, PCs, Returns, Aside
<1> QED
  BY <1>1, <1>2, <1>3, <1>4, ReturnsFrame

\* GetPositions finds what the answer left, since nobody else has asked for another.
LEMMA ReceivePositionsKeeps ==
    ASSUME StreamInv, NEW k \in Keys, ReceivePositions(k)
    PROVE  StreamInv'
<1> USE DEF StreamInv
<1>1. /\ Returns(k)
      /\ buf' = [buf EXCEPT ![k] = <<>>]
      /\ outcome' = [outcome EXCEPT ![k] = Contracts(Positions)]
      /\ mu' = mu
  BY DEF ReceivePositions, Returns, Return, GoTo, Aside
<1>2. StreamTypes'
  <2>1. Contracts(Positions) \in [tag : {"none", "ok", "sendError", "ctx"},
                                  held : SUBSET Nat, trades : Seq(Value)]
    BY DEF Contracts, StreamTypes
  <2> QED
    BY <1>1, <2>1 DEF StreamTypes, PCs, Returns, Aside
<1>3. ASSUME Sole(k) PROVE IsAnswer(k)'
  <2>1. k \in Called /\ stream[k] = "positions" /\ buf[k] # <<>>
    BY KeyFacts DEF ReceivePositions, Called
  <2>2. SoleCall(k) /\ SolePositions(k)
    BY <1>3, <2>1 DEF SoleInv
  <2>3. PICK a \in answers["positions"] : Positions = Held(a)
    BY <2>1, <2>2 DEF SoleCall, SolePositions
  <2> QED
    BY <1>1, <2>1, <2>3 DEF IsAnswer, Returns, Aside, StreamTypes
<1> QED
  BY <1>1, <1>2, <1>3, ReturnsFrame

\* The channel holds the answer among fills, and the loop leaves the fills out.
LEMMA ReceiveCompletedOrdersKeeps ==
    ASSUME StreamInv, NEW k \in Keys, ReceiveCompletedOrders(k)
    PROVE  StreamInv'
<1> USE DEF StreamInv
<1> DEFINE ts == Kept(buf[k][1], Entry)
<1>1. /\ Returns(k)
      /\ buf' = [buf EXCEPT ![k] = <<>>]
      /\ outcome' = [outcome EXCEPT ![k] = Trades(ts)]
      /\ mu' = mu
  BY DEF ReceiveCompletedOrders, Returns, Return, GoTo, Aside
<1>2. StreamTypes'
  <2>1. buf[k][1] \in Seq(Value)
    BY DEF StreamTypes, ReceiveCompletedOrders
  <2>2. ts \in Seq(Value)
    BY <2>1, KeptType
  <2> HIDE DEF ts
  <2>3. Trades(ts) \in [tag : {"none", "ok", "sendError", "ctx"},
                        held : SUBSET Nat, trades : Seq(Value)]
    BY <2>2 DEF Trades
  <2> QED
    BY <1>1, <2>3 DEF StreamTypes, PCs, Returns, Aside
<1> HIDE DEF ts
<1>3. ASSUME Sole(k) PROVE IsAnswer(k)'
  <2>1. k \in Called /\ stream[k] = "completedOrders" /\ buf[k] # <<>>
    BY KeyFacts DEF ReceiveCompletedOrders, Called
  <2>2. SoleCall(k) /\ SoleOrders(k)
    BY <1>3, <2>1 DEF SoleInv
  <2>3. PICK a \in answers["completedOrders"] : ts = a
    BY <2>1, <2>2 DEF SoleCall, SoleOrders, ts
  <2> QED
    BY <1>1, <2>1, <2>3 DEF IsAnswer, Returns, Aside, StreamTypes
<1> QED
  BY <1>1, <1>2, <1>3, ReturnsFrame

-----------------------------------------------------------------------------
(* The server and the reader *)

\* The request of the only call is the only one the server has to answer.
LEMMA RequestArrivesKeeps ==
    ASSUME StreamInv, NEW k \in Keys, RequestArrives(k)
    PROVE  StreamInv'
<1> USE DEF StreamInv
<1>1. /\ k \in wire /\ wire' = wire \ {k}
      /\ waiting' = [waiting EXCEPT ![stream[k]] = waiting[stream[k]] \cup {k}]
      /\ Aside
      /\ UNCHANGED <<pc, outcome, mu, buf>>
  BY DEF RequestArrives, Aside
<1>2. stream[k] \in Streams /\ k \in Called
  BY <1>1 DEF KeyInv, ServerInv, StreamTypes, Called
<1>3. /\ waiting' \in [Streams -> SUBSET Keys]
      /\ \A s \in Streams : \A j \in waiting'[s] : j \in waiting[s] \/ (s = stream[k] /\ j = k)
      /\ \A s \in Streams : waiting[s] \subseteq waiting'[s]
      /\ \A s \in Streams : s # stream[k] => waiting'[s] = waiting[s]
  BY <1>1, <1>2 DEF StreamTypes
<1>4. StreamTypes'
  BY <1>1, <1>3 DEF StreamTypes, Aside
<1>5. KeyInv'
  BY <1>1, AsideFrame DEF KeyInv, StreamTypes, Aside
<1>6. ServerInv'
  <2>1. \A j \in wire' : pc'[j] \in {"wait", "returned"} /\ j \notin waiting'[stream'[j]]
    <3> TAKE j \in wire'
    <3>1. j \in wire /\ j # k /\ stream[j] \in Streams
      BY <1>1 DEF ServerInv, KeyInv, StreamTypes
    <3> QED
      BY <1>1, <1>3, <3>1 DEF ServerInv, Aside
  <2>2. \A s \in Streams : \A j \in waiting'[s] :
           stream'[j] = s /\ pc'[j] \in {"wait", "returned"}
    BY <1>1, <1>3 DEF ServerInv, Aside
  <2>3. \A s \in Streams : waiting'[s] = {} => listed'[s] = <<>>
    BY <1>1, <1>3 DEF ServerInv, Aside
  <2> QED
    BY <1>1, <2>1, <2>2, <2>3 DEF ServerInv, Aside
<1>7. JobInv'
  BY <1>1, <1>3, KeyFacts DEF JobInv, Aside, StreamTypes
<1>8. ASSUME NEW j \in Called, Sole(j)'
      PROVE  SoleCall(j)' /\ SolePositions(j)' /\ SoleOrders(j)'
  <2>1. SoleCall(j) /\ SolePositions(j)' /\ SoleOrders(j)
    BY <1>1, <1>8, AsideFrame
  <2>2. stream[j] \in Streams /\ j \in Keys
    BY DEF Called, StreamTypes
  <2>3. stream[k] = stream[j] => answers[stream[j]] = {}
    <3>1. stream[k] = stream[j] => j = k
      BY <1>1, <1>8 DEF Sole, Aside
    <3> QED
      BY <1>1, <2>1, <3>1 DEF SoleCall
  <2>4. SoleCall(j)'
    BY <1>1, <1>3, <2>1, <2>2, <2>3 DEF SoleCall, Aside, Ending, IsAnswer
  <2>5. SoleOrders(j)'
    BY <1>1, <2>1 DEF SoleOrders, Aside, InHand
  <2> QED
    BY <2>1, <2>4, <2>5
<1>9. SoleInv'
  BY <1>1, <1>8, AsideFrame DEF SoleInv
<1> QED
  BY <1>4, <1>5, <1>6, <1>7, <1>9

\* A step of the reader leaves the callers where they are.
ReaderAside == UNCHANGED <<callVars, keyVars, wire>>

\* Such a step keeps the calls' part of the invariant.
LEMMA ReaderFrame ==
    ASSUME StreamInv, ReaderAside, DOMAIN Results' \subseteq Called,
           \A k \in Keys : buf'[k] # <<>> => k \in Called
    PROVE  /\ Called' = Called
           /\ \A k \in Keys : Sole(k)' <=> Sole(k)
           /\ KeyInv'
<1> USE DEF ReaderAside, StreamInv
<1>1. Called' = Called
  BY DEF Called
<1>2. \A k \in Keys : Sole(k)' <=> Sole(k)
  BY DEF Sole
<1>3. KeyInv'
  BY <1>1 DEF KeyInv
<1> QED
  BY <1>1, <1>2, <1>3

\* The server is answering stream s: whoever called it has asked, and if it is one
\* call it has had no answer yet.
LEMMA Answering ==
    ASSUME StreamInv, NEW s \in Streams, waiting[s] # {}
    PROVE  /\ \E k \in Keys : stream[k] = s
           /\ \A k \in Called : Sole(k) /\ stream[k] = s =>
                 /\ answers[s] = {}
                 /\ k \in DOMAIN Results
                 /\ waiting[s] = {k} /\ k \notin wire /\ pc[k] # "send"
<1> USE DEF StreamInv
<1>1. PICK j \in waiting[s] : j \in Keys /\ stream[j] = s
  BY DEF StreamTypes, ServerInv
<1>2. ASSUME NEW k \in Called, Sole(k), stream[k] = s
      PROVE  /\ answers[s] = {}
             /\ k \in DOMAIN Results
             /\ waiting[s] = {k} /\ k \notin wire /\ pc[k] # "send"
  <2>1. SoleCall(k)
    BY <1>2 DEF SoleInv
  <2>2. \A i \in waiting[s] : i = k
    BY <1>2 DEF Sole, ServerInv, StreamTypes
  <2>3. waiting[s] = {k}
    BY <1>1, <2>2
  <2>4. answers[s] = {}
    BY <1>2, <2>1, <2>3 DEF SoleCall
  <2>5. k \in DOMAIN Results
    BY <1>2, <2>1, <2>4 DEF SoleCall
  <2>6. k \notin wire /\ pc[k] # "send"
    BY <1>2, <2>3 DEF ServerInv
  <2> QED
    BY <2>3, <2>4, <2>5, <2>6
<1> QED
  BY <1>1, <1>2

\* What listing one more thing does to the list.
LEMMA ListItemFacts ==
    ASSUME StreamInv, NEW s \in Streams, NEW e \in Entry, ListItem(s, e)
    PROVE  /\ waiting[s] # {} /\ waiting' = waiting /\ wire' = wire /\ answers' = answers
           /\ job = NoJob
           /\ e.n = Len(listed[s]) + 1
           /\ listed' \in [Streams -> Seq(Entry)]
           /\ listed'[s] = Append(listed[s], e)
           /\ \A t \in Streams \ {s} : listed'[t] = listed[t]
           /\ ServerInv' \/ ~UNCHANGED <<pc, stream>>
<1> USE DEF StreamInv
<1>1. /\ waiting[s] # {} /\ waiting' = waiting /\ wire' = wire /\ answers' = answers
      /\ job = NoJob
      /\ e.n = Len(listed[s]) + 1
      /\ listed' = [listed EXCEPT ![s] = Append(listed[s], e)]
  BY DEF ListItem, Idle
<1>2. listed[s] \in Seq(Entry) /\ Append(listed[s], e) \in Seq(Entry)
  BY DEF StreamTypes
<1>3. /\ listed' \in [Streams -> Seq(Entry)]
      /\ listed'[s] = Append(listed[s], e)
      /\ \A t \in Streams \ {s} : listed'[t] = listed[t]
  BY <1>1, <1>2 DEF StreamTypes
<1>4. \A i \in 1 .. Len(listed'[s]) : listed'[s][i].n = i
  <2>1. \A i \in 1 .. Len(listed[s]) : listed[s][i].n = i
    BY DEF ServerInv
  <2> QED
    BY <1>1, <1>2, <1>3, <2>1
<1>5. ASSUME UNCHANGED <<pc, stream>> PROVE ServerInv'
  <2>1. \A t \in Streams : waiting'[t] = {} => listed'[t] = <<>>
    BY <1>1, <1>3 DEF ServerInv
  <2>2. \A t \in Streams : \A i \in 1 .. Len(listed'[t]) : listed'[t][i].n = i
    <3> TAKE t \in Streams
    <3>1. CASE t = s
      BY <1>4, <3>1
    <3>2. CASE t # s
      BY <1>3, <3>2 DEF ServerInv
    <3> QED
      BY <3>1, <3>2
  <2> QED
    BY <1>1, <1>5, <2>1, <2>2 DEF ServerInv
<1> QED
  BY <1>1, <1>3, <1>5

\* An item is of no contract listed before it.
LEMMA HeldAppend ==
    ASSUME NEW l \in Seq(Entry), NEW e \in Entry, e.n = Len(l) + 1,
           \A i \in 1 .. Len(l) : l[i].n = i
    PROVE  Held(Append(l, e)) = IF e.held THEN Held(l) \cup {e.n} ELSE Held(l) \ {e.n}
<1> DEFINE m == Append(l, e)
<1>1. /\ m \in Seq(Entry) /\ Len(m) = Len(l) + 1 /\ Len(l) \in Nat
      /\ \A i \in 1 .. Len(l) : m[i] = l[i]
      /\ m[Len(l) + 1] = e
  OBVIOUS
<1>2. DOMAIN m = 1 .. Len(l) + 1 /\ DOMAIN l = 1 .. Len(l)
  BY <1>1
<1> HIDE DEF m
<1>3. 1 .. Len(l) + 1 = (1 .. Len(l)) \cup {Len(l) + 1}
  BY <1>1
<1>4. \A x : x \in Range(l) <=> \E i \in 1 .. Len(l) : x = l[i]
  BY <1>2 DEF Range
<1>5. \A x : x \in Range(m) <=> x \in Range(l) \/ x = e
  <2>1. \A x : x \in Range(m) <=> \E i \in 1 .. Len(l) + 1 : x = m[i]
    BY <1>2 DEF Range
  <2> QED
    BY <1>1, <1>3, <1>4, <2>1
<1>6. e.n \notin Held(l)
  BY <1>1, <1>4 DEF Held
<1>7. Held(m) = IF e.held THEN Held(l) \cup {e.n} ELSE Held(l)
  BY <1>5 DEF Held
<1> QED
  BY <1>6, <1>7 DEF m

\* Positions follows the list.
LEMMA handlePositionKeeps ==
    ASSUME StreamInv, handlePosition
    PROVE  StreamInv'
<1> USE DEF StreamInv
<1> DEFINE s == "positions"
<1>0. s \in Streams
  BY DEF handlePosition
<1> PICK e \in Entry :
       /\ ListItem(s, e)
       /\ Positions' = IF e.held THEN Positions \cup {e.n} ELSE Positions \ {e.n}
  BY DEF handlePosition
<1>1. ReaderAside /\ UNCHANGED <<buf, Results, job>>
  BY ListItemFacts, <1>0 DEF handlePosition, ReaderAside
<1>2. /\ waiting[s] # {} /\ waiting' = waiting /\ answers' = answers /\ job = NoJob
      /\ e.n = Len(listed[s]) + 1
      /\ listed' \in [Streams -> Seq(Entry)]
      /\ listed'[s] = Append(listed[s], e)
      /\ \A t \in Streams \ {s} : listed'[t] = listed[t]
      /\ ServerInv'
  BY ListItemFacts, <1>0, <1>1 DEF ReaderAside
<1>3. Called' = Called /\ (\A k \in Keys : Sole(k)' <=> Sole(k)) /\ KeyInv'
  BY <1>1, ReaderFrame DEF KeyInv
<1>4. StreamTypes'
  <2>1. e.n \in Nat
    BY BoundsAssumption DEF Entry
  <2>2. Positions' \subseteq Nat
    BY <2>1 DEF StreamTypes
  <2> QED
    BY <1>1, <1>2, <2>2 DEF StreamTypes, ReaderAside
<1>5. JobInv'
  BY <1>1, <1>2 DEF JobInv, ReaderAside
<1>6. ASSUME NEW t \in Streams PROVE Untouched(t)'
  BY <1>0, <1>1, <1>2, <1>6, Answering DEF SoleInv, Untouched, ReaderAside
<1>7. ASSUME NEW k \in Called, Sole(k)
      PROVE  SoleCall(k)' /\ SolePositions(k)' /\ SoleOrders(k)'
  <2>1. SoleCall(k) /\ SolePositions(k) /\ SoleOrders(k)
    BY <1>7 DEF SoleInv
  <2>2. SoleCall(k)'
    BY <1>1, <1>2, <2>1 DEF SoleCall, Ending, IsAnswer, ReaderAside
  <2>3. SolePositions(k)'
    <3>1. SUFFICES ASSUME stream[k] = s
                   PROVE  answers[s] = {} /\ Positions' = Held(listed'[s])
      BY <1>1, <1>2 DEF SolePositions, ReaderAside
    <3>2. answers[s] = {}
      BY <1>0, <1>2, <1>7, <3>1, Answering
    <3>3. Positions = Held(listed[s])
      BY <2>1, <3>1, <3>2 DEF SolePositions
    <3>4. Held(listed'[s]) = IF e.held THEN Held(listed[s]) \cup {e.n}
                                       ELSE Held(listed[s]) \ {e.n}
      <4> DEFINE l == listed[s]
      <4>1. l \in Seq(Entry)
        BY <1>0 DEF StreamTypes
      <4>2. \A i \in 1 .. Len(l) : l[i].n = i
        BY <1>0 DEF ServerInv
      <4>3. e.n = Len(l) + 1 /\ listed'[s] = Append(l, e)
        BY <1>2
      <4> HIDE DEF l
      <4>4. Held(Append(l, e)) = IF e.held THEN Held(l) \cup {e.n} ELSE Held(l) \ {e.n}
        BY <4>1, <4>2, <4>3, HeldAppend
      <4> QED
        BY <4>3, <4>4 DEF l
    <3> QED
      BY <3>2, <3>3, <3>4
  <2>4. SoleOrders(k)'
    <3>1. stream[k] = "completedOrders" => listed'["completedOrders"] = listed["completedOrders"]
      BY <1>2 DEF StreamTypes, Called
    <3> QED
      BY <1>1, <1>2, <2>1, <3>1 DEF SoleOrders, InHand, ReaderAside
  <2> QED
    BY <2>2, <2>3, <2>4
<1>8. SoleInv'
  BY <1>3, <1>6, <1>7 DEF SoleInv, Called
<1> QED
  BY <1>2, <1>3, <1>4, <1>5, <1>8

\* The list is one item ahead of Results while the reader waits for the mutex.
LEMMA handleCompletedOrderKeeps ==
    ASSUME StreamInv, handleCompletedOrder
    PROVE  StreamInv'
<1> USE DEF StreamInv
<1> DEFINE s == "completedOrders"
<1>0. s \in Streams
  BY DEF handleCompletedOrder
<1> PICK e \in Entry : ListItem(s, e) /\ Take(s, "lockItem", e)
  BY DEF handleCompletedOrder
<1>1. /\ ReaderAside /\ UNCHANGED <<buf, Results, Positions>>
      /\ job' = [stream |-> s, what |-> "lockItem", key |-> Absent, entry |-> e]
  BY ListItemFacts, <1>0 DEF Take, ReaderAside
<1>2. /\ waiting[s] # {} /\ waiting' = waiting /\ answers' = answers /\ job = NoJob
      /\ listed' \in [Streams -> Seq(Entry)]
      /\ listed'[s] = Append(listed[s], e)
      /\ \A t \in Streams \ {s} : listed'[t] = listed[t]
      /\ ServerInv'
  BY ListItemFacts, <1>0, <1>1 DEF ReaderAside
<1>3. Called' = Called /\ (\A k \in Keys : Sole(k)' <=> Sole(k)) /\ KeyInv'
  BY <1>1, ReaderFrame DEF KeyInv
<1>4. StreamTypes'
  <2>1. job' \in [stream : Streams \cup {"none"}, what : Jobs, key : Keys \cup {Absent},
                  entry : Value]
    BY <1>0, <1>1 DEF Jobs, Value
  <2> QED
    BY <1>1, <1>2, <2>1 DEF StreamTypes, ReaderAside
<1>5. JobInv'
  BY <1>1, <1>2 DEF JobInv
<1>6. ASSUME NEW t \in Streams PROVE Untouched(t)'
  BY <1>0, <1>1, <1>2, <1>6, Answering DEF SoleInv, Untouched, ReaderAside
<1>7. ASSUME NEW k \in Called, Sole(k)
      PROVE  SoleCall(k)' /\ SolePositions(k)' /\ SoleOrders(k)'
  <2>1. SoleCall(k) /\ SolePositions(k) /\ SoleOrders(k)
    BY <1>7 DEF SoleInv
  <2>2. SoleCall(k)'
    BY <1>1, <1>2, <2>1 DEF SoleCall, Ending, IsAnswer, ReaderAside, NoJob
  <2>3. SolePositions(k)'
    <3>1. stream[k] = "positions" => listed'["positions"] = listed["positions"]
      BY <1>2 DEF StreamTypes, Called
    <3> QED
      BY <1>1, <1>2, <2>1, <3>1 DEF SolePositions, ReaderAside
  <2>4. SoleOrders(k)'
    <3>1. SUFFICES ASSUME stream[k] = s
                   PROVE  /\ Append(Kept(Results[k], Entry), e) = listed'[s]
                          /\ answers[s] = {}
      BY <1>1, <1>2 DEF SoleOrders, InHand, ReaderAside
    <3>2. answers[s] = {} /\ k \in DOMAIN Results
      BY <1>0, <1>2, <1>7, <3>1, Answering
    <3>3. ~InHand(s)
      BY <1>2 DEF InHand, NoJob
    <3>4. Kept(Results[k], Entry) = listed[s]
      BY <2>1, <3>1, <3>2, <3>3 DEF SoleOrders
    <3> QED
      BY <1>2, <3>2, <3>4
  <2> QED
    BY <2>2, <2>3, <2>4
<1>8. SoleInv'
  BY <1>3, <1>6, <1>7 DEF SoleInv, Called
<1> QED
  BY <1>2, <1>3, <1>4, <1>5, <1>8

\* Both End handlers.
LEMMA EndKeeps ==
    ASSUME StreamInv, NEW s \in Streams, EndAnswer(s), Take(s, "lockEnd", Fill)
    PROVE  StreamInv'
<1> USE DEF StreamInv
<1>1. /\ ReaderAside /\ UNCHANGED <<buf, Results, Positions>>
      /\ job' = [stream |-> s, what |-> "lockEnd", key |-> Absent, entry |-> Fill]
  BY DEF Take, EndAnswer, ReaderAside
<1>2. /\ waiting[s] # {} /\ job = NoJob
      /\ waiting' = [waiting EXCEPT ![s] = {}]
      /\ answers' = [answers EXCEPT ![s] = answers[s] \cup {listed[s]}]
      /\ listed' = [listed EXCEPT ![s] = <<>>]
  BY DEF EndAnswer, Idle
<1>3. /\ waiting' \in [Streams -> SUBSET Keys] /\ waiting'[s] = {}
      /\ answers' \in [Streams -> SUBSET Seq(Entry)]
      /\ answers'[s] = answers[s] \cup {listed[s]}
      /\ listed' \in [Streams -> Seq(Entry)] /\ listed'[s] = <<>>
      /\ \A t \in Streams \ {s} :
            waiting'[t] = waiting[t] /\ answers'[t] = answers[t] /\ listed'[t] = listed[t]
  <2>1. <<>> \in Seq(Entry) /\ listed[s] \in Seq(Entry)
    BY DEF StreamTypes
  <2> QED
    BY <1>2, <2>1 DEF StreamTypes
<1>4. Called' = Called /\ (\A k \in Keys : Sole(k)' <=> Sole(k)) /\ KeyInv'
  BY <1>1, ReaderFrame DEF KeyInv
<1>5. StreamTypes'
  <2>1. job' \in [stream : Streams \cup {"none"}, what : Jobs, key : Keys \cup {Absent},
                  entry : Value]
    BY <1>1 DEF Jobs, Value
  <2> QED
    BY <1>1, <1>3, <2>1 DEF StreamTypes, ReaderAside
<1>6. ServerInv'
  <2>1. \A j \in wire' : pc'[j] \in {"wait", "returned"} /\ j \notin waiting'[stream'[j]]
    <3> TAKE j \in wire'
    <3>1. j \in wire /\ stream[j] \in Streams
      BY <1>1 DEF ServerInv, KeyInv, StreamTypes, ReaderAside
    <3> QED
      BY <1>1, <1>3, <3>1 DEF ServerInv, ReaderAside
  <2>2. \A t \in Streams : \A i \in 1 .. Len(listed'[t]) : listed'[t][i].n = i
    <3> TAKE t \in Streams
    <3>1. CASE t = s
      BY <1>3, <3>1
    <3>2. CASE t # s
      BY <1>3, <3>2 DEF ServerInv
    <3> QED
      BY <3>1, <3>2
  <2> QED
    BY <1>1, <1>3, <2>1, <2>2 DEF ServerInv, ReaderAside
<1>7. JobInv'
  BY <1>1, KeyFacts DEF JobInv
<1>8. ASSUME NEW t \in Streams PROVE Untouched(t)'
  <2>1. CASE t = s
    BY <1>1, <1>2, <2>1, Answering DEF Untouched, ReaderAside
  <2>2. CASE t # s
    BY <1>1, <1>3, <2>2 DEF SoleInv, Untouched, ReaderAside
  <2> QED
    BY <2>1, <2>2
<1>9. ASSUME NEW k \in Called, Sole(k)
      PROVE  SoleCall(k)' /\ SolePositions(k)' /\ SoleOrders(k)'
  <2>1. SoleCall(k) /\ SolePositions(k) /\ SoleOrders(k)
    BY <1>9 DEF SoleInv
  <2>2. stream[k] \in Streams
    BY DEF Called, StreamTypes
  <2>3. CASE stream[k] # s
    <3>1. SoleCall(k)'
      BY <1>1, <1>2, <1>3, <2>1, <2>2, <2>3 DEF SoleCall, Ending, IsAnswer, ReaderAside, NoJob
    <3>2. SolePositions(k)'
      BY <1>1, <1>3, <2>1, <2>2, <2>3 DEF SolePositions, ReaderAside
    <3>3. SoleOrders(k)'
      BY <1>1, <1>2, <1>3, <2>1, <2>2, <2>3 DEF SoleOrders, InHand, ReaderAside, NoJob
    <3> QED
      BY <3>1, <3>2, <3>3
  <2>4. CASE stream[k] = s
    <3>1. /\ answers[s] = {} /\ k \in DOMAIN Results
          /\ k \notin wire /\ pc[k] # "send"
      BY <1>2, <1>9, <2>4, Answering
    <3>2. answers'[s] = {listed[s]}
      BY <1>3, <3>1
    <3>3. SoleCall(k)'
      <4>1. outcome[k].tag # "ok"
        BY <2>1, <2>4, <3>1 DEF SoleCall, IsAnswer
      <4> QED
        BY <1>1, <1>3, <2>4, <3>1, <3>2, <4>1 DEF SoleCall, ReaderAside
    <3>4. SolePositions(k)'
      BY <1>1, <2>1, <2>4, <3>1, <3>2 DEF SolePositions, ReaderAside
    <3>5. SoleOrders(k)'
      <4>1. ~InHand(s) /\ ~InHand(s)'
        BY <1>1, <1>2 DEF InHand, NoJob
      <4>2. buf[k] = <<>>
        BY <2>1, <2>4, <3>1 DEF SoleCall
      <4> QED
        BY <1>1, <2>1, <2>4, <3>1, <3>2, <4>1, <4>2 DEF SoleOrders, ReaderAside
    <3> QED
      BY <3>3, <3>4, <3>5
  <2> QED
    BY <2>3, <2>4
<1>10. SoleInv'
  BY <1>4, <1>8, <1>9 DEF SoleInv, Called
<1> QED
  BY <1>4, <1>5, <1>6, <1>7, <1>10

\* The key the reader reads under the mutex is the only call's.
LEMMA AttendKeeps ==
    ASSUME StreamInv, Attend
    PROVE  StreamInv'
<1> USE DEF StreamInv
<1> DEFINE s == job.stream
           key == active[s]
<1>1. /\ ReaderAside
      /\ UNCHANGED <<buf, Results, Positions, waiting, listed, answers>>
      /\ job.what \in {"lockItem", "lockEnd"}
      /\ job' = IF key = Absent THEN NoJob
                ELSE [job EXCEPT !.key = key,
                                 !.what = IF job.what = "lockItem" THEN "item" ELSE "end"]
  BY DEF Attend, ReaderAside
<1>2. s \in Streams /\ key \in Keys \cup {Absent} /\ (key # Absent => stream[key] = s)
  BY <1>1 DEF JobInv, StreamTypes, KeyInv
<1>3. Called' = Called /\ (\A k \in Keys : Sole(k)' <=> Sole(k)) /\ KeyInv'
  BY <1>1, ReaderFrame DEF KeyInv
<1>4. CASE key = Absent
  <2>1. job' = NoJob /\ \A k \in Called : stream[k] # s
    BY <1>1, <1>4 DEF KeyInv
  <2>2. StreamTypes' /\ ServerInv' /\ JobInv'
    <3>1. NoJob \in [stream : Streams \cup {"none"}, what : Jobs, key : Keys \cup {Absent},
                     entry : Value]
      BY DEF NoJob, Jobs, Value
    <3>2. StreamTypes'
      BY <1>1, <2>1, <3>1 DEF StreamTypes, ReaderAside
    <3>3. ServerInv'
      BY <1>1 DEF ServerInv, ReaderAside
    <3>4. JobInv'
      BY <2>1 DEF JobInv, NoJob
    <3> QED
      BY <3>2, <3>3, <3>4
  <2>3. ASSUME NEW t \in Streams PROVE Untouched(t)'
    BY <1>1, <2>1, KeyFacts DEF SoleInv, Untouched, ReaderAside, NoJob
  <2>4. ASSUME NEW k \in Called, Sole(k)
        PROVE  SoleCall(k)' /\ SolePositions(k)' /\ SoleOrders(k)'
    <3>1. SoleCall(k) /\ SolePositions(k) /\ SoleOrders(k) /\ stream[k] # s
      BY <2>1, <2>4 DEF SoleInv
    <3>2. SoleCall(k)'
      BY <1>1, <2>1, <3>1 DEF SoleCall, Ending, IsAnswer, ReaderAside, NoJob
    <3>3. SolePositions(k)'
      BY <1>1, <3>1 DEF SolePositions, ReaderAside
    <3>4. SoleOrders(k)'
      BY <1>1, <2>1, <3>1 DEF SoleOrders, InHand, ReaderAside, NoJob
    <3> QED
      BY <3>2, <3>3, <3>4
  <2> QED
    BY <1>3, <2>2, <2>3, <2>4 DEF SoleInv, Called
<1>5. CASE key # Absent
  <2>1. /\ job' \in [stream : Streams \cup {"none"}, what : Jobs, key : Keys \cup {Absent},
                     entry : Value]
        /\ job'.stream = s /\ job'.entry = job.entry /\ job'.key = key
        /\ job'.what = IF job.what = "lockItem" THEN "item" ELSE "end"
    BY <1>1, <1>2, <1>5 DEF StreamTypes, Jobs
  <2>2. StreamTypes'
    BY <1>1, <2>1 DEF StreamTypes, ReaderAside
  <2>3. ServerInv'
    BY <1>1 DEF ServerInv, ReaderAside
  <2>4. JobInv'
    BY <1>1, <1>2, <1>5, <2>1, KeyFacts DEF JobInv, ReaderAside
  <2>5. ASSUME NEW t \in Streams PROVE Untouched(t)'
    BY <1>1, <2>1 DEF SoleInv, Untouched, ReaderAside
  <2>6. ASSUME NEW k \in Called, Sole(k)
        PROVE  SoleCall(k)' /\ SolePositions(k)' /\ SoleOrders(k)'
    <3>1. SoleCall(k) /\ SolePositions(k) /\ SoleOrders(k)
      BY <2>6 DEF SoleInv
    <3>2. SoleCall(k)'
      BY <1>1, <2>1, <3>1 DEF SoleCall, Ending, IsAnswer, ReaderAside
    <3>3. SolePositions(k)'
      BY <1>1, <3>1 DEF SolePositions, ReaderAside
    <3>4. SoleOrders(k)'
      BY <1>1, <2>1, <3>1 DEF SoleOrders, InHand, ReaderAside
    <3> QED
      BY <3>2, <3>3, <3>4
  <2> QED
    BY <1>3, <2>2, <2>3, <2>4, <2>5, <2>6 DEF SoleInv, Called
<1> QED
  BY <1>4, <1>5

\* An entry of Results takes one more value, at most.
LEMMA AppendedFacts ==
    ASSUME StreamInv, NEW key, NEW e \in Value, Results' = Appended(key, e)
    PROVE  /\ DOMAIN Results' = DOMAIN Results
           /\ \A k \in DOMAIN Results : Results'[k] \in Seq(Value)
           /\ \A k \in DOMAIN Results \ {key} : Results'[k] = Results[k]
           /\ key \in DOMAIN Results =>
                 Kept(Results'[key], Entry) = IF e \in Entry
                                              THEN Append(Kept(Results[key], Entry), e)
                                              ELSE Kept(Results[key], Entry)
<1>1. CASE key \notin DOMAIN Results
  BY <1>1 DEF Appended, StreamInv, StreamTypes
<1>2. CASE key \in DOMAIN Results
  <2>1. Results' = [Results EXCEPT ![key] = Append(Results[key], e)]
    BY <1>2 DEF Appended
  <2>2. Results[key] \in Seq(Value)
    BY <1>2 DEF StreamInv, StreamTypes
  <2>3. Append(Results[key], e) \in Seq(Value)
    BY <2>2
  <2>4. /\ DOMAIN Results' = DOMAIN Results
        /\ Results'[key] = Append(Results[key], e)
        /\ \A k \in DOMAIN Results \ {key} : Results'[k] = Results[k]
    BY <1>2, <2>1
  <2>5. Kept(Append(Results[key], e), Entry) = IF e \in Entry
                                               THEN Append(Kept(Results[key], Entry), e)
                                               ELSE Kept(Results[key], Entry)
    BY <2>2, KeptAppend
  <2>6. \A k \in DOMAIN Results : Results'[k] \in Seq(Value)
    BY <2>3, <2>4 DEF StreamInv, StreamTypes
  <2> QED
    BY <2>4, <2>5, <2>6
<1> QED
  BY <1>1, <1>2

\* Results catches up with the list.
LEMMA AppendResultKeeps ==
    ASSUME StreamInv, AppendResult
    PROVE  StreamInv'
<1> USE DEF StreamInv
<1> DEFINE s == "completedOrders"
<1>1. /\ ReaderAside
      /\ UNCHANGED <<buf, Positions, waiting, listed, answers>>
      /\ job.what = "item" /\ job' = NoJob
      /\ Results' = Appended(job.key, job.entry)
  BY DEF AppendResult, ReaderAside
<1>2. /\ job.stream = s /\ s \in Streams /\ waiting[s] # {}
      /\ job.entry \in Entry /\ job.entry \in Value
      /\ job.key \in Keys /\ stream[job.key] = s
  BY <1>1 DEF JobInv, StreamTypes
<1>3. /\ DOMAIN Results' = DOMAIN Results
      /\ \A k \in DOMAIN Results : Results'[k] \in Seq(Value)
      /\ \A k \in DOMAIN Results \ {job.key} : Results'[k] = Results[k]
      /\ job.key \in DOMAIN Results =>
            Kept(Results'[job.key], Entry) = Append(Kept(Results[job.key], Entry), job.entry)
  BY <1>1, <1>2, AppendedFacts
<1>4. Called' = Called /\ (\A k \in Keys : Sole(k)' <=> Sole(k)) /\ KeyInv'
  BY <1>1, <1>3, ReaderFrame DEF KeyInv
<1>5. StreamTypes'
  BY <1>1, <1>3 DEF StreamTypes, ReaderAside, NoJob, Jobs, Value
<1>6. ServerInv' /\ JobInv'
  BY <1>1 DEF ServerInv, JobInv, ReaderAside, NoJob
<1>7. ASSUME NEW t \in Streams PROVE Untouched(t)'
  BY <1>1, KeyFacts DEF SoleInv, Untouched, ReaderAside, NoJob
<1>8. ASSUME NEW k \in Called, Sole(k)
      PROVE  SoleCall(k)' /\ SolePositions(k)' /\ SoleOrders(k)'
  <2>1. SoleCall(k) /\ SolePositions(k) /\ SoleOrders(k)
    BY <1>8 DEF SoleInv
  <2>2. SoleCall(k)'
    BY <1>1, <1>3, <2>1 DEF SoleCall, Ending, IsAnswer, ReaderAside, NoJob
  <2>3. SolePositions(k)'
    BY <1>1, <2>1 DEF SolePositions, ReaderAside
  <2>4. SoleOrders(k)'
    <3>1. SUFFICES ASSUME stream[k] = s PROVE SoleOrders(k)'
      BY <1>1, <1>2 DEF SoleOrders, ReaderAside
    <3>2. k = job.key
      BY <1>2, <1>8, <3>1 DEF Sole
    <3>3. InHand(s) /\ ~InHand(s)'
      BY <1>1, <1>2 DEF InHand, NoJob
    <3>4. answers[s] = {} /\ k \in DOMAIN Results
      BY <1>2, <1>8, <3>1, Answering
    <3>5. Append(Kept(Results[k], Entry), job.entry) = listed[s]
      BY <1>2, <2>1, <3>1, <3>3, <3>4 DEF SoleOrders
    <3>6. Kept(Results'[k], Entry) = listed[s]
      BY <1>3, <3>2, <3>4, <3>5
    <3>7. buf[k] = <<>>
      BY <2>1, <3>1, <3>4 DEF SoleCall
    <3> QED
      BY <1>1, <1>2, <3>3, <3>4, <3>6, <3>7 DEF SoleOrders
  <2> QED
    BY <2>2, <2>3, <2>4
<1>9. SoleInv'
  BY <1>4, <1>7, <1>8 DEF SoleInv, Called
<1> QED
  BY <1>4, <1>5, <1>6, <1>9

\* A stray fill changes nothing that is kept.
LEMMA handleExecDetailsKeeps ==
    ASSUME StreamInv, handleExecDetails
    PROVE  StreamInv'
<1> USE DEF StreamInv
<1>1. /\ ReaderAside
      /\ UNCHANGED <<buf, Positions, waiting, listed, answers, job>>
      /\ Results' = Results \/ Results' = Appended(LiveID, Fill)
  BY DEF handleExecDetails, ReaderAside
<1>2. /\ DOMAIN Results' = DOMAIN Results
      /\ \A k \in DOMAIN Results : /\ Results'[k] \in Seq(Value)
                                   /\ Kept(Results'[k], Entry) = Kept(Results[k], Entry)
  <2>1. CASE Results' = Results
    BY <2>1 DEF StreamTypes
  <2>2. CASE Results' = Appended(LiveID, Fill)
    <3>1. Fill \in Value
      BY DEF Value
    <3> QED
      BY <2>2, <3>1, AppendedFacts, FillIsNoEntry
  <2> QED
    BY <1>1, <2>1, <2>2
<1>3. Called' = Called /\ (\A k \in Keys : Sole(k)' <=> Sole(k)) /\ KeyInv'
  BY <1>1, <1>2, ReaderFrame DEF KeyInv
<1>4. StreamTypes'
  BY <1>1, <1>2 DEF StreamTypes, ReaderAside
<1>5. ServerInv' /\ JobInv'
  BY <1>1 DEF ServerInv, JobInv, ReaderAside
<1>6. ASSUME NEW t \in Streams PROVE Untouched(t)'
  BY <1>1 DEF SoleInv, Untouched, ReaderAside
<1>7. ASSUME NEW k \in Called, Sole(k)
      PROVE  SoleCall(k)' /\ SolePositions(k)' /\ SoleOrders(k)'
  <2>1. SoleCall(k) /\ SolePositions(k) /\ SoleOrders(k)
    BY <1>7 DEF SoleInv
  <2>2. SoleCall(k)'
    BY <1>1, <1>2, <2>1 DEF SoleCall, Ending, IsAnswer, ReaderAside
  <2>3. SolePositions(k)'
    BY <1>1, <2>1 DEF SolePositions, ReaderAside
  <2>4. SoleOrders(k)'
    BY <1>1, <1>2, <2>1 DEF SoleOrders, InHand, ReaderAside
  <2> QED
    BY <2>2, <2>3, <2>4
<1>8. SoleInv'
  BY <1>3, <1>6, <1>7 DEF SoleInv, Called
<1> QED
  BY <1>3, <1>4, <1>5, <1>8

\* The entry goes to the channel as it is.
LEMMA EndReqKeeps ==
    ASSUME StreamInv, EndReq
    PROVE  StreamInv'
<1> USE DEF StreamInv
<1> DEFINE s == job.stream
           key == job.key
           r == IF key \in DOMAIN Results THEN Results[key] ELSE <<>>
<1>1. /\ ReaderAside
      /\ UNCHANGED <<Positions, waiting, listed, answers>>
      /\ job.what = "end" /\ job' = NoJob
      /\ Results' = Restrict(Results, DOMAIN Results \ {key})
      /\ buf' = buf \/ buf' = [buf EXCEPT ![key] = << r >>]
  BY DEF EndReq, ReaderAside
<1>2. /\ s \in Streams /\ key \in Keys /\ stream[key] = s /\ key \in Called
  BY <1>1, KeyFacts DEF JobInv, StreamTypes, Called
<1>3. /\ DOMAIN Results' = DOMAIN Results \ {key}
      /\ \A k \in DOMAIN Results \ {key} : Results'[k] = Results[k]
  BY <1>1 DEF Restrict
<1>4. r \in Seq(Value)
  <2>1. <<>> \in Seq(Value)
    OBVIOUS
  <2> QED
    BY <2>1 DEF StreamTypes
<1>5. r = IF key \in DOMAIN Results THEN Results[key] ELSE <<>>
  OBVIOUS
<1> HIDE DEF r
<1>6. << r >> \in Seq(Seq(Value)) /\ << r >>[1] = r
  BY <1>4
<1>7. /\ buf' \in [Keys -> Seq(Seq(Value))]
      /\ \A k \in Keys \ {key} : buf'[k] = buf[k]
      /\ buf'[key] = buf[key] \/ buf'[key] = << r >>
  <2>1. buf \in [Keys -> Seq(Seq(Value))]
    BY DEF StreamTypes
  <2>2. CASE buf' = buf
    BY <2>1, <2>2
  <2>3. CASE buf' = [buf EXCEPT ![key] = << r >>]
    <3> HIDE DEF key
    <3> QED
      BY <1>2, <1>6, <2>1, <2>3
  <2> QED
    BY <1>1, <2>2, <2>3
<1>8. Called' = Called /\ (\A k \in Keys : Sole(k)' <=> Sole(k)) /\ KeyInv'
  BY <1>1, <1>2, <1>3, <1>7, ReaderFrame DEF KeyInv
<1>9. StreamTypes'
  BY <1>1, <1>3, <1>7 DEF StreamTypes, ReaderAside, NoJob, Jobs, Value
<1>10. ServerInv' /\ JobInv'
  BY <1>1 DEF ServerInv, JobInv, ReaderAside, NoJob
<1>11. ASSUME NEW t \in Streams PROVE Untouched(t)'
  BY <1>1, KeyFacts DEF SoleInv, Untouched, ReaderAside, NoJob
<1>12. ASSUME NEW k \in Called, Sole(k)
       PROVE  SoleCall(k)' /\ SolePositions(k)' /\ SoleOrders(k)'
  <2>1. SoleCall(k) /\ SolePositions(k) /\ SoleOrders(k) /\ k \in Keys
    BY <1>12 DEF SoleInv, Called
  <2>2. SolePositions(k)'
    BY <1>1, <2>1 DEF SolePositions, ReaderAside
  <2>3. CASE k # key
    <3>1. stream[k] # s
      BY <1>2, <1>12, <2>1, <2>3 DEF Sole
    <3>2. SoleCall(k)'
      BY <1>1, <1>3, <1>7, <2>1, <2>3, <3>1 DEF SoleCall, Ending, IsAnswer, ReaderAside, NoJob
    <3>3. SoleOrders(k)'
      BY <1>1, <1>3, <1>7, <2>1, <2>3, <3>1 DEF SoleOrders, InHand, ReaderAside, NoJob
    <3> QED
      BY <2>2, <3>2, <3>3
  <2>4. CASE k = key
    <3>1. stream[k] = s /\ k \notin DOMAIN Results'
      BY <1>2, <1>3, <2>4
    <3>2. Ending(s) /\ ~InHand(s)
      BY <1>1 DEF Ending, InHand
    <3>3. answers[s] # {} /\ k \in DOMAIN Results
      BY <2>1, <3>1, <3>2 DEF SoleCall
    <3>4. SoleCall(k)'
      BY <1>1, <2>1, <3>1, <3>3, KeyFacts, <1>2 DEF SoleCall, Ending, IsAnswer, ReaderAside, NoJob
    <3>5. ASSUME s = "completedOrders", NEW a \in answers[s], buf'[k] # <<>>
          PROVE  Kept(buf'[k][1], Entry) = a
      <4>1. Kept(Results[k], Entry) = a
        BY <2>1, <3>1, <3>2, <3>3, <3>5 DEF SoleOrders
      <4>2. CASE buf'[k] = buf[k]
        BY <2>1, <3>1, <3>5, <4>2 DEF SoleOrders
      <4>3. CASE buf'[k] = << r >>
        BY <1>5, <1>6, <2>4, <3>3, <4>1, <4>3
      <4> QED
        BY <1>7, <2>4, <4>2, <4>3
    <3>6. SoleOrders(k)'
      BY <1>1, <3>1, <3>5 DEF SoleOrders, ReaderAside
    <3> QED
      BY <2>2, <3>4, <3>6
  <2> QED
    BY <2>3, <2>4
<1>13. SoleInv'
  BY <1>8, <1>11, <1>12 DEF SoleInv, Called
<1> QED
  BY <1>8, <1>9, <1>10, <1>13

-----------------------------------------------------------------------------
(* Every step *)

\* One step of anybody.
LEMMA StreamNext == StreamInv /\ [Next]_vars => StreamInv'
<1> SUFFICES ASSUME StreamInv, [Next]_vars PROVE StreamInv'
  OBVIOUS
<1>1. CASE ReqPositions \/ ReqCompletedOrders
  BY <1>1, RegisterKeeps DEF ReqPositions, ReqCompletedOrders
<1>2. ASSUME NEW k \in Keys, CallerStep(k) \/ ContextExpires(k) \/ RequestArrives(k)
      PROVE  StreamInv'
  BY <1>2, SendRequestKeeps, FailureKeeps, ReceivePositionsKeeps,
     ReceiveCompletedOrdersKeeps, RequestArrivesKeeps DEF CallerStep
<1>3. CASE Items
  BY <1>3, handlePositionKeeps, handleCompletedOrderKeeps DEF Items
<1>4. CASE Ends
  BY <1>4, EndKeeps DEF Ends, handlePositionEnd, handleCompletedOrdersEnd
<1>5. CASE ReaderStep
  BY <1>5, AttendKeeps, AppendResultKeeps, EndReqKeeps DEF ReaderStep
<1>6. CASE handleExecDetails
  BY <1>6, handleExecDetailsKeeps
<1>7. CASE UNCHANGED vars
  <2>1. Called' = Called /\ \A k \in Keys : Sole(k)' <=> Sole(k)
    BY <1>7 DEF Called, Sole
  <2>2. StreamTypes' /\ KeyInv' /\ ServerInv' /\ JobInv'
    BY <1>7, <2>1 DEF StreamInv, StreamTypes, KeyInv, ServerInv, JobInv
  <2>3. \A s \in Streams : Untouched(s)'
    BY <1>7 DEF StreamInv, SoleInv, Untouched
  <2>4. ASSUME NEW k \in Called, Sole(k)
        PROVE  SoleCall(k)' /\ SolePositions(k)' /\ SoleOrders(k)'
    BY <1>7, <2>4 DEF StreamInv, SoleInv, SoleCall, SolePositions, SoleOrders, Ending,
                      InHand, IsAnswer
  <2> QED
    BY <2>1, <2>2, <2>3, <2>4 DEF StreamInv, SoleInv, Called
<1> QED
  BY <1>1, <1>2, <1>3, <1>4, <1>5, <1>6, <1>7 DEF Next

\* Only a call that has been made, and has returned, has an outcome.
LEMMA SoleFromInv == StreamInv => SoleAnswerWhole
<1> SUFFICES ASSUME StreamInv, NEW k \in Keys, outcome[k].tag = "ok", Sole(k)
             PROVE  IsAnswer(k)
  BY DEF SoleAnswerWhole
<1>1. pc[k] = "returned"
  BY DEF StreamInv, KeyInv
<1>2. k \in Called
  BY <1>1 DEF StreamInv, KeyInv, Called
<1> QED
  BY <1>2 DEF StreamInv, SoleInv, SoleCall

\* ReqPositions and ReqCompletedOrders, called once over a connection that stays up,
\* return one whole answer of the server, whatever the other method is doing, however
\* the reader, the callers and the server interleave, and although a live execution
\* may put fills into the entry of Results the call accumulates in (ib.go:178-203, 2129-2163).
THEOREM SoleAnswersWhole == Spec => []SoleAnswerWhole
<1>1. Spec => []StreamInv
  BY StreamInit, StreamNext, PTL DEF Spec
<1> QED
  BY <1>1, SoleFromInv, PTL
=============================================================================
