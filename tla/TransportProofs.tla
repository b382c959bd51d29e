--------------------------- MODULE TransportProofs --------------------------
(***************************************************************************)
(* Proofs about the way of a request to the wire: the limiter, for any set *)
(* of goroutines, limit and interval; Send, for any ids the server         *)
(* announces and any number of sockets; and the codec, for messages of any *)
(* length.                                                                 *)
(***************************************************************************)
EXTENDS Transport, LoopsProofs

-----------------------------------------------------------------------------
(* The limiter by itself, for any limit, interval and length of run *)

LEMMA TimesAreNaturals == \A t \in Times : t \in Nat /\ t \in Int
BY LimiterAssumption DEF Times

LEMMA RecordedTimes ==
    ASSUME TypeOK
    PROVE  /\ \A i \in 1 .. Len(granted) : granted[i] \in Times
           /\ \A i \in 1 .. Len(timestamps) : timestamps[i] \in Times
BY ElementOfSeq DEF TypeOK

\* What the pruning loop leaves.
LEMMA DropProperties ==
    ASSUME TypeOK, NEW k \in 0 .. Len(timestamps)
    PROVE  /\ Drop(k) \in Seq(Times)
           /\ Len(Drop(k)) = Len(timestamps) - k
           /\ \A i \in 1 .. Len(timestamps) - k : Drop(k)[i] = timestamps[k + i]
<1>1. timestamps \in Seq(Times) /\ Len(timestamps) \in Nat
  BY LenProperties DEF TypeOK
<1>2. k + 1 \in 1 .. Len(timestamps) + 1
  BY <1>1
<1>3. \A i \in k + 1 .. Len(timestamps) : timestamps[i] \in Times
  BY <1>1, ElementOfSeq
<1> QED
  BY <1>1, <1>2, <1>3, SubSeqProperties DEF Drop

\* A pruning attempt that records nothing keeps the invariant.
LEMMA RefuseKeeps ==
    ASSUME WindowInv, NEW k, Refuse(k), now' = now
    PROVE  /\ timestamps' \in Seq(Times) /\ Len(timestamps') <= MaxRequests
           /\ HistoryInv' /\ WindowBound'
<1>1. /\ k \in 0 .. Len(timestamps) /\ Prunes(k)
      /\ timestamps' = Drop(k) /\ granted' = granted
  BY DEF Refuse
<1>2. /\ Len(timestamps) \in Nat /\ Len(granted) \in Nat
      /\ Len(timestamps) <= MaxRequests
  BY LenProperties DEF WindowInv, TypeOK
<1>3. /\ timestamps' \in Seq(Times)
      /\ Len(timestamps') = Len(timestamps) - k
      /\ \A i \in 1 .. Len(timestamps) - k : timestamps'[i] = timestamps[k + i]
  BY <1>1, DropProperties DEF WindowInv
<1>4. Len(timestamps') <= MaxRequests
  BY <1>1, <1>2, <1>3, LimiterAssumption
<1>5. HistoryInv'
  <2> DEFINE old == Len(granted) - Len(timestamps)
  <2>1. /\ old \in Nat /\ k \in Nat
        /\ Len(granted') - Len(timestamps') = old + k
    BY <1>1, <1>2, <1>3 DEF WindowInv, HistoryInv
  <2>2. \A i \in 1 .. Len(timestamps') : timestamps'[i] = granted'[old + k + i]
    <3> SUFFICES ASSUME NEW i \in 1 .. Len(timestamps')
                 PROVE  timestamps'[i] = granted[old + k + i]
      BY <1>1
    <3>1. k + i \in 1 .. Len(timestamps) /\ timestamps'[i] = timestamps[k + i]
      BY <1>1, <1>2, <1>3
    <3>2. timestamps[k + i] = granted[old + (k + i)]
      BY <3>1 DEF WindowInv, HistoryInv
    <3>3. old + (k + i) = old + k + i
      BY <2>1
    <3> QED
      BY <3>1, <3>2, <3>3
  <2>3. \A i \in 1 .. old + k : granted'[i] <= now' - Interval
    <3> SUFFICES ASSUME NEW i \in 1 .. old + k
                 PROVE  granted[i] <= now - Interval
      BY <1>1
    <3>1. CASE i <= old
      BY <2>1, <3>1 DEF WindowInv, HistoryInv
    <3>2. CASE i > old
      <4>1. i - old \in 1 .. k /\ i - old \in 1 .. Len(timestamps)
        BY <1>1, <1>2, <2>1, <3>2
      <4>2. timestamps[i - old] = granted[i]
        BY <1>2, <2>1, <4>1 DEF WindowInv, HistoryInv
      <4>3. timestamps[i - old] <= now - Interval
        BY <1>1, <4>1 DEF Prunes
      <4> QED
        BY <4>2, <4>3
    <3> QED
      BY <2>1, <3>1, <3>2
  <2> HIDE DEF old
  <2> QED
    BY <2>1, <2>2, <2>3 DEF HistoryInv
<1> QED
  BY <1>1, <1>3, <1>4, <1>5 DEF WindowInv, WindowBound

\* Recording a request keeps the invariant: the request maxRequests before it
\* has been pruned, now or earlier.
LEMMA AllowKeeps ==
    ASSUME WindowInv, Allow, now' = now
    PROVE  /\ timestamps' \in Seq(Times) /\ Len(timestamps') <= MaxRequests
           /\ granted' \in Seq(Times)
           /\ HistoryInv' /\ WindowBound'
<1>1. PICK k \in 0 .. Len(timestamps) :
         /\ Prunes(k) /\ Len(timestamps) - k < MaxRequests
         /\ timestamps' = Append(Drop(k), now)
         /\ granted' = Append(granted, now)
  BY DEF Allow
<1>2. /\ Len(timestamps) \in Nat /\ Len(granted) \in Nat /\ k \in Nat
      /\ now \in Times /\ now \in Int
  BY LenProperties, LimiterAssumption DEF WindowInv, TypeOK, Times
<1> DEFINE m == Len(timestamps) - k
           g == Len(granted)
           old == g - Len(timestamps)
<1>3. /\ m \in Nat /\ g \in Nat /\ old \in Nat /\ old + k = g - m
      /\ m < MaxRequests
  BY <1>1, <1>2 DEF WindowInv, HistoryInv
<1>4. /\ timestamps' \in Seq(Times) /\ Len(timestamps') = m + 1
      /\ \A i \in 1 .. m : timestamps'[i] = timestamps[k + i]
      /\ timestamps'[m + 1] = now
  <2>1. /\ Drop(k) \in Seq(Times) /\ Len(Drop(k)) = m
        /\ \A i \in 1 .. m : Drop(k)[i] = timestamps[k + i]
    BY DropProperties DEF WindowInv
  <2> HIDE DEF m
  <2> QED
    BY <1>1, <1>2, <2>1, AppendProperties
<1>5. /\ granted' \in Seq(Times) /\ Len(granted') = g + 1
      /\ \A i \in 1 .. g : granted'[i] = granted[i]
      /\ granted'[g + 1] = now
  BY <1>1, <1>2, AppendProperties DEF WindowInv, TypeOK
<1>6. \A i \in 1 .. g - m : granted[i] <= now - Interval
  <2> SUFFICES ASSUME NEW i \in 1 .. old + k
               PROVE  granted[i] <= now - Interval
    BY <1>3
  <2>1. CASE i <= old
    BY <1>3, <2>1 DEF WindowInv, HistoryInv
  <2>2. CASE i > old
    <3>1. i - old \in 1 .. k /\ i - old \in 1 .. Len(timestamps)
      BY <1>1, <1>2, <1>3, <2>2
    <3>2. timestamps[i - old] = granted[i]
      BY <1>2, <1>3, <3>1 DEF WindowInv, HistoryInv
    <3>3. timestamps[i - old] <= now - Interval
      BY <1>1, <3>1 DEF Prunes
    <3> QED
      BY <3>2, <3>3
  <2> QED
    BY <1>3, <2>1, <2>2
<1>7. HistoryInv'
  <2>1. Len(granted') - Len(timestamps') = g - m
    BY <1>3, <1>4, <1>5
  <2>2. \A i \in 1 .. m + 1 : timestamps'[i] = granted'[(g - m) + i]
    <3>1. ASSUME NEW i \in 1 .. m
          PROVE  timestamps'[i] = granted'[(g - m) + i]
      <4>1. k + i \in 1 .. Len(timestamps) /\ (g - m) + i \in 1 .. g
        BY <1>1, <1>2, <1>3
      <4>2. timestamps[k + i] = granted[old + (k + i)]
        BY <4>1 DEF WindowInv, HistoryInv
      <4>3. old + (k + i) = (g - m) + i
        BY <1>2, <1>3
      <4>4. granted'[(g - m) + i] = granted[(g - m) + i]
        BY <1>5, <4>1
      <4> HIDE DEF m, g, old
      <4> QED
        BY <1>4, <4>2, <4>3, <4>4
    <3>2. timestamps'[m + 1] = granted'[(g - m) + (m + 1)]
      BY <1>3, <1>4, <1>5
    <3> HIDE DEF m, g
    <3> QED
      BY <1>3, <3>1, <3>2
  <2>3. \A i \in 1 .. g - m : granted'[i] <= now' - Interval
    <3> HIDE DEF m, g
    <3> QED
      BY <1>3, <1>5, <1>6
  <2>4. g - m >= 0
    BY <1>2, <1>3
  <2> HIDE DEF m, g
  <2> QED
    BY <1>4, <2>1, <2>2, <2>3, <2>4 DEF HistoryInv
<1>8. WindowBound'
  <2> SUFFICES ASSUME NEW i \in 1 .. g + 1, i + MaxRequests <= g + 1
               PROVE  granted'[i + MaxRequests] - granted'[i] >= Interval
    BY <1>5 DEF WindowBound
  <2>1. CASE i + MaxRequests <= g
    <3>1. i \in 1 .. g /\ i + MaxRequests \in 1 .. g
      BY <1>3, <2>1, LimiterAssumption
    <3> QED
      BY <1>5, <2>1, <3>1 DEF WindowInv, WindowBound
  <2>2. CASE i + MaxRequests = g + 1
    <3>1. i \in 1 .. g - m /\ i \in 1 .. g
      BY <1>3, <2>2, LimiterAssumption
    <3>2. granted[i] <= now - Interval /\ granted[i] \in Int
      BY <1>6, <3>1, ElementOfSeq, LimiterAssumption DEF WindowInv, TypeOK, Times
    <3> QED
      BY <1>2, <1>5, <2>2, <3>1, <3>2, LimiterAssumption
  <2> QED
    BY <1>3, <2>1, <2>2, LimiterAssumption
<1> QED
  BY <1>3, <1>4, <1>5, <1>7, <1>8, LimiterAssumption

LEMMA WindowInit == Init => WindowInv
BY LimiterAssumption DEF Init, WindowInv, TypeOK, HistoryInv, WindowBound, Times

LEMMA WindowNext == WindowInv /\ [Next]_vars => WindowInv'
<1> SUFFICES ASSUME WindowInv, [Next]_vars PROVE WindowInv'
  OBVIOUS
<1>1. ASSUME NEW p \in Procs, Call(p) \/ Wake(p) PROVE WindowInv'
  BY <1>1 DEF Call, Wake, WindowInv, TypeOK, HistoryInv, WindowBound
<1>2. ASSUME NEW p \in Procs, WaitReturns(p) PROVE WindowInv'
  BY <1>2, AllowKeeps DEF WaitReturns, WindowInv, TypeOK
<1>3. ASSUME NEW p \in Procs, WaitSleeps(p) PROVE WindowInv'
  <2>1. PICK k \in 0 .. Len(timestamps) :
           /\ Refuse(k)
           /\ waitUntil' = [waitUntil EXCEPT ![p] = timestamps[k + 1] + Interval]
    BY <1>3 DEF WaitSleeps
  <2>2. timestamps[k + 1] \in Nat
    <3>1. k + 1 \in 1 .. Len(timestamps)
      BY <2>1, LenProperties, LimiterAssumption DEF Refuse, WindowInv, TypeOK
    <3> QED
      BY <3>1, RecordedTimes, TimesAreNaturals DEF WindowInv
  <2>3. waitUntil' \in [Procs -> Nat]
    BY <2>1, <2>2, LimiterAssumption DEF WindowInv, TypeOK
  <2> QED
    BY <1>3, <2>1, <2>3, RefuseKeeps DEF WaitSleeps, Refuse, WindowInv, TypeOK
<1>4. ASSUME NEW p \in Procs, TryNow(p) PROVE WindowInv'
  <2>1. CASE Allow
    BY <1>4, <2>1, AllowKeeps DEF TryNow, WindowInv, TypeOK
  <2>2. CASE \E k \in 0 .. Len(timestamps) : Refuse(k)
    BY <1>4, <2>2, RefuseKeeps DEF TryNow, Refuse, WindowInv, TypeOK
  <2> QED
    BY <1>4, <2>1, <2>2 DEF TryNow
<1>5. CASE Tick
  <2>1. TypeOK'
    BY <1>5, LimiterAssumption DEF Tick, WindowInv, TypeOK, Times
  <2>2. WindowBound'
    BY <1>5 DEF Tick, WindowInv, WindowBound
  <2>3. HistoryInv'
    <3>1. now' = now + 1 /\ now \in Int
      BY <1>5, TimesAreNaturals DEF Tick, WindowInv, TypeOK
    <3>2. \A i \in 1 .. Len(granted) : granted[i] \in Int
      <4>1. \A i \in 1 .. Len(granted) : granted[i] \in Times
        BY RecordedTimes DEF WindowInv
      <4> QED
        BY <4>1, TimesAreNaturals
    <3>3. Len(granted) \in Nat /\ Len(timestamps) \in Nat
      BY LenProperties DEF WindowInv, TypeOK
    <3>4. Len(granted) - Len(timestamps) >= 0
      BY DEF WindowInv, HistoryInv
    <3>5. \A i \in 1 .. Len(granted) - Len(timestamps) :
             granted[i] <= now' - Interval
      BY <3>1, <3>2, <3>3, <3>4, LimiterAssumption DEF WindowInv, HistoryInv
    <3> QED
      BY <1>5, <3>4, <3>5 DEF Tick, WindowInv, HistoryInv
  <2> QED
    BY <2>1, <2>2, <2>3 DEF WindowInv
<1>6. CASE UNCHANGED vars
  BY <1>6 DEF vars, WindowInv, TypeOK, HistoryInv, WindowBound
<1> QED
  BY <1>1, <1>2, <1>3, <1>4, <1>5, <1>6 DEF Next

\* The clock and the window stay within their types; in particular the window
\* never outgrows the capacity New reserves.
THEOREM LimiterTypes == Spec => []TypeOK
<1>1. WindowInv => TypeOK
  BY DEF WindowInv
<1> QED
  BY WindowInit, WindowNext, <1>1, PTL DEF Spec

\* No interval sees more than maxRequests requests, however many goroutines
\* call Wait and TryNow and however long they sleep.
THEOREM LimiterHolds == Spec => []WindowBound
<1>1. WindowInv => WindowBound
  BY DEF WindowInv
<1> QED
  BY WindowInit, WindowNext, <1>1, PTL DEF Spec

-----------------------------------------------------------------------------
(* The sleeps *)

\* Requests are recorded in the order of the clock.
OrderInv ==
    /\ \A i \in 1 .. Len(granted) : granted[i] <= now
    /\ \A i, j \in 1 .. Len(granted) : i <= j => granted[i] <= granted[j]

\* A sleeper waits for the oldest of the last maxRequests requests to expire, or
\* a request has been allowed since then.
SleepInv ==
    \A p \in Procs : pc[p] = "sleep" =>
        /\ Len(granted) >= MaxRequests
        /\ \/ granted[Len(granted)] >= waitUntil[p]
           \/ granted[Len(granted) - MaxRequests + 1] + Interval = waitUntil[p]

LimiterInv == WindowInv /\ OrderInv /\ SleepInv

LEMMA Lengths ==
    ASSUME WindowInv
    PROVE  /\ Len(granted) \in Nat /\ Len(timestamps) \in Nat
           /\ Len(timestamps) <= MaxRequests
           /\ Len(timestamps) <= Len(granted)
           /\ now \in Int /\ Interval \in Int /\ MaxRequests \in Nat \ {0}
           /\ \A i \in 1 .. Len(granted) : granted[i] \in Int
<1>1. \A i \in 1 .. Len(granted) : granted[i] \in Int
  BY RecordedTimes, TimesAreNaturals DEF WindowInv
<1>2. Len(granted) \in Nat /\ Len(timestamps) \in Nat
  BY LenProperties DEF WindowInv, TypeOK
<1> QED
  BY <1>1, <1>2, TimesAreNaturals, LimiterAssumption DEF WindowInv, TypeOK, HistoryInv

\* A full window holds the last maxRequests requests, and none of them expires.
LEMMA FullWindow ==
    ASSUME WindowInv, NEW k \in 0 .. Len(timestamps), Prunes(k),
           Len(timestamps) - k >= MaxRequests
    PROVE  /\ k = 0 /\ Len(timestamps) = MaxRequests
           /\ Len(granted) >= MaxRequests
           /\ timestamps[1] = granted[Len(granted) - MaxRequests + 1]
           /\ timestamps[1] > now - Interval
<1>1. k = 0 /\ Len(timestamps) = MaxRequests /\ Len(granted) >= MaxRequests
  BY Lengths
<1>2. 1 \in 1 .. Len(timestamps) /\ 1 \in k + 1 .. Len(timestamps)
  BY <1>1, Lengths
<1>3. timestamps[1] = granted[Len(granted) - Len(timestamps) + 1]
  BY <1>2 DEF WindowInv, HistoryInv
<1> QED
  BY <1>1, <1>2, <1>3 DEF Prunes

\* While the oldest of the last maxRequests requests is in the window, no other
\* request is allowed.
LEMMA NotYet ==
    ASSUME WindowInv, Allow, Len(granted) >= MaxRequests
    PROVE  granted[Len(granted) - MaxRequests + 1] + Interval <= now
<1> DEFINE m == Len(granted) - MaxRequests + 1
           old == Len(granted) - Len(timestamps)
<1>0. m \in 1 .. Len(granted) /\ granted[m] \in Int
  BY Lengths
<1>1. PICK k \in 0 .. Len(timestamps) :
         Prunes(k) /\ Len(timestamps) - k < MaxRequests
  BY DEF Allow
<1>2. CASE m <= old
  <2>1. m \in 1 .. old
    BY <1>0, <1>2, Lengths
  <2>2. granted[m] <= now - Interval
    BY <2>1 DEF WindowInv, HistoryInv
  <2> QED
    BY <1>0, <2>2, Lengths
<1>3. CASE m > old
  <2>1. Len(timestamps) = MaxRequests /\ m = old + 1
    BY <1>3, Lengths
  <2>2. 1 \in 1 .. k /\ 1 \in 1 .. Len(timestamps)
    BY <1>1, <2>1, Lengths
  <2>3. timestamps[1] = granted[m]
    BY <2>1, <2>2 DEF WindowInv, HistoryInv
  <2>4. timestamps[1] <= now - Interval
    BY <1>1, <2>2 DEF Prunes
  <2> QED
    BY <1>0, <2>3, <2>4, Lengths
<1> QED
  BY <1>0, <1>2, <1>3, Lengths

LEMMA AllowOrders ==
    ASSUME LimiterInv, Allow, now' = now, waitUntil' = waitUntil,
           \A p \in Procs : pc'[p] = "sleep" => pc[p] = "sleep"
    PROVE  OrderInv' /\ SleepInv'
<1>1. granted' = Append(granted, now) /\ granted \in Seq(Times) /\ now \in Times
  BY DEF Allow, LimiterInv, WindowInv, TypeOK
<1>2. /\ Len(granted') = Len(granted) + 1
      /\ \A i \in 1 .. Len(granted) : granted'[i] = granted[i]
      /\ granted'[Len(granted) + 1] = now
  BY <1>1, AppendProperties
<1>3. /\ Len(granted) \in Nat /\ now \in Int
      /\ \A i \in 1 .. Len(granted) : granted[i] \in Int
  BY Lengths DEF LimiterInv
<1>4. OrderInv'
  BY <1>2, <1>3 DEF OrderInv, LimiterInv
<1>5. SleepInv'
  <2> SUFFICES ASSUME NEW p \in Procs, pc'[p] = "sleep"
               PROVE  /\ Len(granted') >= MaxRequests
                      /\ granted'[Len(granted')] >= waitUntil[p]
    BY DEF SleepInv
  <2>1. /\ Len(granted) >= MaxRequests
        /\ \/ granted[Len(granted)] >= waitUntil[p]
           \/ granted[Len(granted) - MaxRequests + 1] + Interval = waitUntil[p]
    BY DEF LimiterInv, SleepInv
  <2>2. Len(granted) \in 1 .. Len(granted) /\ waitUntil[p] \in Int
    BY <1>3, <2>1, LimiterAssumption DEF LimiterInv, WindowInv, TypeOK
  <2>3. granted[Len(granted) - MaxRequests + 1] + Interval <= now
    BY <2>1, NotYet DEF LimiterInv
  <2>4. granted[Len(granted)] <= now
    BY <2>2 DEF LimiterInv, OrderInv
  <2> QED
    BY <1>2, <1>3, <2>1, <2>2, <2>3, <2>4, LimiterAssumption
<1> QED
  BY <1>4, <1>5

LEMMA LimiterInit == Init => LimiterInv
BY WindowInit DEF Init, LimiterInv, OrderInv, SleepInv

LEMMA LimiterNext == LimiterInv /\ [Next]_vars => LimiterInv'
<1> SUFFICES ASSUME LimiterInv, [Next]_vars PROVE OrderInv' /\ SleepInv'
  BY WindowNext DEF LimiterInv
<1>1. ASSUME NEW p \in Procs, Call(p) \/ Wake(p) PROVE OrderInv' /\ SleepInv'
  BY <1>1 DEF Call, Wake, LimiterInv, WindowInv, TypeOK, OrderInv, SleepInv
<1>2. ASSUME NEW p \in Procs, WaitReturns(p) PROVE OrderInv' /\ SleepInv'
  BY <1>2, AllowOrders DEF WaitReturns, LimiterInv, WindowInv, TypeOK
<1>3. ASSUME NEW p \in Procs, WaitSleeps(p) PROVE OrderInv' /\ SleepInv'
  <2>1. PICK k \in 0 .. Len(timestamps) :
           /\ Refuse(k)
           /\ waitUntil' = [waitUntil EXCEPT ![p] = timestamps[k + 1] + Interval]
    BY <1>3 DEF WaitSleeps
  <2>2. /\ k = 0 /\ Len(granted) >= MaxRequests
        /\ timestamps[1] = granted[Len(granted) - MaxRequests + 1]
    BY <2>1, FullWindow DEF Refuse, LimiterInv
  <2>3. /\ waitUntil'[p] = granted[Len(granted) - MaxRequests + 1] + Interval
        /\ \A q \in Procs \ {p} : waitUntil'[q] = waitUntil[q] /\ pc'[q] = pc[q]
        /\ UNCHANGED <<granted, now>>
    BY <1>3, <2>1, <2>2 DEF WaitSleeps, Refuse, LimiterInv, WindowInv, TypeOK
  <2> QED
    BY <2>2, <2>3 DEF LimiterInv, OrderInv, SleepInv
<1>4. ASSUME NEW p \in Procs, TryNow(p) PROVE OrderInv' /\ SleepInv'
  <2>1. CASE Allow
    BY <1>4, <2>1, AllowOrders DEF TryNow
  <2>2. CASE \E k \in 0 .. Len(timestamps) : Refuse(k)
    BY <1>4, <2>2 DEF TryNow, Refuse, LimiterInv, OrderInv, SleepInv
  <2> QED
    BY <1>4, <2>1, <2>2 DEF TryNow
<1>5. CASE Tick
  <2>1. now' = now + 1 /\ UNCHANGED <<granted, pc, waitUntil>>
    BY <1>5 DEF Tick
  <2>2. OrderInv'
    BY <2>1, Lengths DEF LimiterInv, OrderInv
  <2> QED
    BY <2>1, <2>2 DEF LimiterInv, SleepInv
<1>6. CASE UNCHANGED vars
  BY <1>6 DEF vars, LimiterInv, OrderInv, SleepInv
<1> QED
  BY <1>1, <1>2, <1>3, <1>4, <1>5, <1>6 DEF Next

LEMMA LimiterInvOvertaken == LimiterInv => OvertakenOnly
<1> SUFFICES ASSUME LimiterInv, NEW p \in Procs, pc[p] = "sleep",
                    now >= waitUntil[p],
                    NEW k \in 0 .. Len(timestamps), Prunes(k),
                    Len(timestamps) - k >= MaxRequests
             PROVE  granted[Len(granted)] >= waitUntil[p]
  BY DEF OvertakenOnly
<1>1. /\ Len(granted) >= MaxRequests
      /\ granted[Len(granted) - MaxRequests + 1] > now - Interval
  BY FullWindow DEF LimiterInv
<1>2. /\ \/ granted[Len(granted)] >= waitUntil[p]
         \/ granted[Len(granted) - MaxRequests + 1] + Interval = waitUntil[p]
      /\ waitUntil[p] \in Int
      /\ granted[Len(granted) - MaxRequests + 1] \in Int
  BY <1>1, Lengths DEF LimiterInv, SleepInv, WindowInv, TypeOK
<1> QED
  BY <1>1, <1>2, Lengths DEF LimiterInv

\* Wait computes the right time to sleep: a sleeper that is due and still finds
\* the window full has been overtaken by a request allowed since the one it
\* waited for expired, for any number of goroutines, limit and interval.
THEOREM SleepersOvertakenOnly == Spec => []OvertakenOnly
<1> QED
  BY LimiterInit, LimiterNext, LimiterInvOvertaken, PTL DEF Spec

\* The loop over the stamps keeps a suffix of them: there is a cut with every
\* expired stamp before it and every other one after it.
LEMMA PruneCuts == LimiterInv => \E k \in 0 .. Len(timestamps) : Prunes(k)
<1> SUFFICES ASSUME LimiterInv PROVE \E k \in 0 .. Len(timestamps) : Prunes(k)
  OBVIOUS
<1> DEFINE n == Len(timestamps)
           live == {i \in Nat : i \in 1 .. n + 1
                                /\ (i <= n => timestamps[i] > now - Interval)}
<1>1. /\ n \in Nat /\ Len(granted) \in Nat /\ n <= Len(granted)
      /\ now \in Int /\ Interval \in Int
      /\ \A i \in 1 .. Len(granted) : granted[i] \in Int
  BY Lengths DEF LimiterInv
<1>2. \A i \in 1 .. n : timestamps[i] \in Int
  BY RecordedTimes, TimesAreNaturals DEF LimiterInv, WindowInv
<1>3. \A i, j \in 1 .. n : i <= j => timestamps[i] <= timestamps[j]
  <2> SUFFICES ASSUME NEW i \in 1 .. n, NEW j \in 1 .. n, i <= j
               PROVE  timestamps[i] <= timestamps[j]
    OBVIOUS
  <2> DEFINE old == Len(granted) - n
  <2>1. timestamps[i] = granted[old + i] /\ timestamps[j] = granted[old + j]
    BY DEF LimiterInv, WindowInv, HistoryInv
  <2>2. old + i \in 1 .. Len(granted) /\ old + j \in 1 .. Len(granted)
        /\ old + i <= old + j
    BY <1>1
  <2> HIDE DEF old
  <2> QED
    BY <2>1, <2>2 DEF LimiterInv, OrderInv
<1>4. n + 1 \in live
  BY <1>1
<1>5. PICK m \in live : \A y \in live : ~(<<y, m>> \in OpToRel(<, Nat))
  <2>1. live \subseteq Nat /\ live # {}
    BY <1>4
  <2> HIDE DEF live
  <2> QED
    BY <2>1, NatLessThanWellFounded, WFMin
<1>6. \A y \in live : ~(y < m)
  BY <1>5 DEF OpToRel
<1>7. \A i \in 1 .. m - 1 : timestamps[i] <= now - Interval
  BY <1>1, <1>2, <1>6
<1>8. \A i \in m .. n : timestamps[i] > now - Interval
  <2> SUFFICES ASSUME NEW i \in m .. n PROVE timestamps[i] > now - Interval
    OBVIOUS
  <2>1. m \in 1 .. n /\ i \in 1 .. n /\ m <= i /\ timestamps[m] > now - Interval
    BY <1>1
  <2> QED
    BY <1>1, <1>2, <1>3, <2>1
<1>9. m - 1 \in 0 .. n /\ (m - 1) + 1 = m
  BY <1>1
<1> QED
  BY <1>7, <1>8, <1>9 DEF Prunes

LEMMA PruneFilters == LimiterInv => PruneIsFilter
<1> SUFFICES ASSUME LimiterInv PROVE PruneIsFilter
  OBVIOUS
<1> DEFINE keep == {ts \in Times : ts > now - Interval}
<1>1. PICK k \in 0 .. Len(timestamps) : Prunes(k)
  BY PruneCuts
<1>2. timestamps \in Seq(Times) /\ Len(timestamps) \in Nat
  BY LenProperties DEF LimiterInv, WindowInv, TypeOK
<1>3. \A i \in 1 .. Len(timestamps) : timestamps[i] \in Times
  BY RecordedTimes DEF LimiterInv, WindowInv
<1>4. now \in Int /\ Interval \in Int
  BY Lengths DEF LimiterInv
<1>5. \A i \in 1 .. k : timestamps[i] \notin keep
  BY <1>1, <1>2, <1>3, <1>4, TimesAreNaturals DEF Prunes
<1>6. \A i \in k + 1 .. Len(timestamps) : timestamps[i] \in keep
  BY <1>1, <1>2, <1>3, <1>4, TimesAreNaturals DEF Prunes
<1>7. Kept(timestamps, keep) = Drop(k)
  <2> HIDE DEF keep
  <2> QED
    BY <1>2, <1>5, <1>6, KeptSuffix DEF Drop
<1> QED
  BY <1>1, <1>7 DEF PruneIsFilter

\* The pruning loop of Wait and TryNow (throttle.go:40-47, 77-84) keeps the stamps
\* after some place and drops those before it, however many goroutines record
\* stamps; so one of Allow and Refuse is always there to be taken.
THEOREM PruningIsFiltering == Spec => []PruneIsFilter
<1> QED
  BY LimiterInit, LimiterNext, PruneFilters, PTL DEF Spec

-----------------------------------------------------------------------------
(* Send *)

USE DEF vars, idVars, sendVars, sockVars, transportVars, allVars

\* Send uses the limiter as module Throttle describes it: every step of the send
\* path is a step of a goroutine in Wait or TryNow, a tick, or leaves it alone.
THEOREM SendUsesLimiter == TransportSpec => Spec
<1>1. TransportInit => Init
  BY DEF TransportInit
<1>2. [TransportNext]_allVars => [Next]_vars
  <2> SUFFICES ASSUME [TransportNext]_allVars PROVE [Next]_vars
    OBVIOUS
  <2>1. ASSUME NEW p \in Procs, GetReqID(p) PROVE Next
    BY <2>1 DEF GetReqID, Next
  <2>2. ASSUME NEW p \in Procs, Throttled(p) PROVE Next
    BY <2>2 DEF Throttled, Next
  <2>3. ASSUME NEW p \in Procs, ThrottleStep(p) PROVE Next
    BY <2>3 DEF ThrottleStep, Next
  <2>4. CASE Tick
    BY <2>4 DEF Next
  <2>5. ASSUME NEW p \in Procs, SendHeader(p) \/ SendPayload(p) \/ SendFails(p)
        PROVE  UNCHANGED vars
    BY <2>5 DEF SendHeader, SendPayload, SendFails
  <2>6. ASSUME NEW v \in ValidIDs, UpdateReqID(v) PROVE UNCHANGED vars
    BY <2>6 DEF UpdateReqID
  <2>7. CASE \/ Load \/ CompareAndSwap \/ Breaks \/ Disconnect \/ Dial \/ SendRaw
             \/ UNCHANGED allVars
    BY <2>7 DEF Load, CompareAndSwap, Breaks, Disconnect, Dial, SendRaw
  <2> QED
    BY <2>1, <2>2, <2>3, <2>4, <2>5, <2>6, <2>7 DEF TransportNext
<1> QED
  BY <1>1, <1>2, PTL DEF TransportSpec, Spec

\* Whatever the socket and the request ids do, no interval sees more than
\* maxRequests requests pass the limiter in front of Send, and a sender that is
\* due finds room in it unless it was overtaken.
THEOREM SendsAreLimited ==
    TransportSpec => [](TypeOK /\ WindowBound /\ OvertakenOnly)
BY SendUsesLimiter, LimiterTypes, LimiterHolds, SleepersOvertakenOnly, PTL

-----------------------------------------------------------------------------
(* Request ids *)

\* The counter is above every id drawn and at least what the server asked for; a
\* compare-and-swap that succeeds raises it.
IdInv ==
    /\ reqIDSeq \in Nat /\ floor \in Nat /\ minReqID \in Nat /\ current \in Nat
    /\ ids \subseteq Nat
    /\ \A i \in ids : i < reqIDSeq
    /\ reqIDSeq >= floor
    /\ upc = "swap" => current < minReqID

LEMMA IdInit == TransportInit => IdInv
BY DEF TransportInit, IdInv

LEMMA IdNext == IdInv /\ [TransportNext]_allVars => IdInv'
<1> SUFFICES ASSUME IdInv, [TransportNext]_allVars PROVE IdInv'
  OBVIOUS
<1>1. ASSUME NEW p \in Procs, GetReqID(p) PROVE IdInv'
  BY <1>1 DEF GetReqID, IdInv
<1>2. ASSUME NEW v \in ValidIDs, UpdateReqID(v) PROVE IdInv'
  BY <1>2, TransportAssumption DEF UpdateReqID, IdInv
<1>3. CASE Load
  BY <1>3 DEF Load, UpdateReturns, IdInv
<1>4. CASE CompareAndSwap
  <2>1. CASE reqIDSeq = current
    BY <1>4, <2>1 DEF CompareAndSwap, UpdateReturns, IdInv
  <2>2. CASE reqIDSeq # current
    BY <1>4, <2>2 DEF CompareAndSwap, IdInv
  <2> QED
    BY <2>1, <2>2
<1>5. CASE UNCHANGED idVars
  BY <1>5 DEF IdInv
<1>6. ASSUME NEW p \in Procs,
             \/ Throttled(p) \/ ThrottleStep(p)
             \/ SendHeader(p) \/ SendPayload(p) \/ SendFails(p)
      PROVE  UNCHANGED idVars
  BY <1>6 DEF Throttled, ThrottleStep, SendHeader, SendPayload, SendFails
<1>7. CASE \/ Breaks \/ Disconnect \/ Dial \/ SendRaw \/ UNCHANGED allVars
           \/ (Tick /\ UNCHANGED transportVars)
  <2>1. UNCHANGED idVars
    BY <1>7 DEF Breaks, Disconnect, Dial, SendRaw
  <2> QED
    BY <1>5, <2>1
<1> QED
  BY <1>1, <1>2, <1>3, <1>4, <1>5, <1>6, <1>7 DEF TransportNext

\* The id GetReqID is about to return has not been drawn before and respects every
\* nextValidId that has been processed, however UpdateReqID's load and
\* compare-and-swap interleave with any number of callers.
THEOREM RequestIdsFresh == TransportSpec => []IdsFresh
<1>1. IdInv => IdsFresh
  BY DEF IdInv, IdsFresh
<1> QED
  BY IdInit, IdNext, <1>1, PTL DEF TransportSpec

-----------------------------------------------------------------------------
(* Frames *)

Chunks == [part : {"hello", "header", "payload"}, id : Nat]

\* The mutex belongs to the goroutine between its two writes; the last thing on
\* the wire is then its header.  A header is left without its payload only on a
\* socket that fails, and such a socket is never written to again.
LockInv ==
    /\ spc \in [Procs -> {"idle", "throttle", "send", "payload"}]
    /\ reqID \in [Procs -> Nat]
    /\ mutex \in Procs \cup {Nobody}
    /\ wire \in Seq(Chunks)
    /\ \A p \in Procs : spc[p] = "payload" <=> mutex = p
    /\ mutex \in Procs => wire # <<>> /\ wire[Len(wire)] = Header(reqID[mutex])
    /\ mutex = Nobody /\ sock = "open" /\ wire # <<>> =>
          wire[Len(wire)].part # "header"

FrameInv == IdInv /\ LockInv /\ FramesIntact

\* Writing a chunk that may stand where it is written keeps the frames intact.
LEMMA WriteKeepsFrames ==
    ASSUME wire \in Seq(Chunks), FramesIntact, NEW c \in Chunks, Write(c),
           c.part = "payload" => wire # <<>> /\ wire[Len(wire)] = Header(c.id),
           wire # <<>> /\ wire[Len(wire)].part = "header"
             => c = Payload(wire[Len(wire)].id)
    PROVE  /\ wire' \in Seq(Chunks) /\ wire' # <<>> /\ wire'[Len(wire')] = c
           /\ FramesIntact'
<1>1. /\ wire' \in Seq(Chunks) /\ Len(wire') = Len(wire) + 1
      /\ \A i \in 1 .. Len(wire) : wire'[i] = wire[i]
      /\ wire'[Len(wire) + 1] = c
      /\ Len(wire) \in Nat
  BY AppendProperties, LenProperties DEF Write
<1>2. wire # <<>> => Len(wire) \in 1 .. Len(wire)
  BY <1>1, EmptySeq
<1>3. wire = <<>> => Len(wire) = 0
  OBVIOUS
<1>4. FramesIntact'
  <2> SUFFICES ASSUME NEW i \in 1 .. Len(wire) + 1
               PROVE  /\ wire'[i].part = "header" =>
                            i = Len(wire) + 1 \/ wire'[i + 1] = Payload(wire'[i].id)
                      /\ wire'[i].part = "payload" =>
                            i > 1 /\ wire'[i - 1] = Header(wire'[i].id)
    BY <1>1 DEF FramesIntact
  <2>1. CASE i = Len(wire) + 1
    BY <1>1, <1>2, <1>3, <2>1
  <2>2. CASE i = Len(wire) /\ i # 0
    <3>1. wire # <<>> /\ i \in 1 .. Len(wire)
      BY <1>1, <1>3, <2>2
    <3>2. /\ wire[i].part = "payload" => i > 1 /\ wire[i - 1] = Header(wire[i].id)
      BY <3>1 DEF FramesIntact
    <3>3. wire'[i] = wire[i] /\ wire'[i + 1] = c
      BY <1>1, <2>2, <3>1
    <3>4. i > 1 => wire'[i - 1] = wire[i - 1]
      BY <1>1, <3>1
    <3> QED
      BY <2>2, <3>1, <3>2, <3>3, <3>4
  <2>3. CASE i < Len(wire)
    <3>1. i \in 1 .. Len(wire) /\ i + 1 \in 1 .. Len(wire)
      BY <1>1, <2>3
    <3>2. /\ wire[i].part = "header" => wire[i + 1] = Payload(wire[i].id)
          /\ wire[i].part = "payload" => i > 1 /\ wire[i - 1] = Header(wire[i].id)
      BY <1>1, <2>3, <3>1 DEF FramesIntact
    <3>3. wire'[i] = wire[i] /\ wire'[i + 1] = wire[i + 1]
      BY <1>1, <3>1
    <3>4. i > 1 => wire'[i - 1] = wire[i - 1]
      BY <1>1, <3>1
    <3> QED
      BY <3>2, <3>3, <3>4
  <2> QED
    BY <1>1, <2>1, <2>2, <2>3
<1> QED
  BY <1>1, <1>4

LEMMA FrameInit == TransportInit => FrameInv
<1> SUFFICES ASSUME TransportInit PROVE LockInv /\ FramesIntact
  BY IdInit DEF FrameInv
<1>1. wire \in Seq(Chunks) /\ wire[1] = Hello /\ Len(wire) = 1
  BY DEF TransportInit, Hello, Chunks
<1>2. FramesIntact
  BY <1>1 DEF FramesIntact, Hello
<1> QED
  BY <1>1, <1>2, NobodyAssumption DEF TransportInit, LockInv, Hello

LEMMA FrameNext ==
    ASSUME DialOutlasts
    PROVE  FrameInv /\ [TransportNext]_allVars => FrameInv'
<1> SUFFICES ASSUME IdInv, LockInv, FramesIntact, [TransportNext]_allVars
             PROVE  LockInv' /\ FramesIntact'
  BY IdNext DEF FrameInv
<1> USE NobodyAssumption
<1>1. ASSUME NEW p \in Procs, GetReqID(p) PROVE LockInv' /\ FramesIntact'
  <2>1. /\ spc[p] = "idle" /\ mutex # p
        /\ spc' = [spc EXCEPT ![p] = "throttle"]
        /\ reqID' = [reqID EXCEPT ![p] = reqIDSeq] /\ reqIDSeq \in Nat
        /\ UNCHANGED <<mutex, sock, wire>>
    BY <1>1 DEF GetReqID, LockInv, IdInv
  <2>2. FramesIntact'
    BY <2>1 DEF FramesIntact
  <2> QED
    BY <2>1, <2>2 DEF LockInv, Header
<1>2. ASSUME NEW p \in Procs, Throttled(p) PROVE LockInv' /\ FramesIntact'
  <2>1. /\ spc[p] = "throttle" /\ spc' = [spc EXCEPT ![p] = "send"]
        /\ UNCHANGED <<reqID, mutex, sock, wire>>
    BY <1>2 DEF Throttled
  <2> QED
    BY <2>1 DEF LockInv, FramesIntact, Header
<1>3. ASSUME NEW p \in Procs, SendHeader(p) PROVE LockInv' /\ FramesIntact'
  <2>1. /\ spc[p] = "send" /\ mutex = Nobody /\ sock = "open" /\ mutex' = p
        /\ spc' = [spc EXCEPT ![p] = "payload"]
        /\ Write(Header(reqID[p])) /\ UNCHANGED <<reqID, sock>>
    BY <1>3 DEF SendHeader
  <2>2. Header(reqID[p]) \in Chunks /\ Header(reqID[p]).part = "header"
    BY DEF LockInv, Header, Chunks
  <2>3. /\ wire' \in Seq(Chunks) /\ wire' # <<>>
        /\ wire'[Len(wire')] = Header(reqID[p]) /\ FramesIntact'
    BY <2>1, <2>2, WriteKeepsFrames DEF LockInv
  <2> QED
    BY <2>1, <2>3 DEF LockInv
<1>4. ASSUME NEW p \in Procs, SendPayload(p) PROVE LockInv' /\ FramesIntact'
  <2>1. /\ spc[p] = "payload" /\ mutex = p /\ mutex' = Nobody
        /\ spc' = [spc EXCEPT ![p] = "idle"]
        /\ Write(Payload(reqID[p])) /\ UNCHANGED <<reqID, sock>>
    BY <1>4 DEF SendPayload, LockInv
  <2>2. /\ Payload(reqID[p]) \in Chunks /\ Payload(reqID[p]).part = "payload"
        /\ Payload(reqID[p]).id = reqID[p] /\ Header(reqID[p]).id = reqID[p]
    BY DEF LockInv, Payload, Header, Chunks
  <2>3. wire # <<>> /\ wire[Len(wire)] = Header(reqID[p]) /\ wire \in Seq(Chunks)
    BY <2>1 DEF LockInv
  <2>4. /\ wire' \in Seq(Chunks) /\ wire' # <<>>
        /\ wire'[Len(wire')] = Payload(reqID[p]) /\ FramesIntact'
    BY <2>1, <2>2, <2>3, WriteKeepsFrames
  <2> QED
    BY <2>1, <2>2, <2>4 DEF LockInv
<1>5. ASSUME NEW p \in Procs, SendFails(p) PROVE LockInv' /\ FramesIntact'
  <2>0. spc[p] = "payload" => ~SeesOldSocket(p)
    <3> SUFFICES ASSUME spc[p] = "payload" PROVE Contains(wire, Header(reqID[p]))
      BY DEF SeesOldSocket
    <3>1. wire \in Seq(Chunks) /\ wire # <<>> /\ wire[Len(wire)] = Header(reqID[p])
      BY DEF LockInv
    <3>2. Len(wire) \in 1 .. Len(wire)
      BY <3>1, EmptySeq, LenProperties
    <3> QED
      BY <3>1, <3>2 DEF Contains
  <2>1. /\ spc' = [spc EXCEPT ![p] = "idle"]
        /\ mutex' = Nobody /\ sock # "open"
        /\ mutex \in {p, Nobody}
        /\ UNCHANGED <<reqID, sock, wire>>
    BY <1>5, <2>0 DEF SendFails, LockInv
  <2> QED
    BY <2>1 DEF LockInv, FramesIntact
<1>6. CASE Breaks \/ Disconnect
  <2>1. /\ sock' # "open" /\ UNCHANGED <<spc, reqID, mutex, wire>>
    BY <1>6 DEF Breaks, Disconnect
  <2> QED
    BY <2>1 DEF LockInv, FramesIntact, Header
<1>7. CASE Dial
  <2>1. wire' = <<>> /\ mutex = Nobody /\ UNCHANGED <<spc, reqID, mutex>>
    BY <1>7 DEF Dial
  <2> QED
    BY <2>1 DEF LockInv, FramesIntact
<1>8. CASE SendRaw
  <2>1. /\ mutex = Nobody /\ sock = "open" /\ Write(Hello)
        /\ UNCHANGED <<spc, reqID, mutex, sock>>
    BY <1>8 DEF SendRaw
  <2>2. Hello \in Chunks /\ Hello.part = "hello"
    BY DEF Hello, Chunks
  <2>3. /\ wire' \in Seq(Chunks) /\ wire'[Len(wire')] = Hello /\ FramesIntact'
    BY <2>1, <2>2, WriteKeepsFrames DEF LockInv
  <2> QED
    BY <2>1, <2>2, <2>3 DEF LockInv
<1>9. CASE UNCHANGED <<sendVars, sockVars>>
  BY <1>9 DEF LockInv, FramesIntact, Header
<1>10. ASSUME \/ \E p \in Procs : ThrottleStep(p)
              \/ \E v \in ValidIDs : UpdateReqID(v)
              \/ Load \/ CompareAndSwap
              \/ Tick /\ UNCHANGED transportVars
              \/ UNCHANGED allVars
       PROVE  LockInv' /\ FramesIntact'
  <2>1. UNCHANGED <<sendVars, sockVars>>
    BY <1>10 DEF ThrottleStep, UpdateReqID, Load, CompareAndSwap
  <2> QED
    BY <1>9, <2>1
<1> QED
  BY <1>1, <1>2, <1>3, <1>4, <1>5, <1>6, <1>7, <1>8, <1>9, <1>10
  DEF TransportNext

\* If no Connect replaces the socket between the two writes of a frame, the
\* frames on every socket are whole: the payload after a header is the one the
\* header was written for, although any number of goroutines send, writes fail
\* between the two halves, and Disconnect runs beside them.
THEOREM FramesStayIntact == ASSUME DialOutlasts PROVE TransportSpec => []FramesIntact
<1>1. FrameInv => FramesIntact
  BY DEF FrameInv
<1> QED
  BY FrameInit, FrameNext, <1>1, PTL DEF TransportSpec
-----------------------------------------------------------------------------
(* The codec *)

Tokens  == {"text", "Infinite", "1", "0"}
Bytes   == Tokens \cup {NUL}
TextSet == {Empty} \cup {<<c>> : c \in Tokens}

\* A field's texts hold no NUL.
LEMMA TextsType == \A f \in Fields : Texts(f) \in Seq(TextSet)
<1> SUFFICES ASSUME NEW f \in Fields PROVE Texts(f) \in Seq(TextSet)
  OBVIOUS
<1>1. Text \in TextSet /\ Empty \in TextSet
  BY DEF Text, TextSet, Tokens
<1>2. CASE f.type = "contract"
  <2>1. EncodeContract(f) \in [1 .. 12 -> TextSet]
    BY <1>1 DEF EncodeContract
  <2>2. EncodeContract(f) \in Seq(TextSet)
    <3>1. 12 \in Nat
      OBVIOUS
    <3> QED
      BY <2>1, <3>1, SeqDef
  <2> QED
    BY <1>2, <2>2 DEF Texts
<1>3. CASE f.type # "contract"
  <2>1. f \in Values
    BY <1>3 DEF Fields
  <2>2. f.val \in {"unset", "empty"} \/ f.val \in Tokens
    BY <2>1 DEF Values, Tokens
  <2>3. EncodeField(f) \in TextSet
    BY <1>1, <2>2 DEF EncodeField, TextSet
  <2> QED
    BY <1>3, <2>3 DEF Texts
<1> QED
  BY <1>2, <1>3

LEMMA TextEnded == \A t \in TextSet : Append(t, NUL) \in Seq(Bytes)
<1>1. NUL \in Bytes /\ Empty \in Seq(Bytes) /\ \A c \in Tokens : <<c>> \in Seq(Bytes)
  BY DEF Bytes, Empty
<1>2. TextSet \subseteq Seq(Bytes)
  BY <1>1 DEF TextSet
<1> HIDE DEF Bytes
<1> QED
  BY <1>1, <1>2, AppendProperties

FieldTexts(fields) == [i \in 1 .. Len(fields) |-> Texts(fields[i])]

LEMMA AllTextsType ==
    ASSUME NEW fields \in Seq(Fields)
    PROVE  /\ FieldTexts(fields) \in Seq(Seq(TextSet))
           /\ Len(FieldTexts(fields)) = Len(fields)
           /\ AllTexts(fields) = Joined(FieldTexts(fields))
           /\ AllTexts(fields) \in Seq(TextSet)
<1>1. Len(fields) \in Nat /\ \A i \in 1 .. Len(fields) : fields[i] \in Fields
  OBVIOUS
<1>2. FieldTexts(fields) \in [1 .. Len(fields) -> Seq(TextSet)]
  BY <1>1, TextsType DEF FieldTexts
<1>3. FieldTexts(fields) \in Seq(Seq(TextSet)) /\ Len(FieldTexts(fields)) = Len(fields)
  BY <1>1, <1>2
<1>4. AllTexts(fields) = Joined(FieldTexts(fields))
  BY DEF AllTexts, FieldTexts
<1> QED
  BY <1>3, <1>4, JoinedType

\* A text and its NUL: the reader has one more piece, and an empty one after it.
LEMMA PiecesOfText ==
    ASSUME NEW bytes \in Seq(Bytes), NEW done \in Seq(TextSet), NEW t \in TextSet,
           Pieces(bytes, NUL) = Append(done, Empty)
    PROVE  Pieces(bytes \o Append(t, NUL), NUL) = Append(Append(done, t), Empty)
<1>1. NUL \in Bytes
  BY DEF Bytes
<1>2. CASE t = Empty
  <2>1. bytes \o Append(t, NUL) = Append(bytes, NUL)
    BY <1>1, <1>2 DEF Empty
  <2>2. Pieces(Append(bytes, NUL), NUL) = Cut(Pieces(bytes, NUL), NUL, NUL)
    BY <1>1, PiecesAppend
  <2> QED
    BY <1>2, <2>1, <2>2 DEF Cut, Empty
<1>3. ASSUME NEW c \in Tokens, t = <<c>>
      PROVE  Pieces(bytes \o Append(t, NUL), NUL) = Append(Append(done, t), Empty)
  <2>1. c \in Bytes /\ c # NUL
    BY DEF Bytes, Tokens, NUL
  <2>2. Append(bytes, c) \in Seq(Bytes)
    BY <2>1
  <2>3. bytes \o Append(t, NUL) = Append(Append(bytes, c), NUL)
    BY <1>1, <1>3, <2>1
  <2>4. Pieces(Append(bytes, c), NUL) = Cut(Append(done, Empty), c, NUL)
    BY <2>1, PiecesAppend
  <2>5. Cut(Append(done, Empty), c, NUL) = Append(done, t)
    <3> DEFINE u == Append(done, Empty)
    <3>1. /\ u \in Seq(TextSet) /\ Len(u) = Len(done) + 1 /\ u[Len(u)] = Empty
          /\ \A i \in 1 .. Len(done) : u[i] = done[i]
      BY DEF TextSet
    <3>2. Cut(u, c, NUL) = [u EXCEPT ![Len(u)] = Append(u[Len(u)], c)]
      BY <2>1 DEF Cut
    <3>3. Append(u[Len(u)], c) = t
      <4>1. Append(Empty, c) = <<c>>
        BY DEF Empty
      <4> QED
        BY <1>3, <3>1, <4>1
    <3>4. Len(done) \in Nat
      OBVIOUS
    <3> DEFINE w == [u EXCEPT ![Len(u)] = t]
               z == Append(done, t)
    <3>5. w \in Seq(TextSet) /\ Len(w) = Len(done) + 1
      BY <3>1, <3>4, ExceptSeq
    <3>6. z \in Seq(TextSet) /\ Len(z) = Len(done) + 1
      OBVIOUS
    <3>7. ASSUME NEW i \in 1 .. Len(done) + 1 PROVE w[i] = z[i]
      <4>1. i \in DOMAIN u
        BY <3>1, <3>4
      <4>2. w[i] = IF i = Len(u) THEN t ELSE u[i]
        <5> HIDE DEF u
        <5> QED
          BY <4>1
      <4>3. CASE i = Len(done) + 1
        BY <3>1, <3>4, <4>2, <4>3
      <4>4. CASE i # Len(done) + 1
        <5>1. i \in 1 .. Len(done) /\ i # Len(u)
          BY <3>1, <3>4, <4>4
        <5>2. z[i] = done[i]
          BY <5>1
        <5> QED
          BY <3>1, <4>2, <5>1, <5>2
      <4> QED
        BY <4>3, <4>4
    <3>8. w = z
      <4> HIDE DEF w, z
      <4> QED
        BY <3>5, <3>6, <3>7, SeqEqual
    <3> QED
      BY <3>2, <3>3, <3>8
  <2>6. Pieces(Append(Append(bytes, c), NUL), NUL) = Cut(Append(done, t), NUL, NUL)
    BY <1>1, <2>2, <2>4, <2>5, PiecesAppend
  <2> QED
    BY <2>3, <2>6 DEF Cut, Empty
<1> QED
  BY <1>2, <1>3 DEF TextSet

\* What BuildMessage writes for a list of texts.
Ended(texts) == [i \in 1 .. Len(texts) |-> Append(texts[i], NUL)]

LEMMA EndedType ==
    ASSUME NEW texts \in Seq(TextSet)
    PROVE  Ended(texts) \in Seq(Seq(Bytes))
<1>1. \A t \in TextSet : Append(t, NUL) \in Seq(Bytes)
  BY TextEnded
<1>2. Len(texts) \in Nat /\ \A i \in 1 .. Len(texts) : texts[i] \in TextSet
  OBVIOUS
<1>3. Ended(texts) \in [1 .. Len(texts) -> Seq(Bytes)]
  BY <1>1, <1>2 DEF Ended
<1> QED
  BY <1>2, <1>3

LEMMA EndedAppend ==
    ASSUME NEW texts \in Seq(TextSet), NEW t \in TextSet
    PROVE  Ended(Append(texts, t)) = Append(Ended(texts), Append(t, NUL))
<1> DEFINE u == Append(texts, t)
           L == Len(texts)
<1>1. L \in Nat /\ u \in Seq(TextSet) /\ Len(u) = L + 1 /\ u[L + 1] = t
      /\ \A i \in 1 .. L : u[i] = texts[i]
  OBVIOUS
<1>2. Ended(texts) \in Seq(Seq(Bytes)) /\ Ended(u) \in Seq(Seq(Bytes))
  BY <1>1, EndedType
<1>3. Len(Ended(texts)) = L /\ Len(Ended(u)) = L + 1
  BY <1>1, <1>2 DEF Ended
<1>4. Append(t, NUL) \in Seq(Bytes)
  BY TextEnded
<1> DEFINE v == Append(Ended(texts), Append(t, NUL))
<1>5. v \in Seq(Seq(Bytes)) /\ Len(v) = L + 1
  BY <1>2, <1>3, <1>4
<1>6. \A i \in 1 .. L + 1 : v[i] = Ended(u)[i]
  <2> SUFFICES ASSUME NEW i \in 1 .. L + 1 PROVE v[i] = Ended(u)[i]
    OBVIOUS
  <2>1. Ended(u)[i] = Append(u[i], NUL)
    BY <1>1 DEF Ended
  <2>2. CASE i = L + 1
    BY <1>1, <1>2, <1>3, <1>4, <2>1, <2>2
  <2>3. CASE i \in 1 .. L
    <3>1. Ended(texts)[i] = Append(texts[i], NUL)
      BY <2>3 DEF Ended
    <3>2. v[i] = Ended(texts)[i]
      BY <1>2, <1>3, <1>4, <2>3
    <3> QED
      BY <1>1, <2>1, <2>3, <3>1, <3>2
  <2>4. i = L + 1 \/ i \in 1 .. L
    <3>1. L \in Nat
      BY <1>1
    <3> HIDE DEF L
    <3> QED
      BY <3>1
  <2> QED
    BY <2>2, <2>3, <2>4
<1> HIDE DEF v, u, L
<1>7. v = Ended(u)
  BY <1>1, <1>2, <1>3, <1>5, <1>6, SeqEqual
<1> QED
  BY <1>7 DEF u, v

\* Reading at NUL what was ended with NUL gives the texts, and an empty last piece.
LEMMA PiecesOfMessage ==
    ASSUME NEW texts \in Seq(TextSet)
    PROVE  Pieces(Joined(Ended(texts)), NUL) = Append(texts, Empty)
<1> DEFINE Good(ts) == Pieces(Joined(Ended(ts)), NUL) = Append(ts, Empty)
           T == {n \in Nat : \A ts \in Seq(TextSet) : Len(ts) = n => Good(ts)}
<1>1. 0 \in T
  <2> SUFFICES ASSUME NEW ts \in Seq(TextSet), Len(ts) = 0 PROVE Good(ts)
    OBVIOUS
  <2>1. ts = <<>>
    OBVIOUS
  <2>2. Ended(ts) = <<>>
    BY <2>1 DEF Ended
  <2>3. Joined(Ended(ts)) = <<>>
    BY <2>2, JoinedEmpty
  <2> QED
    BY <2>1, <2>3, PiecesEmpty DEF Empty
<1>2. ASSUME NEW n \in Nat, n \in T PROVE n + 1 \in T
  <2> SUFFICES ASSUME NEW ts \in Seq(TextSet), Len(ts) = n + 1 PROVE Good(ts)
    OBVIOUS
  <2>1. PICK s \in Seq(TextSet), t \in TextSet : ts = Append(s, t)
    <3>1. ts # <<>>
      OBVIOUS
    <3> QED
      BY <3>1, SequenceEmptyOrAppend
  <2>2. Len(s) = n
    BY <2>1
  <2>3. Good(s)
    BY <1>2, <2>2
  <2>4. Ended(s) \in Seq(Seq(Bytes)) /\ Append(t, NUL) \in Seq(Bytes)
    BY EndedType, TextEnded
  <2>5. Joined(Ended(ts)) = Joined(Ended(s)) \o Append(t, NUL)
    BY <2>1, <2>4, EndedAppend, JoinedAppend
  <2>6. Joined(Ended(s)) \in Seq(Bytes)
    BY <2>4, JoinedType
  <2> QED
    BY <2>1, <2>3, <2>5, <2>6, PiecesOfText
<1>3. Nat \subseteq T
  <2> HIDE DEF T
  <2> QED
    BY <1>1, <1>2, SetInduction
<1> QED
  BY <1>3

LEMMA SplitInverts ==
    ASSUME NEW fields \in Seq(Fields)
    PROVE  Split(BuildMessage(fields)) = AllTexts(fields)
<1> DEFINE texts == AllTexts(fields)
           pieces == Append(texts, Empty)
<1>1. texts \in Seq(TextSet)
  BY AllTextsType
<1>2. BuildMessage(fields) = Joined(Ended(texts))
  BY DEF BuildMessage, Ended
<1> HIDE DEF texts
<1>3. Pieces(BuildMessage(fields), NUL) = pieces
  BY <1>1, <1>2, PiecesOfMessage
<1>4. Empty \in TextSet
  BY DEF TextSet
<1>5. pieces \in Seq(TextSet) /\ Len(pieces) = Len(texts) + 1 /\ Len(texts) \in Nat
  BY <1>1, <1>4
<1>6. Last(pieces) = Empty
  BY <1>1, <1>4 DEF Last
<1>7. Front(pieces) = texts
  <2>1. Front(pieces) = SubSeq(pieces, 1, Len(texts))
    BY <1>5 DEF Front
  <2>2. SubSeq(pieces, 1, Len(texts)) = texts
    BY <1>1, <1>4
  <2> QED
    BY <2>1, <2>2
<1> HIDE DEF pieces
<1> QED
  BY <1>3, <1>6, <1>7 DEF Split, texts

\* The text of the i-th field stands after the texts of those before it.
LEMMA FieldInPlace ==
    ASSUME NEW fields \in Seq(Fields), NEW i \in 1 .. Len(fields), fields[i] \in Values
    PROVE  ReadString(AllTexts(fields), Len(AllTexts(SubSeq(fields, 1, i - 1))))
              = EncodeField(fields[i])
<1> DEFINE ss == FieldTexts(fields)
           before == SubSeq(fields, 1, i - 1)
           pos == Len(AllTexts(before))
           texts == AllTexts(fields)
<1>1. Len(fields) \in Nat /\ i - 1 \in 0 .. Len(fields)
  OBVIOUS
<1>2. /\ ss \in Seq(Seq(TextSet)) /\ Len(ss) = Len(fields)
      /\ texts = Joined(ss) /\ texts \in Seq(TextSet)
  BY AllTextsType
<1>3. before \in Seq(Fields) /\ Len(before) = i - 1
      /\ \A j \in 1 .. i - 1 : before[j] = fields[j]
  BY <1>1
<1>4. FieldTexts(before) \in Seq(Seq(TextSet)) /\ Len(FieldTexts(before)) = i - 1
      /\ AllTexts(before) = Joined(FieldTexts(before)) /\ AllTexts(before) \in Seq(TextSet)
  <2> HIDE DEF before
  <2> QED
    BY <1>3, AllTextsType
<1>5. FieldTexts(before) = SubSeq(ss, 1, i - 1)
  <2>1. /\ SubSeq(ss, 1, i - 1) \in Seq(Seq(TextSet)) /\ Len(SubSeq(ss, 1, i - 1)) = i - 1
        /\ \A j \in 1 .. i - 1 : SubSeq(ss, 1, i - 1)[j] = ss[j]
    <3> HIDE DEF ss
    <3> QED
      BY <1>1, <1>2
  <2>2. \A j \in 1 .. i - 1 : FieldTexts(before)[j] = Texts(before[j]) /\ ss[j] = Texts(fields[j])
    <3>1. \A j \in 1 .. i - 1 : j \in 1 .. Len(before) /\ j \in 1 .. Len(fields)
      BY <1>1, <1>3
    <3> HIDE DEF before
    <3> QED
      BY <3>1 DEF FieldTexts
  <2> HIDE DEF before, ss
  <2>3. \A j \in 1 .. i - 1 : FieldTexts(before)[j] = SubSeq(ss, 1, i - 1)[j]
    BY <1>3, <2>1, <2>2
  <2> QED
    BY <1>4, <2>1, <2>3, SeqEqual
<1>6. ss[i] = <<EncodeField(fields[i])>>
  <2>1. fields[i].type # "contract"
    BY DEF Values
  <2> QED
    BY <2>1 DEF FieldTexts, Texts
<1> HIDE DEF ss, before
<1>7. StandsAt(texts, pos, ss[i])
  <2>1. i \in 1 .. Len(ss)
    BY <1>2
  <2>2. StandsAt(Joined(ss), Len(Joined(SubSeq(ss, 1, i - 1))), ss[i])
    BY <1>2, <2>1, JoinedAt
  <2> QED
    BY <1>2, <1>4, <1>5, <2>2
<1>8. pos \in Nat /\ Len(texts) \in Nat
  BY <1>2, <1>4
<1> HIDE DEF pos, texts
<1>9. Len(ss[i]) = 1 /\ ss[i][1] = EncodeField(fields[i])
  BY <1>6
<1>10. pos + 1 <= Len(texts) /\ texts[pos + 1] = EncodeField(fields[i])
  BY <1>7, <1>9 DEF StandsAt
<1>11. ReadString(texts, pos) = EncodeField(fields[i])
  BY <1>8, <1>10 DEF ReadString
<1> QED
  BY <1>11 DEF pos, texts, before

\* For messages of any length: what BuildMessage writes (encoder.go:75-91) and
\* ReadMessage splits (connection.go:137-142) are the texts that were encoded, and
\* FieldReader (field.go:25-61) finds each value in its place, whatever empty
\* texts and contracts stand around it.
THEOREM MessagesReadBack == \A fields \in Seq(Fields) : ReadsBack(fields)
<1> SUFFICES ASSUME NEW fields \in Seq(Fields) PROVE ReadsBack(fields)
  OBVIOUS
<1> DEFINE texts == Split(BuildMessage(fields))
           pos(i) == Len(AllTexts(SubSeq(fields, 1, i - 1)))
<1>1. texts = AllTexts(fields)
  BY SplitInverts
<1>2. ASSUME NEW i \in 1 .. Len(fields), fields[i] \in Values
      PROVE  Read(fields[i].type, texts, pos(i))
                = IF fields[i].val = "unset" THEN "zero" ELSE fields[i].val
  <2>1. ReadString(texts, pos(i)) = EncodeField(fields[i])
    BY <1>1, <1>2, FieldInPlace
  <2> DEFINE f == fields[i]
             p == pos(i)
  <2>2. \/ f.type \in {"int64", "float64"} /\ f.val \in {"text", "unset", "Infinite"}
        \/ f.type = "bool" /\ f.val \in {"1", "0"}
        \/ f.type = "string" /\ f.val \in {"text", "empty"}
    BY <1>2 DEF Values
  <2>3. EncodeField(f) = IF f.val \in {"unset", "empty"} THEN <<>> ELSE <<f.val>>
    BY DEF EncodeField, Empty
  <2> HIDE DEF f, p, texts
  <2>4. CASE f.type \in {"int64", "float64"} /\ f.val \in {"text", "unset", "Infinite"}
    <3>1. Read(f.type, texts, p) = IF EncodeField(f) = <<>> THEN "zero" ELSE Head(EncodeField(f))
      BY <2>1, <2>4 DEF Read, Empty, f, p
    <3> QED
      BY <2>3, <2>4, <3>1 DEF f, p
  <2>5. CASE f.type = "bool" /\ f.val \in {"1", "0"}
    <3>1. Read(f.type, texts, p) = IF EncodeField(f) = <<"1">> THEN "1" ELSE "0"
      BY <2>1, <2>5 DEF Read, f, p
    <3>2. EncodeField(f) = <<f.val>>
      BY <2>3, <2>5
    <3>3. <<f.val>> = <<"1">> <=> f.val = "1"
      OBVIOUS
    <3> QED
      BY <2>5, <3>1, <3>2, <3>3 DEF f, p
  <2>6. CASE f.type = "string" /\ f.val \in {"text", "empty"}
    <3>1. Read(f.type, texts, p) = IF EncodeField(f) = <<>> THEN "empty" ELSE Head(EncodeField(f))
      BY <2>1, <2>6 DEF Read, Empty, f, p
    <3> QED
      BY <2>3, <2>6, <3>1 DEF f, p
  <2> QED
    BY <2>2, <2>4, <2>5, <2>6
<1> HIDE DEF texts
<1> QED
  BY <1>1, <1>2 DEF ReadsBack, texts

\* The same as an invariant of the send path, for every bound MaxFields.
THEOREM SentReadsBack == TransportSpec => []CodecRoundTrip
<1>1. ASSUME NEW n \in 1 .. MaxFields, NEW fields \in [1 .. n -> Fields]
      PROVE  ReadsBack(fields)
  <2>1. n \in Nat
    BY TransportAssumption
  <2>2. fields \in Seq(Fields)
    BY <2>1, SeqDef
  <2> QED
    BY <2>2, MessagesReadBack
<1>2. CodecRoundTrip
  BY <1>1 DEF CodecRoundTrip, AllReadBack
<1> QED
  BY <1>2, PTL
=============================================================================
