---------------------------- MODULE EventsProofs ----------------------------
(***************************************************************************)
(* Proofs about Event, for any number of subscriptions, emitters, values   *)
(* and any capacity of the channels.                                       *)
(***************************************************************************)
EXTENDS Events, SequenceTheorems, TLAPS

USE DEF vars, subVars, emitVars

-----------------------------------------------------------------------------
(* The inductive invariant *)

EventTypes ==
    /\ nextID \in 0 .. MaxSubs
    /\ kind \in [Ids -> {"none", "callback", "chan", "once"}]
    /\ callbacks \in Seq(Ids)
    /\ channels \in Seq(Ids)
    /\ closed \cup unsubs \cup removed \subseteq 1 .. nextID
    /\ queued \in [Ids -> Nat]
    /\ subID \in [Ids -> Nat]
    /\ \A id \in Ids : subID[id] \in {0, id}
    /\ todo \in [Emitters -> Seq(Ids)]
    /\ pos \in [Emitters -> Nat]
    /\ val \in [Emitters -> Nat]
    /\ emitted \in 0 .. MaxEmit
    /\ finished \subseteq 1 .. emitted
    /\ live \in [Values -> SUBSET Ids]
    /\ \A v \in Values : live[v] \subseteq 1 .. nextID /\ (v > emitted => live[v] = {})
    /\ got \in [Ids -> Seq(Values)]

\* The two lists hold the subscriptions in force, each once, by their kind.
Lists ==
    /\ IsInjective(callbacks) /\ IsInjective(channels)
    /\ \A id \in Ids : kind[id] = "none" <=> id > nextID
    /\ ToSet(callbacks) = {id \in (1 .. nextID) \ removed :
                             kind[id] \in {"callback", "once"}}
    /\ ToSet(channels) = {id \in (1 .. nextID) \ removed : kind[id] = "chan"}

\* A channel holds no more than its capacity, that of a Once nothing before the
\* Once has fired.
Queues ==
    \A id \in Ids :
        /\ queued[id] <= IF kind[id] = "once" THEN 1 ELSE BufSize
        /\ kind[id] = "once" /\ id \notin closed => queued[id] = 0
        /\ id > nextID => queued[id] = 0

NotGiven(id, v) == \A j \in DOMAIN got[id] : got[id][j] # v

\* An Emit under way works through the subscriptions in force when it began, and
\* has given its value once to each callback it has passed and to no other.
Under(e) ==
    /\ val[e] \in 1 .. emitted /\ val[e] \notin finished
    /\ pos[e] \in 1 .. Len(todo[e]) + 1
    /\ IsInjective(todo[e]) /\ ToSet(todo[e]) = live[val[e]]
    /\ \A j \in 1 .. Len(todo[e]) : kind[todo[e][j]] = "callback" =>
          IF j < pos[e] THEN GivenOnce(todo[e][j], val[e])
                        ELSE NotGiven(todo[e][j], val[e])
Emits ==
    /\ \A e \in Emitters : IF pos[e] = 0 THEN todo[e] = <<>> /\ val[e] = 0 ELSE Under(e)
    /\ \A e, f \in Emitters : pos[e] # 0 /\ pos[f] # 0 /\ val[e] = val[f] => e = f

\* What has been given, and to whom.
Given ==
    /\ \A id \in Ids : \A j \in DOMAIN got[id] :
          got[id][j] <= emitted /\ id \in live[got[id][j]]
    /\ \A v \in Values, id \in Ids : <<v, id>> \in panics => id \in live[v]
    /\ \A v \in finished : \A id \in live[v] :
          kind[id] = "callback" => GivenOnce(id, v)

EventInv == EventTypes /\ Lists /\ Queues /\ Emits /\ Given /\ OnceGetsOne

-----------------------------------------------------------------------------
(* Lists without duplicates *)

LEMMA AppendEntry ==
    ASSUME NEW s \in Seq(Ids), IsInjective(s), NEW id \in Ids, id \notin ToSet(s)
    PROVE  /\ Append(s, id) \in Seq(Ids) /\ IsInjective(Append(s, id))
           /\ ToSet(Append(s, id)) = ToSet(s) \cup {id}
<1> DEFINE t == Append(s, id)
<1>1. /\ t \in Seq(Ids) /\ Len(t) = Len(s) + 1 /\ Len(s) \in Nat
      /\ \A i \in 1 .. Len(s) : t[i] = s[i]
      /\ t[Len(s) + 1] = id
      /\ DOMAIN s = 1 .. Len(s) /\ DOMAIN t = 1 .. Len(t)
  BY AppendProperties, LenProperties
<1> HIDE DEF t
<1>2. \A i \in 1 .. Len(s) : t[i] # id
  BY <1>1 DEF ToSet
<1>3. IsInjective(t)
  BY <1>1, <1>2 DEF IsInjective
<1>4. ToSet(t) = ToSet(s) \cup {id}
  BY <1>1 DEF ToSet
<1> QED
  BY <1>1, <1>3, <1>4 DEF t

\* Unsubscribe cuts out the one entry with that id and keeps the others.
LEMMA DropEntry ==
    ASSUME NEW s \in Seq(Ids), IsInjective(s), NEW id
    PROVE  /\ Drop(s, id) \in Seq(Ids) /\ IsInjective(Drop(s, id))
           /\ ToSet(Drop(s, id)) = ToSet(s) \ {id}
<1>0. Len(s) \in Nat /\ DOMAIN s = 1 .. Len(s) /\ \A j \in 1 .. Len(s) : s[j] \in Ids
  BY LenProperties, ElementOfSeq
<1>1. CASE Contains(s, id)
  <2> DEFINE i == CHOOSE j \in 1 .. Len(s) : s[j] = id
             a == SubSeq(s, 1, i - 1)
             b == SubSeq(s, i + 1, Len(s))
             t == a \o b
  <2>1. i \in 1 .. Len(s) /\ s[i] = id
    BY <1>1 DEF Contains
  <2>2. Drop(s, id) = t
    BY <1>1 DEF Drop, RemoveAt
  <2> HIDE DEF i
  <2>3. /\ a \in Seq(Ids) /\ Len(a) = i - 1
        /\ \A j \in 1 .. i - 1 : a[j] = s[j]
    BY <1>0, <2>1, SubSeqProperties
  <2>4. /\ b \in Seq(Ids) /\ Len(b) = Len(s) - i
        /\ \A j \in 1 .. Len(s) - i : b[j] = s[i + j]
    <3> DEFINE m == i + 1
    <3>1. m \in Int /\ Len(s) \in Int /\ \A j \in m .. Len(s) : s[j] \in Ids
      BY <1>0, <2>1
    <3>2. /\ b \in Seq(Ids)
          /\ Len(b) = IF m <= Len(s) THEN Len(s) - m + 1 ELSE 0
          /\ \A j \in 1 .. Len(s) - m + 1 : b[j] = s[m + j - 1]
      <4>1. b = SubSeq(s, m, Len(s))
        OBVIOUS
      <4> HIDE DEF m, b
      <4> QED
        BY <3>1, <4>1, SubSeqProperties
    <3> HIDE DEF b
    <3>3. Len(b) = Len(s) - i
      <4>1. i \in Int /\ Len(s) \in Int /\ i <= Len(s)
        BY <1>0, <2>1
      <4>2. Len(b) = IF i + 1 <= Len(s) THEN Len(s) - (i + 1) + 1 ELSE 0
        BY <3>2
      <4> QED
        BY <4>1, <4>2
    <3>4. \A j \in 1 .. Len(s) - i : b[j] = s[i + j]
      <4> TAKE j \in 1 .. Len(s) - i
      <4>1. j \in 1 .. Len(s) - m + 1 /\ m + j - 1 = i + j
        BY <1>0, <2>1
      <4> QED
        BY <3>2, <4>1
    <3> QED
      BY <3>2, <3>3, <3>4
  <2> HIDE DEF a, b
  <2>5. /\ t \in Seq(Ids) /\ Len(t) = Len(s) - 1
        /\ \A j \in 1 .. Len(s) - 1 : t[j] = IF j <= i - 1 THEN a[j] ELSE b[j - (i - 1)]
        /\ DOMAIN t = 1 .. Len(t)
    <3>1. /\ t \in Seq(Ids) /\ Len(t) = Len(a) + Len(b)
          /\ \A j \in 1 .. Len(a) + Len(b) :
                t[j] = IF j <= Len(a) THEN a[j] ELSE b[j - Len(a)]
      BY <2>3, <2>4, ConcatProperties
    <3>2. Len(a) + Len(b) = Len(s) - 1
      BY <1>0, <2>1, <2>3, <2>4
    <3>3. DOMAIN t = 1 .. Len(t)
      BY <3>1, LenProperties
    <3> QED
      BY <2>3, <3>1, <3>2, <3>3
  <2> HIDE DEF t
  <2>6. \A j \in 1 .. Len(s) - 1 : t[j] = IF j < i THEN s[j] ELSE s[j + 1]
    <3> TAKE j \in 1 .. Len(s) - 1
    <3>1. CASE j < i
      <4>1. j <= i - 1 /\ j \in 1 .. i - 1
        BY <1>0, <2>1, <3>1
      <4> QED
        BY <2>3, <2>5, <3>1, <4>1
    <3>2. CASE ~(j < i)
      <4>1. /\ ~(j <= i - 1) /\ j - (i - 1) \in 1 .. Len(s) - i
            /\ i + (j - (i - 1)) = j + 1
        BY <1>0, <2>1, <3>2
      <4>2. t[j] = b[j - (i - 1)] /\ b[j - (i - 1)] = s[i + (j - (i - 1))]
        BY <2>4, <2>5, <4>1
      <4> QED
        BY <3>2, <4>1, <4>2
    <3> QED
      BY <3>1, <3>2
  <2>7. IsInjective(t)
    <3> SUFFICES ASSUME NEW j \in 1 .. Len(s) - 1, NEW k \in 1 .. Len(s) - 1,
                        t[j] = t[k]
                 PROVE  j = k
      BY <2>5 DEF IsInjective
    <3> DEFINE at(x) == IF x < i THEN x ELSE x + 1
    <3>1. at(j) \in 1 .. Len(s) /\ at(k) \in 1 .. Len(s)
      BY <1>0, <2>1
    <3>2. t[j] = s[at(j)] /\ t[k] = s[at(k)]
      BY <2>6
    <3>3. at(j) = at(k)
      <4> HIDE DEF at
      <4> QED
        BY <1>0, <3>1, <3>2 DEF IsInjective
    <3> QED
      BY <1>0, <2>1, <3>3
  <2>8. ToSet(t) \subseteq ToSet(s) \ {id}
    BY <1>0, <2>1, <2>5, <2>6 DEF IsInjective, ToSet
  <2>9. ToSet(s) \ {id} \subseteq ToSet(t)
    <3> SUFFICES ASSUME NEW k \in 1 .. Len(s), s[k] # id
                 PROVE  \E j \in 1 .. Len(s) - 1 : t[j] = s[k]
      BY <1>0, <2>5 DEF ToSet
    <3>1. CASE k < i
      BY <1>0, <2>1, <2>6, <3>1
    <3>2. CASE k > i
      <4>1. k - 1 \in 1 .. Len(s) - 1 /\ ~(k - 1 < i) /\ (k - 1) + 1 = k
        BY <1>0, <2>1, <3>2
      <4> QED
        BY <2>6, <4>1
    <3> QED
      BY <1>0, <2>1, <3>1, <3>2
  <2> QED
    BY <2>2, <2>5, <2>7, <2>8, <2>9
<1>2. CASE ~Contains(s, id)
  BY <1>0, <1>2 DEF Contains, Drop, ToSet
<1> QED
  BY <1>1, <1>2

LEMMA ConcatEntries ==
    ASSUME NEW s \in Seq(Ids), NEW t \in Seq(Ids), IsInjective(s), IsInjective(t),
           ToSet(s) \cap ToSet(t) = {}
    PROVE  /\ s \o t \in Seq(Ids) /\ IsInjective(s \o t)
           /\ ToSet(s \o t) = ToSet(s) \cup ToSet(t)
<1> DEFINE u == s \o t
<1>1. /\ u \in Seq(Ids) /\ Len(u) = Len(s) + Len(t)
      /\ \A i \in 1 .. Len(s) + Len(t) :
            u[i] = IF i <= Len(s) THEN s[i] ELSE t[i - Len(s)]
      /\ Len(s) \in Nat /\ Len(t) \in Nat
      /\ DOMAIN s = 1 .. Len(s) /\ DOMAIN t = 1 .. Len(t) /\ DOMAIN u = 1 .. Len(u)
  BY ConcatProperties, LenProperties
<1> HIDE DEF u
<1>2. \A i \in 1 .. Len(s) : u[i] = s[i]
  BY <1>1
<1>3. \A i \in 1 .. Len(t) : u[Len(s) + i] = t[i]
  <2> TAKE i \in 1 .. Len(t)
  <2>1. Len(s) + i \in 1 .. Len(s) + Len(t) /\ ~(Len(s) + i <= Len(s))
        /\ (Len(s) + i) - Len(s) = i
    BY <1>1
  <2> QED
    BY <1>1, <2>1
<1>4. \A i \in 1 .. Len(s), j \in 1 .. Len(t) : s[i] # t[j]
  BY <1>1 DEF ToSet
<1> DEFINE n == Len(s)
<1>5. IsInjective(u)
  <2> SUFFICES ASSUME NEW i \in 1 .. Len(s) + Len(t), NEW j \in 1 .. Len(s) + Len(t),
                      u[i] = u[j]
               PROVE  i = j
    BY <1>1 DEF IsInjective
  <2>1. \A k \in 1 .. Len(s) + Len(t) : ~(k <= n) => k - n \in 1 .. Len(t)
    BY <1>1
  <2>2. \A k \in 1 .. Len(s) + Len(t) : k <= n => k \in 1 .. Len(s)
    BY <1>1
  <2>3. CASE i <= n /\ j <= n
    BY <1>1, <2>2, <2>3 DEF IsInjective
  <2>4. CASE i <= n /\ ~(j <= n)
    BY <1>1, <1>4, <2>1, <2>2, <2>4
  <2>5. CASE ~(i <= n) /\ j <= n
    BY <1>1, <1>4, <2>1, <2>2, <2>5
  <2>6. CASE ~(i <= n) /\ ~(j <= n)
    <3>1. u[i] = t[i - n] /\ u[j] = t[j - n]
      BY <1>1, <2>6
    <3>2. i - n = j - n
      BY <1>1, <2>1, <2>6, <3>1 DEF IsInjective
    <3> QED
      BY <1>1, <3>2
  <2> QED
    BY <2>3, <2>4, <2>5, <2>6
<1>6. ToSet(u) = ToSet(s) \cup ToSet(t)
  <2>1. ToSet(u) \subseteq ToSet(s) \cup ToSet(t)
    <3> SUFFICES ASSUME NEW i \in 1 .. Len(s) + Len(t)
                 PROVE  u[i] \in ToSet(s) \cup ToSet(t)
      BY <1>1 DEF ToSet
    <3>1. CASE i <= n
      <4>1. i \in DOMAIN s /\ u[i] = s[i]
        BY <1>1, <3>1
      <4> QED
        BY <4>1 DEF ToSet
    <3>2. CASE ~(i <= n)
      <4>1. i - n \in DOMAIN t /\ u[i] = t[i - n]
        BY <1>1, <3>2
      <4> QED
        BY <4>1 DEF ToSet
    <3> QED
      BY <3>1, <3>2
  <2>2. ToSet(s) \subseteq ToSet(u)
    BY <1>1, <1>2 DEF ToSet
  <2>3. ToSet(t) \subseteq ToSet(u)
    <3> SUFFICES ASSUME NEW i \in 1 .. Len(t) PROVE t[i] \in ToSet(u)
      BY <1>1 DEF ToSet
    <3>1. Len(s) + i \in DOMAIN u
      BY <1>1
    <3> QED
      BY <1>3, <3>1 DEF ToSet
  <2> QED
    BY <2>1, <2>2, <2>3
<1> QED
  BY <1>1, <1>5, <1>6 DEF u

\* The effect of giving value v to subscription id.
LEMMA GiveValue ==
    ASSUME EventTypes, NEW id \in Ids, NEW v \in Values, Give(id, v)
    PROVE  /\ got' \in [Ids -> Seq(Values)]
           /\ Len(got'[id]) = Len(got[id]) + 1
           /\ \A x \in Ids \ {id} : got'[x] = got[x]
           /\ \A j \in DOMAIN got'[id] :
                 got'[id][j] = v \/ (j \in DOMAIN got[id] /\ got'[id][j] = got[id][j])
           /\ NotGiven(id, v) => GivenOnce(id, v)'
           /\ \A w \in Values \ {v} : /\ GivenOnce(id, w) => GivenOnce(id, w)'
                                      /\ NotGiven(id, w) => NotGiven(id, w)'
<1> DEFINE s == got[id]
           t == Append(got[id], v)
<1>1. s \in Seq(Values)
  BY DEF EventTypes
<1>2. got'[id] = t /\ \A x \in Ids \ {id} : got'[x] = got[x]
  BY DEF Give, EventTypes
<1>3. /\ t \in Seq(Values) /\ Len(t) = Len(s) + 1 /\ Len(s) \in Nat
      /\ \A i \in 1 .. Len(s) : t[i] = s[i]
      /\ t[Len(s) + 1] = v
      /\ DOMAIN s = 1 .. Len(s) /\ DOMAIN t = 1 .. Len(t)
  BY <1>1, AppendProperties, LenProperties
<1>4. got' \in [Ids -> Seq(Values)]
  BY <1>3 DEF Give, EventTypes
<1>5. got[id] = s
  OBVIOUS
<1> HIDE DEF s, t
<1>6. NotGiven(id, v) => GivenOnce(id, v)'
  <2> SUFFICES ASSUME \A j \in 1 .. Len(s) : s[j] # v
               PROVE  \E i \in DOMAIN t : \A j \in DOMAIN t : t[j] = v <=> j = i
    BY <1>2, <1>3, <1>5 DEF NotGiven, GivenOnce
  <2>1. Len(s) + 1 \in DOMAIN t
    BY <1>3
  <2>2. \A j \in DOMAIN t : t[j] = v <=> j = Len(s) + 1
    BY <1>3
  <2> QED
    BY <2>1, <2>2
<1>7. ASSUME NEW w \in Values \ {v}, GivenOnce(id, w) PROVE GivenOnce(id, w)'
  <2>1. PICK i \in 1 .. Len(s) : \A j \in 1 .. Len(s) : s[j] = w <=> j = i
    BY <1>3, <1>5, <1>7 DEF GivenOnce
  <2>2. i \in DOMAIN t /\ \A j \in DOMAIN t : t[j] = w <=> j = i
    BY <1>3, <2>1
  <2> QED
    BY <1>2, <2>2 DEF GivenOnce
<1>8. ASSUME NEW w \in Values \ {v}, NotGiven(id, w) PROVE NotGiven(id, w)'
  BY <1>2, <1>3, <1>5, <1>8 DEF NotGiven
<1> QED
  BY <1>2, <1>3, <1>4, <1>5, <1>6, <1>7, <1>8

-----------------------------------------------------------------------------
(* The steps *)

LEMMA EventInit == Init => EventInv
<1> SUFFICES ASSUME Init PROVE EventInv
  OBVIOUS
<1> USE EventsAssumption
<1>1. EventTypes
  BY EmptySeq DEF Init, EventTypes, Ids, Values
<1>2. Lists
  BY DEF Init, Lists, IsInjective, ToSet, Ids
<1>3. Queues /\ OnceGetsOne
  BY DEF Init, Queues, OnceGetsOne
<1>4. Emits /\ Given
  BY DEF Init, Emits, Given
<1> QED
  BY <1>1, <1>2, <1>3, <1>4 DEF EventInv

\* The entry an Emit has reached is a subscription that was in force at its start.
LEMMA EntryLive ==
    ASSUME EventInv, NEW e \in Emitters, pos[e] \in 1 .. Len(todo[e])
    PROVE  /\ pos[e] # 0 /\ Under(e)
           /\ Entry(e) \in Ids /\ Entry(e) \in 1 .. nextID
           /\ val[e] \in Values /\ Entry(e) \in live[val[e]]
           /\ \A j \in 1 .. Len(todo[e]) : todo[e][j] = Entry(e) => j = pos[e]
<1>1. todo[e] \in Seq(Ids) /\ Len(todo[e]) \in Nat /\ DOMAIN todo[e] = 1 .. Len(todo[e])
  BY LenProperties DEF EventInv, EventTypes
<1>2. pos[e] # 0 /\ Under(e)
  BY <1>1 DEF EventInv, Emits
<1>3. val[e] \in Values
  BY <1>2, EventsAssumption DEF Under, EventInv, EventTypes, Values
<1>4. Entry(e) \in Ids
  BY <1>1, ElementOfSeq DEF Entry
<1>5. Entry(e) \in live[val[e]]
  BY <1>1, <1>2 DEF Under, ToSet, Entry
<1>6. Entry(e) \in 1 .. nextID
  BY <1>3, <1>5 DEF EventInv, EventTypes
<1>7. \A j \in 1 .. Len(todo[e]) : todo[e][j] = Entry(e) => j = pos[e]
  BY <1>1, <1>2 DEF Under, IsInjective, Entry
<1> QED
  BY <1>2, <1>3, <1>4, <1>5, <1>6, <1>7

\* A step that moves no Emit and gives nothing, while subscriptions may be added.
LEMMA EmitsFrame ==
    ASSUME EventInv, UNCHANGED <<emitVars, got, panics>>, nextID <= nextID',
           \A id \in 1 .. nextID : kind'[id] = kind[id]
    PROVE  Emits' /\ Given'
<1>1. ASSUME NEW e \in Emitters, Under(e) PROVE Under(e)'
  <2>1. val[e] \in Values
    BY <1>1, EventsAssumption DEF Under, EventInv, EventTypes, Values
  <2>2. \A j \in 1 .. Len(todo[e]) : todo[e][j] \in 1 .. nextID
    <3>1. live[val[e]] \subseteq 1 .. nextID
      BY <2>1 DEF EventInv, EventTypes
    <3>2. DOMAIN todo[e] = 1 .. Len(todo[e])
      BY LenProperties DEF EventInv, EventTypes
    <3> QED
      BY <1>1, <3>1, <3>2 DEF Under, ToSet
  <2>3. \A x, v : (GivenOnce(x, v)' <=> GivenOnce(x, v)) /\ (NotGiven(x, v)' <=> NotGiven(x, v))
    BY DEF GivenOnce, NotGiven
  <2>4. /\ val'[e] = val[e] /\ pos'[e] = pos[e] /\ todo'[e] = todo[e]
        /\ emitted' = emitted /\ finished' = finished /\ live' = live
    OBVIOUS
  <2>5. \A j \in 1 .. Len(todo[e]) : kind'[todo[e][j]] = kind[todo[e][j]]
    BY <2>2
  <2> QED
    BY <1>1, <2>3, <2>4, <2>5 DEF Under
<1>2. Emits'
  BY <1>1 DEF EventInv, Emits
<1>3. \A v \in finished : v \in Values
  BY EventsAssumption DEF EventInv, EventTypes, Values
<1>4. Given'
  BY <1>3 DEF EventInv, EventTypes, Given, GivenOnce
<1> QED
  BY <1>2, <1>4

LEMMA NewSubscription ==
    ASSUME EventInv, NEW k \in {"callback", "chan", "once"}, NewID(k),
           \/ /\ k = "chan" /\ callbacks' = callbacks
              /\ channels' = Append(channels, nextID')
           \/ /\ k # "chan" /\ channels' = channels
              /\ callbacks' = Append(callbacks, nextID')
    PROVE  EventInv'
<1> USE EventsAssumption
<1>1. /\ nextID \in 0 .. MaxSubs /\ nextID' = nextID + 1 /\ nextID' \in 0 .. MaxSubs
      /\ nextID' \in Ids
      /\ kind' = [kind EXCEPT ![nextID'] = k]
      /\ UNCHANGED <<closed, queued, subID, unsubs, emitVars, removed, got, panics>>
  BY DEF NewID, EventInv, EventTypes, Ids
<1>2. /\ kind'[nextID'] = k
      /\ \A id \in Ids : id # nextID' => kind'[id] = kind[id]
      /\ \A id \in 1 .. nextID : id \in Ids /\ id # nextID'
      /\ nextID' \notin removed /\ nextID' \notin closed
  BY <1>1 DEF EventInv, EventTypes, Ids
<1>3. nextID' \notin ToSet(callbacks) /\ nextID' \notin ToSet(channels)
  BY <1>1 DEF EventInv, Lists
<1>4. /\ callbacks' \in Seq(Ids) /\ IsInjective(callbacks')
      /\ channels' \in Seq(Ids) /\ IsInjective(channels')
      /\ ToSet(callbacks') = ToSet(callbacks) \cup (IF k = "chan" THEN {} ELSE {nextID'})
      /\ ToSet(channels') = ToSet(channels) \cup (IF k = "chan" THEN {nextID'} ELSE {})
  <2>1. /\ callbacks \in Seq(Ids) /\ IsInjective(callbacks)
        /\ channels \in Seq(Ids) /\ IsInjective(channels)
    BY DEF EventInv, EventTypes, Lists
  <2>2. CASE k = "chan"
    <3>1. callbacks' = callbacks /\ channels' = Append(channels, nextID')
      BY <2>2
    <3>2. /\ channels' \in Seq(Ids) /\ IsInjective(channels')
          /\ ToSet(channels') = ToSet(channels) \cup {nextID'}
      BY <1>1, <1>3, <2>1, <3>1, AppendEntry
    <3> QED
      BY <2>1, <2>2, <3>1, <3>2
  <2>3. CASE k # "chan"
    <3>1. channels' = channels /\ callbacks' = Append(callbacks, nextID')
      BY <2>3
    <3>2. /\ callbacks' \in Seq(Ids) /\ IsInjective(callbacks')
          /\ ToSet(callbacks') = ToSet(callbacks) \cup {nextID'}
      BY <1>1, <1>3, <2>1, <3>1, AppendEntry
    <3> QED
      BY <2>1, <2>3, <3>1, <3>2
  <2> QED
    BY <2>2, <2>3
<1>5. EventTypes'
  BY <1>1, <1>4 DEF EventInv, EventTypes
<1>6. Lists'
  <2>1. \A id \in Ids : kind'[id] = "none" <=> id > nextID'
    BY <1>1, <1>2 DEF EventInv, Lists, Ids
  <2>2. (1 .. nextID') \ removed = ((1 .. nextID) \ removed) \cup {nextID'}
    BY <1>1, <1>2
  <2>3. ToSet(callbacks') = {id \in (1 .. nextID') \ removed :
                               kind'[id] \in {"callback", "once"}}
    BY <1>2, <1>4, <2>2 DEF EventInv, Lists
  <2>4. ToSet(channels') = {id \in (1 .. nextID') \ removed : kind'[id] = "chan"}
    BY <1>2, <1>4, <2>2 DEF EventInv, Lists
  <2> QED
    BY <1>1, <1>4, <2>1, <2>3, <2>4 DEF Lists
<1>7. Queues'
  <2>1. queued[nextID'] = 0 /\ nextID' > nextID
    BY <1>1 DEF EventInv, Queues
  <2> SUFFICES ASSUME NEW id \in Ids
               PROVE  /\ queued[id] <= IF kind'[id] = "once" THEN 1 ELSE BufSize
                      /\ kind'[id] = "once" /\ id \notin closed => queued[id] = 0
                      /\ id > nextID' => queued[id] = 0
    BY <1>1 DEF Queues
  <2>2. CASE id = nextID'
    BY <2>1, <2>2
  <2>3. CASE id # nextID'
    <3>1. kind'[id] = kind[id] /\ (id > nextID' => id > nextID)
      BY <1>1, <1>2, <2>3 DEF Ids
    <3> QED
      BY <3>1 DEF EventInv, Queues
  <2> QED
    BY <2>2, <2>3
<1>8. Emits' /\ Given'
  BY <1>1, <1>2, EmitsFrame
<1>9. OnceGetsOne'
  <2>1. Len(got[nextID']) = 0
    <3>1. DOMAIN got[nextID'] = 1 .. Len(got[nextID']) /\ Len(got[nextID']) \in Nat
          /\ \A j \in 1 .. Len(got[nextID']) : got[nextID'][j] \in Values
      BY <1>1, LenProperties, ElementOfSeq DEF EventInv, EventTypes
    <3>2. \A v \in Values : nextID' \notin live[v]
      BY <1>1 DEF EventInv, EventTypes
    <3>3. \A j \in 1 .. Len(got[nextID']) : FALSE
      BY <1>1, <3>1, <3>2 DEF EventInv, Given
    <3> QED
      BY <3>1, <3>3
  <2> QED
    BY <1>1, <1>2, <2>1 DEF EventInv, OnceGetsOne
<1> QED
  BY <1>5, <1>6, <1>7, <1>8, <1>9 DEF EventInv

LEMMA RemovedSubscription ==
    ASSUME EventInv, NEW id \in 1 .. nextID, Unsubscribe(id), unsubs' \subseteq unsubs,
           UNCHANGED <<nextID, kind, queued, subID, emitVars, got, panics>>
    PROVE  EventInv'
<1>1. /\ callbacks' = Drop(callbacks, id) /\ channels' = Drop(channels, id)
      /\ removed' = removed \cup {id}
      /\ closed' = IF Contains(channels, id) THEN closed \cup {id} ELSE closed
  BY DEF Unsubscribe
<1>2. /\ callbacks' \in Seq(Ids) /\ IsInjective(callbacks')
      /\ channels' \in Seq(Ids) /\ IsInjective(channels')
      /\ ToSet(callbacks') = ToSet(callbacks) \ {id}
      /\ ToSet(channels') = ToSet(channels) \ {id}
  BY <1>1, DropEntry DEF EventInv, EventTypes, Lists
<1>3. Contains(channels, id) => kind[id] = "chan"
  <2> SUFFICES ASSUME Contains(channels, id) PROVE id \in ToSet(channels)
    BY DEF EventInv, Lists
  <2>1. DOMAIN channels = 1 .. Len(channels)
    BY LenProperties DEF EventInv, EventTypes
  <2> QED
    BY <2>1 DEF Contains, ToSet
<1>4. EventTypes'
  BY <1>1, <1>2 DEF EventInv, EventTypes
<1>5. Lists'
  BY <1>1, <1>2 DEF EventInv, Lists
<1>6. \A x \in Ids : kind[x] = "once" => (x \in closed' <=> x \in closed)
  BY <1>1, <1>3
<1>7. Queues' /\ OnceGetsOne'
  BY <1>6 DEF EventInv, Queues, OnceGetsOne
<1>8. nextID <= nextID' /\ \A x \in 1 .. nextID : kind'[x] = kind[x]
  BY DEF EventInv, EventTypes
<1>9. Emits' /\ Given'
  BY <1>8, EmitsFrame
<1> QED
  BY <1>4, <1>5, <1>7, <1>9 DEF EventInv


\* An Emit that another goroutine is in keeps what it relies on.
LEMMA OtherEmit ==
    ASSUME EventInv, NEW f \in Emitters, Under(f),
           val'[f] = val[f], pos'[f] = pos[f], todo'[f] = todo[f],
           emitted <= emitted', emitted' \in Nat, kind' = kind,
           live'[val[f]] = live[val[f]], val[f] \notin finished',
           \A id \in Ids : /\ GivenOnce(id, val[f]) => GivenOnce(id, val[f])'
                           /\ NotGiven(id, val[f]) => NotGiven(id, val[f])'
    PROVE  Under(f)'
<1>1. \A j \in 1 .. Len(todo[f]) : todo[f][j] \in Ids
  BY ElementOfSeq DEF EventInv, EventTypes
<1>2. val'[f] \in 1 .. emitted' /\ val'[f] \notin finished'
  BY DEF Under, EventInv, EventTypes
<1>3. /\ pos'[f] \in 1 .. Len(todo'[f]) + 1
      /\ IsInjective(todo'[f]) /\ ToSet(todo'[f]) = live'[val'[f]]
  BY DEF Under
<1>4. ASSUME NEW j \in 1 .. Len(todo'[f]), kind'[todo'[f][j]] = "callback"
      PROVE  IF j < pos'[f] THEN GivenOnce(todo[f][j], val[f])'
                            ELSE NotGiven(todo[f][j], val[f])'
  <2>1. j \in 1 .. Len(todo[f]) /\ todo[f][j] \in Ids /\ kind[todo[f][j]] = "callback"
    BY <1>1, <1>4
  <2>2. IF j < pos[f] THEN GivenOnce(todo[f][j], val[f]) ELSE NotGiven(todo[f][j], val[f])
    BY <2>1 DEF Under
  <2> QED
    BY <2>1, <2>2
<1> QED
  BY <1>2, <1>3, <1>4 DEF Under

LEMMA EmitBegins ==
    ASSUME EventInv, NEW e \in Emitters, Emit(e)
    PROVE  EventInv'
<1> USE EventsAssumption
<1> DEFINE v == emitted + 1
           s == callbacks \o channels
<1>1. /\ emitted \in 0 .. MaxEmit /\ emitted' = v /\ v \in Values /\ v \in 1 .. MaxEmit
      /\ nextID \in 0 .. MaxSubs
      /\ pos[e] = 0
  BY DEF Emit, EventInv, EventTypes, Values
<1>2. /\ val' = [val EXCEPT ![e] = v] /\ pos' = [pos EXCEPT ![e] = 1]
      /\ todo' = [todo EXCEPT ![e] = s]
      /\ live' = [live EXCEPT ![v] = (1 .. nextID) \ removed]
      /\ UNCHANGED <<subVars, closed, queued, subID, unsubs, finished, removed, got, panics>>
  BY <1>1 DEF Emit
<1>3. s \in Seq(Ids) /\ IsInjective(s) /\ ToSet(s) = (1 .. nextID) \ removed
  <2>1. \A id \in 1 .. nextID : id \in Ids /\ kind[id] \in {"callback", "chan", "once"}
    BY <1>1 DEF EventInv, EventTypes, Lists, Ids
  <2>2. ToSet(callbacks) \cap ToSet(channels) = {}
    BY DEF EventInv, Lists
  <2>3. /\ s \in Seq(Ids) /\ IsInjective(s)
        /\ ToSet(s) = ToSet(callbacks) \cup ToSet(channels)
    BY <2>2, ConcatEntries DEF EventInv, EventTypes, Lists
  <2>4. ToSet(callbacks) \cup ToSet(channels) = (1 .. nextID) \ removed
    BY <2>1 DEF EventInv, Lists
  <2> QED
    BY <2>3, <2>4
<1> HIDE DEF s
<1>4. EventTypes'
  <2> DEFINE L == (1 .. nextID) \ removed
  <2>0. L \in SUBSET Ids /\ L \subseteq 1 .. nextID
    BY <1>1 DEF Ids
  <2>1. /\ live' \in [Values -> SUBSET Ids]
        /\ \A w \in Values : live'[w] \subseteq 1 .. nextID /\ (w > emitted' => live'[w] = {})
    <3>1. live \in [Values -> SUBSET Ids] /\ live' = [live EXCEPT ![v] = L]
      BY <1>2 DEF EventInv, EventTypes
    <3> HIDE DEF L
    <3>2. live' \in [Values -> SUBSET Ids]
      BY <2>0, <3>1
    <3>3. ASSUME NEW w \in Values
          PROVE  live'[w] \subseteq 1 .. nextID /\ (w > emitted' => live'[w] = {})
      <4>1. live[w] \subseteq 1 .. nextID /\ (w > emitted => live[w] = {})
        BY DEF EventInv, EventTypes
      <4>2. w \in Nat /\ (w > emitted' => w > emitted /\ w # v)
        BY <1>1 DEF Values
      <4> QED
        BY <1>1, <2>0, <3>1, <4>1, <4>2
    <3> QED
      BY <3>2, <3>3
  <2>2. todo' \in [Emitters -> Seq(Ids)]
    BY <1>2, <1>3 DEF EventInv, EventTypes
  <2>3. pos' \in [Emitters -> Nat] /\ val' \in [Emitters -> Nat]
    BY <1>1, <1>2 DEF EventInv, EventTypes
  <2>4. emitted' \in 0 .. MaxEmit /\ finished' \subseteq 1 .. emitted'
    BY <1>1, <1>2 DEF EventInv, EventTypes
  <2> QED
    BY <1>2, <2>1, <2>2, <2>3, <2>4 DEF EventInv, EventTypes
<1>5. Lists' /\ Queues' /\ OnceGetsOne'
  BY <1>2 DEF EventInv, Lists, Queues, OnceGetsOne
<1>6. /\ \A w \in 1 .. emitted : w # v /\ w \in Values /\ live'[w] = live[w]
      /\ live'[v] = (1 .. nextID) \ removed
      /\ v \notin finished
  BY <1>1, <1>2 DEF EventInv, EventTypes, Values
<1>7. \A id \in Ids : NotGiven(id, v)
  BY <1>1, <1>6, LenProperties, ElementOfSeq DEF EventInv, EventTypes, Given, NotGiven, Values
<1>8. \A x, w : (GivenOnce(x, w)' <=> GivenOnce(x, w)) /\ (NotGiven(x, w)' <=> NotGiven(x, w))
  BY <1>2 DEF GivenOnce, NotGiven
<1>9. val'[e] = v /\ pos'[e] = 1 /\ todo'[e] = s
  BY <1>2 DEF EventInv, EventTypes
<1>10. \A f \in Emitters \ {e} : val'[f] = val[f] /\ pos'[f] = pos[f] /\ todo'[f] = todo[f]
  BY <1>2 DEF EventInv, EventTypes
<1>11. Under(e)'
  <2>1. Len(s) \in Nat /\ \A j \in 1 .. Len(s) : s[j] \in Ids
    BY <1>3, LenProperties, ElementOfSeq
  <2>2. \A j \in 1 .. Len(s) : ~(j < 1) /\ NotGiven(s[j], v)
    BY <1>7, <2>1
  <2>3. \A j \in 1 .. Len(todo'[e]) : NotGiven(todo[e][j], val[e])'
    BY <1>2, <1>9, <2>2 DEF NotGiven
  <2>4. \A j \in 1 .. Len(todo'[e]) : kind'[todo'[e][j]] = "callback" =>
          IF j < pos'[e] THEN GivenOnce(todo[e][j], val[e])'
                         ELSE NotGiven(todo[e][j], val[e])'
    BY <1>9, <2>2, <2>3
  <2>5. val'[e] \in 1 .. emitted' /\ val'[e] \notin finished'
    BY <1>1, <1>2, <1>6, <1>9
  <2>6. pos'[e] \in 1 .. Len(todo'[e]) + 1
    BY <1>9, <2>1
  <2>7. IsInjective(todo'[e]) /\ ToSet(todo'[e]) = live'[val'[e]]
    <3> HIDE DEF v
    <3> QED
      BY <1>3, <1>6, <1>9
  <2> QED
    BY <2>4, <2>5, <2>6, <2>7 DEF Under
<1>12. ASSUME NEW f \in Emitters \ {e}, pos[f] # 0 PROVE Under(f)' /\ val[f] # v
  <2>1. Under(f) /\ val[f] \in 1 .. emitted /\ val[f] \notin finished
    BY <1>12 DEF EventInv, Emits, Under
  <2> QED
    BY <1>1, <1>2, <1>6, <1>8, <1>10, <2>1, OtherEmit
<1>13. Emits'
  BY <1>9, <1>10, <1>11, <1>12 DEF EventInv, Emits
<1>14. Given'
  <2>1. \A id \in Ids : \A j \in DOMAIN got[id] :
           got[id][j] <= emitted' /\ id \in live'[got[id][j]]
    <3> TAKE id \in Ids
    <3> TAKE j \in DOMAIN got[id]
    <3>1. got[id][j] \in Values /\ got[id][j] <= emitted /\ id \in live[got[id][j]]
      BY LenProperties, ElementOfSeq DEF EventInv, EventTypes, Given
    <3>2. got[id][j] \in 1 .. emitted
      BY <1>1, <3>1 DEF Values
    <3> QED
      BY <1>1, <1>6, <3>1, <3>2
  <2>2. ASSUME NEW w \in Values, NEW id \in Ids, <<w, id>> \in panics
        PROVE  id \in live'[w]
    <3>1. id \in live[w]
      BY <2>2 DEF EventInv, Given
    <3>2. v > emitted /\ v \in Values
      BY <1>1
    <3>3. live[v] = {}
      <4> HIDE DEF v
      <4> QED
        BY <3>2 DEF EventInv, EventTypes
    <3> QED
      BY <1>2, <3>1, <3>3 DEF EventInv, EventTypes
  <2>3. \A w \in finished : \A id \in live'[w] : kind[id] = "callback" => GivenOnce(id, w)
    BY <1>6 DEF EventInv, EventTypes, Given
  <2> QED
    BY <1>2, <1>8, <2>1, <2>2, <2>3 DEF Given
<1> QED
  BY <1>4, <1>5, <1>13, <1>14 DEF EventInv


\* An Emit passes an entry of its copies: a callback is given the value, a channel
\* may be.
LEMMA EntryPassed ==
    ASSUME EventInv, NEW e \in Emitters, pos[e] \in 1 .. Len(todo[e]), Advance(e),
           UNCHANGED <<nextID, kind, panics>>,
           \/ Give(Entry(e), val[e])
           \/ kind[Entry(e)] # "callback" /\ got' = got
    PROVE  Emits' /\ Given' /\ got' \in [Ids -> Seq(Values)]
<1> SUFFICES ASSUME NEW id \in Ids, NEW v \in Values, Entry(e) = id, val[e] = v
             PROVE  Emits' /\ Given' /\ got' \in [Ids -> Seq(Values)]
  BY EntryLive
<1>1. /\ pos[e] # 0 /\ Under(e) /\ id \in live[v]
      /\ \A j \in 1 .. Len(todo[e]) : todo[e][j] = id => j = pos[e]
  BY EntryLive
<1>2. /\ pos' = [pos EXCEPT ![e] = @ + 1]
      /\ UNCHANGED <<todo, val, emitted, finished, live, kind, panics>>
  BY DEF Advance
<1>3. /\ pos[e] \in Nat /\ pos'[e] = pos[e] + 1
      /\ \A f \in Emitters \ {e} : pos'[f] = pos[f]
  BY <1>2 DEF EventInv, EventTypes
<1>4. emitted \in Nat /\ v \in 1 .. emitted /\ v \notin finished
  BY <1>1, EventsAssumption DEF Under, EventInv, EventTypes
<1>5. /\ Len(todo[e]) \in Nat
      /\ \A j \in 1 .. Len(todo[e]) : todo[e][j] \in Ids
      /\ todo[e][pos[e]] = id
  BY LenProperties, ElementOfSeq DEF EventInv, EventTypes, Entry
\* What the step gives: to id the value v, or nothing.
<1>6. /\ got' \in [Ids -> Seq(Values)]
      /\ \A x \in Ids \ {id} : got'[x] = got[x]
      /\ \A j \in DOMAIN got'[id] :
            got'[id][j] = v \/ (j \in DOMAIN got[id] /\ got'[id][j] = got[id][j])
      /\ kind[id] = "callback" /\ NotGiven(id, v) => GivenOnce(id, v)'
      /\ \A w \in Values \ {v} : /\ GivenOnce(id, w) => GivenOnce(id, w)'
                                 /\ NotGiven(id, w) => NotGiven(id, w)'
  <2>1. CASE Give(id, v)
    BY <2>1, GiveValue DEF EventInv
  <2>2. CASE kind[id] # "callback" /\ got' = got
    BY <2>2 DEF EventInv, EventTypes, GivenOnce, NotGiven
  <2> QED
    BY <2>1, <2>2
<1>7. \A x \in Ids \ {id}, w \in Values : /\ GivenOnce(x, w) => GivenOnce(x, w)'
                                          /\ NotGiven(x, w) => NotGiven(x, w)'
  BY <1>6 DEF GivenOnce, NotGiven
<1>8. \A x \in Ids, w \in Values \ {v} : /\ GivenOnce(x, w) => GivenOnce(x, w)'
                                         /\ NotGiven(x, w) => NotGiven(x, w)'
  BY <1>6, <1>7
<1>9. Under(e)'
  <2>1. val'[e] \in 1 .. emitted' /\ val'[e] \notin finished'
    BY <1>2, <1>4
  <2>2. pos'[e] \in 1 .. Len(todo'[e]) + 1
    BY <1>2, <1>3, <1>5
  <2>3. IsInjective(todo'[e]) /\ ToSet(todo'[e]) = live'[val'[e]]
    BY <1>1, <1>2 DEF Under
  <2>4. ASSUME NEW j \in 1 .. Len(todo[e]), NEW x \in Ids, todo[e][j] = x, kind[x] = "callback"
        PROVE  IF j < pos[e] + 1 THEN GivenOnce(x, v)' ELSE NotGiven(x, v)'
    <3>0. IF j < pos[e] THEN GivenOnce(x, v) ELSE NotGiven(x, v)
      BY <1>1, <2>4 DEF Under
    <3>1. CASE j = pos[e]
      BY <1>5, <1>6, <2>4, <3>0, <3>1
    <3>2. CASE j # pos[e]
      <4>1. x # id /\ (j < pos[e] + 1 <=> j < pos[e])
        BY <1>1, <1>5, <2>4, <3>2
      <4> QED
        BY <1>7, <3>0, <4>1
    <3> QED
      BY <3>1, <3>2
  <2>5. \A j \in 1 .. Len(todo'[e]) : kind'[todo'[e][j]] = "callback" =>
          IF j < pos'[e] THEN GivenOnce(todo[e][j], val[e])'
                         ELSE NotGiven(todo[e][j], val[e])'
    <3> SUFFICES ASSUME NEW j \in 1 .. Len(todo[e]), NEW x \in Ids, todo[e][j] = x,
                        kind[x] = "callback"
                 PROVE  IF j < pos[e] + 1 THEN GivenOnce(todo[e][j], val[e])'
                                          ELSE NotGiven(todo[e][j], val[e])'
      BY <1>2, <1>3, <1>5
    <3>1. todo'[e][j] = x /\ val'[e] = v
      BY <1>2
    <3>2. IF j < pos[e] + 1 THEN GivenOnce(x, v)' ELSE NotGiven(x, v)'
      BY <2>4
    <3> QED
      BY <3>1, <3>2 DEF GivenOnce, NotGiven
  <2> QED
    BY <2>1, <2>2, <2>3, <2>5 DEF Under
<1>10. ASSUME NEW f \in Emitters \ {e}, pos[f] # 0 PROVE Under(f)'
  <2>1. Under(f) /\ val[f] # v
    BY <1>1, <1>10 DEF EventInv, Emits
  <2>2. val[f] \in Values /\ val[f] \notin finished
    BY <2>1, EventsAssumption DEF Under, EventInv, EventTypes, Values
  <2>3. \A x \in Ids : /\ GivenOnce(x, val[f]) => GivenOnce(x, val[f])'
                       /\ NotGiven(x, val[f]) => NotGiven(x, val[f])'
    <3> SUFFICES ASSUME NEW w \in Values \ {v}, val[f] = w
                 PROVE  \A x \in Ids : /\ GivenOnce(x, w) => GivenOnce(x, val[f])'
                                       /\ NotGiven(x, w) => NotGiven(x, val[f])'
      BY <2>1, <2>2
    <3>1. val'[f] = w
      BY <1>2
    <3> QED
      BY <1>8, <3>1 DEF GivenOnce, NotGiven
  <2> QED
    BY <1>2, <1>3, <1>4, <2>1, <2>2, <2>3, OtherEmit
<1>11. Emits'
  <2>1. \A f \in Emitters : pos'[f] # 0 <=> pos[f] # 0
    <3>1. pos'[e] # 0
      BY <1>3
    <3> QED
      BY <1>1, <1>3, <3>1
  <2>2. ASSUME NEW f \in Emitters
        PROVE  IF pos'[f] = 0 THEN todo'[f] = <<>> /\ val'[f] = 0 ELSE Under(f)'
    BY <1>2, <1>9, <1>10, <2>1 DEF EventInv, Emits
  <2>3. \A f, g \in Emitters : pos'[f] # 0 /\ pos'[g] # 0 /\ val'[f] = val'[g] => f = g
    BY <1>2, <2>1 DEF EventInv, Emits
  <2> QED
    BY <2>2, <2>3 DEF Emits
<1>12. Given'
  <2>1. ASSUME NEW x \in Ids, NEW j \in DOMAIN got'[x]
        PROVE  got'[x][j] <= emitted /\ x \in live[got'[x][j]]
    <3>1. CASE x = id /\ got'[x][j] = v
      BY <1>1, <1>4, <3>1
    <3>2. CASE j \in DOMAIN got[x] /\ got'[x][j] = got[x][j]
      BY <3>2 DEF EventInv, Given
    <3> QED
      BY <1>6, <2>1, <3>1, <3>2
  <2>2. ASSUME NEW w \in finished, NEW x \in live[w], kind[x] = "callback"
        PROVE  GivenOnce(x, w)'
    <3>1. w \in Values \ {v} /\ x \in Ids
      BY <1>4, EventsAssumption DEF EventInv, EventTypes, Values
    <3>2. GivenOnce(x, w)
      BY <2>2 DEF EventInv, Given
    <3> QED
      BY <1>8, <3>1, <3>2
  <2> QED
    BY <1>2, <2>1, <2>2 DEF EventInv, Given
<1> QED
  BY <1>6, <1>11, <1>12


\* An Emit returns, or ends in a panic.
LEMMA EmitEnds ==
    ASSUME EventInv, NEW e \in Emitters, pos[e] # 0, Leave(e),
           UNCHANGED <<subVars, closed, queued, subID, unsubs, removed, got>>,
           \/ /\ pos[e] > Len(todo[e]) /\ finished' = finished \cup {val[e]}
              /\ panics' = panics
           \/ /\ pos[e] \in 1 .. Len(todo[e]) /\ finished' = finished
              /\ panics' = panics \cup {<<val[e], Entry(e)>>}
    PROVE  EventInv'
<1>1. Under(e) /\ val[e] \in Values /\ val[e] \in 1 .. emitted
  BY EventsAssumption DEF EventInv, Emits, Under, EventTypes, Values
<1>2. /\ pos'[e] = 0 /\ todo'[e] = <<>> /\ val'[e] = 0
      /\ \A f \in Emitters \ {e} : pos'[f] = pos[f] /\ todo'[f] = todo[f] /\ val'[f] = val[f]
      /\ UNCHANGED <<emitted, live>>
  BY DEF Leave, EventInv, EventTypes
<1>3. finished' = finished \/ finished' = finished \cup {val[e]}
  OBVIOUS
<1>4. EventTypes'
  <2>1. pos' \in [Emitters -> Nat] /\ val' \in [Emitters -> Nat] /\ todo' \in [Emitters -> Seq(Ids)]
    BY EmptySeq DEF Leave, EventInv, EventTypes
  <2> QED
    BY <1>1, <1>2, <1>3, <2>1 DEF EventInv, EventTypes
<1>5. Lists' /\ Queues' /\ OnceGetsOne'
  BY DEF EventInv, Lists, Queues, OnceGetsOne
<1>6. \A x, w : (GivenOnce(x, w)' <=> GivenOnce(x, w)) /\ (NotGiven(x, w)' <=> NotGiven(x, w))
  BY DEF GivenOnce, NotGiven
<1>7. ASSUME NEW f \in Emitters \ {e}, pos[f] # 0 PROVE Under(f)'
  <2>1. Under(f) /\ val[f] # val[e] /\ val[f] \notin finished'
    BY <1>1, <1>3, <1>7 DEF EventInv, Emits, Under
  <2>2. emitted <= emitted' /\ emitted' \in Nat
    BY <1>2, EventsAssumption DEF EventInv, EventTypes
  <2>3. \A x \in Ids : /\ GivenOnce(x, val[f]) => GivenOnce(x, val[f])'
                       /\ NotGiven(x, val[f]) => NotGiven(x, val[f])'
    BY <1>2 DEF GivenOnce, NotGiven
  <2> QED
    BY <1>2, <2>1, <2>2, <2>3, OtherEmit
<1>8. Emits'
  BY <1>2, <1>7 DEF EventInv, Emits
<1>9. ASSUME NEW w \in finished', NEW x \in live[w], kind[x] = "callback"
      PROVE  GivenOnce(x, w)
  <2>1. CASE w \in finished
    BY <1>9, <2>1 DEF EventInv, Given
  <2>2. CASE w = val[e] /\ pos[e] > Len(todo[e])
    <3>1. DOMAIN todo[e] = 1 .. Len(todo[e]) /\ Len(todo[e]) \in Nat /\ pos[e] \in Nat
      BY LenProperties DEF EventInv, EventTypes
    <3>2. PICK j \in 1 .. Len(todo[e]) : todo[e][j] = x
      BY <1>1, <2>2, <3>1 DEF Under, ToSet
    <3>3. j < pos[e]
      BY <2>2, <3>1
    <3> QED
      BY <1>1, <1>9, <2>2, <3>2, <3>3 DEF Under
  <2>3. w \in finished \/ (w = val[e] /\ pos[e] > Len(todo[e]))
    BY <1>9
  <2> QED
    BY <2>1, <2>2, <2>3
<1>10. ASSUME NEW w \in Values, NEW x \in Ids, <<w, x>> \in panics' PROVE x \in live[w]
  <2>1. CASE <<w, x>> \in panics
    BY <2>1 DEF EventInv, Given
  <2>2. CASE <<w, x>> = <<val[e], Entry(e)>> /\ pos[e] \in 1 .. Len(todo[e])
    BY <2>2, EntryLive
  <2> QED
    BY <1>10, <2>1, <2>2
<1>11. Given'
  BY <1>2, <1>6, <1>9, <1>10 DEF EventInv, Given
<1> QED
  BY <1>4, <1>5, <1>8, <1>11 DEF EventInv

LEMMA PassedTypes ==
    ASSUME EventInv, NEW e \in Emitters, Advance(e), UNCHANGED <<subVars, subID, removed>>,
           got' \in [Ids -> Seq(Values)], queued' \in [Ids -> Nat],
           closed' \cup unsubs' \subseteq 1 .. nextID
    PROVE  EventTypes' /\ Lists'
<1>1. EventTypes
  BY DEF EventInv
<1>2. pos' \in [Emitters -> Nat]
  BY <1>1 DEF Advance, EventTypes
<1>3. closed' \cup unsubs' \cup removed' \subseteq 1 .. nextID'
  BY <1>1 DEF EventTypes
<1>4. UNCHANGED <<todo, val, emitted, finished, live>>
  BY DEF Advance
<1>5. EventTypes'
  BY <1>1, <1>2, <1>3, <1>4 DEF EventTypes
<1>6. Lists'
  BY DEF EventInv, Lists
<1> QED
  BY <1>5, <1>6

\* A channel to which one value is added, within its capacity.
LEMMA QueueGrows ==
    ASSUME EventInv, NEW id \in 1 .. nextID, id \in Ids, UNCHANGED <<nextID, kind>>,
           closed \subseteq closed', queued' = [queued EXCEPT ![id] = @ + 1],
           queued[id] < IF kind[id] = "once" THEN 1 ELSE BufSize,
           kind[id] = "once" => id \in closed'
    PROVE  queued' \in [Ids -> Nat] /\ Queues'
<1>1. queued \in [Ids -> Nat] /\ nextID \in Nat
  BY EventsAssumption DEF EventInv, EventTypes
<1>2. queued' \in [Ids -> Nat]
  BY <1>1
<1> SUFFICES ASSUME NEW x \in Ids
             PROVE  /\ queued'[x] <= IF kind[x] = "once" THEN 1 ELSE BufSize
                    /\ kind[x] = "once" /\ x \notin closed' => queued'[x] = 0
                    /\ x > nextID => queued'[x] = 0
  BY <1>2 DEF Queues
<1>3. CASE x = id
  <2>1. queued'[x] = queued[id] + 1 /\ ~(x > nextID)
    BY <1>1, <1>3
  <2> QED
    BY <1>1, <1>3, <2>1, EventsAssumption
<1>4. CASE x # id
  BY <1>1, <1>4 DEF EventInv, Queues
<1> QED
  BY <1>3, <1>4

\* What the application has subscribed, what a Once has, and a channel.
LEMMA CallbackCalled ==
    ASSUME EventInv, NEW e \in Emitters, CallCallback(e)
    PROVE  EventInv'
<1>1. /\ pos[e] \in 1 .. Len(todo[e]) /\ kind[Entry(e)] = "callback" /\ Entry(e) \in Ids
      /\ Give(Entry(e), val[e]) /\ Advance(e)
      /\ UNCHANGED <<subVars, closed, queued, subID, unsubs, removed, panics>>
  BY EntryLive DEF CallCallback, AtEntry
<1>2. Emits' /\ Given' /\ got' \in [Ids -> Seq(Values)]
  BY <1>1, EntryPassed
<1>3. queued \in [Ids -> Nat] /\ closed \cup unsubs \subseteq 1 .. nextID
  BY DEF EventInv, EventTypes
<1>4. EventTypes' /\ Lists'
  BY <1>1, <1>2, <1>3, PassedTypes
<1>5. Queues' /\ OnceGetsOne'
  BY <1>1 DEF Give, EventInv, EventTypes, Queues, OnceGetsOne
<1> QED
  BY <1>2, <1>4, <1>5 DEF EventInv

LEMMA OnceCalled ==
    ASSUME EventInv, NEW e \in Emitters, CallOnce(e)
    PROVE  EventInv'
<1>1. /\ pos[e] \in 1 .. Len(todo[e]) /\ kind[Entry(e)] = "once" /\ Entry(e) \in Ids
      /\ Entry(e) \in 1 .. nextID /\ val[e] \in Values /\ Advance(e)
      /\ UNCHANGED <<subVars, subID, removed, panics>>
  BY EntryLive DEF CallOnce, AtEntry
<1>2. PICK id \in Ids, v \in Values : Entry(e) = id /\ val[e] = v
  BY <1>1
<1>3. /\ queued \in [Ids -> Nat] /\ closed \cup unsubs \subseteq 1 .. nextID
      /\ subID[id] \in {0, id} /\ got \in [Ids -> Seq(Values)] /\ EventTypes
  BY DEF EventInv, EventTypes
<1>4. CASE id \in closed
  <2>1. UNCHANGED <<got, closed, queued, unsubs>>
    BY <1>2, <1>4 DEF CallOnce
  <2>2. Emits' /\ Given'
    BY <1>1, <2>1, EntryPassed
  <2>3. EventTypes' /\ Lists'
    BY <1>1, <1>3, <2>1, PassedTypes
  <2>4. Queues' /\ OnceGetsOne'
    BY <1>1, <2>1 DEF EventInv, Queues, OnceGetsOne
  <2> QED
    BY <2>2, <2>3, <2>4 DEF EventInv
<1>5. CASE id \notin closed
  <2>1. /\ Give(id, v) /\ closed' = closed \cup {id}
        /\ queued' = [queued EXCEPT ![id] = @ + 1]
        /\ unsubs' = unsubs \cup ({subID[id]} \ {0})
    BY <1>2, <1>5 DEF CallOnce
  <2>2. Emits' /\ Given' /\ got' \in [Ids -> Seq(Values)]
    BY <1>1, <1>2, <2>1, EntryPassed
  <2>3. queued[id] = 0 /\ Len(got[id]) = 0
    BY <1>1, <1>2, <1>5 DEF EventInv, Queues, OnceGetsOne
  <2>4. queued' \in [Ids -> Nat] /\ Queues'
    <3>1. queued[id] < IF kind[id] = "once" THEN 1 ELSE BufSize
      BY <1>1, <1>2, <2>3
    <3> QED
      BY <1>1, <1>2, <2>1, <3>1, QueueGrows
  <2>5. EventTypes' /\ Lists'
    BY <1>1, <1>2, <1>3, <2>1, <2>2, <2>4, PassedTypes
  <2>6. Len(got'[id]) = Len(got[id]) + 1 /\ \A x \in Ids \ {id} : got'[x] = got[x]
    BY <1>3, <2>1, GiveValue
  <2>7. OnceGetsOne'
    <3>1. ASSUME NEW x \in Ids, kind[x] = "once"
          PROVE  Len(got'[x]) = IF x \in closed' THEN 1 ELSE 0
      <4>1. Len(got[x]) = IF x \in closed THEN 1 ELSE 0
        BY <3>1 DEF EventInv, OnceGetsOne
      <4>2. CASE x = id
        BY <2>1, <2>3, <2>6, <4>2
      <4>3. CASE x # id
        BY <2>1, <2>6, <4>1, <4>3
      <4> QED
        BY <4>2, <4>3
    <3> QED
      BY <1>1, <3>1 DEF OnceGetsOne
  <2> QED
    BY <2>2, <2>4, <2>5, <2>7 DEF EventInv
<1> QED
  BY <1>4, <1>5

LEMMA ChannelSent ==
    ASSUME EventInv, NEW e \in Emitters, SendChan(e)
    PROVE  EventInv'
<1>1. /\ pos[e] \in 1 .. Len(todo[e]) /\ kind[Entry(e)] = "chan" /\ Entry(e) \in Ids
      /\ Entry(e) \in 1 .. nextID /\ val[e] \in Values /\ Advance(e)
      /\ UNCHANGED <<subVars, closed, subID, unsubs, removed, panics>>
  BY EntryLive DEF SendChan, AtEntry
<1>2. PICK id \in Ids : Entry(e) = id
  BY <1>1
<1>3. \/ queued[id] < BufSize /\ Give(id, val[e]) /\ queued' = [queued EXCEPT ![id] = @ + 1]
      \/ got' = got /\ queued' = queued
  BY <1>2 DEF SendChan
<1>4. Emits' /\ Given' /\ got' \in [Ids -> Seq(Values)]
  BY <1>1, <1>2, <1>3, EntryPassed
<1>5. /\ queued \in [Ids -> Nat] /\ closed \cup unsubs \subseteq 1 .. nextID
      /\ got \in [Ids -> Seq(Values)]
  BY DEF EventInv, EventTypes
<1>6. queued' \in [Ids -> Nat] /\ Queues'
  <2>1. CASE queued' = queued
    BY <1>1, <1>5, <2>1 DEF EventInv, Queues
  <2>2. CASE queued[id] < BufSize /\ queued' = [queued EXCEPT ![id] = @ + 1]
    BY <1>1, <1>2, <2>2, QueueGrows
  <2> QED
    BY <1>3, <2>1, <2>2
<1>7. EventTypes' /\ Lists'
  BY <1>1, <1>4, <1>5, <1>6, PassedTypes
<1>8. \A x \in Ids \ {id} : got'[x] = got[x]
  BY <1>3, <1>5 DEF Give
<1>9. OnceGetsOne'
  BY <1>1, <1>2, <1>8 DEF EventInv, OnceGetsOne
<1> QED
  BY <1>4, <1>6, <1>7, <1>9 DEF EventInv

\* Every step keeps the invariant.
LEMMA EventNext == EventInv /\ [Next]_vars => EventInv'
<1> SUFFICES ASSUME EventInv, [Next]_vars PROVE EventInv'
  OBVIOUS
<1>1. CASE Subscribe
  BY <1>1, NewSubscription DEF Subscribe, AddCallback
<1>2. CASE Chan
  BY <1>2, NewSubscription DEF Chan
<1>3. CASE Once
  BY <1>3, NewSubscription DEF Once, AddCallback
<1>4. ASSUME NEW id \in Ids, OnceReturns(id) PROVE EventInv'
  <2>1. /\ subID' = [subID EXCEPT ![id] = id]
        /\ UNCHANGED <<subVars, closed, queued, unsubs, emitVars, removed, got, panics>>
    BY <1>4 DEF OnceReturns
  <2>2. subID' \in [Ids -> Nat] /\ \A x \in Ids : subID'[x] \in {0, x}
    BY <2>1 DEF EventInv, EventTypes, Ids
  <2>3. EventTypes'
    BY <2>1, <2>2 DEF EventInv, EventTypes
  <2>4. Lists' /\ Queues' /\ OnceGetsOne'
    BY <2>1 DEF EventInv, Lists, Queues, OnceGetsOne
  <2>5. Emits' /\ Given'
    BY <2>1, EmitsFrame, EventsAssumption DEF EventInv, EventTypes
  <2> QED
    BY <2>3, <2>4, <2>5 DEF EventInv
<1>5. ASSUME NEW id \in Ids, UserUnsubscribe(id) PROVE EventInv'
  <2>1. id \in 1 .. nextID
    BY <1>5, EventsAssumption DEF UserUnsubscribe, EventInv, EventTypes, Lists, Ids
  <2> QED
    BY <1>5, <2>1, RemovedSubscription DEF UserUnsubscribe
<1>6. ASSUME NEW id \in Ids, OnceUnsubscribe(id) PROVE EventInv'
  <2>1. id \in 1 .. nextID
    BY <1>6 DEF OnceUnsubscribe, EventInv, EventTypes
  <2>2. unsubs' \subseteq unsubs
    BY <1>6 DEF OnceUnsubscribe
  <2> QED
    BY <1>6, <2>1, <2>2, RemovedSubscription DEF OnceUnsubscribe
<1>7. ASSUME NEW id \in Ids, Take(id) PROVE EventInv'
  <2>1. /\ queued[id] > 0 /\ queued' = [queued EXCEPT ![id] = @ - 1]
        /\ UNCHANGED <<subVars, closed, subID, unsubs, emitVars, removed, got, panics>>
    BY <1>7 DEF Take
  <2>2. queued' \in [Ids -> Nat] /\ \A x \in Ids : queued'[x] <= queued[x]
    BY <2>1 DEF EventInv, EventTypes
  <2>3. EventTypes'
    BY <2>1, <2>2 DEF EventInv, EventTypes
  <2>4. Lists' /\ OnceGetsOne'
    BY <2>1 DEF EventInv, Lists, OnceGetsOne
  <2>5. Queues'
    <3> SUFFICES ASSUME NEW x \in Ids
                 PROVE  /\ queued'[x] <= IF kind[x] = "once" THEN 1 ELSE BufSize
                        /\ kind[x] = "once" /\ x \notin closed => queued'[x] = 0
                        /\ x > nextID => queued'[x] = 0
      BY <2>1 DEF Queues
    <3>1. queued[x] \in Nat /\ queued'[x] \in Nat /\ queued'[x] <= queued[x]
      BY <2>2 DEF EventInv, EventTypes
    <3> QED
      BY <3>1, EventsAssumption DEF EventInv, Queues
  <2>6. Emits' /\ Given'
    BY <2>1, EmitsFrame, EventsAssumption DEF EventInv, EventTypes
  <2> QED
    BY <2>3, <2>4, <2>5, <2>6 DEF EventInv
<1>8. ASSUME NEW e \in Emitters, Emit(e) PROVE EventInv'
  BY <1>8, EmitBegins
<1>9. ASSUME NEW e \in Emitters, CallCallback(e) PROVE EventInv'
  BY <1>9, CallbackCalled
<1>10. ASSUME NEW e \in Emitters, CallOnce(e) PROVE EventInv'
  BY <1>10, OnceCalled
<1>11. ASSUME NEW e \in Emitters, SendChan(e) PROVE EventInv'
  BY <1>11, ChannelSent
<1>12. ASSUME NEW e \in Emitters, SendPanics(e) PROVE EventInv'
  <2>1. pos[e] \in 1 .. Len(todo[e]) /\ pos[e] # 0
    BY <1>12, EntryLive DEF SendPanics, AtEntry
  <2> QED
    BY <1>12, <2>1, EmitEnds DEF SendPanics
<1>13. ASSUME NEW e \in Emitters, EmitReturns(e) PROVE EventInv'
  <2>1. pos[e] # 0
    BY <1>13 DEF EmitReturns, EventInv, Emits
  <2> QED
    BY <1>13, <2>1, EmitEnds DEF EmitReturns
<1>14. CASE UNCHANGED vars
  <2>1. Emits' /\ Given'
    BY <1>14, EmitsFrame, EventsAssumption DEF EventInv, EventTypes
  <2>2. EventTypes' /\ Lists' /\ Queues' /\ OnceGetsOne'
    BY <1>14 DEF EventInv, EventTypes, Lists, Queues, OnceGetsOne
  <2> QED
    BY <2>1, <2>2 DEF EventInv
<1> QED
  BY <1>1, <1>2, <1>3, <1>4, <1>5, <1>6, <1>7, <1>8, <1>9, <1>10, <1>11, <1>12, <1>13,
     <1>14 DEF Next, EmitStep

-----------------------------------------------------------------------------
(* The theorems *)

LEMMA EventInvariant == Spec => []EventInv
  BY EventInit, EventNext, PTL DEF Spec

\* Every variable of the Event keeps its type; in particular no channel holds more
\* than its capacity and no list holds an id twice, with any number of Emits and
\* Unsubscribes at the same time.
THEOREM EventTypeOK == Spec => []TypeOK
<1>1. EventInv => TypeOK
  <2> SUFFICES ASSUME EventInv PROVE TypeOK
    OBVIOUS
  <2> USE EventsAssumption
  <2>1. EventTypes
    BY DEF EventInv
  <2>2. /\ callbacks \in Seq(Ids) /\ channels \in Seq(Ids)
        /\ IsInjective(callbacks) /\ IsInjective(channels)
        /\ ToSet(callbacks) \cap ToSet(channels) = {}
    BY DEF EventInv, EventTypes, Lists
  <2>3. /\ IsInjective(callbacks \o channels)
        /\ ToSet(callbacks \o channels) = ToSet(callbacks) \cup ToSet(channels)
    BY <2>2, ConcatEntries
  <2>4. ToSet(callbacks \o channels) \subseteq 1 .. nextID
    BY <2>3 DEF EventInv, Lists
  <2>5. ASSUME NEW id \in Ids
        PROVE  /\ queued[id] \in 0 .. IF kind[id] = "once" THEN 1 ELSE BufSize
               /\ subID[id] \in {0, id}
               /\ got[id] \in Seq(1 .. emitted)
    <3>1. queued[id] \in Nat /\ subID[id] \in {0, id} /\ got[id] \in Seq(Values) /\ emitted \in Nat
      BY <2>1 DEF EventTypes
    <3>2. queued[id] \in 0 .. IF kind[id] = "once" THEN 1 ELSE BufSize
      BY <3>1 DEF EventInv, Queues
    <3>3. /\ Len(got[id]) \in Nat /\ DOMAIN got[id] = 1 .. Len(got[id])
          /\ got[id] = [j \in 1 .. Len(got[id]) |-> got[id][j]]
          /\ \A j \in 1 .. Len(got[id]) : got[id][j] \in Values
      BY <3>1, LenProperties, ElementOfSeq
    <3>4. \A j \in 1 .. Len(got[id]) : got[id][j] \in 1 .. emitted
      BY <3>1, <3>3 DEF EventInv, Given, Values
    <3>5. got[id] \in Seq(1 .. emitted)
      BY <3>1, <3>3, <3>4, SeqDef
    <3> QED
      BY <3>1, <3>2, <3>5
  <2>6. ASSUME NEW e \in Emitters
        PROVE  /\ ToSet(todo[e]) \subseteq 1 .. nextID
               /\ pos[e] \in 0 .. Len(todo[e]) + 1
               /\ val[e] \in 0 .. emitted
    <3>1. CASE pos[e] = 0
      BY <2>1, <3>1 DEF EventInv, Emits, EventTypes, ToSet
    <3>2. CASE pos[e] # 0
      <4>1. Under(e) /\ val[e] \in Values
        BY <2>1, <3>2 DEF EventInv, Emits, Under, EventTypes, Values
      <4>2. live[val[e]] \subseteq 1 .. nextID
        BY <2>1, <4>1 DEF EventTypes
      <4>3. Len(todo[e]) \in Nat
        BY <2>1, LenProperties DEF EventTypes
      <4> QED
        BY <2>1, <4>1, <4>2, <4>3 DEF Under, EventTypes
    <3> QED
      BY <3>1, <3>2
  <2> QED
    BY <2>1, <2>3, <2>4, <2>5, <2>6 DEF TypeOK, EventTypes
<1> QED
  BY <1>1, EventInvariant, PTL

\* A Once is given one value, by whichever of the concurrent Emits comes first, and
\* none after its channel is closed.
THEOREM OnceFiresOnce == Spec => []OnceGetsOne
<1>1. EventInv => OnceGetsOne
  BY DEF EventInv
<1> QED
  BY <1>1, EventInvariant, PTL

\* An Emit that has returned has called, exactly once, each callback in force from
\* its start to its end.
THEOREM EmitReachesSubscribers == Spec => []EmitReachesAll
<1>1. EventInv => EmitReachesAll
  BY DEF EventInv, Given, EmitReachesAll
<1> QED
  BY <1>1, EventInvariant, PTL

\* A subscription is given nothing, and its channel is sent nothing, by an Emit that
\* began after it was taken out.
THEOREM RemovedStaysUntouched == Spec => []UnsubscribedUntouched
<1>1. EventInv => UnsubscribedUntouched
  <2> SUFFICES ASSUME EventInv, NEW v \in Values, NEW id \in Ids,
                      Contains(got[id], v) \/ <<v, id>> \in panics
               PROVE  id \in live[v]
    BY DEF UnsubscribedUntouched
  <2>1. DOMAIN got[id] = 1 .. Len(got[id])
    BY LenProperties DEF EventInv, EventTypes
  <2> QED
    BY <2>1 DEF EventInv, Given, Contains
<1> QED
  BY <1>1, EventInvariant, PTL
=============================================================================
