---------------------------- MODULE OrdersProofs ----------------------------
(***************************************************************************)
(* Proofs about orders, trades and fills, for any number of orders,        *)
(* executions and trades, with or without failing writes and a reconnect.  *)
(***************************************************************************)
EXTENDS Orders, SequenceTheorems, TLAPS

USE DEF vars, userVars, stateVars, serverVars

-----------------------------------------------------------------------------
(* The inductive invariant *)

SrvKey(p) == orderKeyFromIDs(srv[p].client, srv[p].oid, p)

\* Trade t is of the server's order p.
Matches(t, p) ==
    IF heap[t].order = NoOrd
    THEN heap[t].perm = p
    ELSE srv[p].client = Me /\ srv[p].oid = oid[heap[t].order]

ServerOrder == [client : {0, Me, Another}, oid : Nat, status : {"Submitted"} \cup Done,
                execs : Nat]

\* The server has no two orders of one client with the same id, and only orders made by
\* hand have none.
ServerInv ==
    /\ srv \in Seq(ServerOrder) /\ Len(srv) <= MaxOrders
    /\ wire \subseteq Nat \ {0}
    /\ \A p \in DOMAIN srv : srv[p].oid = 0 <=> srv[p].client = 0
    /\ \A p, q \in DOMAIN srv :
          srv[p].client = srv[q].client /\ srv[p].oid = srv[q].oid => p = q

\* Order ids are handed out once.
IdInv ==
    /\ \A u \in Ords : oid[u] < seq
    /\ \A u \in Ords : opc[u] # "idle" => oid[u] # 0
    /\ \A u, v \in Ords : oid[u] = oid[v] /\ oid[u] # 0 => u = v
    /\ \A t \in DOMAIN heap : heap[t].order # NoOrd => oid[heap[t].order] # 0

\* Both indexes lead from a server's order only to its own trade.
KeyHolds(k) ==
    LET t == Trades[k] IN
    IF heap[t].order = NoOrd
    THEN heap[t].perm \in DOMAIN srv /\ k \in {SrvKey(heap[t].perm), <<0, heap[t].perm>>}
    ELSE k = <<Me, oid[heap[t].order]>>

PermHolds(p) == p \in DOMAIN srv /\ Matches(PermID2Trade[p], p)

OwnPermHolds(u) ==
    operm[u] # 0 => /\ operm[u] \in DOMAIN srv
                    /\ srv[operm[u]].client = Me /\ srv[operm[u]].oid = oid[u]

KeyInv ==
    /\ \A k \in DOMAIN Trades : KeyHolds(k)
    /\ \A p \in DOMAIN PermID2Trade : PermHolds(p)
    /\ \A u \in Ords : OwnPermHolds(u)

FillInv ==
    /\ \A t \in DOMAIN heap : \A e \in Range(heap[t].fills) :
          e[1] \in DOMAIN srv /\ Matches(t, e[1])
    /\ \A t \in Live : Range(heap[t].fills) \subseteq DOMAIN Fills
    /\ FillRecordedOnce

ReportInv == told \subseteq DOMAIN Fills /\ CommissionKept

\* A trade that is done says so because the server's order is.
StatusInv ==
    /\ SignalledOnce
    /\ \A t \in DOMAIN heap :
          /\ heap[t].status \notin Done => heap[t].filled = 0 /\ heap[t].cancelled = 0
          /\ heap[t].filled = 1 => heap[t].status = "Filled"
          /\ heap[t].cancelled = 1 => heap[t].status = "Cancelled"
          /\ heap[t].status \in Done =>
                \E p \in DOMAIN srv : Matches(t, p) /\ srv[p].status = heap[t].status

OrderInv ==
    TypeOK /\ ServerInv /\ IdInv /\ KeyInv /\ FillInv /\ ReportInv /\ StatusInv

\* On one connection: what has been written has its trade, and a trade that can still be
\* dropped is of an order the server has not seen.
Unsent(u) == opc[u] = "insert" \/ (opc[u] = "send" /\ ~isModify[u])

HomeInv ==
    /\ \A e \in DOMAIN Fills :
          /\ e[1] \in DOMAIN srv
          /\ srv[e[1]].client = Me => \E k \in DOMAIN Trades : e \in Range(heap[Trades[k]].fills)
    /\ \A p \in DOMAIN PermID2Trade : PermID2Trade[p] \in Range(Trades)
    /\ \A k \in DOMAIN Trades : k[1] = 0 => k[2] \in DOMAIN PermID2Trade

SentInv ==
    /\ \A o \in wire : <<Me, o>> \in DOMAIN Trades
    /\ \A p \in DOMAIN srv : srv[p].client = Me => <<Me, srv[p].oid>> \in DOMAIN Trades
    /\ \A u \in Ords : opc[u] = "send" => <<Me, oid[u]>> \in DOMAIN Trades
    /\ \A u \in Ords : Unsent(u) => oid[u] \notin wire /\ ~Known(Me, oid[u])

OwnInv == HomeInv /\ SentInv

\* ... and the trade under a key of this client is one PlaceOrder made.
PlacedInv == \A k \in DOMAIN Trades : k[1] = Me => heap[Trades[k]].order # NoOrd

-----------------------------------------------------------------------------
(* What no step changes: whose a trade is, and the ids of an order *)

Stable ==
    /\ \A t \in DOMAIN heap : /\ t \in DOMAIN heap'
                              /\ heap'[t].order = heap[t].order /\ heap'[t].perm = heap[t].perm
    /\ \A p \in DOMAIN srv : /\ p \in DOMAIN srv'
                             /\ srv'[p].client = srv[p].client /\ srv'[p].oid = srv[p].oid
                             /\ srv[p].status \in Done => srv'[p].status = srv[p].status
    /\ \A u \in Ords : oid[u] # 0 => oid'[u] = oid[u]

LEMMA OrderOf == ASSUME TypeOK, NEW t \in DOMAIN heap
                 PROVE  /\ heap[t] \in TradeType
                        /\ heap[t].order # NoOrd => heap[t].order \in Ords
<1>1. heap[t] \in TradeType
  BY LenProperties, ElementOfSeq DEF TypeOK
<1> QED
  BY <1>1 DEF TradeType

LEMMA MatchesKept ==
    ASSUME TypeOK, IdInv, Stable, NEW t \in DOMAIN heap, NEW p \in DOMAIN srv
    PROVE  Matches(t, p)' <=> Matches(t, p)
<1>1. heap[t].order # NoOrd => oid'[heap[t].order] = oid[heap[t].order]
  BY OrderOf DEF IdInv, Stable
<1> QED
  BY <1>1 DEF Matches, Stable

LEMMA SrvKeyKept ==
    ASSUME Stable, NEW p \in DOMAIN srv
    PROVE  SrvKey(p)' = SrvKey(p)
BY DEF SrvKey, Stable, orderKeyFromIDs

\* A trade is of one order of the server at most.
LEMMA MatchesOne ==
    ASSUME ServerInv, NEW t, NEW p \in DOMAIN srv, NEW q \in DOMAIN srv, Matches(t, p), Matches(t, q)
    PROVE  p = q
BY DEF ServerInv, Matches

LEMMA ServerOrderOf == ASSUME ServerInv, NEW p \in DOMAIN srv
                       PROVE  srv[p] \in ServerOrder /\ p \in Perms
<1>1. Len(srv) \in Nat /\ DOMAIN srv = 1 .. Len(srv) /\ Len(srv) <= MaxOrders
  BY LenProperties DEF ServerInv
<1> QED
  BY <1>1, ElementOfSeq, BoundsAssumption DEF ServerInv, Perms

\* The trade a message about p leads to, by its key ...
LEMMA KeyLeadsHome ==
    ASSUME OrderInv, NEW p \in DOMAIN srv, NEW k \in {SrvKey(p), <<0, p>>}, k \in DOMAIN Trades
    PROVE  Trades[k] \in DOMAIN heap /\ Matches(Trades[k], p)
<1> DEFINE t == Trades[k]
           q == heap[t].perm
<1>1. t \in DOMAIN heap
  BY DEF OrderInv, TypeOK
<1>2. srv[p] \in ServerOrder
  BY ServerOrderOf DEF OrderInv
<1>3. k = <<0, p>> \/ (srv[p].client # 0 /\ srv[p].oid > 0 /\ k = <<srv[p].client, srv[p].oid>>)
  BY <1>2 DEF OrderInv, ServerInv, ServerOrder, SrvKey, orderKeyFromIDs
<1>4. CASE heap[t].order = NoOrd
  <2>1. q \in DOMAIN srv /\ k \in {SrvKey(q), <<0, q>>}
    BY <1>4 DEF OrderInv, KeyInv, KeyHolds
  <2>2. srv[q] \in ServerOrder
    BY <2>1, ServerOrderOf DEF OrderInv
  <2>3. k = <<0, q>> \/ (srv[q].client # 0 /\ srv[q].oid > 0 /\ k = <<srv[q].client, srv[q].oid>>)
    BY <2>1, <2>2 DEF OrderInv, ServerInv, ServerOrder, SrvKey, orderKeyFromIDs
  <2>4. p = q
    BY <1>3, <2>1, <2>3 DEF OrderInv, ServerInv
  <2> QED
    BY <1>1, <1>4, <2>4 DEF Matches
<1>5. CASE heap[t].order # NoOrd
  <2>1. k = <<Me, oid[heap[t].order]>>
    BY <1>5 DEF OrderInv, KeyInv, KeyHolds
  <2> QED
    BY <1>1, <1>3, <1>5, <2>1 DEF Matches, Me
<1> QED
  BY <1>4, <1>5

\* ... or by its permId.
LEMMA PermLeadsHome ==
    ASSUME OrderInv, NEW p \in DOMAIN PermID2Trade
    PROVE  /\ p \in DOMAIN srv /\ PermID2Trade[p] \in DOMAIN heap
           /\ Matches(PermID2Trade[p], p)
BY DEF OrderInv, TypeOK, KeyInv, PermHolds

LEMMA LiveInHeap == ASSUME TypeOK PROVE Live \subseteq DOMAIN heap
BY DEF TypeOK, Live, Range

-----------------------------------------------------------------------------
(* Frames *)

LEMMA KeysKept ==
    ASSUME OrderInv, Stable,
           \A k \in DOMAIN Trades' :
              KeyHolds(k)' \/ (k \in DOMAIN Trades /\ Trades'[k] = Trades[k]),
           \A p \in DOMAIN PermID2Trade' :
              \/ PermHolds(p)'
              \/ p \in DOMAIN PermID2Trade /\ PermID2Trade'[p] = PermID2Trade[p],
           \A u \in Ords : OwnPermHolds(u)' \/ operm'[u] = operm[u]
    PROVE  KeyInv'
<1>1. ASSUME NEW k \in DOMAIN Trades, Trades'[k] = Trades[k] PROVE KeyHolds(k)'
  <2>1. PICK t \in DOMAIN heap : Trades[k] = t
    BY DEF OrderInv, TypeOK
  <2>2. KeyHolds(k)
    BY DEF OrderInv, KeyInv
  <2>3. heap'[t].order = heap[t].order /\ heap'[t].perm = heap[t].perm
    BY DEF Stable
  <2>4. CASE heap[t].order = NoOrd
    <3>1. PICK q \in DOMAIN srv : heap[t].perm = q /\ k \in {SrvKey(q), <<0, q>>}
      BY <2>1, <2>2, <2>4 DEF KeyHolds
    <3>2. q \in DOMAIN srv' /\ k \in {SrvKey(q)', <<0, q>>}
      BY <3>1, SrvKeyKept DEF Stable
    <3> QED
      BY <1>1, <2>1, <2>3, <2>4, <3>1, <3>2 DEF KeyHolds, SrvKey
  <2>5. CASE heap[t].order # NoOrd
    <3>1. oid'[heap[t].order] = oid[heap[t].order]
      BY <2>5, OrderOf DEF OrderInv, IdInv, Stable
    <3> QED
      BY <1>1, <2>1, <2>2, <2>3, <2>5, <3>1 DEF KeyHolds
  <2> QED
    BY <2>4, <2>5
<1>2. ASSUME NEW p \in DOMAIN PermID2Trade, PermID2Trade'[p] = PermID2Trade[p]
      PROVE  PermHolds(p)'
  <2>1. PICK t \in DOMAIN heap : PermID2Trade[p] = t
    BY DEF OrderInv, TypeOK
  <2>2. p \in DOMAIN srv /\ Matches(t, p)
    BY <2>1 DEF OrderInv, KeyInv, PermHolds
  <2>3. p \in DOMAIN srv' /\ Matches(t, p)'
    BY <2>2, MatchesKept DEF Stable, OrderInv
  <2> QED
    BY <1>2, <2>1, <2>3 DEF PermHolds, Matches
<1>3. ASSUME NEW u \in Ords, operm'[u] = operm[u] PROVE OwnPermHolds(u)'
  <2> SUFFICES ASSUME NEW q, operm[u] = q, q # 0
               PROVE  q \in DOMAIN srv' /\ srv'[q].client = Me /\ srv'[q].oid = oid'[u]
    BY <1>3 DEF OwnPermHolds
  <2>1. q \in DOMAIN srv /\ srv[q].client = Me /\ srv[q].oid = oid[u]
    BY DEF OrderInv, KeyInv, OwnPermHolds
  <2>2. oid[u] # 0
    BY <2>1 DEF OrderInv, ServerInv, Me
  <2> QED
    BY <2>1, <2>2 DEF Stable
<1> QED
  BY <1>1, <1>2, <1>3 DEF KeyInv

\* A trade as it is made: not done, or about an order that is.
Fresh(t) ==
    /\ heap[t].fills = <<>> /\ heap[t].filled = 0 /\ heap[t].cancelled = 0
    /\ heap[t].status \in Done =>
          /\ heap[t].order = NoOrd /\ heap[t].perm \in DOMAIN srv
          /\ srv[heap[t].perm].status = heap[t].status

\* A step that changes no trade, though it may make one.
LEMMA TradesKept ==
    ASSUME OrderInv, Stable,
           \A t \in DOMAIN heap : heap'[t] = heap[t],
           \A t \in DOMAIN heap' : t \in DOMAIN heap \/ Fresh(t)',
           Live' \subseteq Live \cup (DOMAIN heap' \ DOMAIN heap),
           DOMAIN Fills \subseteq DOMAIN Fills' \/ Live' = {}
    PROVE  FillInv' /\ StatusInv'
<1>1. ASSUME NEW t \in DOMAIN heap' \ DOMAIN heap
      PROVE  heap'[t].fills = <<>> /\ Range(heap'[t].fills) = {}
  BY DEF Fresh, Range
<1>2. ASSUME NEW t \in DOMAIN heap', NEW e \in Range(heap'[t].fills)
      PROVE  e[1] \in DOMAIN srv' /\ Matches(t, e[1])'
  <2>1. t \in DOMAIN heap /\ e \in Range(heap[t].fills)
    BY <1>1, <1>2
  <2>2. PICK p \in DOMAIN srv : e[1] = p /\ Matches(t, p)
    BY <2>1 DEF OrderInv, FillInv
  <2>3. p \in DOMAIN srv' /\ Matches(t, p)'
    BY <2>1, <2>2, MatchesKept DEF Stable, OrderInv
  <2> QED
    BY <2>2, <2>3
<1>3. Live \subseteq DOMAIN heap
  BY LiveInHeap DEF OrderInv
<1>4. ASSUME NEW t \in Live' PROVE Range(heap'[t].fills) \subseteq DOMAIN Fills'
  BY <1>1, <1>3, <1>4 DEF OrderInv, FillInv
<1>5. FillRecordedOnce'
  <2>1. ASSUME NEW t \in DOMAIN heap' PROVE IsInjective(heap'[t].fills)
    <3>1. CASE t \in DOMAIN heap
      BY <3>1 DEF OrderInv, FillInv, FillRecordedOnce
    <3>2. CASE t \notin DOMAIN heap
      BY <1>1, <3>2 DEF IsInjective
    <3> QED
      BY <3>1, <3>2
  <2>2. ASSUME NEW x \in Live', NEW y \in Live', x # y
        PROVE  Range(heap'[x].fills) \cap Range(heap'[y].fills) = {}
    <3>1. CASE x \in Live /\ y \in Live
      BY <1>3, <2>2, <3>1 DEF OrderInv, FillInv, FillRecordedOnce
    <3>2. CASE x \notin Live \/ y \notin Live
      BY <1>1, <2>2, <3>2
    <3> QED
      BY <3>1, <3>2
  <2> QED
    BY <2>1, <2>2 DEF FillRecordedOnce
<1>6. FillInv'
  BY <1>2, <1>4, <1>5 DEF FillInv
<1>7. ASSUME NEW t \in DOMAIN heap', heap'[t].status \in Done
      PROVE  \E p \in DOMAIN srv' : Matches(t, p)' /\ srv'[p].status = heap'[t].status
  <2>1. CASE t \in DOMAIN heap
    <3>1. PICK p \in DOMAIN srv : Matches(t, p) /\ srv[p].status = heap[t].status
      BY <1>7, <2>1 DEF OrderInv, StatusInv
    <3>2. p \in DOMAIN srv' /\ Matches(t, p)' /\ srv'[p].status = srv[p].status
      BY <1>7, <2>1, <3>1, MatchesKept DEF Stable, OrderInv
    <3> QED
      BY <2>1, <3>1, <3>2
  <2>2. CASE t \notin DOMAIN heap
    <3>1. PICK q \in DOMAIN srv' : heap'[t].perm = q /\ srv'[q].status = heap'[t].status
      BY <1>7, <2>2 DEF Fresh
    <3>2. Matches(t, q)'
      BY <1>7, <2>2, <3>1 DEF Fresh, Matches
    <3> QED
      BY <3>1, <3>2
  <2> QED
    BY <2>1, <2>2
<1>8. ASSUME NEW t \in DOMAIN heap'
      PROVE  /\ heap'[t].status \notin Done => heap'[t].filled = 0 /\ heap'[t].cancelled = 0
             /\ heap'[t].filled = 1 => heap'[t].status = "Filled"
             /\ heap'[t].cancelled = 1 => heap'[t].status = "Cancelled"
  BY DEF OrderInv, StatusInv, Fresh
<1>9. SignalledOnce'
  <2> SUFFICES ASSUME NEW t \in DOMAIN heap'
               PROVE  /\ heap'[t].filled + heap'[t].cancelled <= 1
                      /\ heap'[t].order # NoOrd =>
                            /\ (heap'[t].status = "Filled") <=> (heap'[t].filled = 1)
                            /\ (heap'[t].status = "Cancelled") <=> (heap'[t].cancelled = 1)
    BY DEF SignalledOnce
  <2>1. CASE t \in DOMAIN heap
    BY <2>1 DEF OrderInv, StatusInv, SignalledOnce
  <2>2. CASE t \notin DOMAIN heap
    BY <2>2 DEF Fresh, Done
  <2> QED
    BY <2>1, <2>2
<1>10. StatusInv'
  BY <1>7, <1>8, <1>9 DEF StatusInv
<1> QED
  BY <1>6, <1>10

\* A step of the user or the server that leaves OrderState alone.
LEMMA StateKept ==
    ASSUME OrderInv, Stable, UNCHANGED <<stateVars, operm>>
    PROVE  KeyInv' /\ FillInv' /\ StatusInv'
<1>1. KeyInv'
  BY KeysKept
<1>2. Live' = Live
  BY DEF Live
<1>3. FillInv' /\ StatusInv'
  BY <1>2, TradesKept
<1> QED
  BY <1>1, <1>3

LEMMA HeapGrows ==
    ASSUME TypeOK, NEW tr \in TradeType
    PROVE  /\ Append(heap, tr) \in Seq(TradeType)
           /\ DOMAIN Append(heap, tr) = DOMAIN heap \cup {Len(heap) + 1}
           /\ Len(heap) + 1 \notin DOMAIN heap
           /\ \A t \in DOMAIN heap : Append(heap, tr)[t] = heap[t]
           /\ Append(heap, tr)[Len(heap) + 1] = tr
<1> DEFINE h == Append(heap, tr)
<1>1. /\ heap \in Seq(TradeType) /\ DOMAIN heap = 1 .. Len(heap) /\ Len(heap) \in Nat
  BY LenProperties DEF TypeOK
<1>2. /\ h \in Seq(TradeType) /\ Len(h) = Len(heap) + 1
      /\ \A i \in 1 .. Len(heap) : h[i] = heap[i]
      /\ h[Len(heap) + 1] = tr
  BY <1>1, AppendProperties
<1> HIDE DEF h
<1>3. DOMAIN h = 1 .. Len(heap) + 1
  BY <1>2, LenProperties
<1> QED
  BY <1>1, <1>2, <1>3 DEF h

\* A new trade t = Len(heap) + 1 is entered under key k.
LEMMA TradeEntered ==
    ASSUME OrderInv, NEW tr \in TradeType, heap' = Append(heap, tr), NEW k,
           Trades' = With(Trades, k, Len(heap) + 1),
           \A p \in DOMAIN srv : srv'[p] = srv[p], DOMAIN srv' = DOMAIN srv,
           oid' = oid
    PROVE  /\ heap' \in Seq(TradeType) /\ Len(heap) + 1 \in DOMAIN heap'
           /\ heap'[Len(heap) + 1] = tr /\ Len(heap) + 1 \notin DOMAIN heap
           /\ Stable
           /\ \A t \in DOMAIN heap : heap'[t] = heap[t]
           /\ \A t \in DOMAIN heap' : t \in DOMAIN heap \/ t = Len(heap) + 1
           /\ \A x \in DOMAIN Trades' : /\ Trades'[x] \in DOMAIN heap'
                                        /\ x = k \/ (x \in DOMAIN Trades /\ Trades'[x] = Trades[x])
           /\ k \in DOMAIN Trades' /\ Trades'[k] = Len(heap) + 1
<1>0. TypeOK
  BY DEF OrderInv
<1>1. /\ heap' \in Seq(TradeType)
      /\ DOMAIN heap' = DOMAIN heap \cup {Len(heap) + 1}
      /\ Len(heap) + 1 \notin DOMAIN heap
      /\ \A t \in DOMAIN heap : heap'[t] = heap[t]
      /\ heap'[Len(heap) + 1] = tr
  BY <1>0, HeapGrows
<1> DEFINE n == Len(heap) + 1
<1>2. DOMAIN Trades' = DOMAIN Trades \cup {k} /\ Trades'[k] = n
      /\ \A x \in DOMAIN Trades : x # k => Trades'[x] = Trades[x]
  BY DEF With
<1>3. \A x \in DOMAIN Trades : Trades[x] \in DOMAIN heap
  BY <1>0 DEF TypeOK
<1>4. Stable
  BY <1>1 DEF Stable
<1> HIDE DEF n
<1> QED
  BY <1>1, <1>2, <1>3, <1>4 DEF n

-----------------------------------------------------------------------------
(* The user *)

LEMMA PlaceOrderKeeps ==
    ASSUME OrderInv, NEW u \in Ords, PlaceOrder(u)
    PROVE  OrderInv'
<1> DEFINE id == IF oid[u] = 0 THEN seq ELSE oid[u]
           known == orderKeyFromIDs(Me, id, operm[u]) \in DOMAIN Trades
<1>0. /\ seq' = (IF oid[u] = 0 THEN seq + 1 ELSE seq)
      /\ oid' = [oid EXCEPT ![u] = id]
      /\ isModify' = [isModify EXCEPT ![u] = known]
      /\ opc' = [opc EXCEPT ![u] = IF known THEN "send" ELSE "insert"]
      /\ UNCHANGED <<operm, stateVars, serverVars, resets>>
  BY DEF PlaceOrder, GoTo
<1>1. /\ opc' \in [Ords -> {"idle", "insert", "send"}]
      /\ isModify' \in [Ords -> BOOLEAN]
      /\ \A v \in Ords \ {u} : opc'[v] = opc[v]
  <2>1. known \in BOOLEAN
    OBVIOUS
  <2> HIDE DEF known
  <2>2. opc \in [Ords -> {"idle", "insert", "send"}] /\ isModify \in [Ords -> BOOLEAN]
    BY DEF OrderInv, TypeOK
  <2>3. isModify' \in [Ords -> BOOLEAN]
    BY <1>0, <2>1, <2>2, Zenon
  <2> QED
    BY <1>0, <2>2, <2>3
<1>2. seq \in Nat \ {0} /\ oid \in [Ords -> Nat] /\ \A v \in Ords : oid[v] < seq
  BY DEF OrderInv, TypeOK, IdInv
<1>3. /\ id \in Nat \ {0} /\ oid'[u] = id /\ id < seq' /\ seq <= seq' /\ seq' \in Nat \ {0}
      /\ \A v \in Ords \ {u} : oid'[v] = oid[v] /\ oid[v] < seq'
      /\ \A v \in Ords \ {u} : id # oid[v]
  BY <1>0, <1>2 DEF OrderInv, IdInv
<1>4. TypeOK'
  BY <1>0, <1>1, <1>3 DEF OrderInv, TypeOK
<1>5. ServerInv' /\ ReportInv'
  BY <1>0 DEF OrderInv, ServerInv, ReportInv, CommissionKept
<1>6. Stable
  BY <1>0, <1>3 DEF Stable
<1>7. \A t \in DOMAIN heap : heap[t].order # NoOrd => oid'[heap[t].order] # 0
  BY <1>3, OrderOf DEF OrderInv, IdInv
<1>8. IdInv'
  BY <1>0, <1>1, <1>3, <1>7 DEF OrderInv, IdInv
<1>9. KeyInv' /\ FillInv' /\ StatusInv'
  BY <1>0, <1>6, StateKept
<1> QED
  BY <1>4, <1>5, <1>8, <1>9 DEF OrderInv

LEMMA InsertTradeKeeps ==
    ASSUME OrderInv, NEW u \in Ords, InsertTrade(u)
    PROVE  OrderInv'
<1> DEFINE tr == NewTrade(u, 0, "PendingSubmit")
           n == Len(heap) + 1
<1>1. /\ opc[u] = "insert" /\ oid[u] # 0 /\ oid[u] \in Nat /\ u # NoOrd
      /\ opc' = [opc EXCEPT ![u] = "send"]
      /\ heap' = Append(heap, tr) /\ Trades' = With(Trades, KeyOf(u), n)
      /\ UNCHANGED <<seq, oid, isModify, places, operm, PermID2Trade, Fills, serverVars, resets>>
  BY OrdsAssumption DEF InsertTrade, GoTo, OrderInv, TypeOK, IdInv
<1>2. tr \in TradeType
  BY BoundsAssumption DEF NewTrade, TradeType, Statuses, Perms
<1>3. KeyOf(u) = <<Me, oid[u]>>
  BY <1>1 DEF KeyOf, orderKeyFromIDs
<1>4. /\ tr.order = u /\ tr.fills = <<>> /\ tr.filled = 0 /\ tr.cancelled = 0
      /\ tr.status \notin Done
  BY DEF NewTrade, Done
<1> HIDE DEF tr, n
<1>5. /\ heap' \in Seq(TradeType) /\ n \in DOMAIN heap' /\ heap'[n] = tr /\ n \notin DOMAIN heap
      /\ Stable
      /\ \A t \in DOMAIN heap : heap'[t] = heap[t]
      /\ \A t \in DOMAIN heap' : t \in DOMAIN heap \/ t = n
      /\ \A x \in DOMAIN Trades' :
            /\ Trades'[x] \in DOMAIN heap'
            /\ x = KeyOf(u) \/ (x \in DOMAIN Trades /\ Trades'[x] = Trades[x])
      /\ KeyOf(u) \in DOMAIN Trades' /\ Trades'[KeyOf(u)] = n
  BY <1>1, <1>2, TradeEntered DEF n
<1>6. TypeOK'
  BY <1>1, <1>5 DEF OrderInv, TypeOK, Stable
<1>7. ServerInv' /\ ReportInv'
  BY <1>1 DEF OrderInv, ServerInv, ReportInv, CommissionKept
<1>8. IdInv'
  BY <1>1, <1>4, <1>5 DEF OrderInv, IdInv, TypeOK
<1>9. KeyInv'
  <2>1. PICK k : k = KeyOf(u)
    OBVIOUS
  <2>2. KeyHolds(k)'
    BY <1>1, <1>3, <1>4, <1>5, <2>1 DEF KeyHolds
  <2> QED
    BY <1>1, <1>5, <2>1, <2>2, KeysKept
<1>10. FillInv' /\ StatusInv'
  <2>1. \A t \in DOMAIN heap' : t \in DOMAIN heap \/ Fresh(t)'
    BY <1>4, <1>5 DEF Fresh
  <2>2. Live' \subseteq Live \cup (DOMAIN heap' \ DOMAIN heap)
    BY <1>1, <1>5 DEF Live, Range
  <2> QED
    BY <1>1, <1>5, <2>1, <2>2, TradesKept
<1> QED
  BY <1>6, <1>7, <1>8, <1>9, <1>10 DEF OrderInv

LEMMA SendOrderKeeps ==
    ASSUME OrderInv, NEW u \in Ords, SendOrder(u)
    PROVE  OrderInv'
<1>1. /\ opc' \in [Ords -> {"idle", "insert", "send"}] /\ \A v \in Ords : opc'[v] \in {opc[v], "idle"}
      /\ wire' = wire \cup {oid[u]} /\ opc[u] = "send"
      /\ UNCHANGED <<seq, oid, isModify, places, operm, stateVars, srv, told, commissions, resets>>
  BY DEF SendOrder, GoTo, OrderInv, TypeOK
<1>2. TypeOK' /\ ReportInv'
  BY <1>1 DEF OrderInv, TypeOK, ReportInv, CommissionKept
<1>3. ServerInv'
  <2>1. oid[u] \in Nat /\ (opc[u] = "send" => oid[u] # 0)
    BY DEF OrderInv, TypeOK, IdInv
  <2>2. wire' \subseteq Nat \ {0}
    BY <1>1, <2>1 DEF OrderInv, ServerInv
  <2> QED
    BY <1>1, <2>2 DEF OrderInv, ServerInv
<1>4. IdInv'
  BY <1>1 DEF OrderInv, IdInv
<1>5. Stable
  BY <1>1 DEF Stable
<1>6. KeyInv' /\ FillInv' /\ StatusInv'
  BY <1>1, <1>5, StateKept
<1> QED
  BY <1>2, <1>3, <1>4, <1>6 DEF OrderInv

LEMMA SendOrderFailsKeeps ==
    ASSUME OrderInv, NEW u \in Ords, SendOrderFails(u)
    PROVE  OrderInv'
<1>1. /\ opc' \in [Ords -> {"idle", "insert", "send"}] /\ \A v \in Ords : opc'[v] \in {opc[v], "idle"}
      /\ UNCHANGED <<seq, oid, isModify, places, operm, heap, PermID2Trade, Fills, serverVars, resets>>
  BY DEF SendOrderFails, GoTo, OrderInv, TypeOK
<1>2. \A k \in DOMAIN Trades' : k \in DOMAIN Trades /\ Trades'[k] = Trades[k]
  BY DEF SendOrderFails, Without, Restrict
<1>3. TypeOK' /\ ReportInv' /\ ServerInv' /\ IdInv'
  BY <1>1, <1>2 DEF OrderInv, TypeOK, ReportInv, CommissionKept, ServerInv, IdInv
<1>4. Stable
  BY <1>1 DEF Stable
<1>5. KeyInv'
  BY <1>1, <1>2, <1>4, KeysKept
<1>6. Live' \subseteq Live
  BY <1>1, <1>2 DEF Live, Range
<1>7. FillInv' /\ StatusInv'
  BY <1>1, <1>4, <1>6, TradesKept
<1> QED
  BY <1>3, <1>5, <1>7 DEF OrderInv

-----------------------------------------------------------------------------
(* The server *)

LEMMA ServerOnly ==
    ASSUME OrderInv, Stable, ServerInv',
           UNCHANGED <<seq, userVars, operm, stateVars, told, commissions>>
    PROVE  OrderInv'
<1>1. TypeOK' /\ ReportInv' /\ IdInv'
  BY DEF OrderInv, TypeOK, ReportInv, CommissionKept, IdInv
<1>2. KeyInv' /\ FillInv' /\ StatusInv'
  BY StateKept
<1> QED
  BY <1>1, <1>2 DEF OrderInv

LEMMA RegisterKeeps ==
    ASSUME OrderInv, NEW c \in {0, Me, Another}, NEW o \in Nat, o = 0 <=> c = 0,
           ~Known(c, o), Register(c, o), wire' \subseteq wire,
           UNCHANGED <<seq, userVars, operm, stateVars, told, commissions>>
    PROVE  OrderInv'
<1> DEFINE m == [client |-> c, oid |-> o, status |-> "Submitted", execs |-> 0]
           n == Len(srv) + 1
<1>1. /\ srv \in Seq(ServerOrder) /\ DOMAIN srv = 1 .. Len(srv) /\ Len(srv) \in Nat
      /\ Len(srv) < MaxOrders /\ srv' = Append(srv, m)
  BY LenProperties DEF OrderInv, ServerInv, Register
<1>2. m \in ServerOrder /\ m.client = c /\ m.oid = o
  BY DEF ServerOrder
<1> HIDE DEF m
<1>3. /\ srv' \in Seq(ServerOrder) /\ Len(srv') = n
      /\ \A i \in 1 .. Len(srv) : srv'[i] = srv[i]
      /\ srv'[n] = m
  BY <1>1, <1>2, AppendProperties
<1>4. DOMAIN srv' = 1 .. n
  BY <1>3, LenProperties
<1>5. /\ DOMAIN srv' = DOMAIN srv \cup {n} /\ n \notin DOMAIN srv
      /\ \A p \in DOMAIN srv : srv'[p] = srv[p]
  BY <1>1, <1>3, <1>4
<1>6. Len(srv') <= MaxOrders
  BY <1>1, <1>3, BoundsAssumption
<1> HIDE DEF n
<1>7. \A p \in DOMAIN srv : ~(srv[p].client = c /\ srv[p].oid = o)
  BY DEF Known
<1>8. \A p, q \in DOMAIN srv' :
         srv'[p].client = srv'[q].client /\ srv'[p].oid = srv'[q].oid => p = q
  BY <1>2, <1>3, <1>5, <1>7 DEF OrderInv, ServerInv
<1>9. \A p \in DOMAIN srv' : srv'[p].oid = 0 <=> srv'[p].client = 0
  BY <1>2, <1>3, <1>5 DEF OrderInv, ServerInv
<1>10. ServerInv'
  BY <1>3, <1>6, <1>8, <1>9 DEF OrderInv, ServerInv
<1>11. Stable
  BY <1>5 DEF Stable
<1> QED
  BY <1>10, <1>11, ServerOnly

LEMMA AcceptOrderKeeps ==
    ASSUME OrderInv, NEW o, AcceptOrder(o)
    PROVE  OrderInv'
<1>1. /\ o \in Nat \ {0} /\ wire' \subseteq wire
      /\ UNCHANGED <<seq, userVars, operm, stateVars, told, commissions>>
  BY DEF AcceptOrder, OrderInv, ServerInv
<1>2. CASE Known(Me, o)
  <2>1. srv' = srv
    BY <1>2 DEF AcceptOrder
  <2>2. ServerInv' /\ Stable
    BY <1>1, <2>1 DEF OrderInv, ServerInv, Stable
  <2> QED
    BY <1>1, <2>2, ServerOnly
<1>3. CASE ~Known(Me, o)
  <2>1. Register(Me, o)
    BY <1>3 DEF AcceptOrder
  <2>2. Me \in {0, Me, Another} /\ (o = 0 <=> Me = 0)
    BY <1>1 DEF Me
  <2> QED
    BY <1>1, <1>3, <2>1, <2>2, RegisterKeeps
<1> QED
  BY <1>2, <1>3

LEMMA ForeignOrderKeeps ==
    ASSUME OrderInv, NEW f \in Foreign, ForeignOrder(f)
    PROVE  OrderInv'
<1>1. f.client \in {0, Me, Another} /\ f.oid \in Nat /\ (f.oid = 0 <=> f.client = 0)
  BY DEF Foreign, Another
<1>2. /\ ~Known(f.client, f.oid) /\ Register(f.client, f.oid) /\ wire' \subseteq wire
      /\ UNCHANGED <<seq, userVars, operm, stateVars, told, commissions>>
  BY DEF ForeignOrder
<1> QED
  BY <1>1, <1>2, RegisterKeeps

\* An order executes or ends; its client and id stay, and it was not done before.
Moves(p) == \/ \E status \in Done \ {"Filled"} : EndOrder(p, status)
            \/ \E last \in BOOLEAN : Execute(p, last)

LEMMA OrderMoves ==
    ASSUME OrderInv, NEW p, Moves(p)
    PROVE  OrderInv' /\ Stable
<1>1. /\ p \in DOMAIN srv /\ srv[p].status = "Submitted"
      /\ UNCHANGED <<seq, userVars, operm, stateVars, wire, told, commissions>>
  BY DEF Moves, EndOrder, Execute
<1>2. srv \in Seq(ServerOrder) /\ srv[p] \in ServerOrder
  BY <1>1, ServerOrderOf DEF OrderInv, ServerInv
<1>3. PICK m \in ServerOrder : /\ srv' = [srv EXCEPT ![p] = m]
                               /\ m.client = srv[p].client /\ m.oid = srv[p].oid
  <2>1. ASSUME NEW status \in Done, EndOrder(p, status)
        PROVE  \E m \in ServerOrder : /\ srv' = [srv EXCEPT ![p] = m]
                                      /\ m.client = srv[p].client /\ m.oid = srv[p].oid
    <3>1. srv' = [srv EXCEPT ![p] = [srv[p] EXCEPT !.status = status]]
      BY <2>1 DEF EndOrder
    <3>2. [srv[p] EXCEPT !.status = status] \in ServerOrder
      BY <1>2 DEF ServerOrder
    <3> QED
      BY <1>2, <3>1, <3>2 DEF ServerOrder
  <2>2. ASSUME NEW last \in BOOLEAN, Execute(p, last)
        PROVE  \E m \in ServerOrder : /\ srv' = [srv EXCEPT ![p] = m]
                                      /\ m.client = srv[p].client /\ m.oid = srv[p].oid
    <3> DEFINE m == [srv[p] EXCEPT !.execs = @ + 1,
                                   !.status = IF last THEN "Filled" ELSE @]
    <3>1. srv' = [srv EXCEPT ![p] = m]
      BY <1>1, <1>2, <2>2 DEF Execute, ServerInv, OrderInv
    <3>2. PICK n, s : n = srv[p].execs + 1 /\ s = IF last THEN "Filled" ELSE srv[p].status
      OBVIOUS
    <3>3. n \in Nat /\ s \in {"Submitted"} \cup Done
      <4>1. srv[p].execs \in Nat /\ srv[p].status \in {"Submitted"} \cup Done
        BY <1>2 DEF ServerOrder
      <4>2. s \in {"Filled", srv[p].status}
        BY <3>2
      <4> QED
        BY <3>2, <4>1, <4>2 DEF Done
    <3>4. m = [srv[p] EXCEPT !.execs = n, !.status = s]
      BY <3>2
    <3>5. m \in ServerOrder /\ m.client = srv[p].client /\ m.oid = srv[p].oid
      <4> HIDE DEF m
      <4> QED
        BY <1>2, <3>3, <3>4 DEF ServerOrder
    <3> QED
      BY <3>1, <3>5
  <2> QED
    BY <2>1, <2>2 DEF Moves
<1>4. /\ srv' \in Seq(ServerOrder) /\ Len(srv') = Len(srv) /\ DOMAIN srv' = DOMAIN srv
      /\ srv'[p] = m /\ \A q \in DOMAIN srv : q # p => srv'[q] = srv[q]
  <2>1. /\ Len(srv') = Len(srv) /\ srv' \in Seq(ServerOrder)
    BY <1>1, <1>2, <1>3, ExceptSeq, LenProperties
  <2> QED
    BY <1>1, <1>2, <1>3, <2>1, LenProperties
<1>5. ServerInv'
  <2>1. \A q \in DOMAIN srv : srv'[q].client = srv[q].client /\ srv'[q].oid = srv[q].oid
    BY <1>3, <1>4
  <2> QED
    BY <1>1, <1>4, <2>1 DEF OrderInv, ServerInv
<1>6. Stable
  BY <1>1, <1>3, <1>4 DEF Stable, Done
<1> QED
  BY <1>1, <1>5, <1>6, ServerOnly
-----------------------------------------------------------------------------
(* The reader: openOrder, orderBound, completedOrder *)

\* A handler that found the trade of order p writes no permId but p's into it.
LEMMA SetPermEffect ==
    ASSUME OrderInv, NEW p \in DOMAIN srv, NEW t \in DOMAIN heap, Matches(t, p), SetPerm(t, p)
    PROVE  /\ heap' = heap
           /\ operm' \in [Ords -> Perms \cup {0}]
           /\ \A u \in Ords : \/ operm'[u] = operm[u]
                              \/ operm'[u] = p /\ srv[p].client = Me /\ srv[p].oid = oid[u]
<1>1. /\ heap[t] \in TradeType /\ (heap[t].order # NoOrd => heap[t].order \in Ords)
      /\ operm \in [Ords -> Perms \cup {0}] /\ p \in Perms
  BY OrderOf, ServerOrderOf DEF OrderInv, TypeOK
<1>2. CASE heap[t].order = NoOrd
  <2>1. heap[t].perm = p /\ heap' = [heap EXCEPT ![t] = [heap[t] EXCEPT !.perm = p]] /\ operm' = operm
    BY <1>2 DEF SetPerm, Matches
  <2>2. [heap[t] EXCEPT !.perm = p] = heap[t]
    BY <1>1, <2>1 DEF TradeType
  <2>3. [heap EXCEPT ![t] = heap[t]] = heap
    <3>1. heap \in [1 .. Len(heap) -> TradeType]
      BY LenProperties DEF OrderInv, TypeOK
    <3> QED
      BY <3>1
  <2> QED
    BY <1>1, <2>1, <2>2, <2>3
<1>3. CASE heap[t].order # NoOrd
  BY <1>1, <1>3 DEF SetPerm, Matches
<1> QED
  BY <1>2, <1>3

\* openOrder and orderBound find the trade under its key.
LEMMA PermIndexed ==
    ASSUME OrderInv, NEW p \in DOMAIN srv, NEW k \in {SrvKey(p), <<0, p>>}, k \in DOMAIN Trades,
           SetPerm(Trades[k], p), PermID2Trade' = With(PermID2Trade, p, Trades[k]),
           seq' \in Nat, seq' >= seq,
           UNCHANGED <<userVars, Trades, Fills, serverVars>>
    PROVE  OrderInv'
<1>1. PICK t \in DOMAIN heap : t = Trades[k] /\ Matches(t, p) /\ SetPerm(t, p)
  BY KeyLeadsHome
<1>2. /\ heap' = heap
      /\ operm' \in [Ords -> Perms \cup {0}]
      /\ \A u \in Ords : \/ operm'[u] = operm[u]
                         \/ operm'[u] = p /\ srv[p].client = Me /\ srv[p].oid = oid[u]
  BY <1>1, SetPermEffect
<1>3. /\ DOMAIN PermID2Trade' = DOMAIN PermID2Trade \cup {p} /\ PermID2Trade'[p] = t
      /\ \A q \in DOMAIN PermID2Trade : q # p => PermID2Trade'[q] = PermID2Trade[q]
  BY <1>1 DEF With
<1>4. p \in Perms
  BY ServerOrderOf DEF OrderInv
<1>5. TypeOK' /\ ReportInv' /\ ServerInv' /\ IdInv'
  <2>1. TypeOK'
    BY <1>2, <1>3, <1>4 DEF OrderInv, TypeOK
  <2>2. ReportInv' /\ ServerInv'
    BY DEF OrderInv, ReportInv, CommissionKept, ServerInv
  <2>3. IdInv'
    <3>1. \A u \in Ords : oid[u] < seq'
      BY DEF OrderInv, TypeOK, IdInv
    <3> QED
      BY <1>2, <3>1 DEF OrderInv, IdInv
  <2> QED
    BY <2>1, <2>2, <2>3
<1>6. Stable
  BY <1>2 DEF Stable
<1>7. KeyInv'
  <2>1. PermHolds(p)'
    BY <1>1, <1>2, <1>3 DEF PermHolds, Matches
  <2>2. \A u \in Ords : OwnPermHolds(u)' \/ operm'[u] = operm[u]
    BY <1>2 DEF OwnPermHolds
  <2> QED
    BY <1>3, <1>6, <2>1, <2>2, KeysKept
<1>8. Live' \subseteq Live
  BY <1>1, <1>3 DEF Live, Range
<1>9. FillInv' /\ StatusInv'
  BY <1>2, <1>6, <1>8, TradesKept
<1> QED
  BY <1>5, <1>7, <1>9 DEF OrderInv

\* openOrder and completedOrder make a trade for an order they do not know.
LEMMA TradeLearned ==
    ASSUME OrderInv, NEW p \in DOMAIN srv, NEW k \in {SrvKey(p), <<0, p>>},
           heap' = Append(heap, NewTrade(NoOrd, p, srv[p].status)),
           Trades' = With(Trades, k, Len(heap) + 1),
           PermID2Trade' = With(PermID2Trade, p, Len(heap) + 1),
           seq' \in Nat, seq' >= seq,
           UNCHANGED <<userVars, operm, Fills, serverVars>>
    PROVE  OrderInv'
<1> DEFINE tr == NewTrade(NoOrd, p, srv[p].status)
           n == Len(heap) + 1
<1>1. p \in Perms /\ srv[p].status \in {"Submitted"} \cup Done
  BY ServerOrderOf DEF OrderInv, ServerOrder
<1>2. tr \in TradeType
  BY <1>1 DEF NewTrade, TradeType, Statuses
<1>3. /\ tr.order = NoOrd /\ tr.perm = p /\ tr.fills = <<>> /\ tr.filled = 0 /\ tr.cancelled = 0
      /\ tr.status = srv[p].status
  BY DEF NewTrade
<1>4. PermID2Trade' = With(PermID2Trade, p, n)
  OBVIOUS
<1> HIDE DEF tr, n
<1>5. /\ heap' \in Seq(TradeType) /\ n \in DOMAIN heap' /\ heap'[n] = tr /\ n \notin DOMAIN heap
      /\ Stable
      /\ \A t \in DOMAIN heap : heap'[t] = heap[t]
      /\ \A t \in DOMAIN heap' : t \in DOMAIN heap \/ t = n
      /\ \A x \in DOMAIN Trades' :
            /\ Trades'[x] \in DOMAIN heap'
            /\ x = k \/ (x \in DOMAIN Trades /\ Trades'[x] = Trades[x])
      /\ k \in DOMAIN Trades' /\ Trades'[k] = n
  BY <1>2, TradeEntered DEF tr, n
<1>6. /\ DOMAIN PermID2Trade' = DOMAIN PermID2Trade \cup {p} /\ PermID2Trade'[p] = n
      /\ \A q \in DOMAIN PermID2Trade : q # p => PermID2Trade'[q] = PermID2Trade[q]
  BY <1>4 DEF With
<1>7. TypeOK'
  <2>1. \A q \in DOMAIN PermID2Trade' : q \in Perms /\ PermID2Trade'[q] \in DOMAIN heap'
    BY <1>1, <1>5, <1>6 DEF OrderInv, TypeOK, Stable
  <2> QED
    BY <1>5, <2>1 DEF OrderInv, TypeOK
<1>8. ReportInv' /\ ServerInv'
  BY DEF OrderInv, ReportInv, CommissionKept, ServerInv
<1>9. IdInv'
  <2>1. \A u \in Ords : oid[u] < seq'
    BY DEF OrderInv, TypeOK, IdInv
  <2>2. \A t \in DOMAIN heap' : heap'[t].order # NoOrd => oid[heap'[t].order] # 0
    BY <1>3, <1>5 DEF OrderInv, IdInv
  <2> QED
    BY <2>1, <2>2 DEF OrderInv, IdInv
<1>10. KeyInv'
  <2>1. KeyHolds(k)'
    BY <1>3, <1>5 DEF KeyHolds, SrvKey
  <2>2. PermHolds(p)'
    BY <1>3, <1>5, <1>6 DEF PermHolds, Matches
  <2> QED
    BY <1>5, <1>6, <2>1, <2>2, KeysKept
<1>11. FillInv' /\ StatusInv'
  <2>1. \A t \in DOMAIN heap' : t \in DOMAIN heap \/ Fresh(t)'
    BY <1>3, <1>5 DEF Fresh
  <2>2. Live' \subseteq Live \cup (DOMAIN heap' \ DOMAIN heap)
    BY <1>5, <1>6 DEF Live, Range
  <2> QED
    BY <1>5, <2>1, <2>2, TradesKept
<1> QED
  BY <1>7, <1>8, <1>9, <1>10, <1>11 DEF OrderInv

LEMMA OpenOrderKeeps ==
    ASSUME OrderInv, NEW p \in DOMAIN srv, handleOpenOrder(p)
    PROVE  OrderInv'
<1> DEFINE k == SrvKey(p)
<1>1. k = orderKeyFromOrder(Message(p)) /\ Message(p).status = srv[p].status /\ Message(p).oid = srv[p].oid
  BY DEF SrvKey, orderKeyFromOrder, Message
<1>2. seq' \in Nat /\ seq' >= seq
  <2>1. srv[p].oid \in Nat /\ seq \in Nat
    BY ServerOrderOf DEF OrderInv, TypeOK, ServerOrder
  <2> QED
    BY <1>1, <2>1 DEF handleOpenOrder, UpdateReqID
<1> HIDE DEF k
<1>3. k \in {SrvKey(p), <<0, p>>}
  BY DEF k
<1>4. CASE k \in DOMAIN Trades
  <2>1. /\ SetPerm(Trades[k], p) /\ PermID2Trade' = With(PermID2Trade, p, Trades[k])
        /\ UNCHANGED <<userVars, Trades, Fills, serverVars>>
    BY <1>1, <1>4 DEF handleOpenOrder
  <2> QED
    BY <1>2, <1>3, <1>4, <2>1, PermIndexed
<1>5. CASE k \notin DOMAIN Trades
  <2>1. /\ heap' = Append(heap, NewTrade(NoOrd, p, srv[p].status))
        /\ Trades' = With(Trades, k, Len(heap) + 1)
        /\ PermID2Trade' = With(PermID2Trade, p, Len(heap) + 1)
        /\ UNCHANGED <<userVars, operm, Fills, serverVars>>
    BY <1>1, <1>5 DEF handleOpenOrder
  <2> QED
    BY <1>2, <1>3, <2>1, TradeLearned
<1> QED
  BY <1>4, <1>5

LEMMA OrderBoundKeeps ==
    ASSUME OrderInv, NEW p \in DOMAIN srv, handleOrderBound(p)
    PROVE  OrderInv'
<1>1. srv[p].oid \in Nat /\ seq \in Nat
  BY ServerOrderOf DEF OrderInv, TypeOK, ServerOrder
<1>2. srv[p].oid # 0
  BY DEF handleOrderBound, Message
<1> DEFINE k == SrvKey(p)
<1>3. k = <<srv[p].client, srv[p].oid>>
  BY <1>1, <1>2 DEF SrvKey, orderKeyFromIDs
<1> HIDE DEF k
<1>4. /\ k \in DOMAIN Trades /\ SetPerm(Trades[k], p)
      /\ PermID2Trade' = With(PermID2Trade, p, Trades[k])
      /\ UNCHANGED <<seq, userVars, Trades, Fills, serverVars>>
  BY <1>3 DEF handleOrderBound, Message
<1>5. k \in {SrvKey(p), <<0, p>>}
  BY DEF k
<1>6. seq' \in Nat /\ seq' >= seq
  BY <1>1, <1>4
<1> QED
  BY <1>4, <1>5, <1>6, PermIndexed

LEMMA CompletedOrderKeeps ==
    ASSUME OrderInv, NEW p \in DOMAIN srv, handleCompletedOrder(p)
    PROVE  OrderInv'
<1>1. /\ heap' = Append(heap, NewTrade(NoOrd, p, srv[p].status))
      /\ Trades' = With(Trades, <<0, p>>, Len(heap) + 1)
      /\ PermID2Trade' = With(PermID2Trade, p, Len(heap) + 1)
      /\ UNCHANGED <<seq, userVars, operm, Fills, serverVars>>
  BY DEF handleCompletedOrder
<1>2. seq' \in Nat /\ seq' >= seq
  BY <1>1 DEF OrderInv, TypeOK
<1> QED
  BY <1>1, <1>2, TradeLearned
-----------------------------------------------------------------------------
(* The reader: orderStatus, execDetails, commissionReport *)

LEMMA HeapUpdated ==
    ASSUME TypeOK, NEW t \in DOMAIN heap, NEW tr \in TradeType
    PROVE  /\ [heap EXCEPT ![t] = tr] \in Seq(TradeType)
           /\ DOMAIN [heap EXCEPT ![t] = tr] = DOMAIN heap
           /\ [heap EXCEPT ![t] = tr][t] = tr
           /\ \A x \in DOMAIN heap : x # t => [heap EXCEPT ![t] = tr][x] = heap[x]
<1>1. heap \in Seq(TradeType) /\ DOMAIN heap = 1 .. Len(heap)
  BY LenProperties DEF TypeOK
<1> QED
  BY <1>1, ExceptSeq

LEMMA FoundByKey ==
    ASSUME OrderInv, NEW p \in DOMAIN srv, ByKeyThenPerm(SrvKey(p), p) # 0
    PROVE  LET t == ByKeyThenPerm(SrvKey(p), p) IN t \in DOMAIN heap /\ t \in Live /\ Matches(t, p)
<1>1. PICK k : k = SrvKey(p) /\ k \in {SrvKey(p), <<0, p>>}
  OBVIOUS
<1>2. CASE k \in DOMAIN Trades
  <2>1. ByKeyThenPerm(SrvKey(p), p) = Trades[k] /\ Trades[k] \in Live
    BY <1>1, <1>2 DEF ByKeyThenPerm, Live, Range
  <2> QED
    BY <1>1, <1>2, <2>1, KeyLeadsHome
<1>3. CASE k \notin DOMAIN Trades
  <2>1. p \in DOMAIN PermID2Trade /\ ByKeyThenPerm(SrvKey(p), p) = PermID2Trade[p]
    BY <1>1, <1>3 DEF ByKeyThenPerm
  <2>2. PermID2Trade[p] \in Live
    BY <2>1 DEF Live, Range
  <2> QED
    BY <2>1, <2>2, PermLeadsHome
<1> QED
  BY <1>2, <1>3

LEMMA FoundByPerm ==
    ASSUME OrderInv, NEW p \in DOMAIN srv, ByPermThenKey(SrvKey(p), p) # 0
    PROVE  LET t == ByPermThenKey(SrvKey(p), p) IN t \in DOMAIN heap /\ t \in Live /\ Matches(t, p)
<1>1. PICK k : k = SrvKey(p) /\ k \in {SrvKey(p), <<0, p>>}
  OBVIOUS
<1>2. CASE p \in DOMAIN PermID2Trade
  <2>1. ByPermThenKey(SrvKey(p), p) = PermID2Trade[p]
    BY <1>2 DEF ByPermThenKey
  <2>2. PermID2Trade[p] \in Live
    BY <1>2 DEF Live, Range
  <2> QED
    BY <1>2, <2>1, <2>2, PermLeadsHome
<1>3. CASE p \notin DOMAIN PermID2Trade
  <2>1. k \in DOMAIN Trades /\ ByPermThenKey(SrvKey(p), p) = Trades[k]
    BY <1>1, <1>3 DEF ByPermThenKey
  <2>2. Trades[k] \in Live
    BY <2>1 DEF Live, Range
  <2> QED
    BY <1>1, <2>1, <2>2, KeyLeadsHome
<1> QED
  BY <1>2, <1>3

\* orderStatus changes one trade, whose order the status is of; a trade that is done
\* hears what it has heard before.
LEMMA OrderStatusEffect ==
    ASSUME OrderInv, NEW p \in DOMAIN srv, handleOrderStatus(p)
    PROVE  \E t \in DOMAIN heap :
              /\ Matches(t, p) /\ heap' \in Seq(TradeType) /\ DOMAIN heap' = DOMAIN heap
              /\ \A x \in DOMAIN heap : x # t => heap'[x] = heap[x]
              /\ heap'[t].order = heap[t].order /\ heap'[t].perm = heap[t].perm
              /\ heap'[t].fills = heap[t].fills /\ heap'[t].status = srv[p].status
              /\ heap[t].status \in Done => heap'[t] = heap[t]
              /\ heap[t].status \notin Done =>
                    /\ heap'[t].filled = IF srv[p].status = "Filled" THEN 1 ELSE 0
                    /\ heap'[t].cancelled = IF srv[p].status = "Cancelled" THEN 1 ELSE 0
<1>1. PICK s : s = srv[p].status /\ s \in {"Submitted"} \cup Done
  BY ServerOrderOf DEF OrderInv, ServerOrder
<1>2. PICK t : t = ByKeyThenPerm(SrvKey(p), p)
  OBVIOUS
<1>3. /\ t # 0
      /\ heap' = [heap EXCEPT
            ![t].status = s,
            ![t].filled = IF s = "Filled" /\ heap[t].status # "Filled" THEN @ + 1 ELSE @,
            ![t].cancelled = IF s = "Cancelled" /\ heap[t].status # "Cancelled" THEN @ + 1 ELSE @]
  BY <1>1, <1>2 DEF handleOrderStatus, Message, SrvKey
<1>4. t \in DOMAIN heap /\ Matches(t, p)
  BY <1>2, <1>3, FoundByKey
<1>5. heap[t] \in TradeType
  BY <1>4, OrderOf DEF OrderInv
<1>6. PICK f, c :
         /\ f = IF s = "Filled" /\ heap[t].status # "Filled" THEN heap[t].filled + 1 ELSE heap[t].filled
         /\ c = IF s = "Cancelled" /\ heap[t].status # "Cancelled" THEN heap[t].cancelled + 1
                                                                   ELSE heap[t].cancelled
  OBVIOUS
<1>7. heap[t].filled \in Nat /\ heap[t].cancelled \in Nat /\ heap[t].status \in Statuses
  BY <1>5 DEF TradeType
<1>8. f \in Nat /\ c \in Nat
  BY <1>6, <1>7
<1>9. PICK tr : tr = [heap[t] EXCEPT !.status = s, !.filled = f, !.cancelled = c]
  OBVIOUS
<1>10. /\ tr \in TradeType /\ tr.order = heap[t].order /\ tr.perm = heap[t].perm
       /\ tr.fills = heap[t].fills /\ tr.status = s /\ tr.filled = f /\ tr.cancelled = c
  BY <1>1, <1>5, <1>8, <1>9 DEF TradeType, Statuses
<1>11. heap' = [heap EXCEPT ![t] = tr]
  <2>1. heap \in [1 .. Len(heap) -> TradeType]
    BY LenProperties DEF OrderInv, TypeOK
  <2> QED
    BY <1>3, <1>4, <1>5, <1>6, <1>9, <2>1 DEF TradeType
<1>12. /\ heap' \in Seq(TradeType) /\ DOMAIN heap' = DOMAIN heap /\ heap'[t] = tr
       /\ \A x \in DOMAIN heap : x # t => heap'[x] = heap[x]
  BY <1>4, <1>10, <1>11, HeapUpdated DEF OrderInv
<1>13. ASSUME heap[t].status \in Done PROVE tr = heap[t]
  <2>1. PICK q \in DOMAIN srv : Matches(t, q) /\ srv[q].status = heap[t].status
    BY <1>4, <1>13 DEF OrderInv, StatusInv
  <2>2. s = heap[t].status
    BY <1>1, <1>4, <2>1, MatchesOne DEF OrderInv
  <2>3. f = heap[t].filled /\ c = heap[t].cancelled
    BY <1>6, <2>2
  <2> QED
    BY <1>5, <1>9, <2>2, <2>3 DEF TradeType
<1>14. ASSUME heap[t].status \notin Done
       PROVE  f = (IF s = "Filled" THEN 1 ELSE 0) /\ c = (IF s = "Cancelled" THEN 1 ELSE 0)
  <2>1. heap[t].filled = 0 /\ heap[t].cancelled = 0
    BY <1>4, <1>14 DEF OrderInv, StatusInv
  <2> QED
    BY <1>6, <1>14, <2>1 DEF Done
<1> QED
  BY <1>1, <1>4, <1>10, <1>12, <1>13, <1>14

LEMMA OrderStatusKeeps ==
    ASSUME OrderInv, NEW p \in DOMAIN srv, handleOrderStatus(p)
    PROVE  OrderInv'
<1>1. PICK t \in DOMAIN heap :
         /\ Matches(t, p) /\ heap' \in Seq(TradeType) /\ DOMAIN heap' = DOMAIN heap
         /\ \A x \in DOMAIN heap : x # t => heap'[x] = heap[x]
         /\ heap'[t].order = heap[t].order /\ heap'[t].perm = heap[t].perm
         /\ heap'[t].fills = heap[t].fills /\ heap'[t].status = srv[p].status
         /\ heap[t].status \in Done => heap'[t] = heap[t]
         /\ heap[t].status \notin Done =>
               /\ heap'[t].filled = IF srv[p].status = "Filled" THEN 1 ELSE 0
               /\ heap'[t].cancelled = IF srv[p].status = "Cancelled" THEN 1 ELSE 0
  BY OrderStatusEffect
<1>2. UNCHANGED <<seq, userVars, operm, Trades, PermID2Trade, Fills, serverVars, resets>>
  BY DEF handleOrderStatus
<1>3. TypeOK' /\ ServerInv' /\ ReportInv'
  BY <1>1, <1>2 DEF OrderInv, TypeOK, ServerInv, ReportInv, CommissionKept
<1>4. \A x \in DOMAIN heap : /\ heap'[x].order = heap[x].order /\ heap'[x].perm = heap[x].perm
                             /\ heap'[x].fills = heap[x].fills
  BY <1>1
<1>5. IdInv'
  BY <1>1, <1>2, <1>4 DEF OrderInv, IdInv
<1>6. Stable
  BY <1>1, <1>2, <1>4 DEF Stable
<1>7. KeyInv'
  BY <1>2, <1>6, KeysKept
<1>8. \A x \in DOMAIN heap : \A q \in DOMAIN srv : Matches(x, q)' <=> Matches(x, q)
  BY <1>6, MatchesKept DEF OrderInv
<1>9. FillInv'
  <2>1. Live' = Live /\ Live \subseteq DOMAIN heap
    BY <1>2, LiveInHeap DEF Live, OrderInv
  <2>2. ASSUME NEW x \in DOMAIN heap', NEW e \in Range(heap'[x].fills)
        PROVE  e[1] \in DOMAIN srv' /\ Matches(x, e[1])'
    <3>1. PICK q \in DOMAIN srv : e[1] = q /\ Matches(x, q)
      BY <1>1, <1>4, <2>2 DEF OrderInv, FillInv
    <3>2. Matches(x, q)'
      BY <1>1, <1>8, <3>1
    <3> QED
      BY <1>2, <3>1, <3>2
  <2>3. FillRecordedOnce'
    BY <1>1, <1>4, <2>1 DEF OrderInv, FillInv, FillRecordedOnce
  <2>4. \A x \in Live' : Range(heap'[x].fills) \subseteq DOMAIN Fills'
    BY <1>2, <1>4, <2>1 DEF OrderInv, FillInv
  <2> QED
    BY <2>2, <2>3, <2>4 DEF FillInv
<1>10. StatusInv'
  <2>1. srv[p].status \in {"Submitted"} \cup Done
    BY ServerOrderOf DEF OrderInv, ServerOrder
  <2>2. ASSUME NEW x \in DOMAIN heap'
        PROVE  /\ heap'[x].filled + heap'[x].cancelled <= 1
               /\ heap'[x].order # NoOrd =>
                     /\ (heap'[x].status = "Filled") <=> (heap'[x].filled = 1)
                     /\ (heap'[x].status = "Cancelled") <=> (heap'[x].cancelled = 1)
               /\ heap'[x].status \notin Done => heap'[x].filled = 0 /\ heap'[x].cancelled = 0
               /\ heap'[x].filled = 1 => heap'[x].status = "Filled"
               /\ heap'[x].cancelled = 1 => heap'[x].status = "Cancelled"
    <3>1. CASE heap'[x] = heap[x]
      BY <1>1, <3>1 DEF OrderInv, StatusInv, SignalledOnce
    <3>2. CASE x = t /\ heap[t].status \notin Done
      BY <1>1, <2>1, <3>2 DEF Done
    <3> QED
      BY <1>1, <3>1, <3>2
  <2>3. ASSUME NEW x \in DOMAIN heap', heap'[x].status \in Done
        PROVE  \E q \in DOMAIN srv' : Matches(x, q)' /\ srv'[q].status = heap'[x].status
    <3>1. PICK q \in DOMAIN srv : Matches(x, q) /\ srv[q].status = heap'[x].status
      BY <1>1, <2>3 DEF OrderInv, StatusInv
    <3> QED
      BY <1>1, <1>2, <1>8, <3>1
  <2> QED
    BY <2>2, <2>3 DEF StatusInv, SignalledOnce
<1> QED
  BY <1>3, <1>5, <1>7, <1>9, <1>10 DEF OrderInv
LEMMA FillAppended ==
    ASSUME NEW S, NEW f \in Seq(S), NEW e \in S, e \notin Range(f), IsInjective(f)
    PROVE  /\ Append(f, e) \in Seq(S) /\ IsInjective(Append(f, e))
           /\ Range(Append(f, e)) = Range(f) \cup {e}
<1> DEFINE g == Append(f, e)
<1>1. Len(f) \in Nat /\ DOMAIN f = 1 .. Len(f)
  BY LenProperties
<1>2. /\ g \in Seq(S) /\ Len(g) = Len(f) + 1 /\ g[Len(f) + 1] = e
      /\ \A i \in 1 .. Len(f) : g[i] = f[i]
  BY AppendProperties
<1> HIDE DEF g
<1>3. DOMAIN g = 1 .. Len(f) + 1
  BY <1>2, LenProperties
<1>4. DOMAIN g = DOMAIN f \cup {Len(f) + 1} /\ \A i \in DOMAIN f : g[i] = f[i]
  BY <1>1, <1>2, <1>3
<1>5. Range(g) = Range(f) \cup {e}
  BY <1>2, <1>4 DEF Range
<1>6. IsInjective(g)
  <2> SUFFICES ASSUME NEW a \in DOMAIN g, NEW b \in DOMAIN g, g[a] = g[b] PROVE a = b
    BY DEF IsInjective
  <2> QED
    BY <1>2, <1>4 DEF IsInjective, Range
<1> QED
  BY <1>2, <1>5, <1>6 DEF g

\* A new execution is put on record, and in the trade t of its order if there is one.
LEMMA ExecDetailsEffect ==
    ASSUME OrderInv, NEW p \in DOMAIN srv, NEW i \in 1 .. MaxExecs, handleExecDetails(p, i),
           <<p, i>> \notin DOMAIN Fills
    PROVE  /\ DOMAIN Fills' = DOMAIN Fills \cup {<<p, i>>}
           /\ Fills'[<<p, i>>] = FALSE
           /\ \A x \in DOMAIN Fills : Fills'[x] = Fills[x]
           /\ \/ ByPermThenKey(SrvKey(p), p) = 0 /\ heap' = heap
              \/ \E t \in Live :
                    /\ t = ByPermThenKey(SrvKey(p), p)
                    /\ t \in DOMAIN heap /\ Matches(t, p)
                    /\ heap' \in Seq(TradeType) /\ DOMAIN heap' = DOMAIN heap
                    /\ \A x \in DOMAIN heap : x # t => heap'[x] = heap[x]
                    /\ heap'[t].order = heap[t].order /\ heap'[t].perm = heap[t].perm
                    /\ heap'[t].status = heap[t].status
                    /\ heap'[t].filled = heap[t].filled /\ heap'[t].cancelled = heap[t].cancelled
                    /\ IsInjective(heap'[t].fills)
                    /\ Range(heap'[t].fills) = Range(heap[t].fills) \cup {<<p, i>>}
<1>1. PICK e : e = <<p, i>> /\ e \in Execs /\ e \notin DOMAIN Fills
  BY ServerOrderOf DEF OrderInv, Execs
<1>2. PICK t : t = ByPermThenKey(SrvKey(p), p)
  OBVIOUS
<1>3. Fills' = With(Fills, e, FALSE)
      /\ heap' = IF t # 0 THEN [heap EXCEPT ![t].fills = Append(@, e)] ELSE heap
  BY <1>1, <1>2 DEF handleExecDetails, SrvKey, orderKeyForExec, Message
<1>4. DOMAIN Fills' = DOMAIN Fills \cup {e} /\ Fills'[e] = FALSE
      /\ \A x \in DOMAIN Fills : Fills'[x] = Fills[x]
  BY <1>1, <1>3, Zenon DEF With
<1>5. CASE t = 0
  BY <1>1, <1>2, <1>3, <1>4, <1>5, Zenon
<1>6. CASE t # 0
  <2>1. t \in DOMAIN heap /\ t \in Live /\ Matches(t, p)
    BY <1>2, <1>6, FoundByPerm
  <2>2. heap[t] \in TradeType
    BY <2>1, OrderOf DEF OrderInv
  <2>3. heap[t].fills \in Seq(Execs)
    BY <2>2 DEF TradeType
  <2>4. e \notin Range(heap[t].fills) /\ IsInjective(heap[t].fills)
    BY <1>1, <2>1 DEF OrderInv, FillInv, FillRecordedOnce
  <2>5. PICK g : g = Append(heap[t].fills, e)
    OBVIOUS
  <2>6. g \in Seq(Execs) /\ IsInjective(g) /\ Range(g) = Range(heap[t].fills) \cup {e}
    BY <1>1, <2>3, <2>4, <2>5, FillAppended
  <2>7. PICK tr : tr = [heap[t] EXCEPT !.fills = g]
    OBVIOUS
  <2>8. /\ tr \in TradeType /\ tr.order = heap[t].order /\ tr.perm = heap[t].perm
        /\ tr.status = heap[t].status /\ tr.filled = heap[t].filled
        /\ tr.cancelled = heap[t].cancelled /\ tr.fills = g
    BY <2>2, <2>6, <2>7 DEF TradeType
  <2>9. heap' = [heap EXCEPT ![t] = tr]
    BY <1>3, <1>6, <2>5, <2>7
  <2>10. /\ heap' \in Seq(TradeType) /\ DOMAIN heap' = DOMAIN heap /\ heap'[t] = tr
         /\ \A x \in DOMAIN heap : x # t => heap'[x] = heap[x]
    BY <2>1, <2>8, <2>9, HeapUpdated DEF OrderInv
  <2>11. /\ heap'[t].order = heap[t].order /\ heap'[t].perm = heap[t].perm
         /\ heap'[t].status = heap[t].status
         /\ heap'[t].filled = heap[t].filled /\ heap'[t].cancelled = heap[t].cancelled
         /\ IsInjective(heap'[t].fills)
         /\ Range(heap'[t].fills) = Range(heap[t].fills) \cup {e}
    BY <2>6, <2>8, <2>10
  <2> QED
    BY <1>1, <1>2, <1>4, <2>1, <2>10, <2>11, Zenon
<1> QED
  BY <1>5, <1>6

LEMMA ExecDetailsKeeps ==
    ASSUME OrderInv, NEW p \in DOMAIN srv, NEW i \in 1 .. MaxExecs, handleExecDetails(p, i)
    PROVE  OrderInv'
<1>0. <<p, i>> \in Execs
  BY ServerOrderOf DEF OrderInv, Execs
<1>1. PICK e : e = <<p, i>> /\ e \in Execs
  BY <1>0
<1>2. /\ told' = told \cup {e}
      /\ UNCHANGED <<seq, userVars, operm, Trades, PermID2Trade, wire, srv, commissions,
                     resets>>
  BY <1>1 DEF handleExecDetails
<1>3. ServerInv' /\ Live' = Live /\ Live \subseteq DOMAIN heap
  BY <1>2, LiveInHeap DEF OrderInv, ServerInv, Live
<1>4. CASE e \in DOMAIN Fills
  <2>1. UNCHANGED <<Fills, heap>>
    BY <1>1, <1>4 DEF handleExecDetails
  <2>2. Stable
    BY <1>2, <2>1 DEF Stable
  <2>3. TypeOK' /\ IdInv' /\ ReportInv'
    BY <1>2, <1>4, <2>1 DEF OrderInv, TypeOK, IdInv, ReportInv, CommissionKept
  <2> QED
    BY <1>2, <1>3, <2>1, <2>2, <2>3, StateKept DEF OrderInv
<1>5. CASE e \notin DOMAIN Fills
  <2>1. /\ DOMAIN Fills' = DOMAIN Fills \cup {e} /\ Fills'[e] = FALSE
        /\ \A x \in DOMAIN Fills : Fills'[x] = Fills[x]
    BY <1>1, <1>5, ExecDetailsEffect
  <2>2. DOMAIN Fills' \subseteq Execs
    BY <1>1, <2>1 DEF OrderInv, TypeOK
  <2>3. \A x \in DOMAIN Fills' : Fills'[x] \in BOOLEAN
    BY <2>1, Zenon DEF OrderInv, TypeOK
  <2>4. CommissionKept'
    <3>1. \A x \in commissions : x \in DOMAIN Fills /\ Fills[x]
      BY DEF OrderInv, ReportInv, CommissionKept
    <3>2. \A x \in commissions : x \in DOMAIN Fills' /\ Fills'[x]
      BY <2>1, <3>1, Zenon
    <3> QED
      BY <1>2, <3>2, Zenon DEF CommissionKept
  <2>5. ReportInv'
    BY <1>2, <2>1, <2>4 DEF OrderInv, ReportInv
  <2>6. CASE heap' = heap
    <3>1. Stable
      BY <1>2, <2>6 DEF Stable
    <3>2. TypeOK' /\ IdInv'
      <4>1. IdInv'
        BY <1>2, <2>6 DEF OrderInv, IdInv
      <4>2. TypeOK'
        BY <1>2, <2>2, <2>3, <2>6, Zenon DEF OrderInv, TypeOK
      <4> QED
        BY <4>1, <4>2
    <3>3. KeyInv'
      BY <1>2, <3>1, KeysKept
    <3>4. FillInv' /\ StatusInv'
      BY <1>3, <2>1, <2>6, <3>1, TradesKept
    <3> QED
      BY <1>3, <2>5, <3>2, <3>3, <3>4 DEF OrderInv
  <2>7. ASSUME NEW t \in Live,
               t \in DOMAIN heap, Matches(t, p),
               heap' \in Seq(TradeType), DOMAIN heap' = DOMAIN heap,
               \A x \in DOMAIN heap : x # t => heap'[x] = heap[x],
               heap'[t].order = heap[t].order, heap'[t].perm = heap[t].perm,
               heap'[t].status = heap[t].status,
               heap'[t].filled = heap[t].filled, heap'[t].cancelled = heap[t].cancelled,
               IsInjective(heap'[t].fills),
               Range(heap'[t].fills) = Range(heap[t].fills) \cup {e}
        PROVE  OrderInv'
    <3>1. \A x \in DOMAIN heap : /\ heap'[x].order = heap[x].order /\ heap'[x].perm = heap[x].perm
                                 /\ heap'[x].status = heap[x].status
                                 /\ heap'[x].filled = heap[x].filled
                                 /\ heap'[x].cancelled = heap[x].cancelled
      BY <2>7
    <3>2. \A x \in DOMAIN heap : Range(heap'[x].fills) =
             IF x = t THEN Range(heap[x].fills) \cup {e} ELSE Range(heap[x].fills)
      BY <2>7
    <3>3. Stable
      BY <1>2, <2>7, <3>1 DEF Stable
    <3>4. IdInv'
      BY <1>2, <2>7, <3>1 DEF OrderInv, IdInv
    <3>5. TypeOK'
      <4>1. /\ \A k \in DOMAIN Trades' : Trades'[k] \in DOMAIN heap'
            /\ \A q \in DOMAIN PermID2Trade' : q \in Perms /\ PermID2Trade'[q] \in DOMAIN heap'
        BY <1>2, <2>7 DEF OrderInv, TypeOK
      <4> QED
        BY <1>2, <2>2, <2>3, <2>7, <4>1, Zenon DEF OrderInv, TypeOK
    <3>6. KeyInv'
      BY <1>2, <3>3, KeysKept
    <3>7. \A x \in DOMAIN heap : \A q \in DOMAIN srv : Matches(x, q)' <=> Matches(x, q)
      BY <3>3, MatchesKept DEF OrderInv
    <3>8. ASSUME NEW x \in DOMAIN heap', NEW y \in Range(heap'[x].fills)
          PROVE  y[1] \in DOMAIN srv' /\ Matches(x, y[1])'
      <4>1. PICK q \in DOMAIN srv : y[1] = q /\ Matches(x, q)
        <5>1. CASE y \in Range(heap[x].fills)
          BY <2>7, <5>1 DEF OrderInv, FillInv
        <5>2. CASE y \notin Range(heap[x].fills)
          <6>1. x = t /\ y = e
            BY <2>7, <3>2, <3>8, <5>2
          <6> QED
            BY <1>1, <2>7, <6>1
        <5> QED
          BY <5>1, <5>2
      <4>2. Matches(x, q)'
        BY <2>7, <3>7, <4>1
      <4> QED
        BY <1>2, <4>1, <4>2
    <3>9. \A x \in Live' : Range(heap'[x].fills) \subseteq DOMAIN Fills'
      BY <1>3, <2>1, <3>2 DEF OrderInv, FillInv
    <3>10. FillRecordedOnce'
      <4>1. \A x \in DOMAIN heap' : IsInjective(heap'[x].fills)
        BY <2>7 DEF OrderInv, FillInv, FillRecordedOnce
      <4>2. ASSUME NEW x \in Live, NEW y \in Live, x # y
            PROVE  Range(heap'[x].fills) \cap Range(heap'[y].fills) = {}
        <5>1. /\ Range(heap[x].fills) \cap Range(heap[y].fills) = {}
              /\ e \notin Range(heap[x].fills) /\ e \notin Range(heap[y].fills)
          BY <1>5, <4>2 DEF OrderInv, FillInv, FillRecordedOnce
        <5> QED
          BY <1>3, <3>2, <4>2, <5>1
      <4> QED
        BY <1>3, <4>1, <4>2 DEF FillRecordedOnce
    <3>11. FillInv'
      BY <3>8, <3>9, <3>10 DEF FillInv
    <3>12. StatusInv'
      <4>1. SignalledOnce'
        BY <2>7, <3>1 DEF OrderInv, StatusInv, SignalledOnce
      <4>2. ASSUME NEW x \in DOMAIN heap', heap'[x].status \in Done
            PROVE  \E q \in DOMAIN srv' : Matches(x, q)' /\ srv'[q].status = heap'[x].status
        <5>1. PICK q \in DOMAIN srv : Matches(x, q) /\ srv[q].status = heap'[x].status
          BY <2>7, <3>1, <4>2 DEF OrderInv, StatusInv
        <5> QED
          BY <1>2, <2>7, <3>7, <5>1
      <4>3. \A x \in DOMAIN heap' :
              /\ heap'[x].status \notin Done => heap'[x].filled = 0 /\ heap'[x].cancelled = 0
              /\ heap'[x].filled = 1 => heap'[x].status = "Filled"
              /\ heap'[x].cancelled = 1 => heap'[x].status = "Cancelled"
        BY <2>7, <3>1 DEF OrderInv, StatusInv
      <4> QED
        BY <4>1, <4>2, <4>3 DEF StatusInv
    <3> QED
      BY <1>3, <2>5, <3>4, <3>5, <3>6, <3>11, <3>12 DEF OrderInv
  <2> QED
    BY <1>1, <1>5, <2>6, <2>7, ExecDetailsEffect
<1> QED
  BY <1>4, <1>5

LEMMA CommissionReportKeeps ==
    ASSUME OrderInv, NEW p \in DOMAIN srv, NEW i \in 1 .. MaxExecs, handleCommissionReport(p, i)
    PROVE  OrderInv'
<1>1. PICK e : e = <<p, i>>
  OBVIOUS
<1>2. e \in told /\ e \in DOMAIN Fills
  BY <1>1 DEF handleCommissionReport, OrderInv, ReportInv
<1>3. /\ commissions' = commissions \cup {e} /\ Fills' = [Fills EXCEPT ![e] = TRUE]
      /\ UNCHANGED <<seq, userVars, operm, heap, Trades, PermID2Trade, wire, srv, told,
                     resets>>
  BY <1>1, <1>2 DEF handleCommissionReport
<1>4. DOMAIN Fills' = DOMAIN Fills /\ Fills'[e] = TRUE
      /\ \A x \in DOMAIN Fills : x # e => Fills'[x] = Fills[x]
  BY <1>2, <1>3, Zenon
<1>5. \A x \in DOMAIN Fills' : Fills'[x] \in BOOLEAN
  BY <1>4, Zenon DEF OrderInv, TypeOK
<1>6. TypeOK'
  <2>1. DOMAIN Fills' \subseteq Execs
    BY <1>4 DEF OrderInv, TypeOK
  <2> QED
    BY <1>3, <1>5, <2>1, Zenon DEF OrderInv, TypeOK
<1>7. CommissionKept'
  <2>1. \A x \in commissions : x \in DOMAIN Fills /\ Fills[x]
    BY DEF OrderInv, ReportInv, CommissionKept
  <2>2. \A x \in commissions' : x \in DOMAIN Fills' /\ Fills'[x]
    BY <1>2, <1>3, <1>4, <2>1, Zenon
  <2> QED
    BY <2>2, Zenon DEF CommissionKept
<1>8. ReportInv' /\ ServerInv' /\ IdInv'
  BY <1>3, <1>4, <1>7 DEF OrderInv, ReportInv, ServerInv, IdInv
<1>9. Stable /\ Live' = Live
  BY <1>3 DEF Stable, Live
<1>10. KeyInv'
  BY <1>3, <1>9, KeysKept
<1>11. FillInv' /\ StatusInv'
  BY <1>3, <1>4, <1>9, TradesKept
<1> QED
  BY <1>6, <1>8, <1>10, <1>11 DEF OrderInv
-----------------------------------------------------------------------------
(* Reset, and every step *)

LEMMA ResetKeeps ==
    ASSUME OrderInv, Reset
    PROVE  OrderInv'
<1>1. /\ DOMAIN Trades' = {} /\ DOMAIN PermID2Trade' = {} /\ DOMAIN Fills' = {}
      /\ told' = {} /\ commissions' = {} /\ wire' = {}
      /\ UNCHANGED <<seq, userVars, operm, heap, srv>>
  BY DEF Reset
<1>2. Live' = {}
  BY <1>1 DEF Live, Range
<1>3. TypeOK' /\ ServerInv' /\ IdInv' /\ ReportInv'
  BY <1>1 DEF OrderInv, TypeOK, ServerInv, IdInv, ReportInv, CommissionKept
<1>4. Stable
  BY <1>1 DEF Stable
<1>5. KeyInv'
  BY <1>1, <1>4, KeysKept
<1>6. FillInv' /\ StatusInv'
  BY <1>1, <1>2, <1>4, TradesKept
<1> QED
  BY <1>3, <1>5, <1>6 DEF OrderInv

LEMMA OrderInit == Init => OrderInv
<1> SUFFICES ASSUME Init PROVE OrderInv
  OBVIOUS
<1>1. /\ DOMAIN Trades = {} /\ DOMAIN PermID2Trade = {} /\ DOMAIN Fills = {} /\ DOMAIN heap = {}
      /\ DOMAIN srv = {}
  BY DEF Init
<1>2. heap \in Seq(TradeType) /\ srv \in Seq(ServerOrder) /\ Len(srv) = 0
  BY EmptySeq DEF Init
<1>3. TypeOK
  <2>1. isModify \in [Ords -> BOOLEAN]
    BY Zenon DEF Init
  <2>2. /\ seq \in Nat \ {0} /\ opc \in [Ords -> {"idle", "insert", "send"}] /\ oid \in [Ords -> Nat]
        /\ operm \in [Ords -> Perms \cup {0}]
    BY DEF Init
  <2> QED
    BY <1>1, <1>2, <2>1, <2>2 DEF TypeOK
<1>4. ServerInv
  BY <1>1, <1>2, BoundsAssumption DEF Init, ServerInv
<1>5. IdInv
  BY <1>1 DEF Init, IdInv
<1>6. KeyInv
  BY <1>1 DEF Init, KeyInv, OwnPermHolds
<1>7. FillInv
  BY <1>1 DEF FillInv, FillRecordedOnce, Live, Range
<1>8. ReportInv /\ StatusInv
  BY <1>1 DEF Init, ReportInv, CommissionKept, StatusInv, SignalledOnce
<1> QED
  BY <1>3, <1>4, <1>5, <1>6, <1>7, <1>8 DEF OrderInv

LEMMA OrderNext == OrderInv /\ [Next]_vars => OrderInv'
<1> SUFFICES ASSUME OrderInv, [Next]_vars PROVE OrderInv'
  OBVIOUS
<1>1. CASE \E u \in Ords : UserStep(u)
  BY <1>1, PlaceOrderKeeps, InsertTradeKeeps, SendOrderKeeps, SendOrderFailsKeeps DEF UserStep
<1>2. CASE ServerStep
  BY <1>2, AcceptOrderKeeps, ForeignOrderKeeps, OrderMoves DEF ServerStep, Moves
<1>3. CASE \E p \in DOMAIN srv : Handle(p)
  BY <1>3, OpenOrderKeeps, OrderStatusKeeps, ExecDetailsKeeps, CommissionReportKeeps,
     CompletedOrderKeeps, OrderBoundKeeps DEF Handle
<1>4. CASE Reset
  BY <1>4, ResetKeeps
<1>5. CASE UNCHANGED vars
  <2>1. Stable
    BY <1>5 DEF Stable
  <2>2. ServerInv'
    BY <1>5 DEF OrderInv, ServerInv
  <2> QED
    BY <1>5, <2>1, <2>2, ServerOnly
<1> QED
  BY <1>1, <1>2, <1>3, <1>4, <1>5 DEF Next

LEMMA OrderInvariant == Spec => []OrderInv
BY OrderInit, OrderNext, PTL DEF Spec

\* Every variable of the bookkeeping keeps its shape, and both indexes point at trades.
THEOREM OrderTypes == Spec => []TypeOK
<1>1. OrderInv => TypeOK
  BY DEF OrderInv
<1> QED
  BY <1>1, OrderInvariant, PTL

\* However often executions are reported, before and after a reconnect, none is counted
\* twice by the trades a caller can come across.
THEOREM FillsCountOnce == Spec => []FillRecordedOnce
<1>1. OrderInv => FillRecordedOnce
  BY DEF OrderInv, FillInv
<1> QED
  BY <1>1, OrderInvariant, PTL

\* No trade ever holds an execution of another order, although orders of several clients
\* arrive under equal ids.
THEOREM FillsStayHome == Spec => []FillsBelong
<1>1. ASSUME OrderInv PROVE FillsBelong
  <2> SUFFICES ASSUME NEW t \in DOMAIN heap, NEW e \in Range(heap[t].fills)
               PROVE  PermOf(t) \in {0, e[1]}
    BY DEF FillsBelong
  <2>1. PICK p \in DOMAIN srv : e[1] = p /\ Matches(t, p)
    BY <1>1 DEF OrderInv, FillInv
  <2>2. CASE heap[t].order = NoOrd
    BY <2>1, <2>2 DEF Matches, PermOf
  <2>3. CASE heap[t].order # NoOrd
    <3>1. PICK u \in Ords : heap[t].order = u
      BY <1>1, <2>3, OrderOf DEF OrderInv
    <3>2. PICK q : q = operm[u] /\ q = PermOf(t)
      BY <2>3, <3>1 DEF PermOf
    <3>3. q # 0 => q \in DOMAIN srv /\ srv[q].client = Me /\ srv[q].oid = oid[u]
      BY <1>1, <3>2 DEF OrderInv, KeyInv, OwnPermHolds
    <3>4. srv[p].client = Me /\ srv[p].oid = oid[u]
      BY <2>1, <2>3, <3>1 DEF Matches
    <3> QED
      BY <1>1, <2>1, <3>2, <3>3, <3>4 DEF OrderInv, ServerInv
  <2> QED
    BY <2>2, <2>3
<1> QED
  BY <1>1, OrderInvariant, PTL

\* A commission report stays on its fill, though the execution is reported again.
THEOREM CommissionStays == Spec => []CommissionKept
<1>1. OrderInv => CommissionKept
  BY DEF OrderInv, ReportInv
<1> QED
  BY <1>1, OrderInvariant, PTL

\* FilledEvent and CancelledEvent are raised once, by the trade that says so.
THEOREM SignalsOnce == Spec => []SignalledOnce
<1>1. OrderInv => SignalledOnce
  BY DEF OrderInv, StatusInv
<1> QED
  BY <1>1, OrderInvariant, PTL

LEMMA DoneNext ==
    ASSUME OrderInv, Next, NEW x \in DOMAIN heap, heap[x].status \in Done
    PROVE  heap'[x].status = heap[x].status
<1>1. ASSUME NEW tr \in TradeType, heap' = Append(heap, tr) PROVE heap'[x] = heap[x]
  BY <1>1, HeapGrows DEF OrderInv
<1>2. ASSUME NEW u \in Ords, UserStep(u) PROVE heap'[x] = heap[x]
  <2>1. CASE InsertTrade(u)
    <3>1. NewTrade(u, 0, "PendingSubmit") \in TradeType
      BY BoundsAssumption DEF NewTrade, TradeType, Statuses, Perms
    <3> QED
      BY <1>1, <2>1, <3>1 DEF InsertTrade
  <2>2. CASE ~InsertTrade(u)
    BY <1>2, <2>2 DEF UserStep, PlaceOrder, SendOrder, SendOrderFails
  <2> QED
    BY <2>1, <2>2
<1>3. CASE ServerStep
  BY <1>3 DEF ServerStep, AcceptOrder, ForeignOrder, EndOrder, Execute
<1>4. ASSUME NEW p \in DOMAIN srv, Handle(p) PROVE heap'[x].status = heap[x].status
  <2>1. NewTrade(NoOrd, p, srv[p].status) \in TradeType
    <3>1. p \in Perms /\ srv[p].status \in {"Submitted"} \cup Done
      BY ServerOrderOf DEF OrderInv, ServerOrder
    <3> QED
      BY <3>1 DEF NewTrade, TradeType, Statuses
  <2>2. ASSUME NEW k \in {SrvKey(p), <<0, p>>}, k \in DOMAIN Trades, SetPerm(Trades[k], p)
        PROVE  heap' = heap
    BY <2>2, KeyLeadsHome, SetPermEffect
  <2>3. CASE handleOpenOrder(p)
    <3> DEFINE k == SrvKey(p)
    <3>1. k = orderKeyFromOrder(Message(p)) /\ Message(p).status = srv[p].status
      BY DEF SrvKey, orderKeyFromOrder, Message
    <3> HIDE DEF k
    <3>2. k \in DOMAIN Trades => SetPerm(Trades[k], p)
      BY <2>3, <3>1 DEF handleOpenOrder
    <3>3. k \notin DOMAIN Trades => heap' = Append(heap, NewTrade(NoOrd, p, srv[p].status))
      BY <2>3, <3>1 DEF handleOpenOrder
    <3>4. k \in {SrvKey(p), <<0, p>>}
      BY DEF k
    <3> QED
      BY <1>1, <2>1, <2>2, <3>2, <3>3, <3>4
  <2>4. CASE handleOrderBound(p)
    <3>1. srv[p].oid \in Nat /\ srv[p].oid # 0
      BY <2>4, ServerOrderOf DEF OrderInv, ServerOrder, handleOrderBound, Message
    <3>2. SrvKey(p) = <<srv[p].client, srv[p].oid>>
      BY <3>1 DEF SrvKey, orderKeyFromIDs
    <3>3. PICK k \in {SrvKey(p), <<0, p>>} : k \in DOMAIN Trades /\ SetPerm(Trades[k], p)
      BY <2>4, <3>2 DEF handleOrderBound, Message
    <3> QED
      BY <2>2, <3>3
  <2>5. CASE handleCompletedOrder(p)
    BY <1>1, <2>1, <2>5 DEF handleCompletedOrder
  <2>6. CASE handleOrderStatus(p)
    BY <2>6, OrderStatusEffect
  <2>7. ASSUME NEW i \in 1 .. MaxExecs, handleExecDetails(p, i) PROVE heap'[x].status = heap[x].status
    <3>1. CASE <<p, i>> \in DOMAIN Fills
      BY <2>7, <3>1 DEF handleExecDetails
    <3>2. CASE <<p, i>> \notin DOMAIN Fills
      BY <2>7, <3>2, ExecDetailsEffect
    <3> QED
      BY <3>1, <3>2
  <2>8. ASSUME NEW i \in 1 .. MaxExecs, handleCommissionReport(p, i) PROVE heap' = heap
    BY <2>8 DEF handleCommissionReport
  <2> QED
    BY <1>4, <2>3, <2>4, <2>5, <2>6, <2>7, <2>8 DEF Handle
<1>5. CASE Reset
  BY <1>5 DEF Reset
<1> QED
  BY <1>2, <1>3, <1>4, <1>5 DEF Next

\* A trade that was filled or cancelled stays so, whatever late or repeated message comes.
THEOREM DoneStays == Spec => DoneIsFinal
<1>1. OrderInv /\ [Next]_vars =>
        [\A t \in DOMAIN heap : heap[t].status \in Done => heap'[t].status = heap[t].status]_vars
  BY DoneNext
<1> QED
  BY <1>1, OrderInvariant, PTL DEF Spec, DoneIsFinal
-----------------------------------------------------------------------------
(* One connection: an order placed here never loses its trade *)

\* Trades under other keys are added, none is dropped or replaced.
TradesGrow == \A k \in DOMAIN Trades : k \in DOMAIN Trades' /\ Trades'[k] = Trades[k]

LEMMA HomeKept ==
    ASSUME OrderInv, HomeInv, Stable, TradesGrow,
           \A e \in DOMAIN Fills' : \/ e \in DOMAIN Fills
                                    \/ /\ e[1] \in DOMAIN srv'
                                       /\ srv'[e[1]].client = Me =>
                                             \E k \in DOMAIN Trades' : e \in Range(heap'[Trades'[k]].fills),
           \A t \in DOMAIN heap : Range(heap[t].fills) \subseteq Range(heap'[t].fills),
           \A p \in DOMAIN PermID2Trade' :
              \/ PermID2Trade'[p] \in Range(Trades')
              \/ p \in DOMAIN PermID2Trade /\ PermID2Trade'[p] = PermID2Trade[p],
           DOMAIN PermID2Trade \subseteq DOMAIN PermID2Trade',
           \A k \in DOMAIN Trades' : \/ k \in DOMAIN Trades
                                     \/ k[1] = 0 => k[2] \in DOMAIN PermID2Trade'
    PROVE  HomeInv'
<1>1. ASSUME NEW e \in DOMAIN Fills
      PROVE  /\ e[1] \in DOMAIN srv'
             /\ srv'[e[1]].client = Me => \E k \in DOMAIN Trades' : e \in Range(heap'[Trades'[k]].fills)
  <2>1. PICK p \in DOMAIN srv : e[1] = p
    BY DEF HomeInv
  <2>2. p \in DOMAIN srv' /\ srv'[p].client = srv[p].client
    BY DEF Stable
  <2>3. ASSUME srv[p].client = Me
        PROVE  \E k \in DOMAIN Trades' : e \in Range(heap'[Trades'[k]].fills)
    <3>1. PICK k \in DOMAIN Trades : e \in Range(heap[Trades[k]].fills)
      BY <2>1, <2>3 DEF HomeInv
    <3>2. Trades[k] \in DOMAIN heap
      BY DEF OrderInv, TypeOK
    <3> QED
      BY <3>1, <3>2 DEF TradesGrow
  <2> QED
    BY <2>1, <2>2, <2>3
<1>2. Range(Trades) \subseteq Range(Trades')
  BY DEF TradesGrow, Range
<1>3. \A p \in DOMAIN PermID2Trade' : PermID2Trade'[p] \in Range(Trades')
  BY <1>2 DEF HomeInv
<1>4. \A k \in DOMAIN Trades' : k[1] = 0 => k[2] \in DOMAIN PermID2Trade'
  BY DEF HomeInv
<1> QED
  BY <1>1, <1>3, <1>4 DEF HomeInv

LEMMA SentKept ==
    ASSUME SentInv, TradesGrow, UNCHANGED <<userVars, wire, srv>>
    PROVE  SentInv'
<1>1. \A u \in Ords : Unsent(u)' <=> Unsent(u)
  BY DEF Unsent
<1>2. \A o : Known(Me, o)' <=> Known(Me, o)
  BY DEF Known
<1> QED
  BY <1>1, <1>2 DEF SentInv, TradesGrow

\* A trade that PlaceOrder may still replace or drop is of no order the server knows.
LEMMA UnsentIsUnknown ==
    ASSUME OrderInv, OwnInv, NEW u \in Ords, Unsent(u), <<Me, oid[u]>> \in DOMAIN Trades
    PROVE  /\ Range(heap[Trades[<<Me, oid[u]>>]].fills) = {}
           /\ \A p \in DOMAIN PermID2Trade : PermID2Trade[p] # Trades[<<Me, oid[u]>>]
<1>1. PICK k \in DOMAIN Trades : k = <<Me, oid[u]>>
  OBVIOUS
<1>2. PICK t \in DOMAIN heap : t = Trades[k]
  BY DEF OrderInv, TypeOK
<1>3. \A p \in DOMAIN srv : ~(srv[p].client = Me /\ srv[p].oid = oid[u])
  BY DEF OwnInv, SentInv, Known
<1>4. ASSUME NEW p \in DOMAIN srv, Matches(t, p) PROVE FALSE
  <2>1. KeyHolds(k)
    BY DEF OrderInv, KeyInv
  <2>2. CASE heap[t].order = NoOrd
    <3>1. k \in {SrvKey(p), <<0, p>>}
      BY <1>2, <1>4, <2>1, <2>2 DEF KeyHolds, Matches
    <3>2. srv[p].client = Me /\ srv[p].oid = oid[u]
      BY <1>1, <3>1 DEF SrvKey, orderKeyFromIDs, Me
    <3> QED
      BY <1>3, <3>2
  <2>3. CASE heap[t].order # NoOrd
    <3>1. oid[heap[t].order] = oid[u]
      BY <1>1, <1>2, <2>1, <2>3 DEF KeyHolds
    <3> QED
      BY <1>3, <1>4, <2>3, <3>1 DEF Matches
  <2> QED
    BY <2>2, <2>3
<1>5. Range(heap[t].fills) = {}
  BY <1>4 DEF OrderInv, FillInv
<1>6. \A p \in DOMAIN PermID2Trade : PermID2Trade[p] # t
  BY <1>4, PermLeadsHome
<1> QED
  BY <1>1, <1>2, <1>5, <1>6

\* Without that trade, every fill and every permId still has its own.
LEMMA UnsentDropped ==
    ASSUME OrderInv, OwnInv, NEW u \in Ords, Unsent(u), NEW k0, k0 = <<Me, oid[u]>>,
           UNCHANGED <<oid, srv, Fills, PermID2Trade>>,
           \A k \in DOMAIN Trades : k # k0 => k \in DOMAIN Trades' /\ Trades'[k] = Trades[k],
           \A k \in DOMAIN Trades' : k \in DOMAIN Trades \/ k = k0,
           \A t \in DOMAIN heap : heap'[t] = heap[t]
    PROVE  HomeInv'
<1>1. ASSUME NEW k \in DOMAIN Trades, Range(heap[Trades[k]].fills) # {} \/ Trades[k] \in Range(PermID2Trade)
      PROVE  k \in DOMAIN Trades' /\ Trades'[k] = Trades[k] /\ heap'[Trades[k]] = heap[Trades[k]]
  <2>1. k # k0
    BY <1>1, UnsentIsUnknown DEF Range
  <2> QED
    BY <2>1 DEF OrderInv, TypeOK
<1>2. ASSUME NEW e \in DOMAIN Fills', srv[e[1]].client = Me
      PROVE  \E k \in DOMAIN Trades' : e \in Range(heap'[Trades'[k]].fills)
  <2>1. PICK k \in DOMAIN Trades : e \in Range(heap[Trades[k]].fills)
    BY <1>2 DEF OwnInv, HomeInv
  <2> QED
    BY <1>1, <2>1
<1>3. ASSUME NEW p \in DOMAIN PermID2Trade PROVE PermID2Trade[p] \in Range(Trades')
  <2>1. PICK k \in DOMAIN Trades : PermID2Trade[p] = Trades[k]
    BY DEF OwnInv, HomeInv, Range
  <2>2. Trades[k] \in Range(PermID2Trade)
    BY <2>1 DEF Range
  <2> QED
    BY <1>1, <2>1, <2>2 DEF Range
<1>4. \A k \in DOMAIN Trades' : k[1] = 0 => k[2] \in DOMAIN PermID2Trade'
  BY DEF OwnInv, HomeInv, Me
<1> QED
  BY <1>2, <1>3, <1>4 DEF OwnInv, HomeInv
LEMMA UserOwn ==
    ASSUME OrderInv, OwnInv, NEW u \in Ords, UserStep(u)
    PROVE  OwnInv'
<1>0. /\ opc \in [Ords -> {"idle", "insert", "send"}] /\ oid \in [Ords -> Nat] /\ seq \in Nat \ {0}
      /\ isModify \in [Ords -> BOOLEAN]
      /\ \A v \in Ords : opc[v] # "idle" => oid[v] # 0
      /\ \A v, w \in Ords : oid[v] = oid[w] /\ oid[v] # 0 => v = w
  BY DEF OrderInv, TypeOK, IdInv
<1>1. CASE PlaceOrder(u)
  <2> DEFINE id == IF oid[u] = 0 THEN seq ELSE oid[u]
             known == <<Me, id>> \in DOMAIN Trades
  <2>1. id \in Nat /\ id > 0
    BY <1>0
  <2>2. orderKeyFromIDs(Me, id, operm[u]) = <<Me, id>>
    BY <2>1 DEF orderKeyFromIDs
  <2>3. /\ oid' = [oid EXCEPT ![u] = id]
        /\ isModify' = [isModify EXCEPT ![u] = known]
        /\ opc' = [opc EXCEPT ![u] = IF known THEN "send" ELSE "insert"]
        /\ UNCHANGED <<operm, stateVars, serverVars>>
    BY <1>1, <2>2 DEF PlaceOrder, GoTo
  <2> HIDE DEF id
  <2>4. oid'[u] = id /\ \A v \in Ords \ {u} : oid'[v] = oid[v] /\ opc'[v] = opc[v]
    BY <1>0, <2>3
  <2>5. known => opc'[u] = "send" /\ isModify'[u]
    BY <1>0, <2>3, Zenon
  <2>6. opc'[u] = "send" => known
    BY <1>0, <2>3
  <2>7. \A v \in Ords \ {u} : isModify'[v] = isModify[v]
    BY <1>0, <2>3
  <2> HIDE DEF known
  <2>8. Stable /\ TradesGrow
    BY <1>0, <2>3, <2>4 DEF Stable, TradesGrow, id
  <2>9. HomeInv'
    BY <2>3 DEF OwnInv, HomeInv
  <2>10. ASSUME NEW v \in Ords, Unsent(v)' PROVE oid'[v] \notin wire /\ ~Known(Me, oid'[v])
    <3>1. CASE v = u
      <4>1. <<Me, id>> \notin DOMAIN Trades
        BY <2>5, <2>10, <3>1 DEF Unsent, known
      <4> QED
        BY <2>4, <3>1, <4>1 DEF OwnInv, SentInv, Known
    <3>2. CASE v # u
      BY <2>4, <2>7, <2>10, <3>2 DEF OwnInv, SentInv, Unsent
    <3> QED
      BY <3>1, <3>2
  <2>11. \A v \in Ords : opc'[v] = "send" => <<Me, oid'[v]>> \in DOMAIN Trades
    BY <2>4, <2>6 DEF OwnInv, SentInv, known
  <2>12. \A o : Known(Me, o)' <=> Known(Me, o)
    BY <2>3 DEF Known
  <2>13. SentInv'
    BY <2>3, <2>10, <2>11, <2>12 DEF OwnInv, SentInv
  <2> QED
    BY <2>9, <2>13 DEF OwnInv
<1>2. CASE InsertTrade(u)
  <2>1. PICK k0, n : k0 = <<Me, oid[u]>> /\ n = Len(heap) + 1
    OBVIOUS
  <2>2. KeyOf(u) = k0 /\ Unsent(u) /\ oid[u] # 0
    BY <1>0, <1>2, <2>1 DEF InsertTrade, KeyOf, orderKeyFromIDs, Unsent
  <2>3. /\ opc' = [opc EXCEPT ![u] = "send"] /\ Trades' = With(Trades, k0, n)
        /\ UNCHANGED <<oid, isModify, operm, PermID2Trade, Fills, serverVars>>
    BY <1>2, <2>1, <2>2 DEF InsertTrade, GoTo
  <2>4. DOMAIN Trades' = DOMAIN Trades \cup {k0}
        /\ \A k \in DOMAIN Trades : k # k0 => Trades'[k] = Trades[k]
    BY <2>3 DEF With
  <2>5. \A t \in DOMAIN heap : heap'[t] = heap[t]
    <3>1. NewTrade(u, 0, "PendingSubmit") \in TradeType
      BY BoundsAssumption DEF NewTrade, TradeType, Statuses, Perms
    <3> QED
      BY <1>2, <3>1, HeapGrows DEF InsertTrade, OrderInv
  <2>6. HomeInv'
    BY <2>1, <2>2, <2>3, <2>4, <2>5, UnsentDropped
  <2>7. \A v \in Ords : Unsent(v)' => Unsent(v)
    BY <1>0, <2>2, <2>3 DEF Unsent
  <2>8. \A o : Known(Me, o)' <=> Known(Me, o)
    BY <2>3 DEF Known
  <2>9. \A v \in Ords : opc'[v] = "send" => <<Me, oid[v]>> \in DOMAIN Trades'
    BY <1>0, <2>1, <2>3, <2>4 DEF OwnInv, SentInv
  <2>10. SentInv'
    BY <2>3, <2>4, <2>7, <2>8, <2>9 DEF OwnInv, SentInv
  <2> QED
    BY <2>6, <2>10 DEF OwnInv
<1>3. CASE SendOrder(u)
  <2>1. /\ opc[u] = "send" /\ opc' = [opc EXCEPT ![u] = "idle"] /\ wire' = wire \cup {oid[u]}
        /\ UNCHANGED <<oid, isModify, stateVars, srv>>
    BY <1>3 DEF SendOrder, GoTo
  <2>2. HomeInv'
    BY <2>1 DEF OwnInv, HomeInv
  <2>3. \A v \in Ords : Unsent(v)' => Unsent(v) /\ v # u
    BY <1>0, <2>1 DEF Unsent
  <2>4. \A v \in Ords : v # u => oid[v] # oid[u]
    BY <1>0, <2>1
  <2>5. \A o : Known(Me, o)' <=> Known(Me, o)
    BY <2>1 DEF Known
  <2>6. \A v \in Ords : opc'[v] = "send" => opc[v] = "send"
    BY <1>0, <2>1
  <2>7. SentInv'
    BY <2>1, <2>3, <2>4, <2>5, <2>6 DEF OwnInv, SentInv
  <2> QED
    BY <2>2, <2>7 DEF OwnInv
<1>4. CASE SendOrderFails(u) /\ isModify[u]
  <2>1. /\ opc' = [opc EXCEPT ![u] = "idle"]
        /\ UNCHANGED <<oid, isModify, stateVars, serverVars>>
    BY <1>4 DEF SendOrderFails, GoTo
  <2>2. HomeInv'
    BY <2>1 DEF OwnInv, HomeInv
  <2>3. \A v \in Ords : /\ Unsent(v)' => Unsent(v)
                        /\ opc'[v] = "send" => opc[v] = "send"
    BY <1>0, <2>1 DEF Unsent
  <2>4. \A o : Known(Me, o)' <=> Known(Me, o)
    BY <2>1 DEF Known
  <2> QED
    BY <2>1, <2>2, <2>3, <2>4 DEF OwnInv, SentInv
<1>5. CASE SendOrderFails(u) /\ ~isModify[u]
  <2>1. PICK k0 : k0 = <<Me, oid[u]>>
    OBVIOUS
  <2>2. opc[u] = "send" /\ KeyOf(u) = k0 /\ Unsent(u) /\ oid[u] # 0
    BY <1>0, <1>5, <2>1 DEF SendOrderFails, KeyOf, orderKeyFromIDs, Unsent
  <2>3. /\ opc' = [opc EXCEPT ![u] = "idle"] /\ Trades' = Without(Trades, k0)
        /\ UNCHANGED <<oid, isModify, heap, PermID2Trade, Fills, serverVars>>
    BY <1>5, <2>2 DEF SendOrderFails, GoTo
  <2>4. /\ DOMAIN Trades' = DOMAIN Trades \ {k0}
        /\ \A k \in DOMAIN Trades : k # k0 => Trades'[k] = Trades[k]
    BY <2>3 DEF Without, Restrict
  <2>5. HomeInv'
    BY <2>1, <2>2, <2>3, <2>4, UnsentDropped
  <2>6. \A v \in Ords : /\ Unsent(v)' => Unsent(v)
                        /\ opc'[v] = "send" => opc[v] = "send" /\ v # u
    BY <1>0, <2>3 DEF Unsent
  <2>7. \A o : Known(Me, o)' <=> Known(Me, o)
    BY <2>3 DEF Known
  <2>8. \A v \in Ords : opc'[v] = "send" => <<Me, oid[v]>> \in DOMAIN Trades'
    <3>1. \A v \in Ords : v # u => oid[v] # oid[u]
      BY <1>0, <2>2
    <3> QED
      BY <2>1, <2>4, <2>6, <3>1 DEF OwnInv, SentInv
  <2>9. \A o \in wire : <<Me, o>> \in DOMAIN Trades'
    BY <2>1, <2>2, <2>4 DEF OwnInv, SentInv
  <2>10. \A p \in DOMAIN srv : srv[p].client = Me => <<Me, srv[p].oid>> \in DOMAIN Trades'
    BY <2>1, <2>2, <2>4 DEF OwnInv, SentInv, Known
  <2>11. SentInv'
    BY <2>3, <2>6, <2>7, <2>8, <2>9, <2>10 DEF OwnInv, SentInv
  <2> QED
    BY <2>5, <2>11 DEF OwnInv
<1> QED
  BY <1>1, <1>2, <1>3, <1>4, <1>5 DEF UserStep

LEMMA ServerOwn ==
    ASSUME OrderInv, OwnInv, ServerStep
    PROVE  OwnInv'
<1>1. UNCHANGED <<seq, userVars, operm, stateVars>> /\ wire' \subseteq wire
  BY DEF ServerStep, AcceptOrder, ForeignOrder, EndOrder, Execute
<1>2. ASSUME Stable, \A p \in DOMAIN srv' : \/ p \in DOMAIN srv
                                           \/ srv'[p].client # Me
                                           \/ srv'[p].oid \in wire
      PROVE  OwnInv'
  <2>1. HomeInv'
    <3>1. \A e \in DOMAIN Fills : e[1] \in DOMAIN srv /\ e[1] \in DOMAIN srv'
                                  /\ srv'[e[1]].client = srv[e[1]].client
      BY <1>2 DEF OwnInv, HomeInv, Stable
    <3> QED
      BY <1>1, <3>1 DEF OwnInv, HomeInv
  <2>2. \A p \in DOMAIN srv' : srv'[p].client = Me =>
          \/ srv'[p].oid \in wire
          \/ p \in DOMAIN srv /\ srv[p].client = Me /\ srv[p].oid = srv'[p].oid
    BY <1>2 DEF Stable
  <2>3. \A o : Known(Me, o)' => Known(Me, o) \/ o \in wire
    BY <2>2 DEF Known
  <2>4. \A v \in Ords : Unsent(v)' <=> Unsent(v)
    BY <1>1 DEF Unsent
  <2>5. SentInv'
    BY <1>1, <2>2, <2>3, <2>4 DEF OwnInv, SentInv
  <2> QED
    BY <2>1, <2>5 DEF OwnInv
<1>3. ASSUME NEW c \in {0, Me, Another}, NEW o \in Nat, Register(c, o), c # Me \/ o \in wire
      PROVE  OwnInv'
  <2> DEFINE m == [client |-> c, oid |-> o, status |-> "Submitted", execs |-> 0]
  <2>1. srv \in Seq(ServerOrder) /\ srv' = Append(srv, m)
    BY <1>3 DEF OrderInv, ServerInv, Register
  <2>2. m \in ServerOrder /\ m.client = c /\ m.oid = o
    BY DEF ServerOrder
  <2>3. DOMAIN srv = 1 .. Len(srv) /\ Len(srv) \in Nat
    BY <2>1, LenProperties
  <2> HIDE DEF m
  <2>5. /\ srv' \in Seq(ServerOrder) /\ Len(srv') = Len(srv) + 1 /\ srv'[Len(srv) + 1] = m
        /\ \A i \in 1 .. Len(srv) : srv'[i] = srv[i]
    BY <2>1, <2>2, AppendProperties
  <2>6. DOMAIN srv' = 1 .. Len(srv) + 1
    BY <2>5, LenProperties
  <2>7. /\ \A p \in DOMAIN srv : p \in DOMAIN srv' /\ srv'[p] = srv[p]
        /\ \A p \in DOMAIN srv' : p \in DOMAIN srv \/ srv'[p] = m
    BY <2>3, <2>5, <2>6
  <2>8. Stable
    BY <1>1, <2>7 DEF Stable
  <2> QED
    BY <1>2, <1>3, <2>2, <2>7, <2>8
<1>4. ASSUME NEW o \in wire, AcceptOrder(o) PROVE OwnInv'
  <2>1. CASE Known(Me, o)
    BY <1>1, <1>2, <1>4, <2>1 DEF AcceptOrder, Stable
  <2>2. CASE ~Known(Me, o)
    BY <1>3, <1>4, <2>2 DEF AcceptOrder, OrderInv, ServerInv
  <2> QED
    BY <2>1, <2>2
<1>5. ASSUME NEW f \in Foreign, ForeignOrder(f) PROVE OwnInv'
  <2>1. f.client # Me /\ f.client \in {0, Me, Another} /\ f.oid \in Nat
    BY DEF Foreign, Me, Another
  <2> QED
    BY <1>3, <1>5, <2>1 DEF ForeignOrder
<1>6. ASSUME NEW p, Moves(p) PROVE OwnInv'
  <2>1. Stable
    BY <1>6, OrderMoves
  <2>2. DOMAIN srv' = DOMAIN srv
    BY <1>6 DEF Moves, EndOrder, Execute
  <2> QED
    BY <1>2, <2>1, <2>2
<1> QED
  BY <1>4, <1>5, <1>6 DEF ServerStep, Moves

LEMMA ReaderOwn ==
    ASSUME OrderInv, OwnInv, NEW p \in DOMAIN srv, Handle(p)
    PROVE  OwnInv'
<1>0. UNCHANGED <<userVars, wire, srv>>
  BY DEF Handle, handleOpenOrder, handleOrderStatus, handleExecDetails, handleCommissionReport,
         handleCompletedOrder, handleOrderBound
<1>1. ASSUME TradesGrow, HomeInv' PROVE OwnInv'
  BY <1>0, <1>1, SentKept DEF OwnInv
<1>2. srv[p].oid \in Nat /\ p \in Perms /\ srv[p].status \in {"Submitted"} \cup Done
  BY ServerOrderOf DEF OrderInv, ServerOrder
<1>3. ASSUME NEW k \in {SrvKey(p), <<0, p>>}, k \in DOMAIN Trades, SetPerm(Trades[k], p),
             PermID2Trade' = With(PermID2Trade, p, Trades[k]), UNCHANGED <<Trades, Fills>>
      PROVE  OwnInv'
  <2>1. heap' = heap
    BY <1>3, KeyLeadsHome, SetPermEffect
  <2>2. /\ DOMAIN PermID2Trade' = DOMAIN PermID2Trade \cup {p} /\ PermID2Trade'[p] = Trades[k]
        /\ \A q \in DOMAIN PermID2Trade : q # p => PermID2Trade'[q] = PermID2Trade[q]
    BY <1>3 DEF With
  <2>3. TradesGrow /\ Stable
    BY <1>0, <1>3, <2>1 DEF TradesGrow, Stable
  <2>4. Trades[k] \in Range(Trades)
    BY <1>3 DEF Range
  <2>5. HomeInv'
    BY <1>0, <1>3, <2>1, <2>2, <2>3, <2>4, HomeKept DEF OwnInv
  <2> QED
    BY <1>1, <2>3, <2>5
<1>4. ASSUME NEW k \in {SrvKey(p), <<0, p>>}, k \notin DOMAIN Trades,
             heap' = Append(heap, NewTrade(NoOrd, p, srv[p].status)),
             Trades' = With(Trades, k, Len(heap) + 1),
             PermID2Trade' = With(PermID2Trade, p, Len(heap) + 1), Fills' = Fills
      PROVE  OwnInv'
  <2>1. PICK n : n = Len(heap) + 1
    OBVIOUS
  <2>2. NewTrade(NoOrd, p, srv[p].status) \in TradeType
    BY <1>2 DEF NewTrade, TradeType, Statuses
  <2>3. Stable /\ \A t \in DOMAIN heap : heap'[t] = heap[t]
    BY <1>0, <1>4, <2>2, TradeEntered
  <2>4. /\ DOMAIN PermID2Trade' = DOMAIN PermID2Trade \cup {p} /\ PermID2Trade'[p] = n
        /\ \A q \in DOMAIN PermID2Trade : q # p => PermID2Trade'[q] = PermID2Trade[q]
    BY <1>4, <2>1 DEF With
  <2>5. /\ DOMAIN Trades' = DOMAIN Trades \cup {k} /\ Trades'[k] = n
        /\ TradesGrow
    BY <1>4, <2>1 DEF With, TradesGrow
  <2>6. n \in Range(Trades')
    BY <2>5 DEF Range
  <2>7. k[1] = 0 => k[2] = p
    BY <1>2 DEF SrvKey, orderKeyFromIDs, OrderInv, ServerInv
  <2>8. HomeInv'
    BY <1>0, <1>4, <2>3, <2>4, <2>5, <2>6, <2>7, HomeKept DEF OwnInv
  <2> QED
    BY <1>1, <2>5, <2>8
<1>5. CASE handleOpenOrder(p)
  <2> DEFINE k == SrvKey(p)
  <2>1. k = orderKeyFromOrder(Message(p)) /\ Message(p).status = srv[p].status
    BY DEF SrvKey, orderKeyFromOrder, Message
  <2> HIDE DEF k
  <2>2. k \in {SrvKey(p), <<0, p>>}
    BY DEF k
  <2>3. CASE k \in DOMAIN Trades
    <3>1. /\ SetPerm(Trades[k], p) /\ PermID2Trade' = With(PermID2Trade, p, Trades[k])
          /\ UNCHANGED <<Trades, Fills>>
      BY <1>5, <2>1, <2>3 DEF handleOpenOrder
    <3> QED
      BY <1>3, <2>2, <2>3, <3>1
  <2>4. CASE k \notin DOMAIN Trades
    <3>1. /\ heap' = Append(heap, NewTrade(NoOrd, p, srv[p].status))
          /\ Trades' = With(Trades, k, Len(heap) + 1)
          /\ PermID2Trade' = With(PermID2Trade, p, Len(heap) + 1)
          /\ Fills' = Fills
      BY <1>5, <2>1, <2>4 DEF handleOpenOrder
    <3> QED
      BY <1>4, <2>2, <2>4, <3>1
  <2> QED
    BY <2>3, <2>4
<1>6. CASE handleOrderBound(p)
  <2>1. SrvKey(p) = <<srv[p].client, srv[p].oid>>
    BY <1>2, <1>6 DEF handleOrderBound, Message, SrvKey, orderKeyFromIDs
  <2>2. PICK k \in {SrvKey(p), <<0, p>>} :
           /\ k \in DOMAIN Trades /\ SetPerm(Trades[k], p)
           /\ PermID2Trade' = With(PermID2Trade, p, Trades[k]) /\ UNCHANGED <<Trades, Fills>>
    BY <1>6, <2>1 DEF handleOrderBound, Message
  <2> QED
    BY <1>3, <2>2
<1>7. CASE handleCompletedOrder(p)
  <2>1. <<0, p>> \notin DOMAIN Trades
    BY <1>7 DEF handleCompletedOrder, OwnInv, HomeInv
  <2>2. PICK k \in {SrvKey(p), <<0, p>>} : k = <<0, p>>
    OBVIOUS
  <2>3. /\ heap' = Append(heap, NewTrade(NoOrd, p, srv[p].status))
        /\ Trades' = With(Trades, k, Len(heap) + 1)
        /\ PermID2Trade' = With(PermID2Trade, p, Len(heap) + 1)
        /\ Fills' = Fills
    BY <1>7, <2>2 DEF handleCompletedOrder
  <2> QED
    BY <1>4, <2>1, <2>2, <2>3
<1>8. CASE handleOrderStatus(p)
  <2>1. UNCHANGED <<Trades, PermID2Trade, Fills>>
    BY <1>8 DEF handleOrderStatus
  <2>2. /\ DOMAIN heap' = DOMAIN heap
        /\ \A x \in DOMAIN heap : /\ heap'[x].order = heap[x].order /\ heap'[x].perm = heap[x].perm
                                  /\ heap'[x].fills = heap[x].fills
    BY <1>8, OrderStatusEffect
  <2>3. TradesGrow /\ Stable
    BY <1>0, <2>1, <2>2 DEF TradesGrow, Stable
  <2>4. HomeInv'
    BY <2>1, <2>2, <2>3, HomeKept DEF OwnInv
  <2> QED
    BY <1>1, <2>3, <2>4
<1>9. ASSUME NEW i \in 1 .. MaxExecs, handleExecDetails(p, i) PROVE OwnInv'
  <2>1. UNCHANGED <<Trades, PermID2Trade>>
    BY <1>9 DEF handleExecDetails
  <2>2. TradesGrow
    BY <2>1 DEF TradesGrow
  <2>3. CASE <<p, i>> \in DOMAIN Fills
    <3>1. UNCHANGED <<Fills, heap>>
      BY <1>9, <2>3 DEF handleExecDetails
    <3>2. HomeInv'
      BY <1>0, <2>1, <3>1 DEF OwnInv, HomeInv
    <3> QED
      BY <1>1, <2>2, <3>2
  <2>4. CASE <<p, i>> \notin DOMAIN Fills
    <3>0. <<p, i>>[1] = p
      OBVIOUS
    <3>1. PICK e, t : e = <<p, i>> /\ e[1] = p /\ t = ByPermThenKey(SrvKey(p), p)
      BY <3>0, Zenon
    <3>2. /\ DOMAIN Fills' = DOMAIN Fills \cup {e}
          /\ \/ t = 0 /\ heap' = heap
             \/ /\ t \in Live /\ t \in DOMAIN heap /\ DOMAIN heap' = DOMAIN heap
                /\ \A x \in DOMAIN heap : x # t => heap'[x] = heap[x]
                /\ heap'[t].order = heap[t].order /\ heap'[t].perm = heap[t].perm
                /\ Range(heap'[t].fills) = Range(heap[t].fills) \cup {e}
      BY <1>9, <2>4, <3>1, ExecDetailsEffect
    <3>3. Stable
      BY <1>0, <3>2 DEF Stable
    <3>4. \A x \in DOMAIN heap : Range(heap[x].fills) \subseteq Range(heap'[x].fills)
      BY <3>2
    <3>5. ASSUME srv[p].client = Me
          PROVE  \E k \in DOMAIN Trades' : e \in Range(heap'[Trades'[k]].fills)
      <4>1. Live = Range(Trades)
        BY DEF OwnInv, HomeInv, Live, Range
      <4>2. t # 0
        <5>1. srv[p].oid # 0
          BY <3>5 DEF OrderInv, ServerInv, Me
        <5>2. SrvKey(p) \in DOMAIN Trades
          BY <1>2, <3>5, <5>1 DEF SrvKey, orderKeyFromIDs, OwnInv, SentInv
        <5>3. t \in Live
          BY <3>1, <5>2 DEF ByPermThenKey, Live, Range
        <5>4. t \in 1 .. Len(heap)
          BY <5>3, LiveInHeap, LenProperties DEF OrderInv, TypeOK
        <5> QED
          BY <5>4, LenProperties DEF OrderInv, TypeOK
      <4>3. PICK k \in DOMAIN Trades : t = Trades[k]
        BY <3>2, <4>1, <4>2 DEF Range
      <4> QED
        BY <2>1, <3>2, <4>2, <4>3
    <3>6. HomeInv'
      <4>1. \A x \in DOMAIN Fills' : \/ x \in DOMAIN Fills
                                     \/ /\ x[1] \in DOMAIN srv'
                                        /\ srv'[x[1]].client = Me =>
                                              \E k \in DOMAIN Trades' : x \in Range(heap'[Trades'[k]].fills)
        BY <1>0, <3>1, <3>2, <3>5
      <4> QED
        BY <2>1, <2>2, <3>3, <3>4, <4>1, HomeKept DEF OwnInv
    <3> QED
      BY <1>1, <2>2, <3>6
  <2> QED
    BY <2>3, <2>4
<1>10. ASSUME NEW i \in 1 .. MaxExecs, handleCommissionReport(p, i) PROVE OwnInv'
  <2>1. UNCHANGED <<heap, Trades, PermID2Trade>> /\ DOMAIN Fills' = DOMAIN Fills
    BY <1>10 DEF handleCommissionReport
  <2>2. TradesGrow
    BY <2>1 DEF TradesGrow
  <2>3. HomeInv'
    BY <1>0, <2>1 DEF OwnInv, HomeInv
  <2> QED
    BY <1>1, <2>2, <2>3
<1> QED
  BY <1>5, <1>6, <1>7, <1>8, <1>9, <1>10 DEF Handle
LEMMA OwnNext == ASSUME ~MayReset PROVE OrderInv /\ OwnInv /\ [Next]_vars => OwnInv'
<1> SUFFICES ASSUME OrderInv, OwnInv, [Next]_vars PROVE OwnInv'
  OBVIOUS
<1>1. CASE UNCHANGED vars
  <2>1. TradesGrow /\ UNCHANGED <<userVars, wire, srv>>
    BY <1>1 DEF TradesGrow
  <2>2. HomeInv'
    BY <1>1 DEF OwnInv, HomeInv
  <2> QED
    BY <2>1, <2>2, SentKept DEF OwnInv
<1>2. CASE Next
  BY <1>2, UserOwn, ServerOwn, ReaderOwn DEF Next, Reset
<1> QED
  BY <1>1, <1>2

LEMMA OwnInvariant == ASSUME ~MayReset PROVE Spec => []OwnInv
<1>1. Init => OwnInv
  BY DEF Init, OwnInv, HomeInv, SentInv, Unsent
<1>2. OrderInv /\ OwnInv /\ [Next]_vars => OwnInv'
  BY OwnNext
<1> QED
  BY <1>1, <1>2, OrderInvariant, PTL DEF Spec

LEMMA PlacedKept ==
    ASSUME TypeOK, PlacedInv,
           \A t \in DOMAIN heap : heap'[t].order = heap[t].order,
           \A k \in DOMAIN Trades' : \/ k \in DOMAIN Trades /\ Trades'[k] = Trades[k]
                                     \/ k[1] # Me
                                     \/ heap'[Trades'[k]].order # NoOrd
    PROVE  PlacedInv'
BY DEF PlacedInv, TypeOK

\* The reader makes no trade under a key of this client: there is one already.
LEMMA PlacedNext ==
    ASSUME ~MayReset PROVE OrderInv /\ OwnInv /\ PlacedInv /\ [Next]_vars => PlacedInv'
<1> SUFFICES ASSUME OrderInv, OwnInv, PlacedInv, [Next]_vars PROVE PlacedInv'
  OBVIOUS
<1>0. TypeOK
  BY DEF OrderInv
<1>1. ASSUME heap' = heap,
             \A k \in DOMAIN Trades' : k \in DOMAIN Trades /\ Trades'[k] = Trades[k]
      PROVE  PlacedInv'
  BY <1>0, <1>1, PlacedKept
<1>2. ASSUME NEW u \in Ords, InsertTrade(u) PROVE PlacedInv'
  <2>1. PICK k0, n, tr : k0 = KeyOf(u) /\ n = Len(heap) + 1 /\ tr = NewTrade(u, 0, "PendingSubmit")
    OBVIOUS
  <2>2. tr \in TradeType /\ tr.order # NoOrd
    BY <2>1, BoundsAssumption, OrdsAssumption DEF NewTrade, TradeType, Statuses, Perms
  <2>3. heap' = Append(heap, tr) /\ Trades' = With(Trades, k0, n)
    BY <1>2, <2>1 DEF InsertTrade
  <2>4. heap'[n] = tr /\ \A t \in DOMAIN heap : heap'[t] = heap[t]
    BY <1>0, <2>1, <2>2, <2>3, HeapGrows
  <2>5. /\ DOMAIN Trades' = DOMAIN Trades \cup {k0} /\ Trades'[k0] = n
        /\ \A k \in DOMAIN Trades : k # k0 => Trades'[k] = Trades[k]
    BY <2>3 DEF With
  <2> QED
    BY <1>0, <2>2, <2>4, <2>5, PlacedKept
<1>3. ASSUME NEW u \in Ords, UserStep(u), ~InsertTrade(u) PROVE PlacedInv'
  <2>1. heap' = heap /\ \A k \in DOMAIN Trades' : k \in DOMAIN Trades /\ Trades'[k] = Trades[k]
    BY <1>3 DEF UserStep, PlaceOrder, SendOrder, SendOrderFails, Without, Restrict
  <2> QED
    BY <1>1, <2>1
<1>4. CASE ServerStep
  <2>1. UNCHANGED <<heap, Trades>>
    BY <1>4 DEF ServerStep, AcceptOrder, ForeignOrder, EndOrder, Execute
  <2> QED
    BY <1>1, <2>1
<1>5. ASSUME NEW p \in DOMAIN srv, Handle(p) PROVE PlacedInv'
  <2>1. srv[p].oid \in Nat /\ p \in Perms /\ srv[p].status \in {"Submitted"} \cup Done
    BY ServerOrderOf DEF OrderInv, ServerOrder
  <2>2. ASSUME NEW k, k[1] # Me, NEW n, n = Len(heap) + 1,
               heap' = Append(heap, NewTrade(NoOrd, p, srv[p].status)), Trades' = With(Trades, k, n)
        PROVE  PlacedInv'
    <3>1. NewTrade(NoOrd, p, srv[p].status) \in TradeType
      BY <2>1 DEF NewTrade, TradeType, Statuses
    <3>2. \A t \in DOMAIN heap : heap'[t] = heap[t]
      BY <1>0, <2>2, <3>1, HeapGrows
    <3>3. /\ DOMAIN Trades' = DOMAIN Trades \cup {k}
          /\ \A x \in DOMAIN Trades : x # k => Trades'[x] = Trades[x]
      BY <2>2 DEF With
    <3> QED
      BY <1>0, <2>2, <3>2, <3>3, PlacedKept
  <2>3. ASSUME NEW k \in {SrvKey(p), <<0, p>>}, k \in DOMAIN Trades, SetPerm(Trades[k], p),
               UNCHANGED Trades
        PROVE  PlacedInv'
    <3>1. heap' = heap
      BY <2>3, KeyLeadsHome, SetPermEffect
    <3> QED
      BY <1>1, <2>3, <3>1
  <2>4. CASE handleOpenOrder(p)
    <3>1. PICK k, n : k = SrvKey(p) /\ n = Len(heap) + 1
      OBVIOUS
    <3>2. k = orderKeyFromOrder(Message(p)) /\ Message(p).status = srv[p].status
      BY <3>1 DEF SrvKey, orderKeyFromOrder, Message
    <3>3. CASE k \in DOMAIN Trades
      <4>1. SetPerm(Trades[k], p) /\ UNCHANGED Trades
        BY <2>4, <3>2, <3>3 DEF handleOpenOrder
      <4> QED
        BY <2>3, <3>1, <3>3, <4>1
    <3>4. CASE k \notin DOMAIN Trades
      <4>1. k[1] # Me
        <5>1. srv[p].client = Me => srv[p].oid # 0 /\ <<Me, srv[p].oid>> \in DOMAIN Trades
          BY DEF OrderInv, ServerInv, OwnInv, SentInv, Me
        <5> QED
          BY <2>1, <3>1, <3>4, <5>1 DEF SrvKey, orderKeyFromIDs, Me
      <4>2. /\ heap' = Append(heap, NewTrade(NoOrd, p, srv[p].status))
            /\ Trades' = With(Trades, k, n)
        BY <2>4, <3>1, <3>2, <3>4 DEF handleOpenOrder
      <4> QED
        BY <2>2, <3>1, <4>1, <4>2
    <3> QED
      BY <3>3, <3>4
  <2>5. CASE handleCompletedOrder(p)
    <3>0. <<0, p>>[1] # Me
      BY DEF Me
    <3>1. PICK k, n : k = <<0, p>> /\ k[1] # Me /\ n = Len(heap) + 1
      BY <3>0, Zenon
    <3>2. heap' = Append(heap, NewTrade(NoOrd, p, srv[p].status)) /\ Trades' = With(Trades, k, n)
      BY <2>5, <3>1 DEF handleCompletedOrder
    <3> QED
      BY <2>2, <3>1, <3>2
  <2>6. CASE handleOrderBound(p)
    <3>1. SrvKey(p) = <<srv[p].client, srv[p].oid>>
      BY <2>1, <2>6 DEF handleOrderBound, Message, SrvKey, orderKeyFromIDs
    <3>2. PICK k \in {SrvKey(p), <<0, p>>} : k \in DOMAIN Trades /\ SetPerm(Trades[k], p) /\ UNCHANGED Trades
      BY <2>6, <3>1 DEF handleOrderBound, Message
    <3> QED
      BY <2>3, <3>2
  <2>7. CASE handleOrderStatus(p)
    <3>1. UNCHANGED Trades /\ \A x \in DOMAIN heap : heap'[x].order = heap[x].order
      BY <2>7, OrderStatusEffect DEF handleOrderStatus
    <3> QED
      BY <1>0, <3>1, PlacedKept
  <2>8. ASSUME NEW i \in 1 .. MaxExecs, handleExecDetails(p, i) PROVE PlacedInv'
    <3>1. UNCHANGED Trades
      BY <2>8 DEF handleExecDetails
    <3>2. CASE <<p, i>> \in DOMAIN Fills
      BY <1>1, <2>8, <3>1, <3>2 DEF handleExecDetails
    <3>3. CASE <<p, i>> \notin DOMAIN Fills
      <4>1. \A x \in DOMAIN heap : heap'[x].order = heap[x].order
        BY <2>8, <3>3, ExecDetailsEffect
      <4> QED
        BY <1>0, <3>1, <4>1, PlacedKept
    <3> QED
      BY <3>2, <3>3
  <2>9. ASSUME NEW i \in 1 .. MaxExecs, handleCommissionReport(p, i) PROVE PlacedInv'
    BY <1>1, <2>9 DEF handleCommissionReport
  <2> QED
    BY <1>5, <2>4, <2>5, <2>6, <2>7, <2>8, <2>9 DEF Handle
<1>6. CASE UNCHANGED vars
  BY <1>1, <1>6
<1> QED
  BY <1>2, <1>3, <1>4, <1>5, <1>6 DEF Next, Reset

LEMMA PlacedInvariant == ASSUME ~MayReset PROVE Spec => []PlacedInv
<1>1. Init => PlacedInv
  BY DEF Init, PlacedInv
<1> QED
  BY <1>1, PlacedNext, OrderInvariant, OwnInvariant, PTL DEF Spec

\* A trade in Trades that holds an execution of an order placed here is under the key
\* PlaceOrder used, or under the one a completedOrder of that order makes.
LEMMA FillUnderOwnKey ==
    ASSUME OrderInv, NEW p \in DOMAIN srv, srv[p].client = Me, NEW k \in DOMAIN Trades,
           Matches(Trades[k], p)
    PROVE  k \in {<<Me, srv[p].oid>>, <<0, p>>}
<1>1. KeyHolds(k)
  BY DEF OrderInv, KeyInv
<1>2. SrvKey(p) \in {<<Me, srv[p].oid>>, <<0, p>>}
  BY DEF SrvKey, orderKeyFromIDs
<1> QED
  BY <1>1, <1>2 DEF KeyHolds, Matches

\* As long as the connection lives, every execution reported of an order placed here is in
\* the trade PlaceOrder made for it, or in the second one that a completedOrder makes when
\* it is the first message to give the order's permId.  (After a reconnect the trades are
\* gone until the server reports the orders again.)
THEOREM OwnFillsKept == ASSUME ~MayReset PROVE Spec => []OwnFillsAttached
<1>1. OrderInv /\ OwnInv /\ PlacedInv => OwnFillsAttached
  <2> SUFFICES ASSUME OrderInv, OwnInv, PlacedInv, NEW e \in DOMAIN Fills, srv[e[1]].client = Me
               PROVE  LET placed == Trades[<<Me, srv[e[1]].oid>>]
                          second == <<0, e[1]>>
                      IN  \/ heap[placed].order # NoOrd /\ e \in Range(heap[placed].fills)
                          \/ second \in DOMAIN Trades /\ e \in Range(heap[Trades[second]].fills)
    BY DEF OwnFillsAttached
  <2>1. PICK p \in DOMAIN srv : p = e[1]
    BY DEF OwnInv, HomeInv
  <2>2. PICK k \in DOMAIN Trades : e \in Range(heap[Trades[k]].fills)
    BY DEF OwnInv, HomeInv
  <2>3. Matches(Trades[k], p)
    BY <2>1, <2>2 DEF OrderInv, TypeOK, FillInv
  <2>4. k \in {<<Me, srv[p].oid>>, <<0, p>>}
    BY <2>1, <2>3, FillUnderOwnKey
  <2>5. k = <<Me, srv[p].oid>> => heap[Trades[k]].order # NoOrd
    BY DEF PlacedInv
  <2> QED
    BY <2>1, <2>2, <2>4, <2>5
<1> QED
  BY <1>1, OrderInvariant, OwnInvariant, PlacedInvariant, PTL

\* As long as the connection lives, no step takes a trade the server has confirmed out of
\* Trades: what a failing PlaceOrder drops is an order the server has never seen.
THEOREM ConfirmedStays == ASSUME ~MayReset PROVE Spec => ConfirmedKept
<1> DEFINE Keeps == \A k \in DOMAIN Trades : Trades[k] \in Range(PermID2Trade) => k \in DOMAIN Trades'
<1>1. ASSUME OrderInv, OwnInv, Next PROVE Keeps
  <2>1. ASSUME NEW u \in Ords, SendOrderFails(u) PROVE Keeps
    <3>1. CASE isModify[u]
      BY <2>1, <3>1 DEF SendOrderFails
    <3>2. CASE ~isModify[u]
      <4>1. KeyOf(u) = <<Me, oid[u]>> /\ Unsent(u)
        BY <1>1, <2>1, <3>2 DEF SendOrderFails, KeyOf, orderKeyFromIDs, Unsent, OrderInv, TypeOK, IdInv
      <4>2. DOMAIN Trades' = DOMAIN Trades \ {<<Me, oid[u]>>}
        BY <2>1, <3>2, <4>1 DEF SendOrderFails, Without, Restrict
      <4>3. <<Me, oid[u]>> \in DOMAIN Trades => Trades[<<Me, oid[u]>>] \notin Range(PermID2Trade)
        BY <1>1, <4>1, UnsentIsUnknown DEF Range
      <4> QED
        BY <4>2, <4>3
    <3> QED
      BY <3>1, <3>2
  <2>2. ASSUME NEW u \in Ords, UserStep(u), ~SendOrderFails(u) PROVE Keeps
    BY <2>2 DEF UserStep, PlaceOrder, InsertTrade, SendOrder, With
  <2>3. CASE ServerStep
    BY <2>3 DEF ServerStep, AcceptOrder, ForeignOrder, EndOrder, Execute
  <2>4. ASSUME NEW p \in DOMAIN srv, Handle(p) PROVE Keeps
    BY <2>4 DEF Handle, handleOpenOrder, handleOrderStatus, handleExecDetails,
                handleCommissionReport, handleCompletedOrder, handleOrderBound, With
  <2> QED
    BY <1>1, <2>1, <2>2, <2>3, <2>4 DEF Next, Reset
<1>2. OrderInv /\ OwnInv /\ [Next]_vars => [resets' = resets => Keeps]_vars
  BY <1>1
<1> QED
  BY <1>2, OrderInvariant, OwnInvariant, PTL DEF Spec, ConfirmedKept
=============================================================================
