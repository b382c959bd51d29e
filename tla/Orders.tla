------------------------------- MODULE Orders -------------------------------
(***************************************************************************)
(* Orders, trades and fills.                                               *)
(*                                                                         *)
(* The user's goroutines place and modify orders; the reader               *)
(* goroutine learns of the same orders, and of those of TWS and of other   *)
(* clients, from openOrder, orderStatus, execDetails, commissionReport,    *)
(* completedOrder and orderBound messages.  They meet in OrderState: the   *)
(* trades by order key, the trades by permId and the fills by execId.      *)
(*                                                                         *)
(* A step is what the code does under one hold of Manager.Mu.  What an     *)
(* order is for (contract, price, conditions) does not influence the       *)
(* bookkeeping and is left out, and so are the log and the events other    *)
(* than FilledEvent and CancelledEvent.  CancelOrder only writes a message; *)
(* the server may end an order whether it was asked to or not.             *)
(***************************************************************************)
EXTENDS Integers, Sequences, Functions

CONSTANTS
    Ords,         \* the user's order.Order objects, one goroutine using each
    NoOrd,        \* stands for an Order made by a handler
    MaxPlace,     \* bound: PlaceOrder calls for each of them
    MaxOrders,    \* bound: orders the server knows
    MaxExecs,     \* bound: executions of one order
    MaxTrades,    \* bound: Trade objects made
    SendMayFail,  \* a message may fail to be written
    MayReset      \* the connection may be lost and made again, once

ASSUME OrdsAssumption == NoOrd \notin Ords
ASSUME BoundsAssumption ==
    /\ MaxPlace \in Nat
    /\ MaxOrders \in Nat
    /\ MaxExecs \in Nat
    /\ MaxTrades \in Nat
ASSUME ModesAssumption == SendMayFail \in BOOLEAN /\ MayReset \in BOOLEAN

Me      == 1                     \* Client.ClientID
Another == 2                     \* another client of the same account
Perms   == 1 .. MaxOrders        \* permIds; 0 is "not known yet"
Execs   == Perms \X (1 .. MaxExecs)
\* DoneStates
Done    == {"Filled", "Cancelled", "ApiCancelled", "Inactive"}

VARIABLES
    seq,           \* Client.reqIDSeq
    \* the goroutine of each order object
    opc,           \* where it is in PlaceOrder
    oid,           \* Order.OrderID, 0 before the first PlaceOrder
    operm,         \* Order.PermID
    isModify,      \* its isModify
    places,        \* PlaceOrder calls made
    \* OrderState, and the Trade objects its maps point to
    heap,          \* the Trade objects, in the order they were made
    Trades,        \* OrderKey -> index in heap
    PermID2Trade,  \* permId -> index in heap
    Fills,         \* execId -> has its commission report come
    \* the server
    wire,          \* placeOrder messages written and not yet seen by the server
    srv,           \* the orders it knows; the permId is the index
    told,          \* executions it has reported
    commissions,   \* executions whose commission it has reported
    resets         \* Manager.Reset calls so far

userVars   == <<opc, oid, isModify, places>>
stateVars  == <<heap, Trades, PermID2Trade, Fills>>
serverVars == <<wire, srv, told, commissions>>
vars == <<seq, userVars, operm, stateVars, serverVars, resets>>

-----------------------------------------------------------------------------
(* Values *)

\* What the server says of an order it knows.
Message(p) == [client |-> srv[p].client, oid |-> srv[p].oid, perm |-> p,
               status |-> srv[p].status]

\* The orders TWS and another client may bring up.  A manual order has no
\* order id; the other client numbers its orders as this one does.
Foreign == {[client |-> 0, oid |-> 0], [client |-> Another, oid |-> 1]}

\* Mutant: the client id is left out of the key.
orderKeyWithoutClient(client, orderID, perm) ==
    IF orderID <= 0 THEN <<0, perm>> ELSE <<Me, orderID>>

orderKeyFromIDs(client, orderID, perm) ==
    IF orderID <= 0 THEN <<0, perm>> ELSE <<client, orderID>>
orderKeyFromOrder(m) == orderKeyFromIDs(m.client, m.oid, m.perm)
orderKeyForExec(m)   == orderKeyFromIDs(m.client, m.oid, m.perm)

\* A new Trade around the user's order u, or around one made by a handler.
NewTrade(u, perm, status) ==
    [order |-> u, perm |-> perm, status |-> status, fills |-> <<>>,
     filled |-> 0, cancelled |-> 0]

\* Trade.Order.PermID
PermOf(t) == IF heap[t].order = NoOrd THEN heap[t].perm
                                      ELSE operm[heap[t].order]

With(f, k, v) == [x \in DOMAIN f \cup {k} |-> IF x = k THEN v ELSE f[x]]
Without(f, k) == Restrict(f, DOMAIN f \ {k})

KeyOf(u) == orderKeyFromIDs(Me, oid[u], operm[u])

Init ==
    /\ seq = 1
    /\ opc = [u \in Ords |-> "idle"]
    /\ oid = [u \in Ords |-> 0]
    /\ operm = [u \in Ords |-> 0]
    /\ isModify = [u \in Ords |-> FALSE]
    /\ places = [u \in Ords |-> 0]
    /\ heap = <<>>
    /\ Trades = <<>>
    /\ PermID2Trade = <<>>
    /\ Fills = <<>>
    /\ wire = {}
    /\ srv = <<>>
    /\ told = {}
    /\ commissions = {}
    /\ resets = 0

-----------------------------------------------------------------------------
(* The user *)

GoTo(u, l) == opc' = [opc EXCEPT ![u] = l]

\* An order without an id gets the next one; an order whose key is known is
\* being modified.
PlaceOrder(u) ==
    /\ opc[u] = "idle"
    /\ places[u] < MaxPlace
    /\ places' = [places EXCEPT ![u] = @ + 1]
    /\ LET id == IF oid[u] = 0 THEN seq ELSE oid[u]
           known == orderKeyFromIDs(Me, id, operm[u]) \in DOMAIN Trades
       IN  /\ seq' = IF oid[u] = 0 THEN seq + 1 ELSE seq
           /\ oid' = [oid EXCEPT ![u] = id]
           /\ isModify' = [isModify EXCEPT ![u] = known]
           /\ GoTo(u, IF known THEN "send" ELSE "insert")
    /\ UNCHANGED <<operm, stateVars, serverVars, resets>>

\* A new order is entered under its key before it is written.
InsertTrade(u) ==
    /\ opc[u] = "insert"
    /\ Len(heap) < MaxTrades
    /\ GoTo(u, "send")
    /\ heap' = Append(heap, NewTrade(u, 0, "PendingSubmit"))
    /\ Trades' = With(Trades, KeyOf(u), Len(heap) + 1)
    /\ UNCHANGED <<seq, oid, isModify, places, operm, PermID2Trade, Fills,
                   serverVars, resets>>

\* Client.Send of the order succeeds.
SendOrder(u) ==
    /\ opc[u] = "send"
    /\ GoTo(u, "idle")
    /\ wire' = wire \cup {oid[u]}
    /\ UNCHANGED <<seq, oid, isModify, places, operm, stateVars, srv,
                   told, commissions, resets>>

\* Mutant: a failed modification forgets the trade as a failed new order does.
SendOrderFailsForgets(u) ==
    /\ SendMayFail
    /\ opc[u] = "send"
    /\ GoTo(u, "idle")
    /\ Trades' = Without(Trades, KeyOf(u))
    /\ UNCHANGED <<seq, oid, isModify, places, operm, heap, PermID2Trade, Fills,
                   serverVars, resets>>

\* It fails: a new order is forgotten, a modified one is kept.
SendOrderFails(u) ==
    /\ SendMayFail
    /\ opc[u] = "send"
    /\ GoTo(u, "idle")
    /\ Trades' = IF isModify[u] THEN Trades ELSE Without(Trades, KeyOf(u))
    /\ UNCHANGED <<seq, oid, isModify, places, operm, heap, PermID2Trade, Fills,
                   serverVars, resets>>

-----------------------------------------------------------------------------
(* The server, as the handlers see it: it numbers the orders it accepts,   *)
(* executes and ends them, and may say anything true of them, more than    *)
(* once and in any order, except that the commission of an execution       *)
(* follows the execution.                                                  *)

Register(client, orderID) ==
    /\ Len(srv) < MaxOrders
    /\ srv' = Append(srv, [client |-> client, oid |-> orderID,
                           status |-> "Submitted", execs |-> 0])

Known(client, orderID) ==
    \E p \in DOMAIN srv : srv[p].client = client /\ srv[p].oid = orderID

\* A placeOrder message is a new order, or changes one the server has.
AcceptOrder(orderID) ==
    /\ orderID \in wire
    /\ wire' = wire \ {orderID}
    /\ IF Known(Me, orderID) THEN UNCHANGED srv ELSE Register(Me, orderID)
    /\ UNCHANGED <<seq, userVars, operm, stateVars, told, commissions,
                   resets>>

ForeignOrder(f) ==
    /\ ~Known(f.client, f.oid)
    /\ Register(f.client, f.oid)
    /\ UNCHANGED <<seq, userVars, operm, stateVars, wire, told,
                   commissions, resets>>

\* An execution; the last one fills the order.
Execute(p, last) ==
    /\ p \in DOMAIN srv
    /\ srv[p].status = "Submitted" /\ srv[p].execs < MaxExecs
    /\ srv' = [srv EXCEPT ![p].execs = @ + 1,
                          ![p].status = IF last THEN "Filled" ELSE @]
    /\ UNCHANGED <<seq, userVars, operm, stateVars, wire, told,
                   commissions, resets>>

\* An order ends without being filled.
EndOrder(p, status) ==
    /\ p \in DOMAIN srv
    /\ srv[p].status = "Submitted"
    /\ srv' = [srv EXCEPT ![p].status = status]
    /\ UNCHANGED <<seq, userVars, operm, stateVars, wire, told,
                   commissions, resets>>

-----------------------------------------------------------------------------
(* The reader goroutine *)

UpdateReqID(min) == seq' = IF seq >= min THEN seq ELSE min

\* trade.Order.PermID = perm, for a trade that exists.
SetPerm(t, perm) ==
    IF heap[t].order = NoOrd
    THEN heap' = [heap EXCEPT ![t].perm = perm] /\ UNCHANGED operm
    ELSE operm' = [operm EXCEPT ![heap[t].order] = perm] /\ UNCHANGED heap

\* A trade under this key is updated (its status is not), or made.
handleOpenOrder(p) ==
    LET m == Message(p)
        key == orderKeyFromOrder(m)
        t == IF key \in DOMAIN Trades THEN Trades[key] ELSE Len(heap) + 1
    IN  /\ IF key \in DOMAIN Trades
           THEN SetPerm(t, p) /\ UNCHANGED Trades
           ELSE /\ Len(heap) < MaxTrades
                /\ heap' = Append(heap, NewTrade(NoOrd, p, m.status))
                /\ Trades' = With(Trades, key, t)
                /\ UNCHANGED operm
        /\ PermID2Trade' = With(PermID2Trade, p, t)
        /\ UpdateReqID(m.oid + 1)
        /\ UNCHANGED <<userVars, Fills, serverVars, resets>>

\* The trade an order message is about: by key, else by permId, else none (0).
ByKeyThenPerm(key, perm) ==
    IF key \in DOMAIN Trades THEN Trades[key]
    ELSE IF perm \in DOMAIN PermID2Trade THEN PermID2Trade[perm]
    ELSE 0

\* Mutant: the events are raised by every report, not by a change of status.
handleOrderStatusAlways(p) ==
    LET m == Message(p)
        t == ByKeyThenPerm(orderKeyFromIDs(m.client, m.oid, p), p)
    IN  /\ t # 0
        /\ heap' = [heap EXCEPT
                ![t].status = m.status,
                ![t].filled = IF m.status = "Filled" THEN @ + 1 ELSE @]
        /\ UNCHANGED <<seq, userVars, operm, Trades, PermID2Trade, Fills,
                       serverVars, resets>>

\* The status is replaced; reaching Filled or Cancelled raises its event.
handleOrderStatus(p) ==
    LET m == Message(p)
        t == ByKeyThenPerm(orderKeyFromIDs(m.client, m.oid, p), p)
        reaches(s) == m.status = s /\ heap[t].status # s
    IN  /\ t # 0
        /\ heap' = [heap EXCEPT
                ![t].status = m.status,
                ![t].filled = IF reaches("Filled") THEN @ + 1 ELSE @,
                ![t].cancelled = IF reaches("Cancelled") THEN @ + 1 ELSE @]
        /\ UNCHANGED <<seq, userVars, operm, Trades, PermID2Trade, Fills,
                       serverVars, resets>>

\* Mutant: the trade of an execution is looked for by permId only.
ByPermOnly(key, perm) ==
    IF perm \in DOMAIN PermID2Trade THEN PermID2Trade[perm] ELSE 0

\* The trade an execution belongs to: by permId, else by key, else none (0).
ByPermThenKey(key, perm) ==
    IF perm \in DOMAIN PermID2Trade THEN PermID2Trade[perm]
    ELSE IF key \in DOMAIN Trades THEN Trades[key]
    ELSE 0

\* Mutant: an execution that was reported before is recorded again.
handleExecDetailsAgain(p, i) ==
    LET e == <<p, i>>
        t == ByPermThenKey(orderKeyForExec(Message(p)), p)
    IN  /\ i <= srv[p].execs
        /\ told' = told \cup {e}
        /\ Fills' = With(Fills, e, FALSE)
        /\ heap' = IF t # 0 /\ Len(heap[t].fills) <= MaxExecs
                   THEN [heap EXCEPT ![t].fills = Append(@, e)]
                   ELSE heap
        /\ UNCHANGED <<seq, userVars, operm, Trades, PermID2Trade, wire,
                       srv, commissions, resets>>

\* The first report of an execution is recorded, and attached to its trade if
\* there is one.
handleExecDetails(p, i) ==
    LET e == <<p, i>>
        t == ByPermThenKey(orderKeyForExec(Message(p)), p)
    IN  /\ i <= srv[p].execs
        /\ told' = told \cup {e}
        /\ IF e \in DOMAIN Fills
           THEN UNCHANGED <<Fills, heap>>
           ELSE /\ Fills' = With(Fills, e, FALSE)
                /\ heap' = IF t # 0
                           THEN [heap EXCEPT ![t].fills = Append(@, e)]
                           ELSE heap
        /\ UNCHANGED <<seq, userVars, operm, Trades, PermID2Trade, wire,
                       srv, commissions, resets>>

\* The report is put on the fill, if the execution is known.
handleCommissionReport(p, i) ==
    LET e == <<p, i>>
    IN  /\ e \in told
        /\ commissions' = commissions \cup {e}
        /\ Fills' = IF e \in DOMAIN Fills THEN [Fills EXCEPT ![e] = TRUE]
                                          ELSE Fills
        /\ UNCHANGED <<seq, userVars, operm, heap, Trades, PermID2Trade, wire,
                       srv, told, resets>>

\* A completed order the permId index does not have is entered under (0, permId).
handleCompletedOrder(p) ==
    /\ srv[p].status \in Done
    /\ p \notin DOMAIN PermID2Trade
    /\ Len(heap) < MaxTrades
    /\ LET t == Len(heap) + 1 IN
        /\ heap' = Append(heap, NewTrade(NoOrd, p, srv[p].status))
        /\ Trades' = With(Trades, <<0, p>>, t)
        /\ PermID2Trade' = With(PermID2Trade, p, t)
    /\ UNCHANGED <<seq, userVars, operm, Fills, serverVars, resets>>

\* Mutant: the permId is indexed although no trade was found.
handleOrderBoundUnchecked(p) ==
    LET key == <<srv[p].client, srv[p].oid>>
    IN  /\ key \notin DOMAIN Trades
        /\ PermID2Trade' = With(PermID2Trade, p, 0)
        /\ UNCHANGED <<seq, userVars, operm, heap, Trades, Fills, serverVars,
                       resets>>

\* An order of ours gets its permId.
handleOrderBound(p) ==
    LET m == Message(p)
        key == <<m.client, m.oid>>
    IN  /\ m.oid # 0
        /\ key \in DOMAIN Trades
        /\ SetPerm(Trades[key], p)
        /\ PermID2Trade' = With(PermID2Trade, p, Trades[key])
        /\ UNCHANGED <<seq, userVars, Trades, Fills, serverVars, resets>>

\* Manager.Reset at a reconnect.  What was written and not read is lost with
\* the connection; nextValidId keeps the ids apart from all used before.
Reset ==
    /\ MayReset /\ resets = 0
    /\ resets' = 1
    /\ Trades' = <<>>
    /\ PermID2Trade' = <<>>
    /\ Fills' = <<>>
    /\ wire' = {}
    /\ told' = {}
    /\ commissions' = {}
    /\ UNCHANGED <<seq, userVars, operm, heap, srv>>

-----------------------------------------------------------------------------
UserStep(u) ==
    \/ PlaceOrder(u) \/ InsertTrade(u) \/ SendOrder(u) \/ SendOrderFails(u)

ServerStep ==
    \/ \E o \in wire : AcceptOrder(o)
    \/ \E f \in Foreign : ForeignOrder(f)
    \/ \E p \in Perms : \/ \E status \in Done \ {"Filled"} : EndOrder(p, status)
                        \/ \E last \in BOOLEAN : Execute(p, last)

Handle(p) ==
    \/ handleOpenOrder(p) \/ handleOrderStatus(p)
    \/ \E i \in 1 .. MaxExecs : handleExecDetails(p, i)
                                \/ handleCommissionReport(p, i)
    \/ handleCompletedOrder(p) \/ handleOrderBound(p)

Next ==
    \/ \E u \in Ords : UserStep(u)
    \/ ServerStep
    \/ \E p \in DOMAIN srv : Handle(p)
    \/ Reset

Spec == Init /\ [][Next]_vars

-----------------------------------------------------------------------------
(* Properties *)

Statuses == {"PendingSubmit", "Submitted"} \cup Done
TradeType == [order : Ords \cup {NoOrd}, perm : Perms \cup {0},
              status : Statuses, fills : Seq(Execs),
              filled : Nat, cancelled : Nat]

\* Every variable has the shape its Go declaration gives it, and the two
\* indexes point at Trade objects.
TypeOK ==
    /\ seq \in Nat \ {0}
    /\ opc \in [Ords -> {"idle", "insert", "send"}]
    /\ oid \in [Ords -> Nat]
    /\ operm \in [Ords -> Perms \cup {0}]
    /\ isModify \in [Ords -> BOOLEAN]
    /\ heap \in Seq(TradeType)
    /\ \A k \in DOMAIN Trades : Trades[k] \in DOMAIN heap
    /\ \A p \in DOMAIN PermID2Trade : p \in Perms /\ PermID2Trade[p] \in DOMAIN heap
    /\ DOMAIN Fills \subseteq Execs
    /\ \A e \in DOMAIN Fills : Fills[e] \in BOOLEAN

\* The trades a caller of Trades or an event handler can come across.
Live == Range(Trades) \cup Range(PermID2Trade)

\* However often executions are reported, and by whichever index the trade is
\* found, no execution is counted twice: not in one trade, not in two.
FillRecordedOnce ==
    /\ \A t \in DOMAIN heap : IsInjective(heap[t].fills)
    /\ \A s, t \in Live :
          s # t => Range(heap[s].fills) \cap Range(heap[t].fills) = {}

\* A trade holds executions of its own order only, although orders of this
\* client, of another and of TWS itself arrive under equal order ids.
FillsBelong ==
    \A t \in DOMAIN heap : \A e \in Range(heap[t].fills) :
        PermOf(t) \in {0, e[1]}

\* Every execution reported of an order placed here is in the trade PlaceOrder
\* returned, which is there before the server can know the order (ib.go:1556),
\* with one exception: if the first message that gives the order's permId is a
\* completedOrder, a second trade is entered for the order, and takes what is
\* reported of it until openOrder or orderBound comes (ib.go:1870, 2380-2387).
OwnFillsAttached ==
    \A e \in DOMAIN Fills : srv[e[1]].client = Me =>
        LET placed == Trades[<<Me, srv[e[1]].oid>>]
            second == <<0, e[1]>>
        IN  \/ heap[placed].order # NoOrd /\ e \in Range(heap[placed].fills)
            \/ second \in DOMAIN Trades /\ e \in Range(heap[Trades[second]].fills)

\* A commission once reported stays on its fill, though the execution may be
\* reported again.
CommissionKept ==
    \A e \in commissions : e \in DOMAIN Fills /\ Fills[e]

\* A trade placed here says Filled (Cancelled) exactly when FilledEvent
\* (CancelledEvent) was raised, and once; no trade raises both or either twice.
SignalledOnce ==
    \A t \in DOMAIN heap :
        /\ heap[t].filled + heap[t].cancelled <= 1
        /\ heap[t].order # NoOrd =>
              /\ (heap[t].status = "Filled") <=> (heap[t].filled = 1)
              /\ (heap[t].status = "Cancelled") <=> (heap[t].cancelled = 1)

\* A trade that is done keeps the status it ended with.
DoneIsFinal ==
    [][\A t \in DOMAIN heap : heap[t].status \in Done =>
          heap'[t].status = heap[t].status]_vars

\* A trade the server has confirmed stays in Trades for as long as the
\* connection lives: the failure to send an order does not lose it.
ConfirmedKept ==
    [][resets' = resets =>
        \A k \in DOMAIN Trades : Trades[k] \in Range(PermID2Trade)
            => k \in DOMAIN Trades']_vars
============================================================================
