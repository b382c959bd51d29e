------------------------------- MODULE Events -------------------------------
(***************************************************************************)
(* One Event (event/event.go), through which the reader goroutine and the  *)
(* goroutines of the application publish: callbacks, channels, one-shot    *)
(* channels.  Emit copies both lists under the read lock and then calls    *)
(* and sends without it, so subscriptions change while it is under way,    *)
(* and two Emits run at the same time.                                     *)
(***************************************************************************)
EXTENDS Integers, Sequences, SequencesExt

CONSTANTS
    Emitters,  \* goroutines that call Emit
    MaxSubs,   \* bound: subscriptions made in a behaviour
    MaxEmit,   \* bound: values emitted in a behaviour
    BufSize    \* the capacity of the channels made by Chan

ASSUME EventsAssumption ==
    MaxSubs \in Nat /\ MaxEmit \in Nat /\ BufSize \in Nat

Ids    == 1 .. MaxSubs
Values == 1 .. MaxEmit

VARIABLES
    nextID,     \* Event.nextID
    kind,       \* kind[id]: how subscription id was made
    callbacks,  \* Event.callbacks: ids in order
    channels,   \* Event.channels
    closed,     \* ids whose channel has been closed
    queued,     \* queued[id]: values in the channel of id
    subID,      \* subID[id]: the variable subID of the Once that made id
    unsubs,     \* ids that goroutines started by a Once will unsubscribe
    todo,       \* todo[e]: the lists copied by the Emit of e
    pos,        \* pos[e]: the next entry, 0 if e is not in Emit
    val,        \* val[e]: the value it emits
    \* history
    emitted,    \* values emitted so far
    finished,   \* values whose Emit has returned
    removed,    \* ids for which Unsubscribe has returned
    live,       \* live[v]: subscriptions in force when the Emit of v began
    got,        \* got[id]: values subscription id was given
    panics      \* <<v, id>>: the Emit of v sent on the closed channel of id

subVars  == <<nextID, kind, callbacks, channels>>
emitVars == <<todo, pos, val, emitted, finished, live>>
vars == <<subVars, closed, queued, subID, unsubs, emitVars, removed, got, panics>>

Init ==
    /\ nextID = 0
    /\ kind = [id \in Ids |-> "none"]
    /\ callbacks = <<>>
    /\ channels = <<>>
    /\ closed = {}
    /\ queued = [id \in Ids |-> 0]
    /\ subID = [id \in Ids |-> 0]
    /\ unsubs = {}
    /\ todo = [e \in Emitters |-> <<>>]
    /\ pos = [e \in Emitters |-> 0]
    /\ val = [e \in Emitters |-> 0]
    /\ emitted = 0
    /\ finished = {}
    /\ removed = {}
    /\ live = [v \in Values |-> {}]
    /\ got = [id \in Ids |-> <<>>]
    /\ panics = {}

-----------------------------------------------------------------------------
(* Subscriptions, each under the write lock *)

NewID(k) ==
    /\ nextID < MaxSubs
    /\ nextID' = nextID + 1
    /\ kind' = [kind EXCEPT ![nextID'] = k]
    /\ UNCHANGED <<closed, queued, subID, unsubs, emitVars, removed, got, panics>>

AddCallback == callbacks' = Append(callbacks, nextID') /\ UNCHANGED channels

Subscribe == NewID("callback") /\ AddCallback

Chan ==
    /\ NewID("chan")
    /\ channels' = Append(channels, nextID')
    /\ UNCHANGED callbacks

\* Once subscribes its closure; a concurrent Emit may call it before the result
\* is stored in subID.
Once == NewID("once") /\ AddCallback

OnceReturns(id) ==
    /\ kind[id] = "once"
    /\ subID[id] = 0
    /\ subID' = [subID EXCEPT ![id] = id]
    /\ UNCHANGED <<subVars, closed, queued, unsubs, emitVars, removed, got, panics>>

\* The entry with that id, if there is one, is cut out of the slice.
Drop(s, id) ==
    IF Contains(s, id) THEN RemoveAt(s, CHOOSE i \in 1 .. Len(s) : s[i] = id) ELSE s

\* Mutant: closes the channel and leaves it in the list.
UnsubscribeKeepsEntry(id) ==
    /\ callbacks' = Drop(callbacks, id)
    /\ closed' = IF Contains(channels, id) THEN closed \cup {id} ELSE closed
    /\ removed' = removed \cup {id}
    /\ UNCHANGED channels

\* A channel is closed and taken out of the list.
Unsubscribe(id) ==
    /\ callbacks' = Drop(callbacks, id)
    /\ closed' = IF Contains(channels, id) THEN closed \cup {id} ELSE closed
    /\ channels' = Drop(channels, id)
    /\ removed' = removed \cup {id}

\* By the application, which knows the ids that Subscribe and Chan returned;
\* again and again if it likes.
UserUnsubscribe(id) ==
    /\ kind[id] \in {"callback", "chan"}
    /\ Unsubscribe(id)
    /\ UNCHANGED <<nextID, kind, queued, subID, unsubs, emitVars, got, panics>>

\* By the goroutine a Once has started.
OnceUnsubscribe(id) ==
    /\ id \in unsubs
    /\ unsubs' = unsubs \ {id}
    /\ Unsubscribe(id)
    /\ UNCHANGED <<nextID, kind, queued, subID, emitVars, got, panics>>

-----------------------------------------------------------------------------
(* Emit *)

\* The copies, under the read lock.
Emit(e) ==
    /\ pos[e] = 0
    /\ emitted < MaxEmit
    /\ emitted' = emitted + 1
    /\ val' = [val EXCEPT ![e] = emitted']
    /\ todo' = [todo EXCEPT ![e] = callbacks \o channels]
    /\ pos' = [pos EXCEPT ![e] = 1]
    /\ live' = [live EXCEPT ![emitted'] = (1 .. nextID) \ removed]
    /\ UNCHANGED <<subVars, closed, queued, subID, unsubs, finished, removed, got,
                   panics>>

\* Mutant: walks the lists themselves.
SharedEntry(e) ==
    LET s == callbacks \o channels IN
    IF pos[e] <= Len(s) THEN s[pos[e]] ELSE todo[e][pos[e]]

Leave(e) ==
    /\ pos' = [pos EXCEPT ![e] = 0]
    /\ todo' = [todo EXCEPT ![e] = <<>>]
    /\ val' = [val EXCEPT ![e] = 0]
    /\ UNCHANGED <<emitted, live>>

\* The entry of its copies that e has reached.
Entry(e) == todo[e][pos[e]]

AtEntry(e, kinds) ==
    /\ pos[e] \in 1 .. Len(todo[e])
    /\ kind[Entry(e)] \in kinds

Advance(e) ==
    /\ pos' = [pos EXCEPT ![e] = @ + 1]
    /\ UNCHANGED <<todo, val, emitted, finished, live>>

Give(id, v) == got' = [got EXCEPT ![id] = Append(@, v)]

CallCallback(e) ==
    /\ AtEntry(e, {"callback"})
    /\ Give(Entry(e), val[e])
    /\ Advance(e)
    /\ UNCHANGED <<subVars, closed, queued, subID, unsubs, removed, panics>>

\* Mutant: without the sync.Once.
CallOnceAgain(e) ==
    /\ AtEntry(e, {"once"})
    /\ LET id == Entry(e) IN
       /\ Give(id, val[e])
       /\ closed' = closed \cup {id}
       /\ queued' = [queued EXCEPT ![id] = @ + 1]
       /\ unsubs' = unsubs \cup ({subID[id]} \ {0})
    /\ Advance(e)
    /\ UNCHANGED <<subVars, subID, removed, panics>>

\* once.Do: the send into a channel of capacity one, close, and a goroutine to
\* unsubscribe subID as it is now; Unsubscribe(0) finds nothing.
CallOnce(e) ==
    /\ AtEntry(e, {"once"})
    /\ LET id == Entry(e) IN
       IF id \in closed
       THEN UNCHANGED <<got, closed, queued, unsubs>>
       ELSE /\ Give(id, val[e])
            /\ closed' = closed \cup {id}
            /\ queued' = [queued EXCEPT ![id] = @ + 1]
            /\ unsubs' = unsubs \cup ({subID[id]} \ {0})
    /\ Advance(e)
    /\ UNCHANGED <<subVars, subID, removed, panics>>

\* Mutant: the send has no capacity to mind.
SendChanUnbounded(e) ==
    /\ AtEntry(e, {"chan"})
    /\ Entry(e) \notin closed
    /\ Give(Entry(e), val[e])
    /\ queued' = [queued EXCEPT ![Entry(e)] = @ + 1]
    /\ Advance(e)
    /\ UNCHANGED <<subVars, closed, subID, unsubs, removed, panics>>

\* The non-blocking send: it is dropped if the channel is full.
SendChan(e) ==
    /\ AtEntry(e, {"chan"})
    /\ LET id == Entry(e) IN
       /\ id \notin closed
       /\ IF queued[id] < BufSize
          THEN Give(id, val[e]) /\ queued' = [queued EXCEPT ![id] = @ + 1]
          ELSE UNCHANGED <<got, queued>>
    /\ Advance(e)
    /\ UNCHANGED <<subVars, closed, subID, unsubs, removed, panics>>

\* A send on a closed channel panics, also in a select: the Emit ends there.
SendPanics(e) ==
    /\ AtEntry(e, {"chan"})
    /\ Entry(e) \in closed
    /\ panics' = panics \cup {<<val[e], Entry(e)>>}
    /\ Leave(e)
    /\ UNCHANGED <<subVars, closed, queued, subID, unsubs, finished, removed, got>>

EmitReturns(e) ==
    /\ pos[e] > Len(todo[e])
    /\ finished' = finished \cup {val[e]}
    /\ Leave(e)
    /\ UNCHANGED <<subVars, closed, queued, subID, unsubs, removed, got, panics>>

EmitStep(e) ==
    \/ CallCallback(e) \/ CallOnce(e) \/ SendChan(e) \/ SendPanics(e)
    \/ EmitReturns(e)

\* The application takes a value out of the channel of id.
Take(id) ==
    /\ queued[id] > 0
    /\ queued' = [queued EXCEPT ![id] = @ - 1]
    /\ UNCHANGED <<subVars, closed, subID, unsubs, emitVars, removed, got, panics>>

-----------------------------------------------------------------------------
Next ==
    \/ Subscribe \/ Chan \/ Once
    \/ \E id \in Ids : \/ OnceReturns(id) \/ UserUnsubscribe(id)
                       \/ OnceUnsubscribe(id) \/ Take(id)
    \/ \E e \in Emitters : Emit(e) \/ EmitStep(e)

Spec == Init /\ [][Next]_vars

-----------------------------------------------------------------------------
(* Properties *)

\* Every variable holds a value of the kind its Go counterpart can hold; a
\* channel never holds more than its capacity.
TypeOK ==
    /\ nextID \in 0 .. MaxSubs
    /\ kind \in [Ids -> {"none", "callback", "chan", "once"}]
    /\ IsInjective(callbacks \o channels)
    /\ ToSet(callbacks \o channels) \subseteq 1 .. nextID
    /\ closed \cup unsubs \cup removed \subseteq 1 .. nextID
    /\ \A id \in Ids :
          /\ queued[id] \in 0 .. IF kind[id] = "once" THEN 1 ELSE BufSize
          /\ subID[id] \in {0, id}
          /\ got[id] \in Seq(1 .. emitted)
    /\ \A e \in Emitters :
          /\ ToSet(todo[e]) \subseteq 1 .. nextID
          /\ pos[e] \in 0 .. Len(todo[e]) + 1
          /\ val[e] \in 0 .. emitted
    /\ emitted \in 0 .. MaxEmit
    /\ finished \subseteq 1 .. emitted

\* "Once returns a channel that receives exactly one emission, then is closed"
\* (event.go:65), although two Emits may be inside its callback and the callback
\* stays registered until a third goroutine removes it.
OnceGetsOne ==
    \A id \in Ids :
        kind[id] = "once" => Len(got[id]) = (IF id \in closed THEN 1 ELSE 0)

\* Subscription id was given value v, once.
GivenOnce(id, v) ==
    \E i \in DOMAIN got[id] : \A j \in DOMAIN got[id] : got[id][j] = v <=> j = i

\* An Emit reaches every callback that was subscribed when it began and still
\* is when it returns, exactly once, whatever subscriptions come and go in the
\* meantime (event.go:34-51, 83-101).
EmitReachesAll ==
    \A v \in finished : \A id \in live[v] \ removed :
        kind[id] = "callback" => GivenOnce(id, v)

\* An Emit that begins after Unsubscribe has returned neither calls the callback
\* nor touches the channel, which is closed: the panic of a send on a closed
\* channel needs an Unsubscribe during the Emit (event.go:44-50, 94-100).
UnsubscribedUntouched ==
    \A v \in Values, id \in Ids :
        Contains(got[id], v) \/ <<v, id>> \in panics => id \in live[v]
=============================================================================
