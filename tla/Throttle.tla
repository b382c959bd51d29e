------------------------------ MODULE Throttle ------------------------------
(***************************************************************************)
(* The sliding-window rate limiter in front of every Client.Send           *)
(* (internal/throttle).  Goroutines call Wait or TryNow; each attempt runs *)
(* under the limiter's mutex and reads the monotonic clock once.           *)
(***************************************************************************)
EXTENDS Integers, Sequences, Loops

CONSTANTS
    Procs,        \* goroutines that send requests
    MaxRequests,  \* Limiter.maxRequests; 0, which disables the limiter, is left out
    Interval,     \* Limiter.interval, in clock ticks
    MaxTime       \* bound: the last clock value

ASSUME LimiterAssumption ==
    /\ MaxRequests \in Nat \ {0}
    /\ Interval \in Nat \ {0}
    /\ MaxTime \in Nat

VARIABLES
    now,          \* the clock
    timestamps,   \* Limiter.timestamps
    pc,           \* pc[p]: "idle", "try" (at the top of Wait's loop) or "sleep"
    waitUntil,    \* waitUntil[p]: when the sleep of p ends
    granted       \* history: the times at which requests were allowed

vars == <<now, timestamps, pc, waitUntil, granted>>

Init ==
    /\ now = 0
    /\ timestamps = <<>>
    /\ pc = [p \in Procs |-> "idle"]
    /\ waitUntil = [p \in Procs |-> 0]
    /\ granted = <<>>

(***************************************************************************)
(* The pruning loop keeps the stamps after the cutoff.  Stamps are appended *)
(* in clock order, so it drops the first k of them; PruneIsFilter says that *)
(* this is what the loop computes.                                          *)
(***************************************************************************)
Prunes(k) ==
    /\ \A i \in 1 .. k : timestamps[i] <= now - Interval
    /\ \A i \in k + 1 .. Len(timestamps) : timestamps[i] > now - Interval

Drop(k) == SubSeq(timestamps, k + 1, Len(timestamps))

\* Mutant: admits one request too many.
AllowOneMore ==
    \E k \in 0 .. Len(timestamps) :
        /\ Prunes(k)
        /\ Len(timestamps) - k <= MaxRequests
        /\ timestamps' = Append(Drop(k), now)
        /\ granted' = Append(granted, now)

\* Mutant: puts the newest stamp in front.
AllowInFront ==
    \E k \in 0 .. Len(timestamps) :
        /\ Prunes(k)
        /\ Len(timestamps) - k < MaxRequests
        /\ timestamps' = <<now>> \o Drop(k)
        /\ granted' = Append(granted, now)

\* Fewer than maxRequests stamps are left: the request is recorded.
Allow ==
    \E k \in 0 .. Len(timestamps) :
        /\ Prunes(k)
        /\ Len(timestamps) - k < MaxRequests
        /\ timestamps' = Append(Drop(k), now)
        /\ granted' = Append(granted, now)

\* The window is full; k stamps are pruned all the same.
Refuse(k) ==
    /\ k \in 0 .. Len(timestamps)
    /\ Prunes(k)
    /\ Len(timestamps) - k >= MaxRequests
    /\ timestamps' = Drop(k)
    /\ UNCHANGED granted

Call(p) ==
    /\ pc[p] = "idle"
    /\ pc' = [pc EXCEPT ![p] = "try"]
    /\ UNCHANGED <<now, timestamps, waitUntil, granted>>

WaitReturns(p) ==
    /\ pc[p] = "try"
    /\ Allow
    /\ pc' = [pc EXCEPT ![p] = "idle"]
    /\ UNCHANGED <<now, waitUntil>>

\* Mutant: sleeps one tick less than the oldest stamp needs.
WaitSleepsShort(p) ==
    /\ pc[p] = "try"
    /\ \E k \in 0 .. Len(timestamps) :
          /\ Refuse(k)
          /\ waitUntil' = [waitUntil EXCEPT ![p] =
                             timestamps[k + 1] + Interval - 1]
    /\ pc' = [pc EXCEPT ![p] = "sleep"]
    /\ UNCHANGED now

\* Until the oldest stamp left expires.
WaitSleeps(p) ==
    /\ pc[p] = "try"
    /\ \E k \in 0 .. Len(timestamps) :
          /\ Refuse(k)
          /\ waitUntil' = [waitUntil EXCEPT ![p] = timestamps[k + 1] + Interval]
    /\ pc' = [pc EXCEPT ![p] = "sleep"]
    /\ UNCHANGED now

\* The sleep ends no earlier than asked for.
Wake(p) ==
    /\ pc[p] = "sleep"
    /\ now >= waitUntil[p]
    /\ pc' = [pc EXCEPT ![p] = "try"]
    /\ UNCHANGED <<now, timestamps, waitUntil, granted>>

TryNow(p) ==
    /\ pc[p] = "idle"
    /\ \/ Allow
       \/ \E k \in 0 .. Len(timestamps) : Refuse(k)
    /\ UNCHANGED <<now, pc, waitUntil>>

Tick ==
    /\ now < MaxTime
    /\ now' = now + 1
    /\ UNCHANGED <<timestamps, pc, waitUntil, granted>>

Next ==
    \/ \E p \in Procs : \/ Call(p) \/ WaitReturns(p) \/ WaitSleeps(p)
                        \/ Wake(p) \/ TryNow(p)
    \/ Tick

Spec == Init /\ [][Next]_vars

-----------------------------------------------------------------------------
(* Properties *)

Times == 0 .. MaxTime

\* The clock, the stamps and the history are times; the window never holds more
\* than maxRequests stamps, the capacity New reserves for it.
TypeOK ==
    /\ now \in Times
    /\ timestamps \in Seq(Times)
    /\ Len(timestamps) <= MaxRequests
    /\ pc \in [Procs -> {"idle", "try", "sleep"}]
    /\ waitUntil \in [Procs -> Nat]
    /\ granted \in Seq(Times)

\* Any maxRequests + 1 requests in a row take at least an interval: whatever
\* the interleaving of Wait, TryNow and the sleeps, no window of that length
\* sees more than maxRequests of them (throttle.go:28-61).
WindowBound ==
    \A i \in 1 .. Len(granted) :
        i + MaxRequests <= Len(granted)
            => granted[i + MaxRequests] - granted[i] >= Interval

\* The pruning loop of Wait and TryNow, which filters, drops exactly a prefix:
\* stamps are in the order of the clock although the goroutines that recorded
\* them slept and raced for the mutex (throttle.go:40-47, 77-84).
PruneIsFilter ==
    \E k \in 0 .. Len(timestamps) :
        /\ Prunes(k)
        /\ Drop(k) = Kept(timestamps, {ts \in Times : ts > now - Interval})

\* A sleeper that is due finds room unless the slot it slept for was taken by
\* a request allowed since it expired: Wait computes the right time to sleep.
OvertakenOnly ==
    \A p \in Procs :
        /\ pc[p] = "sleep"
        /\ now >= waitUntil[p]
        /\ \E k \in 0 .. Len(timestamps) :
              Prunes(k) /\ Len(timestamps) - k >= MaxRequests
        => granted[Len(granted)] >= waitUntil[p]

\* The inductive invariant behind WindowBound: the stamps are the most recent
\* part of the history, and everything older has left the window.
HistoryInv ==
    LET old == Len(granted) - Len(timestamps) IN
    /\ old >= 0
    /\ \A i \in 1 .. Len(timestamps) : timestamps[i] = granted[old + i]
    /\ \A i \in 1 .. old : granted[i] <= now - Interval

WindowInv == TypeOK /\ HistoryInv /\ WindowBound
=============================================================================
