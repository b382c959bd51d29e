----------------------------- MODULE Reconnect ------------------------------
(***************************************************************************)
(* ConnectWithReconnect and its heartbeat (reconnect.go), on top of the    *)
(* client's connection.  The loop connects, starts a heartbeat, waits for  *)
(* the connection to end, waits for the heartbeat, clears the state        *)
(* (modules Requests and Orders are about that step) and tries again.      *)
(***************************************************************************)
EXTENDS Client

CONSTANTS
    MaxRetries,    \* ReconnectConfig.MaxRetries; 0 is no limit
    DelayOutlasts  \* RetryDelay is longer than the reader needs to get rid of
                   \* a message it holds when its socket is closed

ASSUME ReconnectAssumption ==
    /\ MaxRetries \in Nat
    /\ DelayOutlasts \in BOOLEAN
    /\ {"loop", "heartbeat"} \subseteq Disconnecters

VARIABLES
    lpc,        \* where the loop is
    attempt,    \* its variable attempt
    cancelled,  \* ctx is done
    hpc,        \* where the heartbeat goroutine is
    hgen,       \* the connection it was started for: history
    failures    \* failed Connects since the last successful one: history

loopVars == <<lpc, attempt, cancelled, hpc, hgen, failures>>
vars == <<clientVars, loopVars>>

Init ==
    /\ ClientInit
    /\ lpc = "top"
    /\ attempt = 0
    /\ cancelled = FALSE
    /\ hpc = "none"
    /\ hgen = 0
    /\ failures = 0

-----------------------------------------------------------------------------
(* The loop *)

LoopGoTo(from, to) == lpc = from /\ lpc' = to

\* ib.Connect, with a timeout of ten seconds.
LoopConnect ==
    /\ LoopGoTo("top", "connect")
    /\ ~cancelled
    /\ Connect
    /\ UNCHANGED <<attempt, cancelled, hpc, hgen, failures>>

\* Mutant: gives up one attempt later.
LoopFailedOnceMore ==
    /\ cpc = "failed"
    /\ cpc' = "idle"
    /\ attempt' = attempt + 1
    /\ failures' = failures + 1
    /\ LoopGoTo("connect", IF MaxRetries > 0 /\ attempt > MaxRetries
                           THEN "returned" ELSE "delay")
    /\ UNCHANGED <<gen, readyCh, closedDone, flagVars, sock, dpc, readerVars,
                   peerVars, cancelled, hpc, hgen>>

\* It returned an error.
LoopFailed ==
    /\ cpc = "failed"
    /\ cpc' = "idle"
    /\ attempt' = attempt + 1
    /\ failures' = failures + 1
    /\ LoopGoTo("connect", IF MaxRetries > 0 /\ attempt' > MaxRetries
                           THEN "returned" ELSE "delay")
    /\ UNCHANGED <<gen, readyCh, closedDone, flagVars, sock, dpc, readerVars,
                   peerVars, cancelled, hpc, hgen>>

\* Mutant: counts failures over all connections.
LoopConnectedKeepsCount ==
    /\ cpc = "ok"
    /\ cpc' = "idle"
    /\ LoopGoTo("connect", "wait")
    /\ failures' = 0
    /\ hpc' = "tick"
    /\ hgen' = gen
    /\ UNCHANGED <<gen, readyCh, closedDone, flagVars, sock, dpc, readerVars,
                   peerVars, cancelled, attempt>>

\* It returned nil: onConnect, go heartbeatLoop.
LoopConnected ==
    /\ cpc = "ok"
    /\ cpc' = "idle"
    /\ LoopGoTo("connect", "wait")
    /\ attempt' = 0
    /\ failures' = 0
    /\ hpc' = "tick"
    /\ hgen' = gen
    /\ UNCHANGED <<gen, readyCh, closedDone, flagVars, sock, dpc, readerVars,
                   peerVars, cancelled>>

LoopSeesDone ==
    /\ LoopGoTo("wait", "probeDone")
    /\ gen \in closedDone
    /\ UNCHANGED <<clientVars, attempt, cancelled, hpc, hgen, failures>>

\* Mutant: leaves the heartbeat running.
LoopForgetsProbe ==
    /\ LoopGoTo("probeDone", "delay")
    /\ UNCHANGED <<clientVars, attempt, cancelled, hpc, hgen, failures>>

\* <-probeDone, then DrainAll and Reset.
LoopProbeDone ==
    /\ LoopGoTo("probeDone", "delay")
    /\ hpc = "none"
    /\ UNCHANGED <<clientVars, attempt, cancelled, hpc, hgen, failures>>

\* The reader holds no message it read from a socket that has been closed.
ReaderSettled == rpc = "none" \/ (rpc = "read" /\ sock # 0)

LoopDelayed ==
    /\ LoopGoTo("delay", "top")
    /\ DelayOutlasts => ReaderSettled
    /\ UNCHANGED <<clientVars, attempt, cancelled, hpc, hgen, failures>>

\* ctx.Done at the top of the loop or during a delay.
LoopCancelled ==
    /\ cancelled
    /\ \/ LoopGoTo("top", "returned")
       \/ LoopGoTo("delay", "returned")
    /\ UNCHANGED <<clientVars, attempt, cancelled, hpc, hgen, failures>>

\* Mutant: returns without Disconnect.
LoopLeavesConnected ==
    /\ cancelled
    /\ LoopGoTo("wait", "leave")
    /\ UNCHANGED <<clientVars, attempt, cancelled, hpc, hgen, failures>>

\* ctx.Done while connected: Disconnect, wait for the heartbeat, return.
LoopLeaves ==
    /\ cancelled
    /\ LoopGoTo("wait", "leave")
    /\ Disconnect("loop")
    /\ UNCHANGED <<attempt, cancelled, hpc, hgen, failures>>

LoopLeft ==
    /\ LoopGoTo("leave", "returned")
    /\ dpc["loop"] = "idle"
    /\ hpc = "none"
    /\ UNCHANGED <<clientVars, attempt, cancelled, hpc, hgen, failures>>

LoopStep ==
    \/ LoopConnect \/ LoopFailed \/ LoopConnected
    \/ LoopSeesDone \/ LoopProbeDone \/ LoopDelayed
    \/ LoopCancelled \/ LoopLeaves \/ LoopLeft
    \/ (ConnectStep("loop") \/ DisconnectStep("loop")) /\ UNCHANGED loopVars

-----------------------------------------------------------------------------
(* heartbeatLoop *)

HeartbeatGoTo(from, to) == hpc = from /\ hpc' = to

\* A tick: the goroutine ends quietly unless ConnState is Connected.
HeartbeatTick ==
    /\ HeartbeatGoTo("tick", IF IsConnected THEN "write" ELSE "none")
    /\ UNCHANGED <<clientVars, lpc, attempt, cancelled, hgen, failures>>

\* ReqCurrentTime
Probe ==
    /\ HeartbeatGoTo("write", "written")
    /\ CanWrite
    /\ UNCHANGED <<clientVars, lpc, attempt, cancelled, hgen, failures>>

ProbeFails ==
    /\ HeartbeatGoTo("write", "disconnect")
    /\ CanFailWrite
    /\ Disconnect("heartbeat")
    /\ UNCHANGED <<lpc, attempt, cancelled, hgen, failures>>

\* timeBefore := ib.state.LastTime
ReadLastTime ==
    /\ HeartbeatGoTo("written", "await")
    /\ fresh' = FALSE
    /\ UNCHANGED <<connectVars, closedDone, flagVars, sock, dpc, rpc, msg,
                   peerVars, lpc, attempt, cancelled, hgen, failures>>

\* ProbeTimeout has passed and LastTime has changed.
ProbeAnswered ==
    /\ HeartbeatGoTo("await", "tick")
    /\ fresh
    /\ UNCHANGED <<clientVars, lpc, attempt, cancelled, hgen, failures>>

\* Mutant: goes on probing.
ProbeTimeoutIgnored ==
    /\ HeartbeatGoTo("await", "tick")
    /\ ~fresh
    /\ UNCHANGED <<clientVars, lpc, attempt, cancelled, hgen, failures>>

\* It has not.
ProbeTimeout ==
    /\ HeartbeatGoTo("await", "disconnect")
    /\ ~fresh
    /\ Disconnect("heartbeat")
    /\ UNCHANGED <<lpc, attempt, cancelled, hgen, failures>>

HeartbeatDone ==
    /\ \/ HeartbeatGoTo("disconnect", "none") /\ dpc["heartbeat"] = "idle"
       \/ HeartbeatGoTo("tick", "none") /\ (gen \in closedDone \/ cancelled)
       \/ HeartbeatGoTo("await", "none") /\ (gen \in closedDone \/ cancelled)
    /\ UNCHANGED <<clientVars, lpc, attempt, cancelled, hgen, failures>>

HeartbeatStep ==
    \/ HeartbeatTick \/ Probe \/ ProbeFails \/ ReadLastTime
    \/ ProbeAnswered \/ ProbeTimeout \/ HeartbeatDone
    \/ DisconnectStep("heartbeat") /\ UNCHANGED loopVars

Cancel ==
    /\ ~cancelled
    /\ cancelled' = TRUE
    /\ UNCHANGED <<clientVars, lpc, attempt, hpc, hgen, failures>>

-----------------------------------------------------------------------------
Next ==
    \/ LoopStep \/ HeartbeatStep \/ Cancel
    \/ /\ \/ ReaderStep \/ \E m \in Messages : Receive(m)
          \/ PeerSilent \/ PeerCloses \/ StreamEnds
       /\ UNCHANGED loopVars

Spec == Init /\ [][Next]_vars

(***************************************************************************)
(* A goroutine that can run is run; the timers it waits for expire, and    *)
(* net.Dial returns.  Nothing makes the peer send or die, but what is on   *)
(* its way from a peer that has closed is finite.                          *)
(***************************************************************************)
FairSpec ==
    /\ Spec
    /\ WF_vars(LoopStep)
    /\ WF_vars(HeartbeatStep)
    /\ WF_vars(ReaderStep /\ UNCHANGED loopVars)
    /\ WF_vars(StreamEnds /\ UNCHANGED loopVars)

-----------------------------------------------------------------------------
(* Properties *)

\* Every variable holds a value of the kind its Go counterpart can hold.
TypeOK ==
    /\ cpc \in {"idle", "waitReader", "dial", "hello", "handshake", "disconnect",
                "ok", "failed"}
    /\ gen \in 0 .. MaxConn
    /\ closedDone \cup readyCh \subseteq 0 .. gen
    /\ ConnState \in {"Disconnected", "Connecting", "Connected"}
    /\ {hasVersion, hasReqID, hasAccounts, apiReady, fresh, started, cancelled}
          \subseteq BOOLEAN
    /\ sock \in 0 .. gen
    /\ dpc \in [Disconnecters -> {"idle", "close", "done"}]
    /\ rpc \in {"none", "fetch", "read", "got", "greeted", "snoop", "dispatch",
                "exit", "leave"}
    /\ msg \in Messages
    /\ peer \in {"up", "silent", "closing", "gone"}
    /\ heard \subseteq Messages \ {"data"}
    /\ lpc \in {"top", "connect", "wait", "probeDone", "delay", "leave",
                "returned"}
    /\ attempt \in 0 .. IF MaxRetries > 0 THEN MaxRetries + 1 ELSE MaxConn
    /\ hpc \in {"none", "tick", "write", "written", "await", "disconnect"}
    /\ hgen \in 0 .. MaxConn
    /\ failures \in 0 .. MaxConn

\* Connect succeeds only once this connection's own handshake is complete: the
\* flags the reader snoops are fields of the Client, shared by the readers of
\* successive connections (client.go:86-89, 262-287).
ReadyMeansHandshake == cpc = "ok" => Handshake \subseteq heard

\* A heartbeat outlives neither its connection's turn in the loop nor, therefore,
\* does the Disconnect it calls, which takes whatever socket and done channel
\* it finds, ever end a later connection (reconnect.go:90-92).
HeartbeatEndsOwnConnection == hpc # "none" => hgen = gen

\* Of the Connects that failed since the loop was last connected, all but the
\* first were retries.
Retries == IF failures = 0 THEN 0 ELSE failures - 1

\* A Connect that fails is retried MaxRetries times, whatever failed before the
\* last connection; then, and only then, the loop gives up (reconnect.go:49-59,
\* 64).  The first Connect after a lost connection is not a retry.  This is not
\* what reconnect.go:13 says, where MaxRetries is "the maximum number of
\* reconnection attempts": after a lost connection the code makes one more.
GivesUpInTime ==
    MaxRetries > 0 =>
        /\ Retries <= MaxRetries
        /\ lpc = "returned" /\ ~cancelled => Retries = MaxRetries

\* Connect's wait for the previous reader ends: whoever ended the previous
\* connection has also made its reader leave (client.go:93).
ConnectProceeds == cpc = "waitReader" ~> cpc # "waitReader"

\* A peer that stops answering without closing is noticed, though the reader
\* blocks in a read that never returns (reconnect.go:108-158).
SilentPeerDetected ==
    lpc = "wait" /\ peer = "silent" ~> lpc # "wait"

\* Once its context is cancelled ConnectWithReconnect returns, wherever it was,
\* and leaves neither a reader nor a heartbeat behind.
CancelReturns ==
    cancelled ~> [](lpc = "returned" /\ rpc = "none" /\ hpc = "none")
=============================================================================
