--------------------------- MODULE ReconnectProofs --------------------------
(***************************************************************************)
(* Proofs about ConnectWithReconnect and its heartbeat, for any number of  *)
(* connections and any MaxRetries.                                         *)
(***************************************************************************)
EXTENDS ReconnectUser, TLAPS

USE DEF vars, clientVars, loopVars, connectVars, flagVars, readerVars, peerVars

-----------------------------------------------------------------------------
(* The inductive invariant *)

\* The loop's place and its counters: each failure used up a connection.
LoopInv ==
    /\ lpc = "connect" <=> cpc # "idle"
    /\ hpc # "none" => hgen = gen /\ lpc \in {"wait", "probeDone", "leave"}
    /\ lpc = "leave" => cancelled
    /\ attempt = failures
    /\ failures <= gen
    /\ cpc = "waitReader" => gen < MaxConn
    /\ cpc \notin {"idle", "waitReader"} => failures < gen
    /\ MaxRetries > 0 =>
          IF lpc = "returned"
          THEN failures <= MaxRetries + 1 /\ (cancelled \/ failures = MaxRetries + 1)
          ELSE failures <= MaxRetries

ReaderLeaves == sock = 0 \/ rpc \in {"leave", "none"}

\* Who closes what: a done channel is closed by a reader that leaves or after the
\* socket, so that the reader of a connection that has ended cannot read on.
CloseInv ==
    /\ dpc["loop"] # "idle" => cpc = "disconnect" \/ lpc = "leave"
    /\ dpc["heartbeat"] # "idle" => hpc = "disconnect"
    /\ \A d \in {"loop", "heartbeat"} : dpc[d] = "done" => sock = 0
    /\ cpc = "disconnect" /\ dpc["loop"] # "close" => sock = 0
    /\ cpc \in {"dial", "hello"} => rpc = "none" /\ gen \notin closedDone \cup readyCh
    /\ gen \in closedDone \/ cpc = "failed" \/ lpc = "delay" => ReaderLeaves
    /\ lpc = "probeDone" => gen \in closedDone

\* What the flags of the Client say is what this connection's reader has heard.
FlagInv ==
    /\ lpc = "top" \/ cpc = "waitReader" => rpc = "none"
    /\ cpc \in {"waitReader", "dial", "hello"} => ~hasReqID /\ ~hasAccounts
    /\ hasReqID => "nextValidId" \in heard
    /\ hasAccounts => "managedAccounts" \in heard
    /\ rpc = "got" => msg = "data" \/ msg \in heard
    /\ gen \in readyCh \/ cpc = "ok" => Handshake \subseteq heard

ReconnectInv == TypeOK /\ LoopInv /\ CloseInv /\ (DelayOutlasts => FlagInv)

-----------------------------------------------------------------------------
(* The steps *)

\* The steps of the two goroutines, and all the others.
ReaderOrPeer ==
    /\ ReaderStep \/ (\E m \in Messages : Receive(m)) \/ PeerSilent \/ PeerCloses \/ StreamEnds
    /\ UNCHANGED loopVars

LEMMA ReconnectInit == Init => ReconnectInv
<1> SUFFICES ASSUME Init PROVE ReconnectInv
  OBVIOUS
<1> USE MaxConnAssumption, ReconnectAssumption
<1>1. TypeOK
  <2>1. {hasVersion, hasReqID, hasAccounts, apiReady, fresh, started, cancelled} \subseteq BOOLEAN
    BY DEF Init, ClientInit
  <2>2. /\ dpc \in [Disconnecters -> {"idle", "close", "done"}]
        /\ attempt \in 0 .. IF MaxRetries > 0 THEN MaxRetries + 1 ELSE MaxConn
        /\ gen \in 0 .. MaxConn /\ failures \in 0 .. MaxConn /\ hgen \in 0 .. MaxConn
    BY DEF Init, ClientInit
  <2> QED
    BY <2>1, <2>2 DEF Init, ClientInit, TypeOK, Messages
<1>2. LoopInv /\ CloseInv /\ FlagInv
  BY DEF Init, ClientInit, LoopInv, CloseInv, FlagInv, Handshake
<1> QED
  BY <1>1, <1>2 DEF ReconnectInv

LEMMA LoopInvNext == TypeOK /\ LoopInv /\ [Next]_vars => LoopInv'
<1> SUFFICES ASSUME TypeOK, LoopInv, [Next]_vars PROVE LoopInv'
  OBVIOUS
<1> USE MaxConnAssumption, ReconnectAssumption DEF LoopInv
<1>0. gen \in Nat /\ failures \in Nat /\ MaxRetries \in Nat
  BY DEF TypeOK
<1>1. CASE LoopConnect
  BY <1>0, <1>1 DEF LoopConnect, LoopGoTo, Connect
<1>2. CASE LoopFailed
  <2>1. /\ lpc = "connect" /\ cpc = "failed" /\ cpc' = "idle"
        /\ attempt' = attempt + 1 /\ failures' = failures + 1
        /\ UNCHANGED <<gen, hpc, hgen, cancelled>>
        /\ lpc' \in {"returned", "delay"}
        /\ lpc' = "returned" <=> (MaxRetries > 0 /\ attempt + 1 > MaxRetries)
    BY <1>2 DEF LoopFailed, LoopGoTo
  <2>2. failures + 1 <= gen /\ hpc = "none"
    BY <1>0, <2>1
  <2>3. MaxRetries > 0 =>
          IF lpc' = "returned" THEN failures + 1 = MaxRetries + 1 ELSE failures + 1 <= MaxRetries
    BY <1>0, <2>1
  <2> QED
    BY <1>0, <2>1, <2>2, <2>3
<1>3. CASE LoopConnected
  BY <1>0, <1>3 DEF LoopConnected, LoopGoTo
<1>4. CASE LoopSeesDone \/ LoopProbeDone \/ LoopDelayed
  BY <1>0, <1>4 DEF LoopSeesDone, LoopProbeDone, LoopDelayed, LoopGoTo
<1>5. CASE LoopCancelled
  BY <1>0, <1>5 DEF LoopCancelled, LoopGoTo, LoopInv
<1>6. CASE LoopLeaves \/ LoopLeft
  BY <1>0, <1>6 DEF LoopLeaves, LoopLeft, LoopGoTo, Disconnect
<1>7. CASE ConnectStep("loop") /\ UNCHANGED loopVars
  <2>1. cpc # "idle" /\ cpc' \notin {"idle", "waitReader"}
    BY <1>7 DEF ConnectStep, ConnectWaited, DialOK, DialFails, SendHandshake,
       HandshakeReady, HandshakeClosed, HandshakeGivesUp, HandshakeGaveUp
  <2>2. \/ gen' = gen + 1 /\ cpc = "waitReader"
        \/ gen' = gen /\ cpc # "waitReader"
    BY <1>7 DEF ConnectStep, ConnectWaited, DialOK, DialFails, SendHandshake,
       HandshakeReady, HandshakeClosed, HandshakeGivesUp, HandshakeGaveUp
  <2> QED
    BY <1>0, <1>7, <2>1, <2>2
<1>8. CASE (DisconnectStep("loop") \/ DisconnectStep("heartbeat")) /\ UNCHANGED loopVars
  BY <1>0, <1>8 DEF DisconnectStep, DisconnectClose, DisconnectCloseDone
<1>9. CASE HeartbeatTick \/ Probe \/ ProbeFails \/ ReadLastTime \/ ProbeAnswered
           \/ ProbeTimeout \/ HeartbeatDone
  BY <1>0, <1>9 DEF HeartbeatTick, Probe, ProbeFails, ReadLastTime, ProbeAnswered,
     ProbeTimeout, HeartbeatDone, HeartbeatGoTo, Disconnect
<1>10. CASE Cancel
  BY <1>0, <1>10 DEF Cancel
<1>11. CASE ReaderOrPeer
  <2>1. UNCHANGED <<cpc, gen>>
    BY <1>11 DEF ReaderOrPeer, ReaderStep, ReadMessage, ReadFails, VersionRefused,
       VersionAccepted, StartApi, Snoop, SnoopReady, Dispatch, ReaderCloseDone, ReaderDown,
       Receive, PeerSilent, PeerCloses, StreamEnds, PeerBecomes
  <2> QED
    BY <1>0, <1>11, <2>1 DEF ReaderOrPeer
<1>12. CASE UNCHANGED vars
  BY <1>0, <1>12
<1> QED
  BY <1>1, <1>2, <1>3, <1>4, <1>5, <1>6, <1>7, <1>8, <1>9, <1>10, <1>11, <1>12
  DEF Next, LoopStep, HeartbeatStep, ReaderOrPeer

LEMMA CloseInvNext == ReconnectInv /\ [Next]_vars => CloseInv'
<1> SUFFICES ASSUME TypeOK, LoopInv, CloseInv, [Next]_vars PROVE CloseInv'
  BY DEF ReconnectInv
<1> USE MaxConnAssumption, ReconnectAssumption DEF CloseInv, ReaderLeaves
<1>0. /\ gen \in Nat /\ gen + 1 \notin closedDone \cup readyCh
      /\ dpc \in [Disconnecters -> {"idle", "close", "done"}]
      /\ "loop" \in Disconnecters /\ "heartbeat" \in Disconnecters
  BY DEF TypeOK
<1>1. CASE LoopConnect
  BY <1>1 DEF LoopConnect, LoopGoTo, Connect, LoopInv
<1>2. CASE LoopFailed
  BY <1>2 DEF LoopFailed, LoopGoTo, LoopInv
<1>3. CASE LoopConnected
  BY <1>3 DEF LoopConnected, LoopGoTo, LoopInv
<1>4. CASE LoopSeesDone \/ LoopProbeDone \/ LoopDelayed
  BY <1>4 DEF LoopSeesDone, LoopProbeDone, LoopDelayed, LoopGoTo, LoopInv
<1>5. CASE LoopCancelled
  BY <1>5 DEF LoopCancelled, LoopGoTo, LoopInv
<1>6. CASE LoopLeaves
  BY <1>0, <1>6 DEF LoopLeaves, LoopGoTo, Disconnect, LoopInv
<1>7. CASE LoopLeft
  BY <1>7 DEF LoopLeft, LoopGoTo, LoopInv
<1>8. CASE ConnectWaited /\ UNCHANGED loopVars
  BY <1>0, <1>8 DEF ConnectWaited, LoopInv
<1>9. CASE (DialOK \/ DialFails) /\ UNCHANGED loopVars
  BY <1>9 DEF DialOK, DialFails, LoopInv
<1>10. CASE SendHandshake /\ UNCHANGED loopVars
  BY <1>10 DEF SendHandshake, LoopInv
<1>11. CASE (HandshakeReady \/ HandshakeClosed) /\ UNCHANGED loopVars
  BY <1>11 DEF HandshakeReady, HandshakeClosed, LoopInv
<1>12. CASE HandshakeGivesUp("loop") /\ UNCHANGED loopVars
  BY <1>0, <1>12 DEF HandshakeGivesUp, LoopInv
<1>13. CASE HandshakeGaveUp("loop") /\ UNCHANGED loopVars
  BY <1>13 DEF HandshakeGaveUp, LoopInv
<1>14. ASSUME NEW d \in {"loop", "heartbeat"}, DisconnectClose(d), UNCHANGED loopVars
       PROVE  CloseInv'
  BY <1>0, <1>14 DEF DisconnectClose, LoopInv
<1>15. ASSUME NEW d \in {"loop", "heartbeat"}, DisconnectCloseDone(d), UNCHANGED loopVars
       PROVE  CloseInv'
  BY <1>0, <1>15 DEF DisconnectCloseDone, closeDone, LoopInv
<1>16. CASE HeartbeatTick \/ Probe \/ ReadLastTime \/ ProbeAnswered \/ HeartbeatDone
  BY <1>16 DEF HeartbeatTick, Probe, ReadLastTime, ProbeAnswered, HeartbeatDone,
     HeartbeatGoTo, LoopInv
<1>17. CASE ProbeFails \/ ProbeTimeout
  BY <1>0, <1>17 DEF ProbeFails, ProbeTimeout, HeartbeatGoTo, Disconnect, LoopInv
<1>18. CASE Cancel
  BY <1>18 DEF Cancel
<1>19. CASE ReaderOrPeer
  <2>1. /\ UNCHANGED <<cpc, gen, sock, dpc, lpc, hpc>>
        /\ rpc = "none" => rpc' = "none"
        /\ rpc = "leave" => rpc' \in {"leave", "none"}
        /\ closedDone' = closedDone \/ (closedDone' = closedDone \cup {gen} /\ rpc' = "leave")
        /\ readyCh' = readyCh \/ (rpc # "none" /\ readyCh' = readyCh \cup {gen})
    <3>1. CASE ReadMessage \/ ReadFails \/ VersionRefused \/ VersionAccepted \/ StartApi \/ Dispatch
      BY <1>19, <3>1 DEF ReadMessage, ReadFails, VersionRefused, VersionAccepted, IsGreeting, TakenForGreeting,
         StartApi, Dispatch, ReaderOrPeer
    <3>2. CASE Snoop
      BY <1>19, <3>2 DEF Snoop, ReaderOrPeer
    <3>3. CASE SnoopReady
      BY <1>19, <3>3 DEF SnoopReady, ReaderOrPeer
    <3>4. CASE ReaderCloseDone \/ ReaderDown
      BY <1>19, <3>4 DEF ReaderCloseDone, ReaderDown, closeDone, ReaderOrPeer
    <3>5. CASE \E m \in Messages : Receive(m)
      BY <1>19, <3>5 DEF Receive, ReaderOrPeer
    <3>6. CASE PeerSilent \/ PeerCloses \/ StreamEnds
      BY <1>19, <3>6 DEF PeerSilent, PeerCloses, StreamEnds, PeerBecomes, ReaderOrPeer
    <3> QED
      BY <1>19, <3>1, <3>2, <3>3, <3>4, <3>5, <3>6 DEF ReaderOrPeer, ReaderStep
  <2>2. rpc' = "leave" => rpc # "none"
    BY <2>1
  <2> QED
    BY <2>1, <2>2
<1>20. CASE UNCHANGED vars
  BY <1>20
<1> QED
  BY <1>1, <1>2, <1>3, <1>4, <1>5, <1>6, <1>7, <1>8, <1>9, <1>10, <1>11, <1>12, <1>13,
     <1>14, <1>15, <1>16, <1>17, <1>18, <1>19, <1>20
  DEF Next, LoopStep, HeartbeatStep, ConnectStep, DisconnectStep, ReaderOrPeer

\* The flags after a step of the reader: it has heard what they say.
LEMMA FlagInvReader ==
    ASSUME TypeOK, LoopInv, CloseInv, FlagInv, ReaderOrPeer
    PROVE  FlagInv'
<1> USE DEF FlagInv, Handshake
<1>0. UNCHANGED <<lpc, cpc, gen>> /\ (cpc \in {"dial", "hello"} => rpc = "none")
  BY DEF CloseInv, ReaderOrPeer, ReaderStep, ReadMessage, ReadFails, VersionRefused,
     VersionAccepted, StartApi, Snoop, SnoopReady, Dispatch, ReaderCloseDone, ReaderDown,
     Receive, PeerSilent, PeerCloses, StreamEnds, PeerBecomes
<1>1. CASE ReadMessage \/ ReadFails \/ VersionRefused \/ VersionAccepted \/ StartApi \/ Dispatch
  <2>1. rpc' # "got" /\ rpc # "none" /\ UNCHANGED <<hasReqID, hasAccounts, readyCh, heard>>
    BY <1>1 DEF ReadMessage, ReadFails, VersionRefused, VersionAccepted, IsGreeting, TakenForGreeting,
       StartApi, Dispatch
  <2> QED
    BY <1>0, <2>1
<1>2. CASE Snoop
  <2>1. rpc = "got" /\ rpc' \in {"dispatch", "snoop"} /\ UNCHANGED <<readyCh, heard, msg>>
    BY <1>2 DEF Snoop
  <2>2. hasReqID' => hasReqID \/ msg = "nextValidId"
    BY <1>2 DEF Snoop
  <2>3. hasAccounts' => hasAccounts \/ msg = "managedAccounts"
    BY <1>2 DEF Snoop
  <2>4. hasReqID' => "nextValidId" \in heard'
    BY <2>1, <2>2
  <2>5. hasAccounts' => "managedAccounts" \in heard'
    BY <2>1, <2>3
  <2>6. cpc \notin {"waitReader", "dial", "hello"}
    BY <1>0, <2>1
  <2> QED
    BY <1>0, <2>1, <2>4, <2>5, <2>6
<1>3. CASE SnoopReady
  BY <1>0, <1>3 DEF SnoopReady
<1>4. CASE ReaderCloseDone \/ ReaderDown
  BY <1>0, <1>4 DEF ReaderCloseDone, ReaderDown
<1>5. CASE \E m \in Messages : Receive(m)
  BY <1>0, <1>5 DEF Receive
<1>6. CASE PeerSilent \/ PeerCloses \/ StreamEnds
  BY <1>0, <1>6 DEF PeerSilent, PeerCloses, StreamEnds, PeerBecomes
<1> QED
  BY <1>1, <1>2, <1>3, <1>4, <1>5, <1>6 DEF ReaderOrPeer, ReaderStep

LEMMA FlagInvNext == DelayOutlasts /\ ReconnectInv /\ [Next]_vars => FlagInv'
<1> SUFFICES ASSUME DelayOutlasts, TypeOK, LoopInv, CloseInv, FlagInv, [Next]_vars
             PROVE  FlagInv'
  BY DEF ReconnectInv
<1> USE DEF FlagInv
<1>0. gen \in Nat /\ gen + 1 \notin readyCh
  BY MaxConnAssumption DEF TypeOK
<1>1. CASE LoopConnect
  BY <1>1 DEF LoopConnect, LoopGoTo, Connect
<1>2. CASE LoopFailed \/ LoopConnected
  BY <1>2 DEF LoopFailed, LoopConnected, LoopGoTo
<1>3. CASE LoopSeesDone \/ LoopProbeDone
  BY <1>3 DEF LoopSeesDone, LoopProbeDone, LoopGoTo
<1>4. CASE LoopDelayed
  <2>1. rpc = "none"
    BY <1>4 DEF LoopDelayed, LoopGoTo, ReaderSettled, CloseInv, ReaderLeaves
  <2> QED
    BY <1>4, <2>1 DEF LoopDelayed, LoopGoTo
<1>5. CASE LoopCancelled \/ LoopLeaves \/ LoopLeft
  BY <1>5 DEF LoopCancelled, LoopLeaves, LoopLeft, LoopGoTo, Disconnect
<1>6. CASE ConnectWaited /\ UNCHANGED loopVars
  BY <1>0, <1>6 DEF ConnectWaited, LoopInv
<1>7. CASE DialOK /\ UNCHANGED loopVars
  BY <1>7 DEF DialOK, LoopInv, CloseInv
<1>8. CASE (DialFails \/ HandshakeReady \/ HandshakeClosed) /\ UNCHANGED loopVars
  BY <1>8 DEF DialFails, HandshakeReady, HandshakeClosed
<1>9. CASE SendHandshake /\ UNCHANGED loopVars
  BY <1>9 DEF SendHandshake, LoopInv
<1>10. CASE (HandshakeGivesUp("loop") \/ HandshakeGaveUp("loop")) /\ UNCHANGED loopVars
  BY <1>10 DEF HandshakeGivesUp, HandshakeGaveUp
<1>11. CASE (DisconnectStep("loop") \/ DisconnectStep("heartbeat")) /\ UNCHANGED loopVars
  BY <1>11 DEF DisconnectStep, DisconnectClose, DisconnectCloseDone
<1>12. CASE HeartbeatTick \/ Probe \/ ReadLastTime \/ ProbeAnswered \/ HeartbeatDone
  BY <1>12 DEF HeartbeatTick, Probe, ReadLastTime, ProbeAnswered, HeartbeatDone
<1>13. CASE ProbeFails \/ ProbeTimeout
  BY <1>13 DEF ProbeFails, ProbeTimeout, Disconnect
<1>14. CASE Cancel
  BY <1>14 DEF Cancel
<1>15. CASE ReaderOrPeer
  BY <1>15, FlagInvReader
<1>16. CASE UNCHANGED vars
  BY <1>16
<1> QED
  BY <1>1, <1>2, <1>3, <1>4, <1>5, <1>6, <1>7, <1>8, <1>9, <1>10, <1>11, <1>12, <1>13,
     <1>14, <1>15, <1>16
  DEF Next, LoopStep, HeartbeatStep, ConnectStep, ReaderOrPeer

-----------------------------------------------------------------------------
(* The types *)

ClientTypes ==
    /\ cpc \in {"idle", "waitReader", "dial", "hello", "handshake", "disconnect", "ok",
                "failed"}
    /\ gen \in 0 .. MaxConn
    /\ closedDone \cup readyCh \subseteq 0 .. gen
    /\ ConnState \in {"Disconnected", "Connecting", "Connected"}
    /\ sock \in 0 .. gen
    /\ dpc \in [Disconnecters -> {"idle", "close", "done"}]

ReaderTypes ==
    /\ rpc \in {"none", "fetch", "read", "got", "greeted", "snoop", "dispatch", "exit",
                "leave"}
    /\ msg \in Messages
    /\ peer \in {"up", "silent", "closing", "gone"}
    /\ heard \subseteq Messages \ {"data"}

LoopTypes ==
    /\ lpc \in {"top", "connect", "wait", "probeDone", "delay", "leave", "returned"}
    /\ hpc \in {"none", "tick", "write", "written", "await", "disconnect"}
    /\ hgen \in 0 .. MaxConn
    /\ failures \in Nat

FlagTypes ==
    /\ hasVersion \in BOOLEAN /\ hasReqID \in BOOLEAN /\ hasAccounts \in BOOLEAN
    /\ apiReady \in BOOLEAN /\ fresh \in BOOLEAN /\ started \in BOOLEAN
    /\ cancelled \in BOOLEAN

LEMMA ClientTypesNext == ClientTypes /\ LoopInv /\ [Next]_vars => ClientTypes'
<1> SUFFICES ASSUME ClientTypes, LoopInv, [Next]_vars PROVE ClientTypes'
  OBVIOUS
<1> USE MaxConnAssumption, ReconnectAssumption DEF ClientTypes
<1>1. CASE LoopConnect
  BY <1>1 DEF LoopConnect, Connect
<1>2. CASE LoopFailed \/ LoopConnected
  BY <1>2 DEF LoopFailed, LoopConnected
<1>3. CASE LoopSeesDone \/ LoopProbeDone \/ LoopDelayed \/ LoopCancelled \/ LoopLeft
  BY <1>3 DEF LoopSeesDone, LoopProbeDone, LoopDelayed, LoopCancelled, LoopLeft
<1>4. CASE LoopLeaves \/ ProbeFails \/ ProbeTimeout
  BY <1>4 DEF LoopLeaves, ProbeFails, ProbeTimeout, Disconnect
<1>5. CASE ConnectWaited
  BY <1>5 DEF ConnectWaited, LoopInv
<1>6. CASE DialOK \/ DialFails \/ SendHandshake
  BY <1>6 DEF DialOK, DialFails, SendHandshake
<1>7. CASE HandshakeReady \/ HandshakeClosed \/ HandshakeGaveUp("loop")
  BY <1>7 DEF HandshakeReady, HandshakeClosed, HandshakeGaveUp
<1>8. CASE HandshakeGivesUp("loop")
  BY <1>8 DEF HandshakeGivesUp
<1>9. CASE DisconnectStep("loop") \/ DisconnectStep("heartbeat")
  BY <1>9 DEF DisconnectStep, DisconnectClose, DisconnectCloseDone, closeDone
<1>10. CASE HeartbeatTick \/ Probe \/ ReadLastTime \/ ProbeAnswered \/ HeartbeatDone \/ Cancel
  BY <1>10 DEF HeartbeatTick, Probe, ReadLastTime, ProbeAnswered, HeartbeatDone, Cancel
<1>11. CASE ReadMessage \/ ReadFails \/ VersionRefused \/ VersionAccepted \/ Dispatch \/ ReaderDown
  BY <1>11 DEF ReadMessage, ReadFails, VersionRefused, VersionAccepted, Dispatch, ReaderDown
<1>12. CASE StartApi \/ Snoop
  BY <1>12 DEF StartApi, Snoop
<1>13. CASE SnoopReady \/ ReaderCloseDone
  BY <1>13 DEF SnoopReady, ReaderCloseDone, closeDone
<1>14. CASE (\E m \in Messages : Receive(m)) \/ PeerSilent \/ PeerCloses \/ StreamEnds
  BY <1>14 DEF Receive, PeerSilent, PeerCloses, StreamEnds, PeerBecomes
<1>15. CASE UNCHANGED vars
  BY <1>15
<1> QED
  BY <1>1, <1>2, <1>3, <1>4, <1>5, <1>6, <1>7, <1>8, <1>9, <1>10, <1>11, <1>12, <1>13,
     <1>14, <1>15
  DEF Next, LoopStep, HeartbeatStep, ConnectStep, ReaderStep

LEMMA ReaderTypesNext == ReaderTypes /\ [Next]_vars => ReaderTypes'
<1> SUFFICES ASSUME ReaderTypes, [Next]_vars PROVE ReaderTypes'
  OBVIOUS
<1> USE DEF ReaderTypes
<1>1. CASE LoopStep
  BY <1>1 DEF LoopStep, LoopConnect, Connect, LoopFailed, LoopConnected, LoopSeesDone,
     LoopProbeDone, LoopDelayed, LoopCancelled, LoopLeaves, LoopLeft, Disconnect, ConnectStep,
     ConnectWaited, DialOK, DialFails, SendHandshake, HandshakeReady, HandshakeClosed,
     HandshakeGivesUp, HandshakeGaveUp, DisconnectStep, DisconnectClose, DisconnectCloseDone
<1>2. CASE HeartbeatStep \/ Cancel
  BY <1>2 DEF HeartbeatStep, HeartbeatTick, Probe, ProbeFails, ReadLastTime, ProbeAnswered,
     ProbeTimeout, HeartbeatDone, Cancel, Disconnect, DisconnectStep, DisconnectClose,
     DisconnectCloseDone
<1>3. CASE ReaderStep
  BY <1>3 DEF ReaderStep, ReadMessage, ReadFails, VersionRefused, VersionAccepted, StartApi,
     Snoop, SnoopReady, Dispatch, ReaderCloseDone, ReaderDown
<1>4. ASSUME NEW m \in Messages, Receive(m) PROVE ReaderTypes'
  BY <1>4 DEF Receive
<1>5. CASE PeerSilent \/ PeerCloses \/ StreamEnds
  BY <1>5 DEF PeerSilent, PeerCloses, StreamEnds, PeerBecomes
<1>6. CASE UNCHANGED vars
  BY <1>6
<1> QED
  BY <1>1, <1>2, <1>3, <1>4, <1>5, <1>6 DEF Next

LEMMA LoopTypesNext == LoopTypes /\ ClientTypes /\ [Next]_vars => LoopTypes'
<1> SUFFICES ASSUME LoopTypes, ClientTypes, [Next]_vars PROVE LoopTypes'
  OBVIOUS
<1> USE MaxConnAssumption, ReconnectAssumption DEF LoopTypes
<1>1. CASE LoopConnect \/ LoopFailed \/ LoopConnected
  BY <1>1 DEF LoopConnect, LoopFailed, LoopConnected, LoopGoTo, ClientTypes
<1>2. CASE LoopSeesDone \/ LoopProbeDone \/ LoopDelayed \/ LoopCancelled \/ LoopLeaves \/ LoopLeft
  BY <1>2 DEF LoopSeesDone, LoopProbeDone, LoopDelayed, LoopCancelled, LoopLeaves, LoopLeft,
     LoopGoTo
<1>3. CASE HeartbeatTick \/ Probe \/ ProbeFails \/ ReadLastTime \/ ProbeAnswered \/ ProbeTimeout
           \/ HeartbeatDone \/ Cancel
  BY <1>3 DEF HeartbeatTick, Probe, ProbeFails, ReadLastTime, ProbeAnswered, ProbeTimeout,
     HeartbeatDone, HeartbeatGoTo, Cancel
<1>4. CASE UNCHANGED loopVars
  BY <1>4
<1> QED
  BY <1>1, <1>2, <1>3, <1>4 DEF Next, LoopStep, HeartbeatStep

LEMMA FlagTypesNext == FlagTypes /\ [Next]_vars => FlagTypes'
<1> SUFFICES ASSUME FlagTypes, [Next]_vars PROVE FlagTypes'
  OBVIOUS
<1> USE DEF FlagTypes
<1>1. CASE LoopStep
  <2>1. CASE LoopConnect \/ LoopFailed \/ LoopConnected \/ LoopSeesDone \/ LoopProbeDone
             \/ LoopDelayed \/ LoopCancelled \/ LoopLeft
    BY <2>1 DEF LoopConnect, Connect, LoopFailed, LoopConnected, LoopSeesDone, LoopProbeDone,
       LoopDelayed, LoopCancelled, LoopLeft
  <2>2. CASE LoopLeaves
    BY <2>2 DEF LoopLeaves, Disconnect
  <2>3. CASE ConnectStep("loop") /\ UNCHANGED loopVars
    BY <2>3 DEF ConnectStep, ConnectWaited, DialOK, DialFails, SendHandshake, HandshakeReady,
       HandshakeClosed, HandshakeGivesUp, HandshakeGaveUp
  <2>4. CASE DisconnectStep("loop") /\ UNCHANGED loopVars
    BY <2>4 DEF DisconnectStep, DisconnectClose, DisconnectCloseDone
  <2> QED
    BY <1>1, <2>1, <2>2, <2>3, <2>4 DEF LoopStep
<1>2. CASE HeartbeatStep \/ Cancel
  BY <1>2 DEF HeartbeatStep, HeartbeatTick, Probe, ProbeFails, ReadLastTime, ProbeAnswered,
     ProbeTimeout, HeartbeatDone, Cancel, Disconnect, DisconnectStep, DisconnectClose,
     DisconnectCloseDone
<1>3. CASE (ReadMessage \/ ReadFails \/ VersionRefused \/ VersionAccepted \/ ReaderCloseDone
            \/ ReaderDown) /\ UNCHANGED loopVars
  BY <1>3 DEF ReadMessage, ReadFails, VersionRefused, VersionAccepted, ReaderCloseDone,
     ReaderDown
<1>4. CASE StartApi /\ UNCHANGED loopVars
  BY <1>4 DEF StartApi, CanWrite
<1>5. CASE Snoop /\ UNCHANGED loopVars
  BY <1>5 DEF Snoop
<1>6. CASE SnoopReady /\ UNCHANGED loopVars
  BY <1>6 DEF SnoopReady
<1>7. CASE Dispatch /\ UNCHANGED loopVars
  BY <1>7 DEF Dispatch
<1>8. CASE ((\E m \in Messages : Receive(m)) \/ PeerSilent \/ PeerCloses \/ StreamEnds)
           /\ UNCHANGED loopVars
  BY <1>8 DEF Receive, PeerSilent, PeerCloses, StreamEnds, PeerBecomes
<1>9. CASE UNCHANGED vars
  BY <1>9
<1> QED
  BY <1>1, <1>2, <1>3, <1>4, <1>5, <1>6, <1>7, <1>8, <1>9 DEF Next, ReaderStep

LEMMA TypesSplit == TypeOK => ClientTypes /\ ReaderTypes /\ LoopTypes /\ FlagTypes
<1>1. FlagTypes <=> {hasVersion, hasReqID, hasAccounts, apiReady, fresh, started, cancelled}
                       \subseteq BOOLEAN
  BY DEF FlagTypes
<1>2. failures \in 0 .. MaxConn => failures \in Nat
  BY MaxConnAssumption
<1> QED
  BY <1>1, <1>2 DEF TypeOK, ClientTypes, ReaderTypes, LoopTypes

\* The counters stay within their bounds because each failure used up a connection.
LEMMA TypesJoined ==
    ClientTypes /\ ReaderTypes /\ LoopTypes /\ FlagTypes /\ LoopInv => TypeOK
<1> SUFFICES ASSUME ClientTypes, ReaderTypes, LoopTypes, FlagTypes, LoopInv
             PROVE  TypeOK
  OBVIOUS
<1>1. /\ attempt \in 0 .. IF MaxRetries > 0 THEN MaxRetries + 1 ELSE MaxConn
      /\ failures \in 0 .. MaxConn
  <2>1. /\ failures \in Nat /\ gen \in Nat /\ gen <= MaxConn /\ failures <= gen
        /\ MaxRetries \in Nat /\ attempt = failures
        /\ MaxRetries > 0 => failures <= MaxRetries \/ failures <= MaxRetries + 1
    BY MaxConnAssumption, ReconnectAssumption DEF LoopInv, LoopTypes, ClientTypes
  <2> QED
    BY <2>1, MaxConnAssumption
<1>2. {hasVersion, hasReqID, hasAccounts, apiReady, fresh, started, cancelled} \subseteq BOOLEAN
  BY DEF FlagTypes
<1> QED
  BY <1>1, <1>2 DEF TypeOK, ClientTypes, ReaderTypes, LoopTypes

\* The part of the invariant that does not depend on who closes a connection.
LEMMA LoopNext == TypeOK /\ LoopInv /\ [Next]_vars => TypeOK' /\ LoopInv'
<1> SUFFICES ASSUME TypeOK, LoopInv, [Next]_vars PROVE TypeOK' /\ LoopInv'
  OBVIOUS
<1>1. LoopInv'
  BY LoopInvNext
<1>2. ClientTypes' /\ ReaderTypes' /\ LoopTypes' /\ FlagTypes'
  BY ClientTypesNext, ReaderTypesNext, LoopTypesNext, FlagTypesNext, TypesSplit
<1>3. (ClientTypes /\ ReaderTypes /\ LoopTypes /\ FlagTypes /\ LoopInv => TypeOK)'
  BY TypesJoined, PTL
<1> QED
  BY <1>1, <1>2, <1>3

LEMMA ReconnectNext == ReconnectInv /\ [Next]_vars => ReconnectInv'
BY LoopNext, CloseInvNext, FlagInvNext DEF ReconnectInv

-----------------------------------------------------------------------------
(* The theorems *)

LEMMA ReconnectInvariant == Spec => []ReconnectInv
BY ReconnectInit, ReconnectNext, PTL DEF Spec

\* Client, loop and heartbeat keep their types: the counters stay within MaxRetries
\* and the connections made, no socket and no done channel is of a connection that has
\* not been made.
THEOREM ReconnectTypes == Spec => []TypeOK
<1>1. ReconnectInv => TypeOK
  BY DEF ReconnectInv
<1> QED
  BY <1>1, ReconnectInvariant, PTL

\* The heartbeat of a connection is gone before the next one is made, so its
\* Disconnect never closes a later connection (reconnect.go:90-92).
THEOREM HeartbeatStaysWithConnection == Spec => []HeartbeatEndsOwnConnection
<1>1. ReconnectInv => HeartbeatEndsOwnConnection
  BY DEF ReconnectInv, LoopInv, HeartbeatEndsOwnConnection
<1> QED
  BY <1>1, ReconnectInvariant, PTL

\* ConnectWithReconnect retries a failed Connect MaxRetries times and no more, and gives up
\* on no other ground than these or the context (reconnect.go:49-59, 64).  After a lost
\* connection these are MaxRetries + 1 reconnection attempts, not the MaxRetries that
\* reconnect.go:13 announces.
THEOREM LoopGivesUpInTime == Spec => []GivesUpInTime
<1>1. ReconnectInv => GivesUpInTime
  BY ReconnectAssumption, MaxConnAssumption
  DEF ReconnectInv, TypeOK, LoopInv, GivesUpInTime, Retries
<1> QED
  BY <1>1, ReconnectInvariant, PTL

\* If RetryDelay outlasts what the reader of the ended connection still holds, Connect
\* reports success only after the handshake of the connection it made, although the flags
\* it waits for are shared by all connections (client.go:86-89, 262-287).
THEOREM ReadyAfterHandshake ==
    ASSUME DelayOutlasts
    PROVE  Spec => []ReadyMeansHandshake
<1>1. ReconnectInv => ReadyMeansHandshake
  BY DEF ReconnectInv, FlagInv, ReadyMeansHandshake
<1> QED
  BY <1>1, ReconnectInvariant, PTL

-----------------------------------------------------------------------------
(* With a goroutine of the application that calls Disconnect at any time *)

LEMMA UserLoopNext == TypeOK /\ LoopInv /\ [UserNext]_vars => TypeOK' /\ LoopInv'
<1> SUFFICES ASSUME TypeOK, LoopInv, UserDisconnect \/ UserStep PROVE TypeOK' /\ LoopInv'
  BY LoopNext DEF UserNext
<1>1. /\ UNCHANGED <<cpc, gen, readyCh, hasVersion, hasReqID, hasAccounts, rpc, msg, fresh,
                     peer, started, heard, loopVars>>
      /\ closedDone' \subseteq closedDone \cup {gen}
      /\ ConnState' \in {ConnState, "Disconnected"} /\ sock' \in {sock, 0}
      /\ apiReady' \in {apiReady, FALSE}
      /\ \E l \in {"idle", "close", "done"} : dpc' = [dpc EXCEPT !["user"] = l]
  BY DEF UserDisconnect, UserStep, Disconnect, DisconnectStep, DisconnectClose,
     DisconnectCloseDone, closeDone
<1>2. LoopInv'
  BY <1>1 DEF LoopInv
<1>3. ClientTypes /\ ReaderTypes /\ LoopTypes /\ FlagTypes
  BY TypesSplit
<1>4. ClientTypes'
  <2>1. closedDone' \cup readyCh' \subseteq 0 .. gen' /\ sock' \in 0 .. gen'
    BY <1>1, <1>3, MaxConnAssumption DEF ClientTypes
  <2>2. dpc' \in [Disconnecters -> {"idle", "close", "done"}]
    BY <1>1, <1>3 DEF ClientTypes
  <2> QED
    BY <1>1, <1>3, <2>1, <2>2 DEF ClientTypes
<1>5. ReaderTypes' /\ LoopTypes'
  BY <1>1, <1>3 DEF ReaderTypes, LoopTypes
<1>6. FlagTypes'
  BY <1>1, <1>3 DEF FlagTypes
<1>7. (ClientTypes /\ ReaderTypes /\ LoopTypes /\ FlagTypes /\ LoopInv => TypeOK)'
  BY TypesJoined, PTL
<1> QED
  BY <1>2, <1>4, <1>5, <1>6, <1>7

\* A Disconnect of the application that runs beside the loop can end a connection it
\* was not meant for and keep the loop from reconnecting.  It can do neither of these:
\* make the loop lose count of its attempts, so that it gives up early or never, or
\* make a heartbeat outlive its connection and end a later one (reconnect.go:49-92).
THEOREM DisconnectLeavesLoopSound ==
    UserSpec => [](TypeOK /\ HeartbeatEndsOwnConnection /\ GivesUpInTime)
<1>1. Init => TypeOK /\ LoopInv
  BY ReconnectInit DEF ReconnectInv
<1>2. TypeOK /\ LoopInv => HeartbeatEndsOwnConnection /\ GivesUpInTime
  BY ReconnectAssumption, MaxConnAssumption
  DEF TypeOK, LoopInv, GivesUpInTime, Retries, HeartbeatEndsOwnConnection
<1> QED
  BY <1>1, <1>2, UserLoopNext, PTL DEF UserSpec
=============================================================================
