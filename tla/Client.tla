------------------------------- MODULE Client -------------------------------
(***************************************************************************)
(* The life of a connection (protocol.Client and protocol.Connection).     *)
(*                                                                         *)
(* Connect resets the handshake flags, waits for the reader goroutine of   *)
(* the previous connection, makes a fresh done channel, dials, starts a    *)
(* reader and waits for it to announce the API ready.  Disconnect may be   *)
(* called by any goroutine at any time.  The reader snoops the handshake   *)
(* messages and leaves when its socket fails or is closed.                 *)
(*                                                                         *)
(* A connection is named by the Connect that makes its done channel: since *)
(* Connect waits for the reader first, a reader, its socket, its done and  *)
(* its readyCh all carry the same number.                                  *)
(***************************************************************************)
EXTENDS Integers

CONSTANTS
    MaxConn,      \* bound: connections made in a behaviour
    Disconnecters \* the goroutines that call Disconnect

ASSUME MaxConnAssumption == MaxConn \in Nat \ {0}

VARIABLES
    cpc,          \* where Connect is; "ok" and "failed" until its caller goes on
    gen,          \* Client.done is done channel gen; 0 is the one of NewClient
    closedDone,   \* the done channels that have been closed
    readyCh,      \* the connections whose readyCh has been sent to
    ConnState,    \* Client.ConnState
    hasVersion,   \* Client.ServerVersion # 0
    hasReqID,     \* Client.hasReqID
    hasAccounts,  \* Client.accounts is not empty
    apiReady,     \* Client.apiReady
    sock,         \* Connection.conn and its reader, 0 is nil
    dpc,          \* dpc[d]: where the Disconnect of d is
    rpc,          \* where the reader goroutine is
    msg,          \* the message it holds
    fresh,        \* LastTime has changed since the heartbeat last read it
    peer,         \* the peer of the last dialled socket
    started,      \* it has been sent startApi
    heard         \* what the reader has read from it: history

connectVars == <<cpc, gen, readyCh>>
flagVars    == <<ConnState, hasVersion, hasReqID, hasAccounts, apiReady>>
readerVars  == <<rpc, msg, fresh>>
peerVars    == <<peer, started, heard>>
clientVars  == <<connectVars, closedDone, flagVars, sock, dpc, readerVars, peerVars>>

\* A message after the handshake: nextValidId, managedAccounts, anything else.
\* The server sends the first two when it is asked to start the API.
Handshake == {"nextValidId", "managedAccounts"}
Messages  == {"version", "data"} \cup Handshake

ClientInit ==
    /\ cpc = "idle"
    /\ gen = 0
    /\ closedDone = {}
    /\ readyCh = {}
    /\ ConnState = "Disconnected"
    /\ hasVersion = FALSE
    /\ hasReqID = FALSE
    /\ hasAccounts = FALSE
    /\ apiReady = FALSE
    /\ sock = 0
    /\ dpc = [d \in Disconnecters |-> "idle"]
    /\ rpc = "none"
    /\ msg = "data"
    /\ fresh = FALSE
    /\ peer = "gone"
    /\ started = FALSE
    /\ heard = {}

-----------------------------------------------------------------------------
(* Disconnect *)

\* ConnState and apiReady, under Client.mu.
Disconnect(d) ==
    /\ dpc[d] = "idle"
    /\ dpc' = [dpc EXCEPT ![d] = "close"]
    /\ ConnState' = "Disconnected"
    /\ apiReady' = FALSE
    /\ UNCHANGED <<connectVars, closedDone, hasVersion, hasReqID, hasAccounts,
                   sock, readerVars, peerVars>>

\* Connection.Disconnect: whichever socket is there by now.
DisconnectClose(d) ==
    /\ dpc[d] = "close"
    /\ dpc' = [dpc EXCEPT ![d] = "done"]
    /\ sock' = 0
    /\ UNCHANGED <<connectVars, closedDone, flagVars, readerVars, peerVars>>

\* closeDone: whichever done channel is there by now.
closeDone == closedDone' = closedDone \cup {gen}

DisconnectCloseDone(d) ==
    /\ dpc[d] = "done"
    /\ dpc' = [dpc EXCEPT ![d] = "idle"]
    /\ closeDone
    /\ UNCHANGED <<connectVars, flagVars, sock, readerVars, peerVars>>

DisconnectStep(d) == DisconnectClose(d) \/ DisconnectCloseDone(d)

-----------------------------------------------------------------------------
(* Connect, called by goroutine d *)

\* Mutant: keeps what the previous handshake found out.
ConnectKeepsFlags ==
    /\ cpc = "idle"
    /\ gen < MaxConn
    /\ cpc' = "waitReader"
    /\ ConnState' = "Connecting"
    /\ hasVersion' = FALSE
    /\ apiReady' = FALSE
    /\ UNCHANGED <<gen, readyCh, closedDone, hasReqID, hasAccounts, sock, dpc,
                   readerVars, peerVars>>

\* The fields are reset before the wait for the previous reader.
Connect ==
    /\ cpc = "idle"
    /\ gen < MaxConn
    /\ cpc' = "waitReader"
    /\ ConnState' = "Connecting"
    /\ hasVersion' = FALSE
    /\ hasReqID' = FALSE
    /\ apiReady' = FALSE
    /\ hasAccounts' = FALSE
    /\ UNCHANGED <<gen, readyCh, closedDone, sock, dpc, readerVars, peerVars>>

\* readWg.Wait, then the fresh done channel.
ConnectWaited ==
    /\ cpc = "waitReader"
    /\ rpc = "none"
    /\ cpc' = "dial"
    /\ gen' = gen + 1
    /\ UNCHANGED <<readyCh, closedDone, flagVars, sock, dpc, readerVars, peerVars>>

DialOK ==
    /\ cpc = "dial"
    /\ cpc' = "hello"
    /\ sock' = gen
    /\ peer' = "up"
    /\ started' = FALSE
    /\ heard' = {}
    /\ UNCHANGED <<gen, readyCh, closedDone, flagVars, dpc, readerVars>>

\* Connection keeps the socket it held, if any.
DialFails ==
    /\ cpc = "dial"
    /\ cpc' = "failed"
    /\ ConnState' = "Disconnected"
    /\ UNCHANGED <<gen, readyCh, closedDone, hasVersion, hasReqID, hasAccounts,
                   apiReady, sock, dpc, readerVars, peerVars>>

\* A write fails without a socket and may fail once the peer is gone.
CanWrite == sock # 0
CanFailWrite == sock = 0 \/ peer \in {"closing", "gone"}

\* The version range is written, readWg.Add, go readLoop.
SendHandshake ==
    /\ cpc = "hello"
    /\ CanWrite
    /\ cpc' = "handshake"
    /\ rpc' = "fetch"
    /\ UNCHANGED <<gen, readyCh, closedDone, flagVars, sock, dpc, msg, fresh,
                   peerVars>>

HandshakeReady ==
    /\ cpc = "handshake"
    /\ gen \in readyCh
    /\ cpc' = "ok"
    /\ UNCHANGED <<gen, readyCh, closedDone, flagVars, sock, dpc, readerVars,
                   peerVars>>

HandshakeClosed ==
    /\ cpc = "handshake"
    /\ gen \in closedDone
    /\ cpc' = "failed"
    /\ UNCHANGED <<gen, readyCh, closedDone, flagVars, sock, dpc, readerVars,
                   peerVars>>

\* Mutant: gives up without Disconnect, and leaves the reader to its socket.
HandshakeAbandons(d) ==
    /\ \/ cpc = "handshake"
       \/ cpc = "hello" /\ CanFailWrite
    /\ cpc' = "failed"
    /\ UNCHANGED <<gen, readyCh, closedDone, flagVars, sock, dpc, readerVars,
                   peerVars>>

\* SendRaw failed, or the context of Connect ended: Disconnect, and return.
HandshakeGivesUp(d) ==
    /\ \/ cpc = "handshake"
       \/ cpc = "hello" /\ CanFailWrite
    /\ cpc' = "disconnect"
    /\ dpc[d] = "idle"
    /\ dpc' = [dpc EXCEPT ![d] = "close"]
    /\ ConnState' = "Disconnected"
    /\ apiReady' = FALSE
    /\ UNCHANGED <<gen, readyCh, closedDone, hasVersion, hasReqID, hasAccounts,
                   sock, readerVars, peerVars>>

HandshakeGaveUp(d) ==
    /\ cpc = "disconnect"
    /\ dpc[d] = "idle"
    /\ cpc' = "failed"
    /\ UNCHANGED <<gen, readyCh, closedDone, flagVars, sock, dpc, readerVars,
                   peerVars>>

ConnectStep(d) ==
    \/ ConnectWaited \/ DialOK \/ DialFails \/ SendHandshake
    \/ HandshakeReady \/ HandshakeClosed
    \/ HandshakeGivesUp(d) \/ HandshakeGaveUp(d)

-----------------------------------------------------------------------------
(* readLoop *)

\* ReadMessage fetches the bufio.Reader under the lock ...
ReadMessage ==
    /\ rpc = "fetch"
    /\ rpc' = IF sock = 0 THEN "exit" ELSE "read"
    /\ UNCHANGED <<connectVars, closedDone, flagVars, sock, dpc, msg, fresh,
                   peerVars>>

\* ... and reads a message without it.  One that is buffered is returned even
\* if the socket has been closed meanwhile.
Receive(m) ==
    /\ rpc = "read"
    /\ peer \in {"up", "closing"}
    /\ IF "version" \in heard THEN started /\ m # "version" ELSE m = "version"
    /\ rpc' = "got"
    /\ msg' = m
    /\ heard' = IF m = "data" THEN heard ELSE heard \cup {m}
    /\ UNCHANGED <<connectVars, closedDone, flagVars, sock, dpc, fresh, peer,
                   started>>

ReadFails ==
    /\ rpc = "read"
    /\ sock = 0 \/ peer = "gone"
    /\ rpc' = "exit"
    /\ UNCHANGED <<connectVars, closedDone, flagVars, sock, dpc, msg, fresh,
                   peerVars>>

IsGreeting == rpc = "got" /\ ~hasVersion /\ msg = "version"

\* Any message of two fields passes for the greeting until there is a version;
\* the number of such a message (positionEnd, say) is too small for a version.
TakenForGreeting == rpc = "got" /\ ~hasVersion /\ msg \in {"version", "data"}

VersionRefused ==
    /\ TakenForGreeting
    /\ rpc' = "exit"
    /\ UNCHANGED <<connectVars, closedDone, flagVars, sock, dpc, msg, fresh,
                   peerVars>>

VersionAccepted ==
    /\ IsGreeting
    /\ rpc' = "greeted"
    /\ hasVersion' = TRUE
    /\ UNCHANGED <<connectVars, closedDone, ConnState, hasReqID, hasAccounts,
                   apiReady, sock, dpc, msg, fresh, peerVars>>

\* ConnState under mu, then startApi, whose error is ignored.
StartApi ==
    /\ rpc = "greeted"
    /\ rpc' = "fetch"
    /\ ConnState' = "Connected"
    /\ started' = CanWrite
    /\ UNCHANGED <<connectVars, closedDone, hasVersion, hasReqID, hasAccounts,
                   apiReady, sock, dpc, msg, fresh, peer, heard>>

\* Until the API is ready every message with three fields or more is looked at:
\* the two of the handshake, and some of the others.
Snoop ==
    /\ rpc = "got"
    /\ ~IsGreeting
    /\ \/ rpc' = "dispatch" /\ (apiReady \/ msg \notin Handshake)
       \/ rpc' = "snoop" /\ ~apiReady /\ msg # "version"
    /\ IF apiReady
       THEN UNCHANGED <<hasReqID, hasAccounts>>
       ELSE /\ hasReqID' = (hasReqID \/ msg = "nextValidId")
            /\ hasAccounts' = (hasAccounts \/ msg = "managedAccounts")
    /\ UNCHANGED <<connectVars, closedDone, ConnState, hasVersion, apiReady, sock,
                   dpc, msg, fresh, peerVars>>

\* apiReady and OnReady.
SnoopReady ==
    /\ rpc = "snoop"
    /\ rpc' = "dispatch"
    /\ IF hasReqID /\ hasAccounts
       THEN apiReady' = TRUE /\ readyCh' = readyCh \cup {gen}
       ELSE UNCHANGED <<apiReady, readyCh>>
    /\ UNCHANGED <<cpc, gen, closedDone, ConnState, hasVersion, hasReqID,
                   hasAccounts, sock, dpc, msg, fresh, peerVars>>

\* OnDataArrived, at the start of a batch, and handleCurrentTime set LastTime;
\* other messages of a batch do not.
Dispatch ==
    /\ rpc = "dispatch"
    /\ rpc' = "fetch"
    /\ fresh' \in {fresh, TRUE}
    /\ UNCHANGED <<connectVars, closedDone, flagVars, sock, dpc, msg, peerVars>>

\* The deferred functions: closeDone, OnDisconnect, readWg.Done.  ConnState and
\* the socket are left as they are.
ReaderCloseDone ==
    /\ rpc = "exit"
    /\ rpc' = "leave"
    /\ closeDone
    /\ UNCHANGED <<connectVars, flagVars, sock, dpc, msg, fresh, peerVars>>

ReaderDown ==
    /\ rpc = "leave"
    /\ rpc' = "none"
    /\ UNCHANGED <<connectVars, closedDone, flagVars, sock, dpc, msg, fresh,
                   peerVars>>

ReaderStep ==
    \/ ReadMessage \/ ReadFails
    \/ VersionRefused \/ VersionAccepted \/ StartApi
    \/ Snoop \/ SnoopReady \/ Dispatch
    \/ ReaderCloseDone \/ ReaderDown

\* The peer stops answering without closing, or closes while what it has sent
\* is still on its way, or the stream has ended.
PeerBecomes(from, to) ==
    /\ peer \in from
    /\ peer' = to
    /\ UNCHANGED <<connectVars, closedDone, flagVars, sock, dpc, readerVars,
                   started, heard>>

PeerSilent == PeerBecomes({"up"}, "silent")
PeerCloses == PeerBecomes({"up", "silent"}, "closing")
StreamEnds == PeerBecomes({"closing"}, "gone")

IsConnected == ConnState = "Connected"
=============================================================================
