--------------------------- MODULE ReconnectUser ----------------------------
(***************************************************************************)
(* ConnectWithReconnect while another goroutine, for example a handler of  *)
(* the application, calls IB.Disconnect.                                   *)
(***************************************************************************)
EXTENDS Reconnect

UserDisconnect == Disconnect("user") /\ UNCHANGED loopVars
UserStep == DisconnectStep("user") /\ UNCHANGED loopVars

UserNext == Next \/ UserDisconnect \/ UserStep

UserSpec == Init /\ [][UserNext]_vars

UserFairSpec ==
    /\ UserSpec
    /\ WF_vars(LoopStep)
    /\ WF_vars(HeartbeatStep)
    /\ WF_vars(ReaderStep /\ UNCHANGED loopVars)
    /\ WF_vars(StreamEnds /\ UNCHANGED loopVars)
    /\ WF_vars(UserStep)

\* "ConnectWithReconnect connects to TWS/Gateway and automatically reconnects on
\* disconnection" (reconnect.go:32): a loop that has seen the connection end
\* dials again, unless it is cancelled or the bound on connections is reached.
Reconnects ==
    lpc = "delay" ~> cpc = "dial" \/ lpc = "returned" \/ gen = MaxConn
=============================================================================
