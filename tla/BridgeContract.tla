--------------------------- MODULE BridgeContract ---------------------------
(***************************************************************************)
(* What an MCPToolBridge promises its owner: between connect and           *)
(* disconnect it moves between degraded and ready as the server comes and  *)
(* goes, and once disconnect has returned it is closed until the next      *)
(* connect.  A ready bridge is never closed under its users: the session   *)
(* is given up first.                                                      *)
(***************************************************************************)
VARIABLE phase

Init == phase = "closed"

Connect == phase = "closed" /\ phase' = "degraded"
BecomeReady == phase = "degraded" /\ phase' = "ready"
LoseSession == phase = "ready" /\ phase' = "degraded"
Disconnected == phase = "degraded" /\ phase' = "closed"

Next == Connect \/ BecomeReady \/ LoseSession \/ Disconnected

Spec == Init /\ [][Next]_phase
=============================================================================
