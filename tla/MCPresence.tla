---------------------------- MODULE MCPresence ---------------------------
(***************************************************************************)
(* Instances of Presence and Status for TLC. The two look at different     *)
(* fields of the heartbeat and share no state, so that one instance        *)
(* explores them one at a time: a component moves while the other is in    *)
(* its initial state, in which none of its fair actions is enabled.        *)
(***************************************************************************)
EXTENDS Presence, Status

HeartbeatVars == <<vars, statusVars>>

HeartbeatInit == Init /\ StatusInit

HeartbeatNext ==
  \/ StatusInit /\ Next /\ UNCHANGED statusVars
  \/ Init /\ StatusNext /\ UNCHANGED vars

HeartbeatSpec ==
  HeartbeatInit /\ [][HeartbeatNext]_HeartbeatVars /\ Fairness /\ StatusFairness
==========================================================================
