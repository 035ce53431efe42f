--------------------------- MODULE MCSelfUpdate --------------------------
(***************************************************************************)
(* Instances of SelfUpdate and AutoPublish for TLC. The two share no state *)
(* (what one publishes for one agent the other takes from its bucket), so  *)
(* that one instance explores them one at a time: a component moves while  *)
(* the other is in its initial state.                                      *)
(***************************************************************************)
EXTENDS SelfUpdate, AutoPublish, TLC

CONSTANTS a1, musl, gnu, arm

\* The target of the one agent, and the platforms: the two builds for Linux
\* have the same, the third has its own.
OneHost == a1 :> musl
LinuxPlatforms == musl :> gnu @@ gnu :> gnu @@ arm :> arm

UpdateVars == <<vars, autoPublishVars>>

ReleaseInit == Init /\ AutoPublishInit

ReleaseNext ==
  \/ AutoPublishInit /\ Next /\ UNCHANGED autoPublishVars
  \/ Init /\ AutoPublishNext /\ UNCHANGED vars

\* The update task's first look at its slot is enabled from the start; it is
\* owed only where AutoPublish stays out of it.
ReleaseFairness ==
  /\ WF_vars(AutoPublishInit /\ TaskStep) /\ WF_vars(AutoPublishInit /\ Boot)
  /\ AutoPublishFairness

ReleaseSpec == ReleaseInit /\ [][ReleaseNext]_UpdateVars /\ ReleaseFairness
==========================================================================
