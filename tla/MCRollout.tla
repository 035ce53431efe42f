---------------------------- MODULE MCRollout ----------------------------
(* Instances of Rollout for TLC.                                           *)
EXTENDS Rollout

CONSTANTS a1, a2

MCTargetOf == [b \in Builds |-> "linux x86_64"]
MCHostOf == [a \in Agents |-> "linux x86_64"]
MCInitialOf == [a \in Agents |-> "old"]

\* The old build is too old to report its hash, and one host cannot read the new
\* one; the two have their own version strings.
MCVersionOf == [b \in Builds |-> IF b = "old" THEN 1 ELSE 2]
MCNoHash == Agents \X {"old"} \cup {<<a2, "new">>}
==========================================================================
