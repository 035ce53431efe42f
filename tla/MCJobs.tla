------------------------------ MODULE MCJobs ------------------------------
(***************************************************************************)
(* Instances of what one agent process does with its machine, for TLC: the *)
(* job table, one exec, the file commands and the cleanup of local logs.   *)
(* The four share no state, so that one instance explores them one at a    *)
(* time: a component moves while the others are in their initial states,   *)
(* in which none of their fair actions is enabled.                         *)
(***************************************************************************)
EXTENDS Jobs, Exec, Files, Cleanup

\* A chain of three names, and a name beside it.
ChainAndOne == {<<"a">>, <<"a", "b">>, <<"a", "b", "c">>, <<"d">>}

AgentVars == <<vars, execVars, filesVars, cleanupVars>>

AgentInit == Init /\ ExecInit /\ FilesInit /\ CleanupInit

AgentNext ==
  \/ ExecInit /\ FilesInit /\ CleanupInit /\ Next
     /\ UNCHANGED <<execVars, filesVars, cleanupVars>>
  \/ Init /\ FilesInit /\ CleanupInit /\ ExecNext
     /\ UNCHANGED <<vars, filesVars, cleanupVars>>
  \/ Init /\ ExecInit /\ CleanupInit /\ FilesNext
     /\ UNCHANGED <<vars, execVars, cleanupVars>>
  \/ Init /\ ExecInit /\ FilesInit /\ CleanupNext
     /\ UNCHANGED <<vars, execVars, filesVars>>

AgentSpec ==
  /\ AgentInit /\ [][AgentNext]_AgentVars
  /\ Fairness /\ ExecFairness /\ CleanupFairness
==========================================================================
