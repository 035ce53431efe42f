---------------------------- MODULE MCMailbox ----------------------------
(* Instances of Mailbox for TLC.                                           *)
EXTENDS Mailbox, TLC

\* Commands are interchangeable, and so are processes: nothing orders them.
Symmetry == Permutations(Cmds) \cup Permutations(Instances)
==========================================================================
