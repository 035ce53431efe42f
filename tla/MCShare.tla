----------------------------- MODULE MCShare -----------------------------
(* Instances of Share for TLC.                                             *)
EXTENDS Share

\* The file of the first upload has two chunks, every other file one.
MCSize == [u \in Uploads |-> IF u = 1 THEN 2 ELSE 1]
==========================================================================
