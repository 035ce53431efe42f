------------------------- MODULE CommandDelivery -------------------------
(***************************************************************************)
(* What the relay promises of one command, without the bucket, the        *)
(* doorbell, the polling or the faults: the README's "delivery is          *)
(* at-most-once" together with what each answer of the controller means.   *)
(*                                                                         *)
(*  - a command runs at most once, and may never run;                      *)
(*  - an answer "ok" or "failed" is given only for a command that ran to   *)
(*    its end; "refused" only for one that has not run and never will;     *)
(*  - after "timeout" the command may be running or may have run, but it   *)
(*    does not begin any more;                                             *)
(*  - "unknown" (the call itself broke) promises nothing.                  *)
(***************************************************************************)
EXTENDS Naturals

CONSTANT Cmds

VARIABLES runs,     \* runs[c]: how often c was begun
          done,     \* the commands whose run has ended
          verdict   \* verdict[c]: what the caller was told, "none" before that

deliveryVars == <<runs, done, verdict>>

Verdicts == {"none", "ok", "failed", "refused", "timeout", "unknown"}

DeliveryTypeOK ==
  /\ runs \in [Cmds -> Nat]
  /\ done \in SUBSET Cmds
  /\ verdict \in [Cmds -> Verdicts]

DeliveryInit ==
  /\ runs = [c \in Cmds |-> 0]
  /\ done = {}
  /\ verdict = [c \in Cmds |-> "none"]

\* The agent starts the command.
Run(c) ==
  /\ runs[c] = 0
  /\ verdict[c] \in {"none", "unknown"}
  /\ runs' = [runs EXCEPT ![c] = 1]
  /\ UNCHANGED <<done, verdict>>

\* The run ends, whatever its result.
End(c) ==
  /\ runs[c] = 1
  /\ done' = done \cup {c}
  /\ UNCHANGED <<runs, verdict>>

\* A command that takes no time starts and ends in one step.
RunToEnd(c) ==
  /\ runs[c] = 0
  /\ verdict[c] \in {"none", "unknown"}
  /\ runs' = [runs EXCEPT ![c] = 1]
  /\ done' = done \cup {c}
  /\ UNCHANGED verdict

\* The caller is told v, once.
Report(c, v) ==
  /\ verdict[c] = "none"
  /\ v \in {"ok", "failed"} => c \in done
  /\ v = "refused" => runs[c] = 0
  /\ verdict' = [verdict EXCEPT ![c] = v]
  /\ UNCHANGED <<runs, done>>

DeliveryNext ==
  \E c \in Cmds :
    \/ Run(c)
    \/ End(c)
    \/ RunToEnd(c)
    \/ \E v \in Verdicts \ {"none"} : Report(c, v)

DeliverySpec == DeliveryInit /\ [][DeliveryNext]_deliveryVars
==========================================================================
