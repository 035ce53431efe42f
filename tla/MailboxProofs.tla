---------------------------- MODULE MailboxProofs -----------------------------
(*****************************************************************************)
(* Proofs about Mailbox, for every set of commands and processes and every   *)
(* bound: type correctness, at-most-once delivery, that only the process a   *)
(* command names takes it, that no announced command is slept over, and that *)
(* the mailbox implements CommandDelivery while one process at a time holds  *)
(* the identity.                                                             *)
(*****************************************************************************)
EXTENDS Mailbox, TLAPS

\* The wait is a number of seconds; nothing else about it matters to the types.
LEMMA WaitNat == WaitSecs \in Nat
BY ConstantsAssumption DEF WaitSecs

\* Every variable keeps to its type. That a process past its fetch has a
\* command in hand (LoopInv) is what makes this hold.
LEMMA TypeStep ==
  ASSUME TypeOK, LoopInv, [Next]_vars
  PROVE  TypeOK'
<1> USE ConstantsAssumption
        DEF vars, s3Vars, callVars, loopVars, presenceVars, historyVars,
            TypeOK, Kinds, Answers, Waiting, Verdict, Live, LoopInv
<1>1. ASSUME NEW c \in Cmds, ControllerStep(c) PROVE TypeOK'
  <2>1. ASSUME NEW k \in SentKinds, NEW t \in Instances \cup {NoInstance},
               NEW o \in Readers, NewCommand(c, k, t, o)
        PROVE  TypeOK'
    BY <2>1 DEF NewCommand
  <2>2. CASE PutCommand(c)
    <3>1. bucket' \in SUBSET Cmds /\ call' = [call EXCEPT ![c] = call'[c]]
      BY <2>2 DEF PutCommand
    <3>2. faults' \in 0..MaxFaults /\ call'[c] \in {"ring", "unknown"}
      BY <2>2 DEF PutCommand, Fault
    <3>3. QED
      BY <2>2, <3>1, <3>2 DEF PutCommand
  <2>3. CASE RingDoorbell(c)
    BY <2>3, WaitNat DEF RingDoorbell, Fault
  <2>4. CASE TakeResponse(c)
    BY <2>4 DEF TakeResponse
  <2>5. CASE AwaitFails(c)
    BY <2>5 DEF AwaitFails, Fault
  <2>6. CASE AwaitExpires(c)
    BY <2>6 DEF AwaitExpires
  <2>7. CASE WithdrawCommand(c)
    BY <2>7 DEF WithdrawCommand, Fault, MaybeDeleted
  <2>8. CASE Abandon(c)
    BY <2>8 DEF Abandon
  <2> QED BY <1>1, <2>1, <2>2, <2>3, <2>4, <2>5, <2>6, <2>7, <2>8 DEF ControllerStep
<1>2. ASSUME NEW p \in Instances, LoopStep(p) PROVE TypeOK'
  <2>1. CASE ListCommands(p)
    BY <2>1 DEF ListCommands
  <2>2. ASSUME NEW c \in Cmds, FetchCommand(p, c) PROVE TypeOK'
    BY <2>2 DEF FetchCommand
  <2>3. ASSUME NEW c \in Cmds, SkipCommand(p, c) PROVE TypeOK'
    BY <2>3 DEF SkipCommand, Fault, MaybeDeleted
  <2>4. CASE ClaimCommand(p)
    BY <2>4 DEF ClaimCommand, WithoutObject
  <2>5. CASE DrainReturns(p)
    BY <2>5 DEF DrainReturns
  <2>6. ASSUME NEW c \in Cmds, RefuseCommand(p, c) PROVE TypeOK'
    BY <2>6 DEF RefuseCommand, TakeUp, IsNext
  <2>7. ASSUME NEW c \in Cmds, HandleStandDown(p, c) PROVE TypeOK'
    BY <2>7 DEF HandleStandDown, TakeUp, IsNext
  <2>8. ASSUME NEW c \in Cmds, BeginCommand(p, c) PROVE TypeOK'
    BY <2>8 DEF BeginCommand, TakeUp, IsNext, Valid, AgentClock
  <2>9. CASE EndCommand(p)
    BY <2>9 DEF EndCommand
  <2>10. CASE SendResponse(p)
    <3>1. resp' \in {resp, [resp EXCEPT ![current[p]] = answer[p]]} /\ pc[p] = "reply"
      BY <2>10 DEF SendResponse
    <3>2. resp' \in [Cmds -> Answers \cup {"none"}]
      BY <3>1
    <3>3. faults' \in 0..MaxFaults
      BY <2>10 DEF SendResponse, Fault
    <3>4. CASE UNCHANGED <<current, answer, pc>>
      BY <2>10, <3>2, <3>3, <3>4 DEF SendResponse
    <3>5. CASE /\ current' = [current EXCEPT ![p] = NoCmd]
               /\ answer' = [answer EXCEPT ![p] = "none"]
               /\ pc' = [pc EXCEPT ![p] = "handle"]
      BY <2>10, <3>2, <3>3, <3>5 DEF SendResponse
    <3> QED BY <2>10, <3>4, <3>5 DEF SendResponse
  <2>11. CASE Sleep(p)
    BY <2>11 DEF Sleep
  <2> QED BY <1>2, <2>1, <2>2, <2>3, <2>4, <2>5, <2>6, <2>7, <2>8, <2>9, <2>10, <2>11
          DEF LoopStep
<1>3. ASSUME NEW p \in Instances, AgentStep(p) PROVE TypeOK'
  <2>1. CASE Start(p)
    BY <2>1 DEF Start
  <2>2. CASE Crash(p)
    BY <2>2 DEF Crash, DropWork
  <2>3. CASE DoorbellTick(p)
    BY <2>3 DEF DoorbellTick
  <2>4. CASE ForcedTick(p)
    BY <2>4 DEF ForcedTick
  <2>5. CASE DoorbellTickFails(p)
    BY <2>5 DEF DoorbellTickFails, Fault
  <2>6. CASE DrainFails(p)
    BY <2>6 DEF DrainFails, Fault, MaybeDeleted, DropWork
  <2>7. CASE Observe(p)
    BY <2>7 DEF Observe
  <2> QED BY <1>2, <1>3, <2>1, <2>2, <2>3, <2>4, <2>5, <2>6, <2>7 DEF AgentStep
<1>4. CASE Tick
  BY <1>4 DEF Tick
<1>5. CASE UNCHANGED vars
  BY <1>5
<1> QED BY <1>1, <1>3, <1>4, <1>5 DEF Next

\* The locals of run_loop: what is in hand at each of its points, and that a
\* process only ever holds commands addressed to it or to nobody.
LEMMA LoopStepInv ==
  ASSUME DeliveryInv, [Next]_vars
  PROVE  LoopInv'
<1> USE ConstantsAssumption
        DEF DeliveryInv, vars, s3Vars, callVars, loopVars, presenceVars, historyVars,
            TypeOK, LoopInv, Addressed
<1>1. ASSUME NEW c \in Cmds, ControllerStep(c) PROVE LoopInv'
  <2>1. ASSUME NEW k \in SentKinds, NEW t \in Instances \cup {NoInstance},
               NEW o \in Readers, NewCommand(c, k, t, o)
        PROVE  LoopInv'
    BY <2>1 DEF NewCommand, PlaceInv
  <2>2. CASE PutCommand(c)
    BY <2>2 DEF PutCommand, Fault
  <2>3. CASE RingDoorbell(c)
    BY <2>3 DEF RingDoorbell, Fault
  <2>4. CASE TakeResponse(c)
    BY <2>4 DEF TakeResponse, Answers
  <2>5. CASE AwaitFails(c)
    BY <2>5 DEF AwaitFails, Fault
  <2>6. CASE AwaitExpires(c)
    BY <2>6 DEF AwaitExpires
  <2>7. CASE WithdrawCommand(c)
    BY <2>7 DEF WithdrawCommand, Fault, MaybeDeleted
  <2>8. CASE Abandon(c)
    BY <2>8 DEF Abandon
  <2> QED BY <1>1, <2>1, <2>2, <2>3, <2>4, <2>5, <2>6, <2>7, <2>8 DEF ControllerStep
<1>2. ASSUME NEW p \in Instances, LoopStep(p) PROVE LoopInv'
  <2>1. CASE ListCommands(p)
    BY <2>1 DEF ListCommands
  <2>2. ASSUME NEW c \in Cmds, FetchCommand(p, c) PROVE LoopInv'
    BY <2>2 DEF FetchCommand
  <2>3. ASSUME NEW c \in Cmds, SkipCommand(p, c) PROVE LoopInv'
    BY <2>3 DEF SkipCommand, Fault, MaybeDeleted
  <2>4. CASE ClaimCommand(p)
    BY <2>4 DEF ClaimCommand, WithoutObject
  <2>5. CASE DrainReturns(p)
    BY <2>5 DEF DrainReturns
  <2>6. ASSUME NEW c \in Cmds, RefuseCommand(p, c) PROVE LoopInv'
    BY <2>6 DEF RefuseCommand, TakeUp, IsNext
  <2>7. ASSUME NEW c \in Cmds, HandleStandDown(p, c) PROVE LoopInv'
    BY <2>7 DEF HandleStandDown, TakeUp, IsNext
  <2>8. ASSUME NEW c \in Cmds, BeginCommand(p, c) PROVE LoopInv'
    BY <2>8 DEF BeginCommand, TakeUp, IsNext, Valid, AgentClock
  <2>9. CASE EndCommand(p)
    BY <2>9 DEF EndCommand
  <2>10. CASE SendResponse(p)
    BY <2>10 DEF SendResponse, Fault
  <2>11. CASE Sleep(p)
    BY <2>11 DEF Sleep
  <2> QED BY <1>2, <2>1, <2>2, <2>3, <2>4, <2>5, <2>6, <2>7, <2>8, <2>9, <2>10, <2>11
          DEF LoopStep
<1>3. ASSUME NEW p \in Instances, AgentStep(p) PROVE LoopInv'
  <2>1. CASE Start(p)
    BY <2>1 DEF Start
  <2>2. CASE Crash(p)
    BY <2>2 DEF Crash, DropWork
  <2>3. CASE DoorbellTick(p)
    BY <2>3 DEF DoorbellTick
  <2>4. CASE ForcedTick(p)
    BY <2>4 DEF ForcedTick
  <2>5. CASE DoorbellTickFails(p)
    BY <2>5 DEF DoorbellTickFails, Fault
  <2>6. CASE DrainFails(p)
    BY <2>6 DEF DrainFails, Fault, MaybeDeleted, DropWork
  <2>7. CASE Observe(p)
    BY <2>7 DEF Observe
  <2> QED BY <1>2, <1>3, <2>1, <2>2, <2>3, <2>4, <2>5, <2>6, <2>7 DEF AgentStep
<1>4. CASE Tick
  BY <1>4 DEF Tick
<1>5. CASE UNCHANGED vars
  BY <1>5
<1> QED BY <1>1, <1>3, <1>4, <1>5 DEF Next

\* Without duplicates, at most one process is alive: only Start adds one.
LEMMA AloneStep ==
  ASSUME DeliveryInv, [Next]_vars
  PROVE  AloneInv'
<1> USE DEF DeliveryInv, TypeOK, AloneInv, Alive, Live,
            vars, s3Vars, callVars, loopVars, presenceVars, historyVars
<1>1. ASSUME UNCHANGED pc PROVE AloneInv'
  BY <1>1
<1>2. ASSUME NEW p \in Instances, LoopStep(p) PROVE AloneInv'
  <2>1. pc[p] \in Live /\ \E s \in {"dead"} \cup Live : pc' = [pc EXCEPT ![p] = s]
    BY <1>2 DEF LoopStep, ListCommands, FetchCommand, SkipCommand, ClaimCommand,
       DrainReturns, TakeUp, RefuseCommand, HandleStandDown, BeginCommand, EndCommand,
       SendResponse, Sleep
  <2> QED BY <2>1
<1>3. ASSUME NEW p \in Instances, AgentStep(p) PROVE AloneInv'
  <2>1. CASE Start(p)
    BY <2>1 DEF Start
  <2>2. CASE Crash(p) \/ DoorbellTick(p) \/ ForcedTick(p) \/ DoorbellTickFails(p) \/ DrainFails(p)
    BY <2>2 DEF Crash, DoorbellTick, ForcedTick, DoorbellTickFails, DrainFails
  <2>3. CASE Observe(p)
    BY <1>1, <2>3 DEF Observe
  <2> QED BY <1>2, <1>3, <2>1, <2>2, <2>3 DEF AgentStep
<1>4. ASSUME NEW c \in Cmds, ControllerStep(c) PROVE AloneInv'
  BY <1>1, <1>4 DEF ControllerStep, NewCommand, PutCommand, RingDoorbell, TakeResponse,
     AwaitFails, AwaitExpires, WithdrawCommand, Abandon
<1> QED BY <1>1, <1>3, <1>4 DEF Next, Tick


\* A call gives up only after the command's queue time has passed.
LEMMA TimeStep ==
  ASSUME DeliveryInv, [Next]_vars
  PROVE  TimeInv'
<1> USE ConstantsAssumption, WaitNat
    DEF DeliveryInv, TypeOK, TimeInv,
        vars, s3Vars, callVars, loopVars, presenceVars, historyVars
<1>1. ASSUME UNCHANGED <<callVars, now>> PROVE TimeInv'
  BY <1>1
<1>2. ASSUME NEW p \in Instances, AgentStep(p) PROVE TimeInv'
  BY <1>1, <1>2 DEF AgentStep, LoopStep, Start, Crash, DoorbellTick, ForcedTick,
     DoorbellTickFails, DrainFails, Observe, ListCommands, FetchCommand, SkipCommand,
     ClaimCommand, DrainReturns, TakeUp, RefuseCommand, HandleStandDown, BeginCommand,
     EndCommand, SendResponse, Sleep
<1>3. ASSUME NEW c \in Cmds, NEW k \in SentKinds, NEW t \in Instances \cup {NoInstance},
             NEW o \in Readers, NewCommand(c, k, t, o)
      PROVE  TimeInv'
  BY <1>3 DEF NewCommand
<1>4. ASSUME NEW c \in Cmds, RingDoorbell(c) PROVE TimeInv'
  BY <1>4 DEF RingDoorbell
<1>5. ASSUME NEW c \in Cmds, AwaitExpires(c) PROVE TimeInv'
  BY <1>5 DEF AwaitExpires
<1>6. ASSUME NEW c \in Cmds, NEW s \in {"ring", "timeout", "unknown"} \cup Answers,
             call' = [call EXCEPT ![c] = s], s = "timeout" => call[c] = "expired",
             UNCHANGED <<now, kind, target, created, deadline>>
      PROVE  TimeInv'
  BY <1>6 DEF Answers
<1>7. ASSUME NEW c \in Cmds, ControllerStep(c) PROVE TimeInv'
  BY <1>3, <1>4, <1>5, <1>6, <1>7
     DEF ControllerStep, PutCommand, TakeResponse, AwaitFails, WithdrawCommand, Abandon, Answers
<1>8. CASE Tick
  BY <1>8 DEF Tick
<1> QED BY <1>1, <1>2, <1>7, <1>8 DEF Next

\* A response that is taken ends its call, and is no state of one that begins.
LEMMA TakenResponse ==
  ASSUME TypeOK, NEW c \in Cmds, TakeResponse(c)
  PROVE  /\ call' = [call EXCEPT ![c] = resp[c]] /\ resp[c] \notin {"new", "put"}
         /\ \A d \in Cmds : resp'[d] \in {resp[d], "none"}
<1>1. resp \in [Cmds -> {"ok", "failed", "refused", "none"}]
  BY DEF TypeOK, Answers
<1>2. call' = [call EXCEPT ![c] = resp[c]] /\ resp' = [resp EXCEPT ![c] = "none"]
  BY DEF TakeResponse
<1>3. resp[c] \notin {"new", "put"}
  BY <1>1
<1>4. \A d \in Cmds : resp'[d] \in {resp[d], "none"}
  BY <1>1, <1>2
<1> QED BY <1>2, <1>3, <1>4

\* Where a command and its copies can be.
LEMMA PlaceStep ==
  ASSUME DeliveryInv, [Next]_vars
  PROVE  PlaceInv'
<1> USE ConstantsAssumption
        DEF DeliveryInv, vars, s3Vars, callVars, loopVars, presenceVars, historyVars,
            TypeOK, LoopInv, AloneInv, PlaceInv, Spent, OneConsumer, Addressed, Alive, Live
<1>1. ASSUME NEW c \in Cmds, ControllerStep(c) PROVE PlaceInv'
  <2>1. ASSUME NEW k \in SentKinds, NEW t \in Instances \cup {NoInstance},
               NEW o \in Readers, NewCommand(c, k, t, o)
        PROVE  PlaceInv'
    BY <2>1 DEF NewCommand
  <2>2. CASE PutCommand(c)
    BY <2>2 DEF PutCommand, Fault
  <2>3. CASE RingDoorbell(c)
    BY <2>3 DEF RingDoorbell, Fault
  <2>4. CASE TakeResponse(c)
    <3>1. /\ call' = [call EXCEPT ![c] = resp[c]] /\ resp[c] \notin {"new", "put"}
          /\ \A d \in Cmds : resp'[d] \in {resp[d], "none"}
      BY <2>4, TakenResponse
    <3>2. \A d \in Cmds : call'[d] \in {"new", "put"} => call[d] \in {"new", "put"}
      BY <3>1
    <3>3. UNCHANGED <<bucket, target, runs, done, keys, batch, current>>
      BY <2>4 DEF TakeResponse
    <3>4. QED
      BY <3>1, <3>2, <3>3
  <2>5. CASE AwaitFails(c)
    BY <2>5 DEF AwaitFails, Fault
  <2>6. CASE AwaitExpires(c)
    BY <2>6 DEF AwaitExpires
  <2>7. CASE WithdrawCommand(c)
    BY <2>7 DEF WithdrawCommand, Fault, MaybeDeleted
  <2>8. CASE Abandon(c)
    BY <2>8 DEF Abandon
  <2> QED BY <1>1, <2>1, <2>2, <2>3, <2>4, <2>5, <2>6, <2>7, <2>8 DEF ControllerStep
<1>2. ASSUME NEW p \in Instances, LoopStep(p) PROVE PlaceInv'
  <2>1. CASE ListCommands(p)
    BY <2>1 DEF ListCommands
  <2>2. ASSUME NEW c \in Cmds, FetchCommand(p, c) PROVE PlaceInv'
    BY <2>2 DEF FetchCommand
  <2>3. ASSUME NEW c \in Cmds, SkipCommand(p, c) PROVE PlaceInv'
    BY <2>3 DEF SkipCommand, Fault, MaybeDeleted
  <2>4. CASE ClaimCommand(p)
    BY <2>4 DEF ClaimCommand, WithoutObject
  <2>5. CASE DrainReturns(p)
    BY <2>5 DEF DrainReturns
  <2>6. ASSUME NEW c \in Cmds, RefuseCommand(p, c) PROVE PlaceInv'
    BY <2>6 DEF RefuseCommand, TakeUp, IsNext
  <2>7. ASSUME NEW c \in Cmds, HandleStandDown(p, c) PROVE PlaceInv'
    BY <2>7 DEF HandleStandDown, TakeUp, IsNext
  <2>8. ASSUME NEW c \in Cmds, BeginCommand(p, c) PROVE PlaceInv'
    BY <2>8 DEF BeginCommand, TakeUp, IsNext, Valid, AgentClock
  <2>9. CASE EndCommand(p)
    BY <2>9 DEF EndCommand
  <2>10. CASE SendResponse(p)
    BY <2>10 DEF SendResponse, Fault
  <2>11. CASE Sleep(p)
    BY <2>11 DEF Sleep
  <2> QED BY <1>2, <2>1, <2>2, <2>3, <2>4, <2>5, <2>6, <2>7, <2>8, <2>9, <2>10, <2>11
          DEF LoopStep
<1>3. ASSUME NEW p \in Instances, AgentStep(p) PROVE PlaceInv'
  <2>1. CASE Start(p)
    BY <2>1 DEF Start
  <2>2. CASE Crash(p)
    BY <2>2 DEF Crash, DropWork
  <2>3. CASE DoorbellTick(p)
    BY <2>3 DEF DoorbellTick
  <2>4. CASE ForcedTick(p)
    BY <2>4 DEF ForcedTick
  <2>5. CASE DoorbellTickFails(p)
    BY <2>5 DEF DoorbellTickFails, Fault
  <2>6. CASE DrainFails(p)
    BY <2>6 DEF DrainFails, Fault, MaybeDeleted, DropWork
  <2>7. CASE Observe(p)
    BY <2>7 DEF Observe
  <2> QED BY <1>2, <1>3, <2>1, <2>2, <2>3, <2>4, <2>5, <2>6, <2>7 DEF AgentStep
<1>4. CASE Tick
  BY <1>4 DEF Tick
<1>5. CASE UNCHANGED vars
  BY <1>5
<1> QED BY <1>1, <1>3, <1>4, <1>5 DEF Next

\* Answers on their way, in the bucket and given to the caller are justified.
LEMMA AnswerStep ==
  ASSUME DeliveryInv, [Next]_vars
  PROVE  AnswerInv'
<1> USE ConstantsAssumption
        DEF DeliveryInv, vars, s3Vars, callVars, loopVars, presenceVars, historyVars,
            TypeOK, LoopInv, AloneInv, PlaceInv, AnswerInv, Justified, Spent, OneConsumer, Addressed, Alive, Live
<1>1. ASSUME NEW c \in Cmds, ControllerStep(c) PROVE AnswerInv'
  <2>1. ASSUME NEW k \in SentKinds, NEW t \in Instances \cup {NoInstance},
               NEW o \in Readers, NewCommand(c, k, t, o)
        PROVE  AnswerInv'
    BY <2>1 DEF NewCommand
  <2>2. CASE PutCommand(c)
    BY <2>2 DEF PutCommand, Fault
  <2>3. CASE RingDoorbell(c)
    BY <2>3 DEF RingDoorbell, Fault
  <2>4. CASE TakeResponse(c)
    BY <2>4 DEF TakeResponse, Answers
  <2>5. CASE AwaitFails(c)
    BY <2>5 DEF AwaitFails, Fault
  <2>6. CASE AwaitExpires(c)
    BY <2>6 DEF AwaitExpires
  <2>7. CASE WithdrawCommand(c)
    BY <2>7 DEF WithdrawCommand, Fault, MaybeDeleted
  <2>8. CASE Abandon(c)
    BY <2>8 DEF Abandon
  <2> QED BY <1>1, <2>1, <2>2, <2>3, <2>4, <2>5, <2>6, <2>7, <2>8 DEF ControllerStep
<1>2. ASSUME NEW p \in Instances, LoopStep(p) PROVE AnswerInv'
  <2>1. CASE ListCommands(p)
    BY <2>1 DEF ListCommands
  <2>2. ASSUME NEW c \in Cmds, FetchCommand(p, c) PROVE AnswerInv'
    BY <2>2 DEF FetchCommand
  <2>3. ASSUME NEW c \in Cmds, SkipCommand(p, c) PROVE AnswerInv'
    BY <2>3 DEF SkipCommand, Fault, MaybeDeleted
  <2>4. CASE ClaimCommand(p)
    BY <2>4 DEF ClaimCommand, WithoutObject
  <2>5. CASE DrainReturns(p)
    BY <2>5 DEF DrainReturns
  <2>6. ASSUME NEW c \in Cmds, RefuseCommand(p, c) PROVE AnswerInv'
    BY <2>6 DEF RefuseCommand, TakeUp, IsNext
  <2>7. ASSUME NEW c \in Cmds, HandleStandDown(p, c) PROVE AnswerInv'
    <3>1. c \in batch[p] /\ Addressed(p, c) /\ pc[p] = "handle"
      BY <2>7 DEF HandleStandDown, TakeUp, IsNext
    <3>2. OneConsumer(c) => runs[c] = 0 /\ c \notin bucket /\ runs'[c] = 1
      BY <2>7, <3>1 DEF HandleStandDown, TakeUp
    <3>3. OneConsumer(c) => Spent(c)'
      <4>1. /\ batch' = [batch EXCEPT ![p] = @ \ {c}]
            /\ UNCHANGED <<bucket, keys, target>>
        BY <2>7 DEF HandleStandDown, TakeUp
      <4>2. ASSUME OneConsumer(c), NEW q \in Instances, q # p
            PROVE  c \notin batch[q] /\ (Addressed(q, c) => c \notin keys[q])
        BY <3>1, <4>2
      <4>3. OneConsumer(c) => c \notin keys[p]
        BY <3>1
      <4>4. QED
        BY <3>2, <4>1, <4>2, <4>3
    <3>4. \A d \in Cmds \ {c} :
            (d \in done' <=> d \in done) /\ runs'[d] = runs[d] /\ (Spent(d) => Spent(d)')
      BY <2>7 DEF HandleStandDown, TakeUp
    <3>5. /\ UNCHANGED <<resp, call, target>>
          /\ answer' = [answer EXCEPT ![p] = "ok"] /\ current' = [current EXCEPT ![p] = c]
          /\ pc' = [pc EXCEPT ![p] = "reply"] /\ c \in done'
      BY <2>7 DEF HandleStandDown, TakeUp
    <3>6. \A d \in Cmds \ {c} : \A a : Justified(d, a) => Justified(d, a)'
      BY <3>4
    <3>7. OneConsumer(c) => Justified(c, resp[c])' /\ Justified(c, call[c])'
      BY <3>1, <3>2, <3>5
    <3> QED BY <3>1, <3>2, <3>3, <3>4, <3>5, <3>6, <3>7
  <2>8. ASSUME NEW c \in Cmds, BeginCommand(p, c) PROVE AnswerInv'
    BY <2>8 DEF BeginCommand, TakeUp, IsNext, Valid, AgentClock
  <2>9. CASE EndCommand(p)
    BY <2>9 DEF EndCommand
  <2>10. CASE SendResponse(p)
    <3>1. resp' \in {resp, [resp EXCEPT ![current[p]] = answer[p]]} /\ pc[p] = "reply"
      BY <2>10 DEF SendResponse
    <3>2. \A c \in Cmds : Spent(c)' <=> Spent(c)
      BY <2>10 DEF SendResponse
    <3>3. \A c \in Cmds : OneConsumer(c) => Justified(c, resp'[c])
      BY <3>1
    <3>4. CASE UNCHANGED <<current, answer, pc>>
      BY <2>10, <3>2, <3>3, <3>4 DEF SendResponse
    <3>5. CASE /\ current' = [current EXCEPT ![p] = NoCmd]
               /\ answer' = [answer EXCEPT ![p] = "none"]
               /\ pc' = [pc EXCEPT ![p] = "handle"]
      BY <2>10, <3>2, <3>3, <3>5 DEF SendResponse
    <3> QED BY <2>10, <3>4, <3>5 DEF SendResponse
  <2>11. CASE Sleep(p)
    BY <2>11 DEF Sleep
  <2> QED BY <1>2, <2>1, <2>2, <2>3, <2>4, <2>5, <2>6, <2>7, <2>8, <2>9, <2>10, <2>11
          DEF LoopStep
<1>3. ASSUME NEW p \in Instances, AgentStep(p) PROVE AnswerInv'
  <2>1. CASE Start(p)
    BY <2>1 DEF Start
  <2>2. CASE Crash(p)
    BY <2>2 DEF Crash, DropWork
  <2>3. CASE DoorbellTick(p)
    BY <2>3 DEF DoorbellTick
  <2>4. CASE ForcedTick(p)
    BY <2>4 DEF ForcedTick
  <2>5. CASE DoorbellTickFails(p)
    BY <2>5 DEF DoorbellTickFails, Fault
  <2>6. CASE DrainFails(p)
    BY <2>6 DEF DrainFails, Fault, MaybeDeleted, DropWork
  <2>7. CASE Observe(p)
    BY <2>7 DEF Observe
  <2> QED BY <1>2, <1>3, <2>1, <2>2, <2>3, <2>4, <2>5, <2>6, <2>7 DEF AgentStep
<1>4. CASE Tick
  BY <1>4 DEF Tick
<1>5. CASE UNCHANGED vars
  BY <1>5
<1> QED BY <1>1, <1>3, <1>4, <1>5 DEF Next

\* The inductive invariant holds in every reachable state.
LEMMA DeliveryInvariant == Spec => []DeliveryInv
<1>1. Init => DeliveryInv
  BY ConstantsAssumption
     DEF Init, DeliveryInv, TypeOK, LoopInv, AloneInv, PlaceInv, AnswerInv, TimeInv, Justified,
         Alive, Kinds, Answers, Waiting, Verdict, Live
<1>2. DeliveryInv /\ [Next]_vars => DeliveryInv'
  BY TypeStep, LoopStepInv, AloneStep, PlaceStep, AnswerStep, TimeStep DEF DeliveryInv
<1> QED BY <1>1, <1>2, PTL DEF Spec

\* The mailbox is type-correct in every reachable state.
THEOREM TypeCorrect == Spec => []TypeOK
<1>1. DeliveryInv => TypeOK
  BY DEF DeliveryInv
<1> QED BY <1>1, DeliveryInvariant, PTL

\* At-most-once delivery: no command runs twice, however requests fail, the
\* process dies and restarts, or the controller withdraws the command - with
\* one process under the identity, or for a command addressed to one process.
THEOREM AtMostOnceDelivery == Spec => []AtMostOnce
<1>1. DeliveryInv => AtMostOnce
  BY DEF DeliveryInv, PlaceInv, AtMostOnce
<1> QED BY <1>1, DeliveryInvariant, PTL

\* After relay_with gave up on a command, the agent no longer begins it.
THEOREM NoLateBegin == Spec => NoBeginAfterTimeout
<1>1. ASSUME DeliveryInv, [Next]_vars,
             NEW c \in Cmds, call[c] \in {"expired", "timeout"}, kind[c] # "stand_down"
      PROVE  runs'[c] = runs[c]
  <2>1. ~Valid(c)
    BY <1>1, WaitAssumption, WaitNat, ConstantsAssumption
       DEF DeliveryInv, TypeOK, TimeInv, Valid, AgentClock
  <2>2. ASSUME NEW p \in Instances, AgentStep(p) PROVE runs'[c] = runs[c]
    BY <1>1, <2>1, <2>2
       DEF AgentStep, LoopStep, Start, Crash, DoorbellTick, ForcedTick, DoorbellTickFails,
           DrainFails, Observe, ListCommands, FetchCommand, SkipCommand, ClaimCommand,
           DrainReturns, RefuseCommand, HandleStandDown, BeginCommand, EndCommand,
           SendResponse, Sleep, historyVars, DeliveryInv, TypeOK
  <2> QED BY <1>1, <2>2
          DEF Next, Tick, ControllerStep, NewCommand, PutCommand, RingDoorbell, TakeResponse,
              AwaitFails, AwaitExpires, WithdrawCommand, Abandon, vars, historyVars
<1>2. DeliveryInv /\ [Next]_vars =>
        [\A c \in Cmds : call[c] \in {"expired", "timeout"} /\ kind[c] # "stand_down"
                         => runs'[c] = runs[c]]_vars
  BY <1>1
<1> QED BY <1>2, DeliveryInvariant, PTL DEF Spec, NoBeginAfterTimeout

\* A command that names a process leaves the bucket by the claim of that
\* process, or because a process that cannot open it discards it: no process
\* that can read the address takes it from another, and no caller withdraws
\* it, also with duplicate processes.
THEOREM AddressedIsLeftAlone == Spec => OnlyTargetConsumes
<1> DEFINE Gone(c) == \/ pc[target[c]] = "claim" /\ current[target[c]] = c
                      \/ \E p \in Instances : Discards(p, c)
<1>1. ASSUME DeliveryInv, [Next]_vars, NEW c \in bucket \ bucket', target[c] # NoInstance
      PROVE  Gone(c)
  <2>1. /\ c \in Cmds /\ TimeInv /\ LoopInv /\ target[c] \in Instances
        /\ call[c] # "expired"
    BY <1>1 DEF DeliveryInv, TypeOK, TimeInv
  <2>2. ASSUME NEW d \in Cmds, ControllerStep(d) PROVE FALSE
    BY <1>1, <2>1, <2>2
       DEF ControllerStep, NewCommand, PutCommand, RingDoorbell, TakeResponse, AwaitFails,
           AwaitExpires, WithdrawCommand, MaybeDeleted, Abandon, s3Vars
  <2>3. ASSUME NEW p \in Instances, NEW d \in Cmds, SkipCommand(p, d) PROVE Discards(p, c)
    <3>1. d = c /\ p \notin opens[c] /\ c \in keys[p] /\ keys' = [keys EXCEPT ![p] = @ \ {c}]
      BY <1>1, <2>3 DEF SkipCommand, MaybeDeleted
    <3>2. keys'[p] = keys[p] \ {c}
      BY <1>1, <3>1 DEF DeliveryInv, TypeOK
    <3>3. QED
      BY <3>1, <3>2 DEF Discards
  <2>4. ASSUME NEW p \in Instances, ClaimCommand(p) \/ DrainFails(p)
        PROVE  pc[target[c]] = "claim" /\ current[target[c]] = c
    <3>1. pc[p] = "claim" /\ current[p] = c
      BY <1>1, <2>4 DEF ClaimCommand, WithoutObject, DrainFails, MaybeDeleted
    <3>2. Addressed(p, c)
      BY <2>1, <3>1 DEF LoopInv
    <3>3. QED
      BY <1>1, <3>1, <3>2 DEF Addressed
  <2>5. ASSUME NEW p \in Instances, AgentStep(p)
        PROVE  \/ ClaimCommand(p) \/ DrainFails(p)
               \/ \E d \in Cmds : SkipCommand(p, d)
    BY <1>1, <2>5
       DEF AgentStep, LoopStep, Start, Crash, DoorbellTick, ForcedTick, DoorbellTickFails,
           Observe, ListCommands, FetchCommand, DrainReturns, TakeUp, RefuseCommand,
           HandleStandDown, BeginCommand, EndCommand, SendResponse, Sleep, s3Vars
  <2>6. QED
    BY <1>1, <2>2, <2>3, <2>4, <2>5 DEF Next, Tick, vars, s3Vars
<1>2. DeliveryInv /\ [Next]_vars =>
        [\A c \in bucket \ bucket' : target[c] # NoInstance => Gone(c)]_vars
  BY <1>1
<1>3. QED
  BY <1>2, DeliveryInvariant, PTL DEF Spec, OnlyTargetConsumes

\* What a process knows of the doorbell against what the bucket holds.
LEMMA WakeStep ==
  ASSUME DeliveryInv, WakeInv, [Next]_vars
  PROVE  WakeInv'
<1> USE ConstantsAssumption
        DEF DeliveryInv, vars, s3Vars, callVars, loopVars, presenceVars, historyVars,
            TypeOK, LoopInv, WakeInv, Announced, Addressed
<1>1. ASSUME NEW c \in Cmds, ControllerStep(c) PROVE WakeInv'
  <2>1. ASSUME NEW k \in SentKinds, NEW t \in Instances \cup {NoInstance},
               NEW o \in Readers, NewCommand(c, k, t, o)
        PROVE  WakeInv'
    BY <2>1 DEF NewCommand, PlaceInv
  <2>2. CASE PutCommand(c)
    BY <2>2 DEF PutCommand, PlaceInv
  <2>3. CASE RingDoorbell(c)
    BY <2>3 DEF RingDoorbell, Fault
  <2>4. CASE TakeResponse(c)
    BY <2>4 DEF TakeResponse, Answers
  <2>5. CASE AwaitFails(c)
    BY <2>5 DEF AwaitFails, Fault
  <2>6. CASE AwaitExpires(c)
    BY <2>6 DEF AwaitExpires
  <2>7. CASE WithdrawCommand(c)
    BY <2>7 DEF WithdrawCommand, Fault, MaybeDeleted
  <2>8. CASE Abandon(c)
    BY <2>8 DEF Abandon
  <2> QED BY <1>1, <2>1, <2>2, <2>3, <2>4, <2>5, <2>6, <2>7, <2>8 DEF ControllerStep
<1>2. ASSUME NEW p \in Instances, LoopStep(p) PROVE WakeInv'
  <2>1. CASE ListCommands(p)
    BY <2>1 DEF ListCommands
  <2>2. ASSUME NEW c \in Cmds, FetchCommand(p, c) PROVE WakeInv'
    BY <2>2 DEF FetchCommand
  <2>3. ASSUME NEW c \in Cmds, SkipCommand(p, c) PROVE WakeInv'
    BY <2>3 DEF SkipCommand, Fault, MaybeDeleted
  <2>4. CASE ClaimCommand(p)
    BY <2>4 DEF ClaimCommand, WithoutObject
  <2>5. CASE DrainReturns(p)
    BY <2>5 DEF DrainReturns
  <2>6. ASSUME NEW c \in Cmds, RefuseCommand(p, c) PROVE WakeInv'
    BY <2>6 DEF RefuseCommand, TakeUp, IsNext
  <2>7. ASSUME NEW c \in Cmds, HandleStandDown(p, c) PROVE WakeInv'
    BY <2>7 DEF HandleStandDown, TakeUp, IsNext
  <2>8. ASSUME NEW c \in Cmds, BeginCommand(p, c) PROVE WakeInv'
    BY <2>8 DEF BeginCommand, TakeUp, IsNext, Valid, AgentClock
  <2>9. CASE EndCommand(p)
    BY <2>9 DEF EndCommand
  <2>10. CASE SendResponse(p)
    BY <2>10 DEF SendResponse, Fault
  <2>11. CASE Sleep(p)
    BY <2>11 DEF Sleep
  <2> QED BY <1>2, <2>1, <2>2, <2>3, <2>4, <2>5, <2>6, <2>7, <2>8, <2>9, <2>10, <2>11
          DEF LoopStep
<1>3. ASSUME NEW p \in Instances, AgentStep(p) PROVE WakeInv'
  <2>1. CASE Start(p)
    BY <2>1 DEF Start
  <2>2. CASE Crash(p)
    BY <2>2 DEF Crash, DropWork
  <2>3. CASE DoorbellTick(p)
    BY <2>3 DEF DoorbellTick
  <2>4. CASE ForcedTick(p)
    BY <2>4 DEF ForcedTick
  <2>5. CASE DoorbellTickFails(p)
    BY <2>5 DEF DoorbellTickFails, Fault
  <2>6. CASE DrainFails(p)
    BY <2>6 DEF DrainFails, Fault, MaybeDeleted, DropWork
  <2>7. CASE Observe(p)
    BY <2>7 DEF Observe
  <2> QED BY <1>2, <1>3, <2>1, <2>2, <2>3, <2>4, <2>5, <2>6, <2>7 DEF AgentStep
<1>4. CASE Tick
  BY <1>4 DEF Tick
<1>5. CASE UNCHANGED vars
  BY <1>5
<1> QED BY <1>1, <1>3, <1>4, <1>5 DEF Next

\* A process never sleeps over a command the current doorbell announced,
\* except after a scan that broke off.
THEOREM NoWakeupIsLost == Spec => []NoLostWakeup
<1>1. Init => WakeInv
  BY DEF Init, WakeInv, Announced
<1>2. WakeInv => NoLostWakeup
  BY DEF WakeInv, NoLostWakeup
<1>3. DeliveryInv /\ WakeInv /\ [Next]_vars => WakeInv'
  BY WakeStep
<1> QED BY <1>1, <1>2, <1>3, DeliveryInvariant, PTL DEF Spec

\* The initial states of the mailbox are initial states of CommandDelivery.
LEMMA RefineInit == Init => Delivery!DeliveryInit
BY DEF Init, Delivery!DeliveryInit, Told, Waiting

\* A step that changes one verdict from "none", for a reason the abstract
\* specification accepts, is a Report.
LEMMA ReportStep ==
  ASSUME NEW c \in Cmds, NEW v \in Verdict,
         Told(c) = "none",
         v \in {"ok", "failed"} => c \in done,
         v = "refused" => runs[c] = 0,
         Told(c)' = v,
         \A d \in Cmds \ {c} : Told(d)' = Told(d),
         UNCHANGED <<runs, done>>
  PROVE  Delivery!DeliveryNext
<1>1. v \in Delivery!Verdicts \ {"none"}
  BY DEF Delivery!Verdicts, Verdict, Answers
<1>2. Delivery!Report(c, v)
  BY DEF Delivery!Report
<1> QED BY <1>1, <1>2 DEF Delivery!DeliveryNext

\* A step that touches neither runs nor verdicts is a stutter.
LEMMA QuietStep ==
  ASSUME UNCHANGED <<runs, done>>, \A d \in Cmds : Told(d)' = Told(d)
  PROVE  UNCHANGED Delivery!deliveryVars
BY DEF Delivery!deliveryVars

\* A command about to begin has not run, and its caller has not been told
\* anything that a run would make untrue.
LEMMA RunnableNow ==
  ASSUME DeliveryInv, ~AllowDuplicates, NEW p \in Instances, NEW c \in batch[p],
         kind[c] = "stand_down" \/ Valid(c)
  PROVE  c \in Cmds /\ runs[c] = 0 /\ Told(c) \in {"none", "unknown"}
<1>1. c \in Cmds
  BY DEF DeliveryInv, TypeOK
<1>2. runs[c] = 0
  BY <1>1 DEF DeliveryInv, PlaceInv, OneConsumer, Spent
<1>3. call[c] \notin Answers
  BY <1>1, <1>2 DEF DeliveryInv, AnswerInv, Justified, OneConsumer, Spent, Answers
<1>4. call[c] = "timeout" => target[c] # NoInstance
  <2> SUFFICES ASSUME call[c] = "timeout", target[c] = NoInstance PROVE FALSE
    OBVIOUS
  <2>1. now >= created[c] + WaitSecs /\ Valid(c)
    BY <1>1 DEF DeliveryInv, TimeInv
  <2> QED BY <1>1, <2>1, WaitAssumption, WaitNat, ConstantsAssumption
          DEF Valid, AgentClock, DeliveryInv, TypeOK
<1> QED BY <1>1, <1>2, <1>3, <1>4 DEF Told, DeliveryInv, TypeOK, Verdict, Answers, Waiting

\* Every step of the mailbox is a step of CommandDelivery or a stutter.
LEMMA RefineStep ==
  ASSUME DeliveryInv, ~AllowDuplicates, [Next]_vars
  PROVE  [Delivery!DeliveryNext]_(Delivery!deliveryVars)
<1> USE DEF vars, s3Vars, callVars, loopVars, presenceVars, historyVars
<1> DEFINE Goal == [Delivery!DeliveryNext]_(Delivery!deliveryVars)
<1>1. ASSUME UNCHANGED <<runs, done, call, target>> PROVE Goal
  <2>1. \A d \in Cmds : Told(d)' = Told(d)
    BY <1>1 DEF Told
  <2> QED BY <1>1, <2>1, QuietStep
<1>2. ASSUME NEW c \in Cmds, ControllerStep(c) PROVE Goal
  <2> USE DEF Told, Waiting
  <2>1. ASSUME NEW k \in SentKinds, NEW t \in Instances \cup {NoInstance},
               NEW o \in Readers, NewCommand(c, k, t, o)
        PROVE  Goal
    <3>1. \A d \in Cmds : Told(d)' = Told(d)
      BY <2>1 DEF NewCommand, DeliveryInv, TypeOK
    <3> QED BY <2>1, <3>1, QuietStep DEF NewCommand
  <2>2. ASSUME call[c] \in Waiting, call' = [call EXCEPT ![c] = "unknown"],
               UNCHANGED <<runs, done, target>>
        PROVE  Goal
    <3>1. /\ Told(c) = "none" /\ Told(c)' = "unknown"
          /\ \A d \in Cmds \ {c} : Told(d)' = Told(d)
      BY <2>2 DEF DeliveryInv, TypeOK
    <3> QED BY <2>2, <3>1, ReportStep DEF Verdict
  <2>3. ASSUME call[c] \in Waiting, NEW w \in Waiting, call' = [call EXCEPT ![c] = w],
               UNCHANGED <<runs, done, target>>
        PROVE  Goal
    <3>1. \A d \in Cmds : Told(d)' = Told(d)
      BY <2>3 DEF DeliveryInv, TypeOK
    <3> QED BY <2>3, <3>1, QuietStep
  <2>4. CASE PutCommand(c)
    BY <2>2, <2>3, <2>4 DEF PutCommand
  <2>5. CASE RingDoorbell(c)
    BY <2>3, <2>5 DEF RingDoorbell
  <2>6. CASE TakeResponse(c)
    <3>1. resp[c] \in Answers
      BY <2>6 DEF TakeResponse, DeliveryInv, TypeOK
    <3>2. /\ Told(c) = "none" /\ Told(c)' = resp[c]
          /\ \A d \in Cmds \ {c} : Told(d)' = Told(d)
      BY <2>6, <3>1 DEF TakeResponse, DeliveryInv, TypeOK, Answers
    <3>3. Justified(c, resp[c])
      BY DEF DeliveryInv, AnswerInv, OneConsumer
    <3> QED BY <2>6, <3>1, <3>2, <3>3, ReportStep DEF TakeResponse, Justified, Verdict
  <2>7. CASE AwaitFails(c)
    BY <2>2, <2>7 DEF AwaitFails
  <2>8. CASE AwaitExpires(c)
    <3>1. CASE target[c] = NoInstance
      BY <2>3, <2>8, <3>1 DEF AwaitExpires
    <3>2. CASE target[c] # NoInstance
      <4>1. /\ Told(c) = "none" /\ Told(c)' = "unknown"
            /\ \A d \in Cmds \ {c} : Told(d)' = Told(d)
        BY <2>8, <3>2 DEF AwaitExpires, DeliveryInv, TypeOK
      <4> QED BY <2>8, <4>1, ReportStep DEF AwaitExpires, Verdict
    <3> QED BY <3>1, <3>2
  <2>9. CASE WithdrawCommand(c)
    <3>1. /\ Told(c) = "none" /\ Told(c)' = "timeout"
          /\ \A d \in Cmds \ {c} : Told(d)' = Told(d)
      BY <2>9 DEF WithdrawCommand, DeliveryInv, TypeOK, TimeInv
    <3> QED BY <2>9, <3>1, ReportStep DEF WithdrawCommand, Verdict
  <2>10. CASE Abandon(c)
    BY <2>2, <2>10 DEF Abandon
  <2> QED BY <1>2, <2>1, <2>4, <2>5, <2>6, <2>7, <2>8, <2>9, <2>10 DEF ControllerStep
<1>3. ASSUME NEW p \in Instances, LoopStep(p) PROVE Goal
  <2>1. ASSUME NEW c \in Cmds, HandleStandDown(p, c) PROVE Goal
    <3>1. runs[c] = 0 /\ Told(c) \in {"none", "unknown"}
      BY <2>1, RunnableNow DEF HandleStandDown, TakeUp, IsNext
    <3>2. \A d \in Cmds : Told(d)' = Told(d)
      BY <2>1 DEF HandleStandDown, TakeUp, Told
    <3>3. runs' = [runs EXCEPT ![c] = 1]
      BY <2>1, <3>1 DEF HandleStandDown, DeliveryInv, TypeOK
    <3>4. Delivery!RunToEnd(c)
      BY <2>1, <3>1, <3>2, <3>3 DEF HandleStandDown, Delivery!RunToEnd
    <3> QED BY <3>4 DEF Delivery!DeliveryNext
  <2>2. ASSUME NEW c \in Cmds, BeginCommand(p, c) PROVE Goal
    <3>1. runs[c] = 0 /\ Told(c) \in {"none", "unknown"}
      BY <2>2, RunnableNow DEF BeginCommand, TakeUp, IsNext
    <3>2. \A d \in Cmds : Told(d)' = Told(d)
      BY <2>2 DEF BeginCommand, TakeUp, Told
    <3>3. runs' = [runs EXCEPT ![c] = 1]
      BY <2>2, <3>1 DEF BeginCommand, DeliveryInv, TypeOK
    <3>4. Delivery!Run(c)
      BY <2>2, <3>1, <3>2, <3>3 DEF BeginCommand, Delivery!Run
    <3> QED BY <3>4 DEF Delivery!DeliveryNext
  <2>3. CASE EndCommand(p)
    <3>1. current[p] \in Cmds /\ runs[current[p]] = 1
      BY <2>3 DEF EndCommand, DeliveryInv, TypeOK, LoopInv, AnswerInv, OneConsumer
    <3>2. \A d \in Cmds : Told(d)' = Told(d)
      BY <2>3 DEF EndCommand, Told
    <3>3. Delivery!End(current[p])
      BY <2>3, <3>1, <3>2 DEF EndCommand, Delivery!End
    <3> QED BY <3>1, <3>3 DEF Delivery!DeliveryNext
  <2> QED BY <1>1, <1>3, <2>1, <2>2, <2>3
          DEF LoopStep, ListCommands, FetchCommand, SkipCommand, ClaimCommand,
              DrainReturns, RefuseCommand, TakeUp, SendResponse, Sleep
<1>4. ASSUME NEW p \in Instances, AgentStep(p) PROVE Goal
  BY <1>1, <1>3, <1>4
     DEF AgentStep, Start, Crash, DoorbellTick, ForcedTick, DoorbellTickFails, DrainFails,
         Observe
<1>5. CASE Tick
  BY <1>1, <1>5 DEF Tick
<1>6. CASE UNCHANGED vars
  BY <1>1, <1>6
<1> QED BY <1>2, <1>4, <1>5, <1>6 DEF Next

\* With one process at a time under the identity, the mailbox implements the
\* abstract at-most-once delivery.
THEOREM MailboxImplementsDelivery ==
  ASSUME ~AllowDuplicates
  PROVE  Spec => ImplementsDelivery
<1>1. DeliveryInv /\ [Next]_vars => [Delivery!DeliveryNext]_(Delivery!deliveryVars)
  BY RefineStep
<1> QED BY <1>1, RefineInit, DeliveryInvariant, PTL
        DEF Spec, ImplementsDelivery, Delivery!DeliverySpec
===============================================================================
