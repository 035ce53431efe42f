-------------------------- MODULE PresenceProofs --------------------------
(***************************************************************************)
(* Proofs about Presence, for any number of processes under one identity,  *)
(* any heartbeat lifetime and any number of faults: the automatic rule     *)
(* never idles everybody, and a process yields only to a contemporary.     *)
(***************************************************************************)
EXTENDS Presence, TLAPS

LEMMA InitEstablishesPresenceInv == Init => PresenceInv
BY ConstantsAssumption
   DEF Init, PresenceInv, TypeOK, YieldsOnlyToContemporary, Heartbeats

LEMMA IdsAreIntegers == \A p \in Ids : p \in Int
BY ConstantsAssumption

LEMMA TimesAreIntegers ==
  PresenceInv => \A p \in Ids : lastBeat[p] \in Int /\ startedAt[p] \in Int
BY ConstantsAssumption DEF PresenceInv, TypeOK

LEMMA SetFlag ==
  ASSUME NEW S, NEW f \in [S -> BOOLEAN], NEW s \in S, NEW v \in BOOLEAN
  PROVE  [f EXCEPT ![s] = v] \in [S -> BOOLEAN]
OBVIOUS

\* Applying the rule to a heartbeat that is in the bucket: a process yields only
\* to the writer of a heartbeat it has just read.
LEMMA ObservedKeepsPresenceInv ==
  ASSUME PresenceInv, NEW p \in Ids, pc[p] = "read", Observed(p), UNCHANGED faults,
         pc' = [pc EXCEPT ![p] = "write"],
         UNCHANGED <<heartbeat, now, startedAt, stoodDown, lastBeat>>
  PROVE  PresenceInv'
<1> USE ConstantsAssumption DEF PresenceInv, TypeOK, YieldsOnlyToContemporary, Heartbeats
<1>1. CASE Rival(p) = {}
  <2>1. /\ conflict' = [conflict EXCEPT ![p] = NoId]
        /\ yielded' = [yielded EXCEPT ![p] = FALSE]
    BY <1>1 DEF Observed
  <2>2. QED
    BY <2>1
<1>2. CASE Rival(p) # {}
  <2>1. PICK h \in Rival(p) :
          /\ conflict' = [conflict EXCEPT ![p] = h.instance]
          /\ yielded' = [yielded EXCEPT ![p] = Yields(p, h.instance)]
    BY <1>2 DEF Observed
  <2>2. h \in heartbeat /\ h.at >= startedAt[p] /\ h.instance \in Ids /\ h.at \in 0..MaxNow
    BY DEF Rival, Fresh
  <2>3. Yields(p, h.instance) \in BOOLEAN
    BY DEF Yields
  <2>4. yielded' \in [Ids -> BOOLEAN]
    BY <2>1, <2>3, SetFlag
  <2>5. TypeOK'
    BY <2>1, <2>2, <2>4
  <2>6. lastBeat[h.instance] >= startedAt[p] /\ pc[h.instance] # "down"
    <3>1. h.at <= lastBeat[h.instance] /\ pc[h.instance] # "down"
      BY <2>2, Zenon
    <3>2. lastBeat[h.instance] \in Int /\ startedAt[p] \in Int
      BY <2>2, TimesAreIntegers
    <3>3. QED
      BY <2>2, <3>1, <3>2
  <2>7. yielded'[p] => h.instance < p
    BY <2>1, <2>2 DEF Yields
  <2>8. YieldsOnlyToContemporary'
    BY <2>1, <2>2, <2>6, <2>7
  <2>9. QED
    BY <2>1, <2>2, <2>5, <2>6, <2>8
<1>3. QED
  BY <1>1, <1>2

LEMMA NextKeepsPresenceInv == PresenceInv /\ [Next]_vars => PresenceInv'
<1> SUFFICES ASSUME PresenceInv, [Next]_vars PROVE PresenceInv'
  OBVIOUS
<1>0. \A p \in Ids : lastBeat[p] \in Int
  BY TimesAreIntegers
<1> USE ConstantsAssumption DEF PresenceInv, TypeOK, YieldsOnlyToContemporary, Heartbeats, Fault
<1>1. ASSUME NEW p \in Ids, Start(p) PROVE PresenceInv'
  <2>1. TypeOK'
    BY <1>1 DEF Start
  <2>2. ~yielded[p] /\ UNCHANGED <<heartbeat, now, conflict, yielded, lastBeat>>
    BY <1>1 DEF Start
  <2>3. \A q \in Ids : pc[q] # "down" => pc'[q] # "down"
    BY <1>1 DEF Start
  <2>4. YieldsOnlyToContemporary'
    BY <1>1, <2>2 DEF Start
  <2>5. QED
    BY <2>1, <2>2, <2>3, <2>4
<1>2. ASSUME NEW p \in Ids, Crash(p) PROVE PresenceInv'
  BY <1>2 DEF Crash, Die, Live
<1>3. ASSUME NEW p \in Ids, Shutdown(p) PROVE PresenceInv'
  BY <1>3 DEF Shutdown, Die, Live
<1>4. ASSUME NEW p \in Ids, ReadBack(p) PROVE PresenceInv'
  <2>1. CASE Observed(p) /\ UNCHANGED faults
    BY <1>4, <2>1, ObservedKeepsPresenceInv DEF ReadBack
  <2>2. CASE Fault /\ UNCHANGED <<conflict, yielded>>
    BY <1>4, <2>2 DEF ReadBack
  <2>3. QED
    BY <1>4, <2>1, <2>2 DEF ReadBack
<1>5. ASSUME NEW p \in Ids, WriteHeartbeat(p) PROVE PresenceInv'
  <2> DEFINE mine == [instance |-> p, at |-> now]
  <2>1. /\ heartbeat' \in {heartbeat, {mine}}
        /\ lastBeat' = [lastBeat EXCEPT ![p] = now]
        /\ pc' = [pc EXCEPT ![p] = "sleep"]
        /\ UNCHANGED <<now, startedAt, conflict, yielded, stoodDown>>
        /\ faults' \in 0..MaxFaults
    BY <1>5 DEF WriteHeartbeat
  <2>2. mine \in Heartbeats /\ mine.instance = p /\ mine.at = now
    OBVIOUS
  <2> HIDE DEF mine
  <2>3. TypeOK'
    BY <2>1, <2>2
  <2>4. \A q \in Ids : /\ lastBeat'[q] >= lastBeat[q] /\ lastBeat'[q] <= now
                       /\ pc[q] # "down" => pc'[q] # "down"
    BY <2>1
  <2>5. YieldsOnlyToContemporary'
    BY <2>1, <2>3, <2>4
  <2>a. \A q \in Ids : lastBeat'[q] \in Int
    BY <2>1
  <2>6. \A h \in heartbeat' : pc'[h.instance] # "down" /\ h.at <= lastBeat'[h.instance]
    <3> SUFFICES ASSUME NEW h \in heartbeat'
                 PROVE  pc'[h.instance] # "down" /\ h.at <= lastBeat'[h.instance]
      OBVIOUS
    <3>1. CASE h = mine
      BY <2>1, <2>2, <3>1
    <3>2. CASE h \in heartbeat
      <4>1. h.instance \in Ids /\ h.at \in Int
        BY <3>2
      <4>2. pc[h.instance] # "down" /\ h.at <= lastBeat[h.instance]
        BY <3>2, Zenon
      <4>3. pc'[h.instance] # "down" /\ lastBeat'[h.instance] >= lastBeat[h.instance]
        BY <2>4, <4>1, <4>2, Zenon
      <4>4. lastBeat[h.instance] \in Int /\ lastBeat'[h.instance] \in Int
        BY <1>0, <2>a, <4>1, Zenon
      <4>5. QED
        BY <4>1, <4>2, <4>3, <4>4
    <3>3. QED
      BY <2>1, <3>1, <3>2
  <2>7. QED
    BY <2>1, <2>3, <2>4, <2>5, <2>6
<1>6. ASSUME NEW p \in Ids, Wake(p) PROVE PresenceInv'
  BY <1>6 DEF Wake
<1>7. ASSUME NEW p \in Ids, StandDown(p) PROVE PresenceInv'
  BY <1>7 DEF StandDown, Live
<1>8. CASE Tick
  <2>1. TypeOK' /\ now' = now + 1
        /\ UNCHANGED <<heartbeat, pc, startedAt, conflict, yielded, lastBeat>>
    BY <1>8 DEF Tick
  <2>2. \A q \in Ids : lastBeat[q] <= now'
    BY <2>1
  <2>3. QED
    BY <2>1, <2>2
<1>9. CASE UNCHANGED vars
  BY <1>9 DEF vars
<1>10. QED
  BY <1>1, <1>2, <1>3, <1>4, <1>5, <1>6, <1>7, <1>8, <1>9 DEF Next, Round

LEMMA PresenceInvariant == Spec => []PresenceInv
BY InitEstablishesPresenceInv, NextKeepsPresenceInv, PTL DEF Spec

\* With any number of processes under the identity, reading and writing the
\* shared heartbeat in any order, the lowest id of all that ever started does
\* not yield: the rule cannot make the agent unreachable.
THEOREM SomebodyWorks == Spec => []LowestNeverYields
<1>1. PresenceInv => LowestNeverYields
  <2> SUFFICES ASSUME PresenceInv, NEW p \in Ids, yielded[p],
                      \A q \in Ids : pc[q] # "down" => p <= q
               PROVE  FALSE
    BY DEF LowestNeverYields
  <2>1. conflict[p] \in Ids /\ conflict[p] < p /\ pc[conflict[p]] # "down"
    BY DEF PresenceInv, YieldsOnlyToContemporary
  <2>2. p \in Int /\ conflict[p] \in Int
    BY <2>1, IdsAreIntegers, Zenon
  <2>3. p <= conflict[p]
    BY <2>1, Zenon
  <2>4. QED
    BY <2>1, <2>2, <2>3
<1>2. QED
  BY PresenceInvariant, <1>1, PTL

\* A process yields only to one with a lower id that sent a heartbeat in or
\* after the second in which it started itself.
THEOREM YieldsToContemporary == Spec => []YieldsOnlyToContemporary
<1>1. PresenceInv => YieldsOnlyToContemporary
  BY DEF PresenceInv
<1>2. QED
  BY PresenceInvariant, <1>1, PTL
==========================================================================
