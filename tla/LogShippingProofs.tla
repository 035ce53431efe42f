-------------------------- MODULE LogShippingProofs ---------------------------
(*****************************************************************************)
(* Proofs about LogShipping, for any logs, any number of controllers on one  *)
(* database, any chunk size and any number of faults: the central log is at  *)
(* every moment a copy of the first bytes of the agent's log, and no byte    *)
(* that the agent counts as shipped is lost.                                 *)
(*****************************************************************************)
EXTENDS LogShipping, TLAPS

\* A chunk is not empty.
LEMMA ChunkFacts ==
  ASSUME NEW x \in Chunks
  PROVE  /\ x.source \in Sources /\ x.offset \in Nat /\ x.len \in Nat \ {0}
         /\ End(x) \in Nat /\ x.offset < End(x)
BY DEF Chunks, End

\* What ship_once reads is a piece of the file.
LEMMA ChunkAtFits ==
  ASSUME TypeOK, NEW s \in Sources, ~(file[s] <= Offset(s))
  PROVE  /\ ChunkAt(s) \in Chunks /\ ChunkAt(s).source = s
         /\ End(ChunkAt(s)) <= file[s]
<1>1. Offset(s) \in Nat /\ file[s] \in Nat /\ ChunkBytes \in Nat \ {0}
  BY ConstantsAssumption DEF TypeOK, Offset
<1> DEFINE left == file[s] - Offset(s)
           len == IF left < ChunkBytes THEN left ELSE ChunkBytes
<1>2. len \in Nat \ {0} /\ Offset(s) + len <= file[s]
  BY <1>1
<1>3. ChunkAt(s) = [source |-> s, offset |-> Offset(s), len |-> len]
  BY DEF ChunkAt
<1> HIDE DEF len
<1>4. QED
  BY <1>1, <1>2, <1>3 DEF Chunks, End

\* Writing a chunk that begins in, or at the end of, a faithful copy gives a
\* faithful copy, which holds the chunk.
LEMMA WrittenToMirrors ==
  ASSUME NEW f, NEW n \in Nat, DOMAIN f = 0..(n - 1), \A i \in DOMAIN f : f[i] = i,
         NEW o \in Nat, NEW e \in Nat, o <= n, o < e, NEW x, x.offset = o, End(x) = e
  PROVE  \E m \in Nat : /\ m = IF n < e THEN e ELSE n
                        /\ DOMAIN WrittenTo(f, x) = 0..(m - 1)
                        /\ \A i \in DOMAIN WrittenTo(f, x) : WrittenTo(f, x)[i] = i
<1> DEFINE m == IF n < e THEN e ELSE n
           g == WrittenTo(f, x)
<1>1. m \in Nat
  OBVIOUS
<1>2. g = [i \in DOMAIN f \cup 0..(e - 1) |->
             IF o <= i /\ i < e THEN i ELSE IF i \in DOMAIN f THEN f[i] ELSE -1]
  BY DEF WrittenTo
<1>3. DOMAIN f \cup 0..(e - 1) = 0..(m - 1)
  OBVIOUS
<1>4. DOMAIN g = 0..(m - 1)
  BY <1>2, <1>3
<1>5. ASSUME NEW i \in 0..(m - 1) PROVE g[i] = i
  <2>1. g[i] = IF o <= i /\ i < e THEN i ELSE IF i \in DOMAIN f THEN f[i] ELSE -1
    BY <1>2, <1>3
  <2>2. CASE o <= i /\ i < e
    BY <2>1, <2>2
  <2>3. CASE ~(o <= i /\ i < e)
    <3>1. i \in DOMAIN f
      BY <2>3
    <3>2. QED
      BY <2>1, <2>3, <3>1
  <2>4. QED
    BY <2>2, <2>3
<1> HIDE DEF m, g
<1>6. m \in Nat /\ DOMAIN g = 0..(m - 1) /\ \A i \in DOMAIN g : g[i] = i
  BY <1>1, <1>4, <1>5
<1>7. m = IF n < e THEN e ELSE n
  BY DEF m
<1>8. QED
  BY <1>6, <1>7 DEF g

--------------------------------------------------------------------------
(* Types.                                                                  *)

\* The put of a chunk keeps to the types.
LEMMA StoredTypes ==
  ASSUME TypeOK, work \in Chunks, Stored(work)
  PROVE  /\ objects' \in SUBSET Chunks
         /\ cuts' \in [Sources -> SUBSET Nat] /\ straddled' \in SUBSET Sources
BY ChunkFacts DEF TypeOK, Stored

\* Every variable keeps to its type.
LEMMA NextKeepsTypes == TypeOK /\ [Next]_vars => TypeOK'
<1> SUFFICES ASSUME TypeOK, [Next]_vars PROVE TypeOK'
  OBVIOUS
<1> USE ConstantsAssumption
    DEF fileVars, shipVars, storeVars, passVars, historyVars, Fault, NoFault, PassEnds, RefreshEnds
<1>1. ASSUME NEW s \in Sources, Append(s) \/ Close(s) \/ Cleanup(s) PROVE TypeOK'
  <2>1. CASE Append(s)
    BY <2>1 DEF TypeOK, Append
  <2>2. CASE Close(s)
    BY <2>2 DEF TypeOK, Close
  <2>3. CASE Cleanup(s)
    BY <2>3 DEF TypeOK, Cleanup
  <2>4. QED
    BY <1>1, <2>1, <2>2, <2>3
<1>2. CASE BeginPass \/ EndPass
  BY <1>2 DEF TypeOK, BeginPass, EndPass
<1>3. ASSUME NEW s \in Sources, VisitSource(s) PROVE TypeOK'
  <2>1. CASE phase[s] = "gone" \/ file[s] <= Offset(s)
    BY <1>3, <2>1 DEF TypeOK, VisitSource
  <2>2. CASE ~(phase[s] = "gone" \/ file[s] <= Offset(s))
    BY <1>3, <2>2, ChunkAtFits DEF TypeOK, VisitSource
  <2>3. QED
    BY <2>1, <2>2
<1>4. CASE PublishChunk
  <2>1. work \in Chunks
    BY <1>4 DEF TypeOK, PublishChunk
  <2>2. /\ objects' \in SUBSET Chunks
        /\ cuts' \in [Sources -> SUBSET Nat] /\ straddled' \in SUBSET Sources
    BY <1>4, <2>1, StoredTypes DEF TypeOK, PublishChunk
  <2>3. \/ apc' = "mark" /\ UNCHANGED <<faults, todo, work>>
        \/ apc' = "sleep" /\ work' = NoChunk /\ todo' = {} /\ faults < MaxFaults
           /\ faults' = faults + 1
    BY <1>4, Zenon DEF PublishChunk
  <2>4. UNCHANGED <<fileVars, marker, cache, storeVars, passVars>>
    BY <1>4 DEF PublishChunk
  <2>5. faults' \in 0..MaxFaults
    BY <2>3 DEF TypeOK
  <2>6. todo' \in SUBSET Sources /\ apc' \in {"sleep", "mark"} /\ work' \in Chunks \cup {NoChunk}
        /\ (apc' = "mark" => work' \in Chunks)
    BY <2>1, <2>3 DEF TypeOK
  <2>7. QED
    BY <2>2, <2>4, <2>5, <2>6 DEF TypeOK
<1>5. CASE WriteMarker
  <2>1. work \in Chunks
    BY <1>5 DEF TypeOK, WriteMarker
  <2>2. work.source \in Sources /\ End(work) \in Nat
    BY <2>1, ChunkFacts
  <2>3. marker' \in [Sources -> Nat] /\ cache' \in [Sources -> Nat \cup {-1}]
    BY <1>5, <2>2 DEF TypeOK, WriteMarker
  <2>4. faults' \in 0..MaxFaults
    BY <1>5 DEF TypeOK, WriteMarker
  <2>5. QED
    BY <1>5, <2>3, <2>4 DEF TypeOK, WriteMarker
<1>6. CASE AgentCrash
  <2>1. apc \in {"publish", "mark"} => work \in Chunks
    BY DEF TypeOK
  <2>2. /\ objects' \in SUBSET Chunks
        /\ cuts' \in [Sources -> SUBSET Nat] /\ straddled' \in SUBSET Sources
    <3>1. CASE apc = "publish" /\ Stored(work)
      BY <2>1, <3>1, StoredTypes
    <3>2. CASE ~(apc = "publish" /\ Stored(work))
      BY <1>6, <3>2 DEF TypeOK, AgentCrash
    <3>3. QED
      BY <3>1, <3>2
  <2>3. marker' \in [Sources -> Nat]
    <3>1. CASE apc = "mark"
      BY <1>6, <2>1, <3>1, ChunkFacts DEF TypeOK, AgentCrash
    <3>2. CASE apc # "mark"
      BY <1>6, <3>2 DEF TypeOK, AgentCrash
    <3>3. QED
      BY <3>1, <3>2
  <2>4. QED
    BY <1>6, <2>2, <2>3 DEF TypeOK, AgentCrash
<1>7. ASSUME NEW c \in Controllers, ListLogs(c) PROVE TypeOK'
  <2>1. {Key(x) : x \in objects} \in SUBSET (Sources \X Nat)
    BY ChunkFacts DEF TypeOK, Key
  <2>2. QED
    BY <1>7, <2>1 DEF TypeOK, ListLogs
<1>8. ASSUME NEW c \in Controllers, FetchLog(c) \/ FetchDone(c) \/ RefreshDone(c) PROVE TypeOK'
  <2>1. CASE FetchLog(c)
    BY <2>1 DEF TypeOK, FetchLog
  <2>2. CASE FetchDone(c)
    BY <2>2 DEF TypeOK, FetchDone
  <2>3. CASE RefreshDone(c)
    BY <2>3 DEF TypeOK, RefreshDone
  <2>4. QED
    BY <1>8, <2>1, <2>2, <2>3
<1>9. ASSUME NEW c \in Controllers, NEW x \in fetched[c],
             Ingest(c, x) \/ WriteLog(c, x) \/ CommitOffset(c, x) \/ Acknowledge(c, x)
      PROVE  TypeOK'
  <2>1. x \in Chunks /\ x.source \in Sources /\ End(x) \in Nat
    BY ChunkFacts DEF TypeOK
  <2>2. CASE Ingest(c, x)
    BY <2>2 DEF TypeOK, Ingest
  <2>3. CASE WriteLog(c, x)
    BY <2>1, <2>3 DEF TypeOK, WriteLog
  <2>4. CASE CommitOffset(c, x)
    BY <2>1, <2>4 DEF TypeOK, CommitOffset, SetNext
  <2>5. CASE Acknowledge(c, x)
    BY <2>5 DEF TypeOK, Acknowledge
  <2>6. QED
    BY <1>9, <2>2, <2>3, <2>4, <2>5
<1>10. ASSUME NEW c \in Controllers, RefreshFails(c) PROVE TypeOK'
  <2>1. \A x \in fetched[c] : x.source \in Sources /\ End(x) \in Nat
    BY ChunkFacts DEF TypeOK
  <2>2. objects' \in SUBSET Chunks
    BY <1>10 DEF TypeOK, RefreshFails, SetNext
  <2>3. next' \in [Sources -> Nat]
    BY <1>10, <2>1 DEF TypeOK, RefreshFails, SetNext
  <2>4. DOMAIN local' = Sources
    BY <1>10 DEF TypeOK, RefreshFails, SetNext
  <2>5. setBack' \in SUBSET Sources
    BY <1>10, <2>1 DEF TypeOK, RefreshFails, SetNext
  <2>6. QED
    BY <1>10, <2>2, <2>3, <2>4, <2>5 DEF TypeOK, RefreshFails
<1>11. CASE UNCHANGED vars
  BY <1>11 DEF TypeOK, vars
<1>12. QED
  BY <1>1, <1>2, <1>3, <1>4, <1>5, <1>6, <1>7, <1>8, <1>9, <1>10, <1>11
     DEF Next, ShipStep, RefreshStep

--------------------------------------------------------------------------
(* The invariant.                                                          *)

\* Nothing was written, shipped or fetched.
LEMMA InitEstablishesLogInv == Init => LogInv
<1> SUFFICES ASSUME Init PROVE LogInv
  OBVIOUS
<1>1. TypeOK
  BY ConstantsAssumption DEF Init, TypeOK
<1>2. LocalMirrors
  <2> SUFFICES ASSUME NEW s \in Sources
               PROVE  \E n \in next[s]..file[s] :
                        /\ DOMAIN local[s] = 0..(n - 1)
                        /\ \A i \in DOMAIN local[s] : local[s][i] = i
    BY DEF LocalMirrors
  <2>1. next[s] = 0 /\ file[s] = 0 /\ DOMAIN local[s] = {}
    BY DEF Init
  <2>2. 0 \in next[s]..file[s] /\ DOMAIN local[s] = 0..(0 - 1)
    BY <2>1
  <2>3. QED
    BY <2>1, <2>2
<1>3. QED
  BY <1>1, <1>2 DEF Init, LogInv, ObjectsOK, RefreshOK

\* Steps of the agent that store no object: the file may grow.
LEMMA AgentStep ==
  ASSUME LogInv, TypeOK', UNCHANGED <<objects, next, local, cpc, listed, fetched>>,
         \A s \in Sources : file[s] <= file'[s],
         work' # NoChunk => InFile(work)'
  PROVE  LogInv'
<1>1. ASSUME NEW x \in Chunks, InFile(x) PROVE InFile(x)'
  BY <1>1, ChunkFacts DEF InFile, End, LogInv, TypeOK
<1>2. ObjectsOK'
  BY <1>1 DEF LogInv, ObjectsOK, TypeOK, Key
<1>3. ASSUME NEW c \in Controllers PROVE RefreshOK(c)'
  BY <1>1 DEF LogInv, RefreshOK, TypeOK, InHand, Holds, Key, Before, End
<1>4. LocalMirrors'
  BY DEF LogInv, LocalMirrors, TypeOK
<1>5. QED
  BY <1>2, <1>3, <1>4 DEF LogInv

\* A chunk is stored over whatever its key held.
LEMMA StoreStep ==
  ASSUME LogInv, TypeOK', work \in Chunks, Stored(work), work' \in {work, NoChunk},
         UNCHANGED <<file, next, local, cpc, listed, fetched>>
  PROVE  LogInv'
<1>1. work # NoChunk /\ InFile(work)
  BY ConstantsAssumption DEF LogInv
<1>2. ObjectsOK'
  BY <1>1 DEF LogInv, ObjectsOK, Stored, InFile, Key, End
<1>3. ASSUME NEW c \in Controllers PROVE RefreshOK(c)'
  BY DEF LogInv, RefreshOK, InFile, InHand, Holds, Key, Before, End
<1>4. LocalMirrors' /\ (work' # NoChunk => InFile(work)')
  BY <1>1 DEF LogInv, LocalMirrors, InFile, End
<1>5. QED
  BY <1>2, <1>3, <1>4 DEF LogInv

\* A step of one controller, which only adds to the logs, disturbs no other.
LEMMA PassStep ==
  ASSUME LogInv, TypeOK', NEW c \in Controllers, UNCHANGED <<file, work>>, objects' \subseteq objects,
         \A d \in Controllers \ {c} :
           cpc'[d] = cpc[d] /\ listed'[d] = listed[d] /\ fetched'[d] = fetched[d],
         \A s \in Sources : DOMAIN local[s] \subseteq DOMAIN local'[s],
         LocalMirrors', RefreshOK(c)'
  PROVE  LogInv'
<1>1. ObjectsOK'
  BY DEF LogInv, ObjectsOK, InFile, Key, End
<1>2. ASSUME NEW d \in Controllers \ {c} PROVE RefreshOK(d)'
  <2>1. RefreshOK(d) /\ fetched[d] \in SUBSET Chunks
    BY DEF LogInv, TypeOK
  <2>2. ASSUME NEW s \in Sources, NEW n, Holds(s, n) PROVE Holds(s, n)'
    BY <2>2 DEF Holds
  <2>3. ASSUME NEW x \in fetched[d], InHand(d, x)' PROVE InHand(d, x)
    BY <2>3 DEF InHand, Before, Key
  <2>4. QED
    BY <2>1, <2>2, <2>3, ChunkFacts DEF RefreshOK, InFile, Key, End
<1>3. QED
  BY <1>1, <1>2 DEF LogInv, InFile, End

\* The order of the keys is a linear one, so one chunk is in hand at a time.
LEMMA OneInHand ==
  ASSUME LogInv, NEW c \in Controllers, NEW x, NEW y, InHand(c, x), InHand(c, y)
  PROVE  x = y
<1>1. x \in fetched[c] /\ y \in fetched[c] /\ x \in Chunks /\ y \in Chunks
  BY DEF InHand, LogInv, TypeOK
<1>2. /\ x.source \in Int /\ y.source \in Int /\ x.offset \in Int /\ y.offset \in Int
  BY <1>1, ChunkFacts, ConstantsAssumption
<1>3. Before(Key(x), Key(y)) /\ Before(Key(y), Key(x))
  BY <1>1 DEF InHand
<1>4. x.source = y.source /\ x.offset = y.offset
  BY <1>2, <1>3 DEF Before, Key
<1>5. QED
  BY <1>1, <1>4 DEF LogInv, RefreshOK, Key

\* How far a log reaches.
LEMMA Reaches ==
  ASSUME LogInv, NEW s \in Sources
  PROVE  \E n \in Nat : /\ next[s] <= n /\ n <= file[s] /\ DOMAIN local[s] = 0..(n - 1)
                        /\ \A i \in DOMAIN local[s] : local[s][i] = i
                        /\ \A k \in Nat : Holds(s, k) => k <= n
                        /\ \A k \in Nat : k <= n => Holds(s, k)
<1>1. PICK n \in next[s]..file[s] : DOMAIN local[s] = 0..(n - 1)
                                    /\ \A i \in DOMAIN local[s] : local[s][i] = i
  BY DEF LogInv, LocalMirrors
<1>2. n \in Nat /\ next[s] <= n /\ n <= file[s]
  BY DEF LogInv, TypeOK
<1>3. ASSUME NEW k \in Nat, Holds(s, k) PROVE k <= n
  <2>1. CASE k = 0
    BY <1>2, <2>1
  <2>2. CASE k > 0
    <3>1. k - 1 \in 0..(k - 1)
      BY <2>2
    <3>2. k - 1 \in 0..(n - 1)
      BY <1>1, <1>3, <3>1 DEF Holds
    <3>3. QED
      BY <1>2, <3>2
  <2>3. QED
    BY <2>1, <2>2
<1>4. ASSUME NEW k \in Nat, k <= n PROVE Holds(s, k)
  BY <1>1, <1>2, <1>4 DEF Holds
<1>5. QED
  BY <1>1, <1>2, <1>3, <1>4

\* A write at the offset of a chunk that the log reaches, of the chunk or of
\* its first bytes.
LEMMA WriteStep ==
  ASSUME LogInv, NEW x, NEW s \in Sources, x.source = s, x.offset \in Nat, End(x) \in Nat,
         x.offset < End(x), Holds(s, x.offset), InFile(x),
         local' = [local EXCEPT ![s] = WrittenTo(@, x)], UNCHANGED <<file, next>>
  PROVE  /\ LocalMirrors' /\ Holds(s, End(x))'
         /\ \A t \in Sources : DOMAIN local[t] \subseteq DOMAIN local'[t]
<1>1. PICK n \in Nat : /\ next[s] <= n /\ n <= file[s] /\ DOMAIN local[s] = 0..(n - 1)
                       /\ \A i \in DOMAIN local[s] : local[s][i] = i
                       /\ \A k \in Nat : Holds(s, k) => k <= n
  BY Reaches
<1>2. DOMAIN local = Sources /\ file[s] \in Nat /\ next[s] \in Nat
  BY DEF LogInv, TypeOK
<1>3. PICK m \in Nat : /\ m = IF n < End(x) THEN End(x) ELSE n
                       /\ DOMAIN WrittenTo(local[s], x) = 0..(m - 1)
                       /\ \A i \in DOMAIN WrittenTo(local[s], x) : WrittenTo(local[s], x)[i] = i
  BY <1>1, WrittenToMirrors
<1>4. local'[s] = WrittenTo(local[s], x) /\ \A t \in Sources \ {s} : local'[t] = local[t]
  BY <1>2
<1>5. m \in next[s]..file[s] /\ n <= m /\ End(x) <= m
  BY <1>1, <1>2, <1>3 DEF InFile
<1>6. DOMAIN local'[s] = 0..(m - 1) /\ \A i \in DOMAIN local'[s] : local'[s][i] = i
  BY <1>3, <1>4
<1>7. LocalMirrors'
  <2> SUFFICES ASSUME NEW t \in Sources
               PROVE  \E k \in next[t]..file[t] :
                        /\ DOMAIN local'[t] = 0..(k - 1)
                        /\ \A i \in DOMAIN local'[t] : local'[t][i] = i
    BY DEF LocalMirrors
  <2>1. CASE t = s
    BY <1>5, <1>6, <2>1
  <2>2. CASE t # s
    BY <1>4, <2>2 DEF LogInv, LocalMirrors
  <2>3. QED
    BY <2>1, <2>2
<1>8. \A i \in 0..(End(x) - 1) : i \in DOMAIN local'[s]
  BY <1>5, <1>6
<1>9. \A t \in Sources : DOMAIN local[t] \subseteq DOMAIN local'[t]
  BY <1>1, <1>4, <1>5, <1>6
<1>10. QED
  BY <1>7, <1>8, <1>9 DEF Holds, End

\* next_offset is set to the end of a chunk that is stored.
LEMMA CommitStep ==
  ASSUME LogInv, NEW s \in Sources, NEW e \in Nat, Holds(s, e),
         next' = [next EXCEPT ![s] = e], UNCHANGED <<file, local>>
  PROVE  LocalMirrors'
<1>1. PICK n \in Nat : /\ next[s] <= n /\ n <= file[s] /\ DOMAIN local[s] = 0..(n - 1)
                       /\ \A i \in DOMAIN local[s] : local[s][i] = i
                       /\ \A k \in Nat : Holds(s, k) => k <= n
  BY Reaches
<1>2. e <= n /\ file[s] \in Nat /\ next \in [Sources -> Nat]
  BY <1>1 DEF LogInv, TypeOK
<1>3. n \in e..file[s] /\ next'[s] = e /\ \A t \in Sources \ {s} : next'[t] = next[t]
  BY <1>1, <1>2
<1> SUFFICES ASSUME NEW t \in Sources
             PROVE  \E k \in next'[t]..file[t] :
                      /\ DOMAIN local[t] = 0..(k - 1)
                      /\ \A i \in DOMAIN local[t] : local[t][i] = i
  BY DEF LocalMirrors
<1>4. CASE t = s
  BY <1>1, <1>3, <1>4
<1>5. CASE t # s
  BY <1>3, <1>5 DEF LogInv, LocalMirrors
<1>6. QED
  BY <1>4, <1>5

\* Every step of a refresh keeps the invariant.
LEMMA ControllerKeepsLogInv ==
  ASSUME LogInv, TypeOK', NEW c \in Controllers, RefreshStep(c) PROVE LogInv'
<1>0. TypeOK /\ LocalMirrors /\ ObjectsOK /\ RefreshOK(c)
  BY DEF LogInv
<1> USE DEF fileVars, shipVars, storeVars, passVars
<1>1. CASE ListLogs(c)
  <2>1. RefreshOK(c)'
    BY <1>0, <1>1 DEF ListLogs, RefreshOK, TypeOK
  <2>2. LocalMirrors'
    BY <1>0, <1>1 DEF ListLogs, LocalMirrors
  <2>3. QED
    BY <1>0, <1>1, <2>1, <2>2, PassStep DEF ListLogs, TypeOK
<1>2. CASE FetchLog(c)
  <2>1. PICK k \in listed[c] :
          /\ fetched' = [fetched EXCEPT ![c] = @ \cup {x \in objects : Key(x) = k}]
          /\ listed' = [listed EXCEPT ![c] = @ \ {k}]
    BY <1>2 DEF FetchLog
  <2>2. cpc[c] = "fetch" /\ UNCHANGED <<file, work, objects, next, local, cpc>>
    BY <1>2 DEF FetchLog
  <2>3. /\ fetched'[c] = fetched[c] \cup {x \in objects : Key(x) = k}
        /\ listed'[c] = listed[c] \ {k}
    BY <1>0, <2>1 DEF TypeOK
  <2>4. RefreshOK(c)'
    <3>1. \A x \in fetched'[c] : InFile(x)' /\ Key(x) \notin listed'[c]
      BY <1>0, <2>2, <2>3 DEF RefreshOK, ObjectsOK, InFile, End
    <3>2. \A x, y \in fetched'[c] : Key(x) = Key(y) => x = y
      BY <1>0, <2>3 DEF RefreshOK, ObjectsOK
    <3>3. QED
      BY <2>2, <3>1, <3>2 DEF RefreshOK, Key
  <2>5. LocalMirrors'
    BY <1>0, <2>2 DEF LocalMirrors
  <2>6. QED
    BY <1>0, <2>1, <2>2, <2>4, <2>5, PassStep DEF TypeOK
<1>3. CASE FetchDone(c)
  <2>1. RefreshOK(c)'
    BY <1>0, <1>3 DEF FetchDone, RefreshOK, TypeOK, InFile, End, Key
  <2>2. LocalMirrors'
    BY <1>0, <1>3 DEF FetchDone, LocalMirrors
  <2>3. QED
    BY <1>0, <1>3, <2>1, <2>2, PassStep DEF FetchDone, TypeOK
<1>4. ASSUME NEW x \in fetched[c], Ingest(c, x) PROVE LogInv'
  <2>1. InHand(c, x) /\ UNCHANGED <<file, work, objects, next, local>>
    BY <1>4 DEF Ingest
  <2>2. x \in Chunks /\ x.source \in Sources /\ x.offset \in Nat
    BY <1>0, ChunkFacts DEF TypeOK
  <2>3. LocalMirrors'
    BY <1>0, <2>1 DEF LocalMirrors
  <2>4. \A d \in Controllers \ {c} :
          cpc'[d] = cpc[d] /\ listed'[d] = listed[d] /\ fetched'[d] = fetched[d]
    BY <1>0, <1>4 DEF Ingest, RefreshEnds, TypeOK
  <2>5. RefreshOK(c)'
    <3>1. CASE x.offset > next[x.source]
      BY <1>0, <1>4, <3>1 DEF Ingest, RefreshEnds, RefreshOK, TypeOK
    <3>2. CASE ~(x.offset > next[x.source])
      <4>1. fetched' = fetched /\ listed' = listed /\ cpc'[c] \in {"write", "ack"}
        BY <1>0, <1>4, <3>2 DEF Ingest, TypeOK
      <4>2. cpc'[c] = "write" => Holds(x.source, x.offset)
        <5>1. cpc'[c] = "write" => x.offset = next[x.source]
          BY <1>0, <1>4, <3>2 DEF Ingest, TypeOK
        <5>2. QED
          BY <2>2, <5>1, Reaches
      <4>3. \A y \in fetched[c] : InHand(c, y) => y = x
        BY <2>1, OneInHand
      <4>4. \A y \in fetched[c] : InHand(c, y)' => InHand(c, y)
        BY <4>1 DEF InHand
      <4>5. \A y \in fetched[c] : InHand(c, y)' /\ cpc'[c] = "write" => Holds(y.source, y.offset)'
        BY <2>1, <4>2, <4>3, <4>4 DEF Holds
      <4>6. QED
        BY <1>0, <2>1, <4>1, <4>5 DEF RefreshOK, InFile, End, Key
    <3>3. QED
      BY <3>1, <3>2
  <2>6. QED
    BY <2>1, <2>3, <2>4, <2>5, PassStep
<1>5. ASSUME NEW x \in fetched[c], WriteLog(c, x) PROVE LogInv'
  <2>1. /\ InHand(c, x) /\ cpc[c] = "write" /\ UNCHANGED <<file, work, objects, next, listed, fetched>>
        /\ local' = [local EXCEPT ![x.source] = WrittenTo(@, x)]
        /\ cpc' = [cpc EXCEPT ![c] = "commit"]
    BY <1>5 DEF WriteLog
  <2>2. x.source \in Sources /\ x.offset \in Nat /\ End(x) \in Nat /\ x.offset < End(x)
    BY <1>0, ChunkFacts DEF TypeOK
  <2>3. Holds(x.source, x.offset) /\ InFile(x)
    BY <1>0, <2>1 DEF RefreshOK
  <2>4. /\ LocalMirrors' /\ Holds(x.source, End(x))'
        /\ \A t \in Sources : DOMAIN local[t] \subseteq DOMAIN local'[t]
    BY <2>1, <2>2, <2>3, WriteStep
  <2>5. RefreshOK(c)'
    <3>1. cpc'[c] = "commit"
      BY <1>0, <2>1 DEF TypeOK
    <3>2. \A y \in fetched[c] : InHand(c, y)' => y = x
      <4>1. \A y \in fetched[c] : InHand(c, y)' => InHand(c, y)
        BY <2>1 DEF InHand
      <4>2. QED
        BY <2>1, <4>1, OneInHand
    <3>3. QED
      BY <1>0, <2>1, <2>4, <3>1, <3>2 DEF RefreshOK, InFile, End, Key
  <2>6. QED
    BY <1>0, <2>1, <2>4, <2>5, PassStep DEF TypeOK
<1>6. ASSUME NEW x \in fetched[c], CommitOffset(c, x) PROVE LogInv'
  <2>1. /\ InHand(c, x) /\ cpc[c] = "commit" /\ UNCHANGED <<file, work, objects, local, listed, fetched>>
        /\ next' = [next EXCEPT ![x.source] = End(x)]
        /\ cpc' = [cpc EXCEPT ![c] = "ack"]
    BY <1>6 DEF CommitOffset, SetNext
  <2>2. x.source \in Sources /\ End(x) \in Nat /\ Holds(x.source, End(x))
    BY <1>0, <2>1, ChunkFacts DEF TypeOK, RefreshOK
  <2>3. LocalMirrors'
    BY <2>1, <2>2, CommitStep
  <2>4. RefreshOK(c)'
    BY <1>0, <2>1 DEF RefreshOK, TypeOK, InFile, End, Key
  <2>5. QED
    BY <1>0, <2>1, <2>3, <2>4, PassStep DEF TypeOK
<1>7. ASSUME NEW x \in fetched[c], Acknowledge(c, x) PROVE LogInv'
  <2>1. RefreshOK(c)'
    BY <1>0, <1>7 DEF Acknowledge, RefreshOK, TypeOK, InFile, End, Key
  <2>2. LocalMirrors'
    BY <1>0, <1>7 DEF Acknowledge, LocalMirrors
  <2>3. objects' \subseteq objects
    BY <1>7 DEF Acknowledge
  <2>4. QED
    BY <1>0, <1>7, <2>1, <2>2, <2>3, PassStep DEF Acknowledge, TypeOK
<1>8. CASE RefreshDone(c)
  <2>1. RefreshOK(c)'
    BY <1>0, <1>8 DEF RefreshDone, RefreshEnds, RefreshOK, TypeOK
  <2>2. LocalMirrors'
    BY <1>0, <1>8 DEF RefreshDone, LocalMirrors
  <2>3. QED
    BY <1>0, <1>8, <2>1, <2>2, PassStep DEF RefreshDone, RefreshEnds, TypeOK
<1>9. QED
  BY <1>1, <1>2, <1>3, <1>4, <1>5, <1>6, <1>7, <1>8 DEF RefreshStep

\* A refresh that fails or dies: at most the first bytes of a write, the commit
\* or the delete it was at have happened.
LEMMA FailureKeepsLogInv ==
  ASSUME LogInv, TypeOK', NEW c \in Controllers, RefreshFails(c) PROVE LogInv'
<1>0. TypeOK /\ LocalMirrors /\ RefreshOK(c)
  BY DEF LogInv
<1> USE DEF fileVars, shipVars, storeVars
<1>1. /\ UNCHANGED <<file, work>> /\ cpc'[c] = "sleep" /\ listed'[c] = {} /\ fetched'[c] = {}
      /\ \A d \in Controllers \ {c} :
           cpc'[d] = cpc[d] /\ listed'[d] = listed[d] /\ fetched'[d] = fetched[d]
  BY <1>0 DEF RefreshFails, RefreshEnds, TypeOK
<1>2. RefreshOK(c)'
  BY <1>1 DEF RefreshOK
<1>3. SUFFICES /\ objects' \subseteq objects /\ LocalMirrors'
               /\ \A s \in Sources : DOMAIN local[s] \subseteq DOMAIN local'[s]
  BY <1>1, <1>2, PassStep
<1>4. CASE UNCHANGED <<objects, next, local>>
  BY <1>0, <1>1, <1>4 DEF LocalMirrors
<1>5. ASSUME NEW x \in fetched[c], cpc[c] = "write", InHand(c, x), UNCHANGED <<objects, next>>,
             NEW n \in 1..x.len, local' = [local EXCEPT ![x.source] = WrittenTo(@, [x EXCEPT !.len = n])]
      PROVE  /\ objects' \subseteq objects /\ LocalMirrors'
             /\ \A s \in Sources : DOMAIN local[s] \subseteq DOMAIN local'[s]
  <2> DEFINE z == [x EXCEPT !.len = n]
  <2>1. x \in Chunks /\ x.source \in Sources /\ x.offset \in Nat /\ x.len \in Nat
    BY <1>0, ChunkFacts DEF TypeOK
  <2>2. Holds(x.source, x.offset) /\ End(x) <= file[x.source]
    BY <1>0, <1>5 DEF RefreshOK, InFile
  <2>3. z.source = x.source /\ z.offset = x.offset /\ z.len = n
    BY <2>1 DEF Chunks
  <2> HIDE DEF z
  <2>4. End(z) \in Nat /\ z.offset < End(z) /\ End(z) <= End(x)
    BY <2>1, <2>3 DEF End
  <2>5. file[x.source] \in Nat /\ End(x) \in Nat
    BY <1>0, <2>1, ChunkFacts DEF TypeOK
  <2>6. InFile(z)
    BY <2>2, <2>3, <2>4, <2>5 DEF InFile
  <2>7. local' = [local EXCEPT ![x.source] = WrittenTo(@, z)]
    BY <1>5 DEF z
  <2>8. QED
    BY <1>1, <1>5, <2>1, <2>2, <2>3, <2>4, <2>6, <2>7, WriteStep
<1>6. ASSUME NEW x \in fetched[c], cpc[c] = "commit", InHand(c, x), UNCHANGED <<objects, local>>,
             next' = [next EXCEPT ![x.source] = End(x)]
      PROVE  /\ objects' \subseteq objects /\ LocalMirrors'
             /\ \A s \in Sources : DOMAIN local[s] \subseteq DOMAIN local'[s]
  <2>1. x.source \in Sources /\ End(x) \in Nat /\ Holds(x.source, End(x))
    BY <1>0, <1>6, ChunkFacts DEF TypeOK, RefreshOK
  <2>2. QED
    BY <1>1, <1>6, <2>1, CommitStep
<1>7. ASSUME NEW x \in fetched[c], objects' = {y \in objects : Key(y) # Key(x)},
             UNCHANGED <<next, local>>
      PROVE  /\ objects' \subseteq objects /\ LocalMirrors'
             /\ \A s \in Sources : DOMAIN local[s] \subseteq DOMAIN local'[s]
  BY <1>0, <1>1, <1>7 DEF LocalMirrors
<1>8. QED
  BY <1>4, <1>5, <1>6, <1>7 DEF RefreshFails, SetNext

\* Every step keeps the invariant.
LEMMA NextKeepsLogInv == LogInv /\ [Next]_vars => LogInv'
<1> SUFFICES ASSUME LogInv, [Next]_vars PROVE LogInv'
  OBVIOUS
<1>0. TypeOK /\ TypeOK'
  BY NextKeepsTypes DEF LogInv
<1>a. work # NoChunk => InFile(work)
  BY DEF LogInv
<1>b. \A s \in Sources : file[s] <= file[s]
  BY <1>0 DEF TypeOK
<1> USE DEF fileVars, shipVars, storeVars, passVars, PassEnds
<1>1. ASSUME NEW s \in Sources, Append(s) PROVE LogInv'
  <2>1. UNCHANGED <<objects, next, local, cpc, listed, fetched, work>>
        /\ \A t \in Sources : file[t] <= file'[t]
    BY <1>0, <1>1 DEF Append, TypeOK
  <2>2. work' # NoChunk => InFile(work)'
    BY <1>0, <1>a, <2>1, ChunkFacts DEF InFile, End, TypeOK
  <2>3. QED
    BY <1>0, <2>1, <2>2, AgentStep
<1>2. ASSUME NEW s \in Sources, Close(s) \/ Cleanup(s) PROVE LogInv'
  BY <1>0, <1>a, <1>b, <1>2, AgentStep DEF Close, Cleanup, InFile, End
<1>3. CASE BeginPass \/ EndPass
  BY <1>0, <1>a, <1>b, <1>3, AgentStep DEF BeginPass, EndPass, InFile, End
<1>4. ASSUME NEW s \in Sources, VisitSource(s) PROVE LogInv'
  <2>1. UNCHANGED <<file, objects, next, local, cpc, listed, fetched>>
    BY <1>4 DEF VisitSource
  <2>2. work' # NoChunk => InFile(work)'
    <3>1. CASE phase[s] = "gone" \/ file[s] <= Offset(s)
      BY <1>a, <1>4, <3>1 DEF VisitSource, InFile, End
    <3>2. CASE ~(phase[s] = "gone" \/ file[s] <= Offset(s))
      <4>1. work' = ChunkAt(s)
        BY <1>4, <3>2 DEF VisitSource
      <4>2. ChunkAt(s).source = s /\ End(ChunkAt(s)) <= file[s]
        BY <1>0, <3>2, ChunkAtFits
      <4>3. QED
        BY <2>1, <4>1, <4>2 DEF InFile, End
    <3>3. QED
      BY <3>1, <3>2
  <2>3. QED
    BY <1>0, <1>b, <2>1, <2>2, AgentStep
<1>5. CASE PublishChunk
  <2>1. work \in Chunks /\ UNCHANGED <<file, next, local, cpc, listed, fetched>>
    BY <1>0, <1>5 DEF PublishChunk, TypeOK
  <2>2. work' \in {work, NoChunk}
    BY <1>5 DEF PublishChunk
  <2>3. CASE Stored(work)
    BY <1>0, <2>1, <2>2, <2>3, StoreStep
  <2>4. CASE ~Stored(work)
    BY <1>0, <1>a, <1>b, <1>5, <2>1, <2>2, <2>4, AgentStep DEF PublishChunk, InFile, End
  <2>5. QED
    BY <2>3, <2>4
<1>6. CASE WriteMarker
  <2>1. UNCHANGED <<file, objects, next, local, cpc, listed, fetched>> /\ work' = NoChunk
    BY <1>6 DEF WriteMarker
  <2>2. QED
    BY <1>0, <1>b, <2>1, AgentStep
<1>7. CASE AgentCrash
  <2>1. UNCHANGED <<file, next, local, cpc, listed, fetched>> /\ work' = NoChunk
    BY <1>7 DEF AgentCrash
  <2>2. CASE apc = "publish" /\ Stored(work)
    BY <1>0, <2>1, <2>2, StoreStep DEF TypeOK
  <2>3. CASE ~(apc = "publish" /\ Stored(work))
    BY <1>0, <1>b, <1>7, <2>1, <2>3, AgentStep DEF AgentCrash
  <2>4. QED
    BY <2>2, <2>3
<1>8. ASSUME NEW c \in Controllers, RefreshStep(c) PROVE LogInv'
  BY <1>0, <1>8, ControllerKeepsLogInv
<1>9. ASSUME NEW c \in Controllers, RefreshFails(c) PROVE LogInv'
  BY <1>0, <1>9, FailureKeepsLogInv
<1>10. CASE UNCHANGED vars
  BY <1>0, <1>a, <1>b, <1>10, AgentStep DEF vars, InFile, End
<1>11. QED
  BY <1>1, <1>2, <1>3, <1>4, <1>5, <1>6, <1>7, <1>8, <1>9, <1>10 DEF Next, ShipStep

\* Replays, torn markers, torn writes, crashes on both sides and controllers
\* that overtake each other on one database never put a hole, a repeat or a
\* foreign byte into the central log, nor count a byte that it lacks.
THEOREM CentralLogIsAPrefix == Spec => []LocalMirrors
<1>1. LogInv => LocalMirrors
  BY DEF LogInv
<1>2. QED
  BY InitEstablishesLogInv, NextKeepsLogInv, <1>1, PTL DEF Spec

-------------------------------------------------------------------------------
(* Delivery: chunks run along cuts, and the bytes up to a cut are kept.      *)

\* Byte b of log s is in the central log or in an object of the bucket.
Safe(s, b) ==
  \/ b \in DOMAIN local[s]
  \/ \E x \in objects : x.source = s /\ x.offset <= b /\ b < End(x)

\* A chunk runs from a cut of its log to a cut, and to the next one as long as
\* no replay of the log was cut differently.
AlongCuts(x) ==
  /\ x.offset \in cuts[x.source] /\ End(x) \in cuts[x.source]
  /\ x.source \notin straddled => \A b \in cuts[x.source] : b <= x.offset \/ End(x) <= b

\* Whatever counts as shipped, on either side, ends at a cut.
CutsInv ==
  \A s \in Sources :
    /\ 0 \in cuts[s] /\ marker[s] \in cuts[s] /\ next[s] \in cuts[s]
    /\ cache[s] # -1 => cache[s] \in cuts[s]
    /\ phase[s] = "gone" => file[s] \in cuts[s]
    /\ \A b \in cuts[s] : b <= file[s]

\* Two neighbouring cuts are at most a chunk apart.
GapInv ==
  \A s \in Sources \ straddled : \A a, b \in cuts[s] :
    a < b => \E k \in cuts[s] : a < k /\ k <= a + ChunkBytes

\* What is in the bucket and what a controller has fetched runs along the cuts.
ChunksInv ==
  /\ \A x \in objects : AlongCuts(x)
  /\ \A c \in Controllers : \A x \in fetched[c] : AlongCuts(x)

\* The chunk that the agent has in hand begins at a cut, and reaches at least to
\* the next one.
WorkInv ==
  /\ apc = "publish" =>
       /\ work.offset \in cuts[work.source] /\ End(work) <= work.offset + ChunkBytes
       /\ work.source \notin straddled =>
            \A b \in cuts[work.source] :
              work.offset < b => \E k \in cuts[work.source] : work.offset < k /\ k <= End(work)
  /\ apc = "mark" => End(work) \in cuts[work.source]

\* What a controller acknowledges is in the central log.
AckInv ==
  \A c \in Controllers : \A x \in fetched[c] :
    InHand(c, x) /\ cpc[c] = "ack" /\ x.source \notin straddled => Holds(x.source, End(x))

\* The bytes before a cut are safe.
CoveredInv ==
  \A s \in Sources \ straddled : \A k \in cuts[s] : \A b \in 0..(k - 1) : Safe(s, b)

\* The inductive invariant: that a chunk is cut where it was cut before is what
\* makes the acknowledgement of one fetched chunk safe for the object of its
\* key.
DeliveryInv ==
  LogInv /\ CutsInv /\ GapInv /\ ChunksInv /\ WorkInv /\ AckInv /\ CoveredInv

\* Nothing was written or shipped; the one cut is at 0.
LEMMA InitEstablishesDelivery == Init => DeliveryInv
<1> SUFFICES ASSUME Init PROVE DeliveryInv
  OBVIOUS
<1>1. LogInv
  BY InitEstablishesLogInv
<1>2. CutsInv
  <2>1. ASSUME NEW s \in Sources
        PROVE  file[s] = 0 /\ phase[s] = "open" /\ marker[s] = 0 /\ cache[s] = -1 /\ next[s] = 0
               /\ cuts[s] = {0}
    BY DEF Init
  <2>2. ASSUME NEW s \in Sources, NEW b \in cuts[s] PROVE b <= file[s]
    BY <2>1, <2>2
  <2>3. QED
    BY <2>1, <2>2 DEF CutsInv
<1>3. GapInv /\ CoveredInv
  BY DEF Init, GapInv, CoveredInv
<1>4. ChunksInv /\ WorkInv /\ AckInv
  BY DEF Init, ChunksInv, WorkInv, AckInv
<1>5. QED
  BY <1>1, <1>2, <1>3, <1>4 DEF DeliveryInv

\* Two chunks of one key that run along the cuts of a log that was never cut
\* differently are the same chunk.
LEMMA SameKeySameChunk ==
  ASSUME TypeOK, NEW x \in Chunks, NEW y \in Chunks, AlongCuts(x), AlongCuts(y),
         Key(x) = Key(y), x.source \notin straddled
  PROVE  x = y
<1>1. x.source = y.source /\ x.offset = y.offset
  BY DEF Key
<1>2. End(x) = End(y)
  BY <1>1, ChunkFacts DEF AlongCuts
<1>3. x.len = y.len
  BY <1>1, <1>2, ChunkFacts DEF End
<1>4. QED
  BY <1>1, <1>3 DEF Chunks

\* A step of the agent or of a log's writer that stores no chunk.
LEMMA NothingStored ==
  ASSUME DeliveryInv, LogInv', UNCHANGED <<objects, next, local, cpc, fetched, cuts, straddled>>
  PROVE  GapInv' /\ ChunksInv' /\ AckInv' /\ CoveredInv'
<1>1. GapInv'
  BY DEF DeliveryInv, GapInv
<1>2. ChunksInv'
  BY DEF DeliveryInv, ChunksInv, AlongCuts, End
<1>3. AckInv'
  BY DEF DeliveryInv, AckInv, InHand, Holds, End, Key
<1>4. CoveredInv'
  BY DEF DeliveryInv, CoveredInv, Safe, End
<1>5. QED
  BY <1>1, <1>2, <1>3, <1>4

\* What the cut-free chunk in hand does to the cuts of its log: nothing, or it
\* lies behind all of them.
LEMMA CutAgainOrBehind ==
  ASSUME DeliveryInv, apc = "publish", Stored(work), work.source \notin straddled'
  PROVE  /\ work \in Chunks /\ work.source \notin straddled
         /\ \/ End(work) \in cuts[work.source]
            \/ \A b \in cuts[work.source] : b <= work.offset
<1> DEFINE s == work.source
<1>1. TypeOK /\ WorkInv
  BY DEF DeliveryInv, LogInv
<1>2. work \in Chunks /\ s \in Sources /\ work.offset \in Nat /\ End(work) \in Nat
  BY <1>1, ChunkFacts DEF TypeOK
<1>3. s \notin straddled /\ \A b \in cuts[s] : ~(work.offset < b /\ b < End(work))
  BY DEF Stored
<1>4. \A b \in cuts[s] : b \in Nat
  BY <1>1, <1>2 DEF TypeOK
<1>5. ASSUME NEW b \in cuts[s], ~(b <= work.offset) PROVE End(work) \in cuts[s]
  <2>1. PICK k \in cuts[s] : work.offset < k /\ k <= End(work)
    BY <1>1, <1>2, <1>3, <1>4, <1>5 DEF WorkInv
  <2>2. k = End(work)
    BY <1>2, <1>3, <1>4, <2>1
  <2>3. QED
    BY <2>1, <2>2
<1>6. QED
  BY <1>2, <1>3, <1>5

\* The put of a chunk adds its two ends to the cuts, and the bytes between them
\* are in the bucket.
LEMMA StoredKeepsDelivery ==
  ASSUME DeliveryInv, LogInv', apc = "publish", NEW x \in Chunks, x = work, Stored(x),
         UNCHANGED <<file, next, local, cpc, fetched>>
  PROVE  /\ GapInv' /\ ChunksInv' /\ AckInv' /\ CoveredInv'
         /\ \A t \in Sources : cuts[t] \subseteq cuts'[t] /\ \A b \in cuts'[t] : b <= file[t]
         /\ End(x) \in cuts'[x.source]
<1> DEFINE s == x.source
<1>1. TypeOK /\ CutsInv /\ GapInv /\ ChunksInv /\ WorkInv /\ AckInv /\ CoveredInv
  BY DEF DeliveryInv, LogInv
<1>2. /\ s \in Sources /\ x.offset \in Nat /\ End(x) \in Nat
      /\ x.offset < End(x) /\ x.len \in Nat
  BY ChunkFacts
<1>3. x.offset \in cuts[s] /\ End(x) <= x.offset + ChunkBytes
  BY <1>1 DEF WorkInv
<1>4. /\ cuts'[s] = cuts[s] \cup {End(x)} /\ straddled \subseteq straddled'
      /\ \A t \in Sources \ {s} : cuts'[t] = cuts[t]
      /\ \A t \in Sources : t # s => (t \in straddled' <=> t \in straddled)
      /\ objects' = {y \in objects : Key(y) # Key(x)} \cup {x}
  BY <1>1, <1>2, <1>3 DEF Stored, TypeOK
<1>5. \A t \in Sources : \A b \in cuts[t] : b \in Nat
  BY <1>1 DEF TypeOK
<1>6. s \notin straddled' =>
        \/ cuts'[s] = cuts[s]
        \/ \A b \in cuts[s] : b <= x.offset
  BY <1>4, CutAgainOrBehind
<1>7. s \notin straddled' => s \notin straddled /\ \A b \in cuts[s] : b <= x.offset \/ End(x) <= b
  BY <1>2, <1>5 DEF Stored
<1>8. ASSUME NEW y \in Chunks, AlongCuts(y) PROVE AlongCuts(y)'
  <2>1. y.source \in Sources /\ y.offset \in Nat /\ End(y) \in Nat
    BY ChunkFacts
  <2>2. y.offset \in cuts'[y.source] /\ End(y) \in cuts'[y.source]
    BY <1>4, <1>8, <2>1 DEF AlongCuts
  <2>3. ASSUME y.source \notin straddled', NEW b \in cuts'[y.source] PROVE b <= y.offset \/ End(y) <= b
    <3>1. CASE b \in cuts[y.source]
      BY <1>4, <1>8, <2>3, <3>1 DEF AlongCuts
    <3>2. CASE b \notin cuts[y.source]
      <4>1. y.source = s /\ b = End(x)
        BY <1>4, <2>1, <2>3, <3>2
      <4>2. \A k \in cuts[s] : k <= x.offset
        BY <1>4, <1>6, <2>3, <3>2, <4>1
      <4>3. End(y) <= x.offset
        BY <1>8, <4>1, <4>2 DEF AlongCuts
      <4>4. QED
        BY <1>2, <2>1, <4>1, <4>3
    <3>3. QED
      BY <3>1, <3>2
  <2>4. QED
    BY <2>2, <2>3 DEF AlongCuts, End
<1>9. AlongCuts(x)'
  <2>1. \A b \in cuts'[s] : s \notin straddled' => b <= x.offset \/ End(x) <= b
    BY <1>2, <1>4, <1>7
  <2>2. x.offset \in cuts'[s] /\ End(x) \in cuts'[s]
    BY <1>3, <1>4
  <2>3. QED
    BY <2>1, <2>2 DEF AlongCuts, End
<1>10. ChunksInv'
  <2>1. \A y \in objects' : AlongCuts(y)'
    BY <1>1, <1>4, <1>8, <1>9 DEF ChunksInv, TypeOK
  <2>2. \A c \in Controllers : \A y \in fetched'[c] : AlongCuts(y)'
    BY <1>1, <1>8 DEF ChunksInv, TypeOK
  <2>3. QED
    BY <2>1, <2>2 DEF ChunksInv
<1>11. GapInv'
  <2> SUFFICES ASSUME NEW t \in Sources \ straddled', NEW a \in cuts'[t], NEW b \in cuts'[t], a < b
               PROVE  \E k \in cuts'[t] : a < k /\ k <= a + ChunkBytes
    BY DEF GapInv
  <2>1. t \in Sources \ straddled
    BY <1>4
  <2>2. CASE cuts'[t] = cuts[t]
    BY <1>1, <2>1, <2>2 DEF GapInv
  <2>3. CASE cuts'[t] # cuts[t]
    <3>1. t = s /\ \A k \in cuts[s] : k <= x.offset
      BY <1>4, <1>6, <2>3
    <3>2. a \in cuts[s]
      BY <1>2, <1>4, <1>5, <3>1
    <3>3. CASE a = x.offset
      BY <1>2, <1>3, <1>4, <3>1, <3>3
    <3>4. CASE a # x.offset
      <4>1. a < x.offset
        BY <1>2, <1>5, <3>1, <3>2, <3>4
      <4>2. PICK k \in cuts[s] : a < k /\ k <= a + ChunkBytes
        BY <1>1, <1>3, <2>1, <3>1, <3>2, <4>1 DEF GapInv
      <4>3. QED
        BY <1>4, <3>1, <4>2
    <3>5. QED
      BY <3>3, <3>4
  <2>4. QED
    BY <2>2, <2>3
<1>12. AckInv'
  BY <1>1, <1>4, ChunkFacts DEF AckInv, InHand, Holds, End, Key, TypeOK
<1>13. CoveredInv'
  <2> SUFFICES ASSUME NEW t \in Sources \ straddled', NEW k \in cuts'[t], NEW b \in 0..(k - 1)
               PROVE  Safe(t, b)'
    BY DEF CoveredInv
  <2>1. t \in Sources \ straddled
    BY <1>4
  <2>2. ASSUME Safe(t, b) PROVE Safe(t, b)'
    <3>1. CASE b \in DOMAIN local[t]
      BY <3>1 DEF Safe
    <3>2. ASSUME NEW y \in objects, y.source = t, y.offset <= b, b < End(y) PROVE Safe(t, b)'
      <4>1. CASE Key(y) # Key(x)
        <5>1. y \in objects'
          BY <1>4, <4>1
        <5>2. QED
          BY <3>2, <5>1 DEF Safe, End
      <4>2. CASE Key(y) = Key(x)
        <5>1. TypeOK' /\ y \in Chunks /\ AlongCuts(y)' /\ AlongCuts(x)'
          BY <1>1, <1>8, <1>9 DEF LogInv, ChunksInv, TypeOK
        <5>2. y.source = x.source /\ y.offset = x.offset /\ x.source \notin straddled'
          BY <3>2, <4>2 DEF Key
        <5>3. End(y) = End(x)
          BY <5>1, <5>2, ChunkFacts DEF AlongCuts, End
        <5>4. x \in objects'
          BY <1>4
        <5>5. QED
          BY <3>2, <5>2, <5>3, <5>4 DEF Safe, End
      <4>3. QED
        BY <4>1, <4>2
    <3>3. QED
      BY <2>2, <3>1, <3>2 DEF Safe
  <2>3. CASE k \in cuts[t]
    BY <1>1, <2>1, <2>2, <2>3 DEF CoveredInv
  <2>4. CASE k \notin cuts[t]
    <3>1. t = s /\ k = End(x)
      BY <1>4, <2>4
    <3>2. CASE b < x.offset
      <4>1. b \in 0..(x.offset - 1)
        BY <1>2, <3>2
      <4>2. QED
        BY <1>1, <1>3, <2>1, <2>2, <3>1, <4>1 DEF CoveredInv
    <3>3. CASE x.offset <= b
      <4>1. x \in objects' /\ b < End(x)
        BY <1>2, <1>4, <3>1
      <4>2. QED
        BY <3>1, <3>3, <4>1 DEF Safe, End
    <3>4. QED
      BY <1>2, <3>2, <3>3
  <2>5. QED
    BY <2>3, <2>4
<1>14. \A t \in Sources : cuts[t] \subseteq cuts'[t] /\ \A b \in cuts'[t] : b <= file[t]
  <2>1. End(x) <= file[s]
    BY ConstantsAssumption DEF DeliveryInv, LogInv, InFile
  <2>2. QED
    BY <1>1, <1>4, <2>1 DEF CutsInv
<1>15. QED
  BY <1>4, <1>10, <1>11, <1>12, <1>13, <1>14

\* A step of a refresh: what it leaves alone, and what has to be seen of the
\* rest. An object that it deletes is stored.
LEMMA RefreshKeepsDelivery ==
  ASSUME DeliveryInv, NEW c \in Controllers,
         UNCHANGED <<file, phase, marker, cache, apc, work, cuts, straddled>>,
         objects' \subseteq objects,
         \A d \in Controllers \ {c} : cpc'[d] = cpc[d] /\ fetched'[d] = fetched[d],
         \A s \in Sources : DOMAIN local[s] \subseteq DOMAIN local'[s],
         \A s \in Sources : next'[s] \in cuts[s],
         \A x \in fetched'[c] : AlongCuts(x),
         \A x \in fetched'[c] :
           InHand(c, x)' /\ cpc'[c] = "ack" /\ x.source \notin straddled => Holds(x.source, End(x))',
         \A y \in objects \ objects' : y.source \notin straddled => Holds(y.source, End(y))
  PROVE  CutsInv' /\ GapInv' /\ ChunksInv' /\ WorkInv' /\ AckInv' /\ CoveredInv'
<1>1. TypeOK /\ CutsInv /\ GapInv /\ ChunksInv /\ WorkInv /\ AckInv /\ CoveredInv
  BY DEF DeliveryInv, LogInv
<1>2. CutsInv' /\ GapInv'
  BY <1>1 DEF CutsInv, GapInv
<1>3. WorkInv'
  BY <1>1 DEF WorkInv, End
<1>4. ChunksInv'
  BY <1>1 DEF ChunksInv, AlongCuts, End
<1>5. AckInv'
  <2> SUFFICES ASSUME NEW d \in Controllers, NEW x \in fetched'[d], InHand(d, x)', cpc'[d] = "ack",
                      x.source \notin straddled
               PROVE  Holds(x.source, End(x))'
    BY DEF AckInv
  <2>1. CASE d = c
    BY <2>1
  <2>2. CASE d # c
    <3>1. x \in fetched[d] /\ InHand(d, x) /\ cpc[d] = "ack" /\ x \in Chunks
      BY <1>1, <2>2 DEF InHand, TypeOK
    <3>2. Holds(x.source, End(x)) /\ x.source \in Sources
      BY <1>1, <3>1, ChunkFacts DEF AckInv
    <3>3. QED
      BY <3>2 DEF Holds, End
  <2>3. QED
    BY <2>1, <2>2
<1>6. CoveredInv'
  <2> SUFFICES ASSUME NEW s \in Sources \ straddled, NEW k \in cuts[s], NEW b \in 0..(k - 1)
               PROVE  Safe(s, b)'
    BY DEF CoveredInv
  <2>1. Safe(s, b)
    BY <1>1 DEF CoveredInv
  <2>2. CASE b \in DOMAIN local[s]
    BY <2>2 DEF Safe
  <2>3. ASSUME NEW x \in objects, x.source = s, x.offset <= b, b < End(x) PROVE Safe(s, b)'
    <3>1. CASE x \in objects'
      BY <2>3, <3>1 DEF Safe, End
    <3>2. CASE x \notin objects'
      <4>1. Holds(s, End(x)) /\ End(x) \in Nat /\ b \in Nat
        BY <1>1, <2>3, <3>2, ChunkFacts DEF TypeOK
      <4>2. b \in DOMAIN local[s]
        BY <2>3, <4>1 DEF Holds
      <4>3. QED
        BY <4>2 DEF Safe
    <3>3. QED
      BY <3>1, <3>2
  <2>4. QED
    BY <2>1, <2>2, <2>3 DEF Safe
<1>7. QED
  BY <1>2, <1>3, <1>4, <1>5, <1>6

\* What an acknowledgement deletes is what was stored: the object of the key is
\* still the chunk that was fetched.
LEMMA DeletedIsStored ==
  ASSUME DeliveryInv, NEW c \in Controllers, NEW x \in fetched[c], InHand(c, x), cpc[c] = "ack",
         NEW y \in objects, Key(y) = Key(x), y.source \notin straddled
  PROVE  Holds(y.source, End(y))
<1>1. TypeOK /\ ChunksInv /\ AckInv
  BY DEF DeliveryInv, LogInv
<1>2. x \in Chunks /\ y \in Chunks /\ AlongCuts(x) /\ AlongCuts(y)
  BY <1>1 DEF ChunksInv, TypeOK
<1>3. x = y
  <2>1. x.source \notin straddled
    BY DEF Key
  <2>2. QED
    BY <1>1, <1>2, <2>1, SameKeySameChunk
<1>4. QED
  BY <1>1, <1>3 DEF AckInv

\* next_offset is never inside a chunk: what begins before it ends before it.
LEMMA CountedIsStored ==
  ASSUME DeliveryInv, NEW c \in Controllers, NEW x \in fetched[c], x.offset < next[x.source],
         x.source \notin straddled
  PROVE  Holds(x.source, End(x))
<1>1. TypeOK /\ ChunksInv /\ CutsInv /\ LogInv
  BY DEF DeliveryInv, LogInv
<1>2. x \in Chunks /\ AlongCuts(x)
  BY <1>1 DEF ChunksInv, TypeOK
<1>3. x.source \in Sources /\ x.offset \in Nat /\ End(x) \in Nat /\ next[x.source] \in Nat
  BY <1>1, <1>2, ChunkFacts DEF TypeOK
<1>4. End(x) <= next[x.source]
  BY <1>1, <1>2, <1>3 DEF AlongCuts, CutsInv
<1>5. PICK n \in Nat : next[x.source] <= n /\ DOMAIN local[x.source] = 0..(n - 1)
  BY <1>1, <1>3, Reaches
<1>6. QED
  BY <1>3, <1>4, <1>5 DEF Holds

\* Every step of a refresh keeps the invariant ...
LEMMA ControllerKeepsDelivery ==
  ASSUME DeliveryInv, LogInv', NEW c \in Controllers, RefreshStep(c) PROVE DeliveryInv'
<1>0. TypeOK /\ LogInv /\ CutsInv /\ ChunksInv /\ RefreshOK(c)
  BY DEF DeliveryInv, LogInv
<1>a. \A s \in Sources : next[s] \in cuts[s]
  BY <1>0 DEF CutsInv
<1>b. \A x \in fetched[c] : AlongCuts(x) /\ x \in Chunks
  BY <1>0 DEF ChunksInv, TypeOK
<1> USE DEF fileVars, shipVars, storeVars, passVars, historyVars
<1>1. CASE ListLogs(c)
  <2>1. /\ UNCHANGED <<file, phase, marker, cache, apc, work, cuts, straddled, objects, local, next, fetched>>
        /\ cpc'[c] = "fetch" /\ \A d \in Controllers \ {c} : cpc'[d] = cpc[d]
    BY <1>0, <1>1 DEF ListLogs, TypeOK
  <2>2. QED
    BY <1>a, <1>b, <2>1, RefreshKeepsDelivery DEF DeliveryInv
<1>2. CASE FetchLog(c)
  <2>1. PICK k \in listed[c] :
          fetched' = [fetched EXCEPT ![c] = @ \cup {x \in objects : Key(x) = k}]
    BY <1>2 DEF FetchLog
  <2>2. /\ UNCHANGED <<file, phase, marker, cache, apc, work, cuts, straddled, objects, local, next, cpc>>
        /\ cpc[c] = "fetch"
    BY <1>2 DEF FetchLog
  <2>3. /\ fetched'[c] = fetched[c] \cup {x \in objects : Key(x) = k}
        /\ \A d \in Controllers \ {c} : fetched'[d] = fetched[d]
    BY <1>0, <2>1 DEF TypeOK
  <2>4. \A x \in fetched'[c] : AlongCuts(x)
    BY <1>0, <2>3 DEF ChunksInv
  <2>5. QED
    BY <1>a, <2>2, <2>3, <2>4, RefreshKeepsDelivery DEF DeliveryInv
<1>3. CASE FetchDone(c)
  <2>1. /\ UNCHANGED <<file, phase, marker, cache, apc, work, cuts, straddled, objects, local, next, fetched>>
        /\ cpc'[c] = "ingest" /\ \A d \in Controllers \ {c} : cpc'[d] = cpc[d]
    BY <1>0, <1>3 DEF FetchDone, TypeOK
  <2>2. QED
    BY <1>a, <1>b, <2>1, RefreshKeepsDelivery DEF DeliveryInv
<1>4. ASSUME NEW x \in fetched[c], Ingest(c, x) PROVE DeliveryInv'
  <2>1. /\ UNCHANGED <<file, phase, marker, cache, apc, work, cuts, straddled, objects, local, next>>
        /\ InHand(c, x)
    BY <1>4 DEF Ingest
  <2>2. /\ fetched'[c] \subseteq fetched[c]
        /\ \A d \in Controllers \ {c} : cpc'[d] = cpc[d] /\ fetched'[d] = fetched[d]
    BY <1>0, <1>4 DEF Ingest, RefreshEnds, TypeOK
  <2>3. ASSUME NEW y \in fetched'[c], InHand(c, y)', cpc'[c] = "ack", y.source \notin straddled
        PROVE  Holds(y.source, End(y))'
    <3>1. ~(x.offset > next[x.source]) /\ fetched' = fetched /\ x.offset # next[x.source]
      BY <1>0, <1>4, <2>3 DEF Ingest, RefreshEnds, TypeOK
    <3>2. y = x
      <4>1. InHand(c, y)
        BY <2>3, <3>1 DEF InHand
      <4>2. QED
        BY <1>0, <2>1, <4>1, OneInHand
    <3>3. x.offset < next[x.source]
      <4>1. x.offset \in Nat /\ next[x.source] \in Nat
        BY <1>0, <1>b, ChunkFacts DEF TypeOK
      <4>2. QED
        BY <3>1, <4>1
    <3>4. Holds(y.source, End(y))
      BY <2>3, <3>2, <3>3, CountedIsStored
    <3>5. QED
      BY <2>1, <3>4 DEF Holds, End
  <2>4. QED
    BY <1>a, <1>b, <2>1, <2>2, <2>3, RefreshKeepsDelivery DEF DeliveryInv
<1>5. ASSUME NEW x \in fetched[c], WriteLog(c, x) PROVE DeliveryInv'
  <2>1. /\ UNCHANGED <<file, phase, marker, cache, apc, work, cuts, straddled, objects, next, fetched>>
        /\ InHand(c, x) /\ cpc[c] = "write"
        /\ local' = [local EXCEPT ![x.source] = WrittenTo(@, x)]
        /\ cpc' = [cpc EXCEPT ![c] = "commit"]
    BY <1>5 DEF WriteLog
  <2>2. \A s \in Sources : DOMAIN local[s] \subseteq DOMAIN local'[s]
    <3>1. Holds(x.source, x.offset) /\ InFile(x)
      BY <1>0, <2>1 DEF RefreshOK
    <3>2. QED
      BY <1>0, <1>b, <2>1, <3>1, ChunkFacts, WriteStep
  <2>3. cpc'[c] = "commit" /\ \A d \in Controllers \ {c} : cpc'[d] = cpc[d]
    BY <1>0, <2>1 DEF TypeOK
  <2>4. QED
    BY <1>a, <1>b, <2>1, <2>2, <2>3, RefreshKeepsDelivery DEF DeliveryInv
<1>6. ASSUME NEW x \in fetched[c], CommitOffset(c, x) PROVE DeliveryInv'
  <2>1. /\ UNCHANGED <<file, phase, marker, cache, apc, work, cuts, straddled, objects, local, fetched>>
        /\ InHand(c, x) /\ cpc[c] = "commit"
        /\ next' = [next EXCEPT ![x.source] = End(x)]
        /\ cpc' = [cpc EXCEPT ![c] = "ack"]
    BY <1>6 DEF CommitOffset, SetNext
  <2>2. \A s \in Sources : next'[s] \in cuts[s]
    BY <1>0, <1>a, <1>b, <2>1 DEF AlongCuts, TypeOK
  <2>3. \A d \in Controllers \ {c} : cpc'[d] = cpc[d]
    BY <1>0, <2>1 DEF TypeOK
  <2>4. ASSUME NEW y \in fetched'[c], InHand(c, y)' PROVE Holds(y.source, End(y))'
    <3>1. InHand(c, y)
      BY <2>1, <2>4 DEF InHand
    <3>2. Holds(y.source, End(y))
      BY <1>0, <2>1, <3>1 DEF RefreshOK, InHand
    <3>3. QED
      BY <2>1, <3>2 DEF Holds, End
  <2>5. QED
    BY <1>b, <2>1, <2>2, <2>3, <2>4, RefreshKeepsDelivery DEF DeliveryInv
<1>7. ASSUME NEW x \in fetched[c], Acknowledge(c, x) PROVE DeliveryInv'
  <2>1. /\ UNCHANGED <<file, phase, marker, cache, apc, work, cuts, straddled, next, local>>
        /\ InHand(c, x) /\ cpc[c] = "ack"
        /\ objects' = {y \in objects : Key(y) # Key(x)}
    BY <1>7 DEF Acknowledge
  <2>2. /\ cpc'[c] = "ingest" /\ fetched'[c] \subseteq fetched[c]
        /\ \A d \in Controllers \ {c} : cpc'[d] = cpc[d] /\ fetched'[d] = fetched[d]
    BY <1>0, <1>7 DEF Acknowledge, TypeOK
  <2>3. \A y \in objects \ objects' : y.source \notin straddled => Holds(y.source, End(y))
    BY <2>1, DeletedIsStored
  <2>4. QED
    BY <1>a, <1>b, <2>1, <2>2, <2>3, RefreshKeepsDelivery DEF DeliveryInv
<1>8. CASE RefreshDone(c)
  <2>1. /\ UNCHANGED <<file, phase, marker, cache, apc, work, cuts, straddled, objects, local, next>>
        /\ fetched'[c] = {}
        /\ \A d \in Controllers \ {c} : cpc'[d] = cpc[d] /\ fetched'[d] = fetched[d]
    BY <1>0, <1>8 DEF RefreshDone, RefreshEnds, TypeOK
  <2>2. QED
    BY <1>a, <2>1, RefreshKeepsDelivery DEF DeliveryInv
<1>9. QED
  BY <1>1, <1>2, <1>3, <1>4, <1>5, <1>6, <1>7, <1>8 DEF RefreshStep

\* ... and so does one that fails.
LEMMA FailureKeepsDelivery ==
  ASSUME DeliveryInv, LogInv', NEW c \in Controllers, RefreshFails(c) PROVE DeliveryInv'
<1>0. TypeOK /\ LogInv /\ CutsInv /\ ChunksInv /\ RefreshOK(c)
  BY DEF DeliveryInv, LogInv
<1>a. \A s \in Sources : next[s] \in cuts[s]
  BY <1>0 DEF CutsInv
<1>b. \A x \in fetched[c] : AlongCuts(x) /\ x \in Chunks
  BY <1>0 DEF ChunksInv, TypeOK
<1> USE DEF fileVars, shipVars, storeVars, historyVars
<1>1. /\ UNCHANGED <<file, phase, marker, cache, apc, work, cuts, straddled>>
      /\ fetched'[c] = {}
      /\ \A d \in Controllers \ {c} : cpc'[d] = cpc[d] /\ fetched'[d] = fetched[d]
  BY <1>0 DEF RefreshFails, RefreshEnds, TypeOK
<1>2. SUFFICES /\ objects' \subseteq objects
               /\ \A s \in Sources : DOMAIN local[s] \subseteq DOMAIN local'[s]
               /\ \A s \in Sources : next'[s] \in cuts[s]
               /\ \A y \in objects \ objects' : y.source \notin straddled => Holds(y.source, End(y))
  BY <1>1, RefreshKeepsDelivery DEF DeliveryInv
<1>3. CASE UNCHANGED <<objects, next, local>>
  BY <1>a, <1>3
<1>4. ASSUME NEW x \in fetched[c], cpc[c] = "write", InHand(c, x), UNCHANGED <<objects, next>>,
             NEW n \in 1..x.len, local' = [local EXCEPT ![x.source] = WrittenTo(@, [x EXCEPT !.len = n])]
      PROVE  \A s \in Sources : DOMAIN local[s] \subseteq DOMAIN local'[s]
  <2>1. x.source \in Sources
    BY <1>b, ChunkFacts
  <2>2. DOMAIN local = Sources
    BY <1>0 DEF TypeOK
  <2>3. QED
    BY <1>4, <2>1, <2>2 DEF WrittenTo
<1>5. ASSUME NEW x \in fetched[c], UNCHANGED <<objects, local>>,
             next' = [next EXCEPT ![x.source] = End(x)]
      PROVE  \A s \in Sources : next'[s] \in cuts[s]
  BY <1>0, <1>a, <1>b, <1>5 DEF AlongCuts, TypeOK
<1>6. ASSUME NEW x \in fetched[c], cpc[c] = "ack", InHand(c, x),
             objects' = {y \in objects : Key(y) # Key(x)}
      PROVE  \A y \in objects \ objects' : y.source \notin straddled => Holds(y.source, End(y))
  BY <1>6, DeletedIsStored
<1>7. QED
  BY <1>a, <1>3, <1>4, <1>5, <1>6 DEF RefreshFails, SetNext

\* What ship_once reads begins at a cut, and if there are later cuts it ends at
\* the first of them, or after it.
LEMMA ReadAlongCuts ==
  ASSUME DeliveryInv, NEW s \in Sources, ~(file[s] <= Offset(s))
  PROVE  /\ ChunkAt(s).source = s /\ ChunkAt(s).offset = Offset(s) /\ Offset(s) \in cuts[s]
         /\ End(ChunkAt(s)) <= Offset(s) + ChunkBytes
         /\ s \notin straddled => \A b \in cuts[s] :
              Offset(s) < b => \E k \in cuts[s] : Offset(s) < k /\ k <= End(ChunkAt(s))
<1>1. TypeOK /\ CutsInv /\ GapInv
  BY DEF DeliveryInv, LogInv
<1>2. Offset(s) \in cuts[s]
  BY <1>1 DEF Offset, CutsInv, TypeOK
<1>3. Offset(s) \in Nat /\ file[s] \in Nat /\ ChunkBytes \in Nat \ {0} /\ \A b \in cuts[s] : b \in Nat
  BY <1>1, <1>2, ConstantsAssumption DEF TypeOK
<1> DEFINE left == file[s] - Offset(s)
           len == IF left < ChunkBytes THEN left ELSE ChunkBytes
<1>4. ChunkAt(s) = [source |-> s, offset |-> Offset(s), len |-> len]
  BY DEF ChunkAt
<1>5. /\ len \in Nat /\ Offset(s) + len <= Offset(s) + ChunkBytes
      /\ \A k \in Nat : k <= Offset(s) + ChunkBytes /\ k <= file[s] => k <= Offset(s) + len
  BY <1>3
<1> HIDE DEF len
<1>6. /\ ChunkAt(s).source = s /\ ChunkAt(s).offset = Offset(s)
      /\ End(ChunkAt(s)) = Offset(s) + len
  BY <1>4 DEF End
<1>7. ASSUME s \notin straddled, NEW b \in cuts[s], Offset(s) < b
      PROVE  \E k \in cuts[s] : Offset(s) < k /\ k <= End(ChunkAt(s))
  <2>1. PICK k \in cuts[s] : Offset(s) < k /\ k <= Offset(s) + ChunkBytes
    BY <1>1, <1>2, <1>7 DEF GapInv
  <2>2. k \in Nat /\ k <= file[s]
    BY <1>1, <1>3 DEF CutsInv
  <2>3. k <= End(ChunkAt(s))
    BY <1>5, <1>6, <2>1, <2>2
  <2>4. QED
    BY <2>1, <2>3
<1>8. QED
  BY <1>2, <1>5, <1>6, <1>7

\* Every step keeps the invariant.
LEMMA NextKeepsDelivery == DeliveryInv /\ [Next]_vars => DeliveryInv'
<1> SUFFICES ASSUME DeliveryInv, [Next]_vars PROVE DeliveryInv'
  OBVIOUS
<1>0. TypeOK /\ LogInv /\ LogInv' /\ TypeOK' /\ CutsInv /\ WorkInv
  BY NextKeepsLogInv DEF DeliveryInv, LogInv
<1> USE DEF fileVars, shipVars, storeVars, passVars, historyVars, PassEnds
<1>1. ASSUME NEW s \in Sources, Append(s) PROVE DeliveryInv'
  <2>1. /\ UNCHANGED <<objects, next, local, cpc, fetched, cuts, straddled, phase, marker, cache, apc, work>>
        /\ phase[s] = "open" /\ file'[s] = file[s] + 1 /\ \A t \in Sources \ {s} : file'[t] = file[t]
    BY <1>0, <1>1 DEF Append, TypeOK
  <2>2. CutsInv'
    <3>1. ASSUME NEW t \in Sources, NEW b \in cuts[t] PROVE b <= file'[t]
      BY <1>0, <2>1 DEF CutsInv, TypeOK
    <3>2. QED
      BY <1>0, <2>1, <3>1 DEF CutsInv
  <2>3. WorkInv'
    BY <1>0, <2>1 DEF WorkInv, End
  <2>4. QED
    BY <1>0, <2>1, <2>2, <2>3, NothingStored DEF DeliveryInv
<1>2. ASSUME NEW s \in Sources, Close(s) \/ Cleanup(s) PROVE DeliveryInv'
  <2>1. UNCHANGED <<objects, next, local, cpc, fetched, cuts, straddled, file, cache, apc, work>>
    BY <1>2 DEF Close, Cleanup
  <2>2. CutsInv'
    <3>1. CASE Close(s)
      BY <1>0, <2>1, <3>1 DEF Close, CutsInv, TypeOK
    <3>2. CASE Cleanup(s)
      <4>1. file[s] \in cuts[s]
        BY <1>0, <3>2 DEF Cleanup, CutsInv, TypeOK
      <4>2. QED
        BY <1>0, <2>1, <3>2, <4>1 DEF Cleanup, CutsInv, TypeOK
    <3>3. QED
      BY <1>2, <3>1, <3>2
  <2>3. WorkInv'
    BY <1>0, <2>1 DEF WorkInv, End
  <2>4. QED
    BY <1>0, <2>1, <2>2, <2>3, NothingStored DEF DeliveryInv
<1>3. CASE BeginPass \/ EndPass
  <2>1. /\ UNCHANGED <<objects, next, local, cpc, fetched, cuts, straddled, file, phase, marker, cache>>
        /\ apc' \in {"pass", "sleep"}
    BY <1>3 DEF BeginPass, EndPass
  <2>2. CutsInv' /\ WorkInv'
    BY <1>0, <2>1 DEF CutsInv, WorkInv
  <2>3. QED
    BY <1>0, <2>1, <2>2, NothingStored DEF DeliveryInv
<1>4. ASSUME NEW s \in Sources, VisitSource(s) PROVE DeliveryInv'
  <2>1. UNCHANGED <<objects, next, local, cpc, fetched, cuts, straddled, file, phase, marker, cache>>
    BY <1>4 DEF VisitSource
  <2>2. CutsInv'
    BY <1>0, <2>1 DEF CutsInv
  <2>3. WorkInv'
    <3>1. CASE phase[s] = "gone" \/ file[s] <= Offset(s)
      <4>1. apc' \in {"pass", "sleep"}
        BY <1>4, <3>1 DEF VisitSource
      <4>2. QED
        BY <4>1 DEF WorkInv
    <3>2. CASE ~(phase[s] = "gone" \/ file[s] <= Offset(s))
      <4>1. apc' = "publish" /\ work' = ChunkAt(s)
        BY <1>4, <3>2 DEF VisitSource
      <4>2. /\ work'.source = s /\ work'.offset = Offset(s) /\ End(work)' = End(ChunkAt(s))
            /\ Offset(s) \in cuts[s] /\ End(ChunkAt(s)) <= Offset(s) + ChunkBytes
            /\ s \notin straddled => \A b \in cuts[s] :
                 Offset(s) < b => \E k \in cuts[s] : Offset(s) < k /\ k <= End(ChunkAt(s))
        BY <3>2, <4>1, ReadAlongCuts DEF End
      <4>3. QED
        BY <2>1, <4>1, <4>2 DEF WorkInv
    <3>3. QED
      BY <3>1, <3>2
  <2>4. QED
    BY <1>0, <2>1, <2>2, <2>3, NothingStored DEF DeliveryInv
<1>5. CASE PublishChunk
  <2>1. PICK x \in Chunks : x = work
    BY <1>0, <1>5 DEF PublishChunk, TypeOK
  <2>2. /\ UNCHANGED <<next, local, cpc, fetched, file, phase, marker, cache>> /\ apc = "publish"
        /\ \/ Stored(x) /\ apc' = "mark" /\ work' = x
           \/ Stored(x) /\ apc' = "sleep"
           \/ UNCHANGED <<objects, cuts, straddled>> /\ apc' = "sleep"
    BY <1>5, <2>1 DEF PublishChunk
  <2>3. CASE Stored(x)
    <3>1. /\ GapInv' /\ ChunksInv' /\ AckInv' /\ CoveredInv'
          /\ \A t \in Sources : cuts[t] \subseteq cuts'[t] /\ \A b \in cuts'[t] : b <= file[t]
          /\ End(x) \in cuts'[x.source]
      BY <1>0, <2>1, <2>2, <2>3, StoredKeepsDelivery
    <3>2. CutsInv'
      BY <1>0, <2>2, <3>1 DEF CutsInv
    <3>3. WorkInv'
      BY <2>2, <3>1 DEF WorkInv, End
    <3>4. QED
      BY <1>0, <3>1, <3>2, <3>3 DEF DeliveryInv
  <2>4. CASE UNCHANGED <<objects, cuts, straddled>> /\ apc' = "sleep"
    <3>1. CutsInv' /\ WorkInv'
      BY <1>0, <2>2, <2>4 DEF CutsInv, WorkInv
    <3>2. QED
      BY <1>0, <2>2, <2>4, <3>1, NothingStored DEF DeliveryInv
  <2>5. QED
    BY <2>2, <2>3, <2>4
<1>6. CASE WriteMarker
  <2>1. /\ UNCHANGED <<objects, next, local, cpc, fetched, cuts, straddled, file, phase>>
        /\ apc = "mark" /\ apc' \in {"pass", "sleep"}
    BY <1>6 DEF WriteMarker
  <2>2. work \in Chunks /\ work.source \in Sources /\ End(work) \in Nat /\ End(work) \in cuts[work.source]
    BY <1>0, <2>1, ChunkFacts DEF TypeOK, WorkInv
  <2>3. ASSUME NEW t \in Sources
        PROVE  marker'[t] \in cuts[t] /\ (cache'[t] # -1 => cache'[t] \in cuts[t])
    BY <1>0, <1>6, <2>2 DEF WriteMarker, CutsInv, TypeOK
  <2>4. CutsInv' /\ WorkInv'
    BY <1>0, <2>1, <2>3 DEF CutsInv, WorkInv
  <2>5. QED
    BY <1>0, <2>1, <2>4, NothingStored DEF DeliveryInv
<1>7. CASE AgentCrash
  <2>1. /\ UNCHANGED <<next, local, cpc, fetched, file, phase>> /\ apc' = "sleep"
        /\ \A t \in Sources : cache'[t] = -1
    BY <1>7 DEF AgentCrash
  <2>2. WorkInv'
    BY <2>1 DEF WorkInv
  <2>3. ASSUME NEW t \in Sources PROVE marker'[t] \in cuts[t]
    <3>1. CASE apc = "mark"
      <4>1. work \in Chunks /\ work.source \in Sources /\ End(work) \in cuts[work.source]
        BY <1>0, <3>1, ChunkFacts DEF TypeOK, WorkInv
      <4>2. QED
        BY <1>0, <1>7, <3>1, <4>1 DEF AgentCrash, CutsInv, TypeOK
    <3>2. CASE apc # "mark"
      BY <1>0, <1>7, <3>2 DEF AgentCrash, CutsInv
    <3>3. QED
      BY <3>1, <3>2
  <2>4. CASE apc = "publish" /\ Stored(work)
    <3>1. PICK x \in Chunks : x = work
      BY <1>0, <2>4 DEF TypeOK
    <3>2. /\ GapInv' /\ ChunksInv' /\ AckInv' /\ CoveredInv'
          /\ \A t \in Sources : cuts[t] \subseteq cuts'[t] /\ \A b \in cuts'[t] : b <= file[t]
      BY <1>0, <2>1, <2>4, <3>1, StoredKeepsDelivery
    <3>3. CutsInv'
      BY <1>0, <2>1, <2>3, <3>2 DEF CutsInv
    <3>4. QED
      BY <1>0, <2>2, <3>2, <3>3 DEF DeliveryInv
  <2>5. CASE UNCHANGED <<objects, cuts, straddled>>
    <3>1. CutsInv'
      BY <1>0, <2>1, <2>3, <2>5 DEF CutsInv
    <3>2. QED
      BY <1>0, <2>1, <2>2, <2>5, <3>1, NothingStored DEF DeliveryInv
  <2>6. QED
    BY <1>7, <2>4, <2>5 DEF AgentCrash
<1>8. ASSUME NEW c \in Controllers, RefreshStep(c) PROVE DeliveryInv'
  BY <1>0, <1>8, ControllerKeepsDelivery
<1>9. ASSUME NEW c \in Controllers, RefreshFails(c) PROVE DeliveryInv'
  BY <1>0, <1>9, FailureKeepsDelivery
<1>10. CASE UNCHANGED vars
  <2>1. CutsInv' /\ WorkInv'
    BY <1>0, <1>10 DEF vars, CutsInv, WorkInv, End
  <2>2. QED
    BY <1>0, <1>10, <2>1, NothingStored DEF DeliveryInv, vars
<1>11. QED
  BY <1>1, <1>2, <1>3, <1>4, <1>5, <1>6, <1>7, <1>8, <1>9, <1>10 DEF Next, ShipStep

\* Cleanup never turns an outage, a crash or a torn marker into data loss: every
\* byte that the agent counts as shipped, those of the files it has removed
\* included, is in the central log or in an object, in a log no replay of which
\* was cut differently.
THEOREM ShippedIsKept == Spec => []NoByteLost
<1>1. DeliveryInv => NoByteLost
  <2> SUFFICES ASSUME DeliveryInv, NEW s \in Sources \ straddled, NEW b \in 0..(Shipped(s) - 1)
               PROVE  Safe(s, b)
    BY DEF NoByteLost, Safe
  <2>1. TypeOK /\ CutsInv /\ CoveredInv
    BY DEF DeliveryInv, LogInv
  <2>2. Shipped(s) \in cuts[s]
    BY <2>1 DEF Shipped, Offset, CutsInv, TypeOK
  <2>3. QED
    BY <2>1, <2>2 DEF CoveredInv
<1>2. QED
  BY InitEstablishesDelivery, NextKeepsDelivery, <1>1, PTL DEF Spec
===============================================================================
