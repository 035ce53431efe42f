---------------------------- MODULE ShareProofs ---------------------------
(***************************************************************************)
(* Proofs about Share, for any number of publishers and readers of a name, *)
(* any file sizes, any degree of concurrency and any number of faults: a   *)
(* fetch yields the whole of one finished upload or nothing.               *)
(***************************************************************************)
EXTENDS Share, TLAPS

LEMMA InitEstablishesShareInv == Init => ShareInv
BY ConstantsAssumption DEF Init, ShareInv, FetchedWhole

\* Steps that leave share_get alone, never un-finish an upload, and put no
\* manifest but that of an upload that has ended.
LEMMA QuietStep ==
  ASSUME ShareInv, UNCHANGED getVars,
         pc' \in [Uploads -> {"idle", "upload", "done", "failed"}],
         \A u \in Uploads : pc[u] \in {"done", "failed"} => pc'[u] \in {"done", "failed"},
         \/ manifest' \in {manifest, NoUpload}
         \/ manifest' \in Uploads /\ pc'[manifest'] \in {"done", "failed"}
  PROVE  ShareInv'
BY ConstantsAssumption DEF ShareInv, FetchedWhole, getVars

\* share_get changes nothing of the name itself.
LEMMA GetFailsKeepsShareInv ==
  ASSUME ShareInv, NEW r \in Readers, rpc[r] \in {"idle", "fetch"}, GetFails(r),
         UNCHANGED <<manifest, pc>>
  PROVE  ShareInv'
BY ConstantsAssumption DEF ShareInv, FetchedWhole, GetFails

LEMMA NextKeepsShareInv == ShareInv /\ [Next]_vars => ShareInv'
<1> SUFFICES ASSUME ShareInv, [Next]_vars PROVE ShareInv'
  OBVIOUS
<1>0. /\ pc \in [Uploads -> {"idle", "upload", "done", "failed"}]
      /\ manifest \in Uploads \cup {NoUpload}
  BY DEF ShareInv
<1>1. ASSUME NEW u \in Uploads, StartPut(u) \/ SendChunk(u) \/ Expire(u) PROVE ShareInv'
  BY <1>0, <1>1, QuietStep DEF StartPut, SendChunk, Expire, bucketVars, putVars
<1>2. ASSUME NEW u \in Uploads, UploadFails(u) \/ UploaderDies(u) PROVE ShareInv'
  BY <1>0, <1>2, QuietStep DEF UploadFails, UploaderDies, bucketVars
<1>3. ASSUME NEW u \in Uploads, PutManifest(u) PROVE ShareInv'
  BY <1>0, <1>3, QuietStep DEF PutManifest
<1>4. ASSUME NEW u \in Uploads, NEW i \in Chunks, ChunkStored(u, i) \/ LateChunk(u, i)
      PROVE  ShareInv'
  BY <1>0, <1>4, QuietStep DEF ChunkStored, LateChunk
<1>5. ASSUME NEW d \in Deleters, DeleteStep(d) PROVE ShareInv'
  <2>1. CASE DeleteManifest(d) \/ ListShare(d)
    BY <1>0, <2>1, QuietStep DEF DeleteManifest, ListShare, bucketVars, putVars
  <2>2. CASE DeleteKey(d)
    BY <1>0, <2>2, QuietStep DEF DeleteKey, bucketVars, putVars
  <2>3. QED
    BY <1>5, <2>1, <2>2 DEF DeleteStep
<1>6. CASE ShareRemove \/ Sweep \/ SweepFails
  BY <1>0, <1>6, QuietStep
     DEF ShareRemove, Sweep, SweepStart, SweepExpired, SweepOrphans, SweepFails, bucketVars, putVars
<1>7. CASE Tick
  BY <1>0, <1>7, QuietStep DEF Tick, putVars
<1>8. ASSUME NEW r \in Readers, ReadManifest(r) PROVE ShareInv'
  <2>1. rpc[r] = "idle" /\ UNCHANGED <<manifest, pc>>
    BY <1>8 DEF ReadManifest, bucketVars, putVars
  <2>2. CASE manifest = NoUpload
    BY <1>8, <2>1, <2>2, GetFailsKeepsShareInv DEF ReadManifest
  <2>3. CASE manifest # NoUpload
    <3>1. /\ rpc' = [rpc EXCEPT ![r] = "fetch"]
          /\ have' = [have EXCEPT ![r] = manifest]
          /\ UNCHANGED dest
      BY <1>8, <2>3 DEF ReadManifest
    <3>2. dest[r] = <<>> /\ pc[manifest] \in {"done", "failed"} /\ manifest \in Uploads
      BY <2>1, <2>3 DEF ShareInv
    <3>3. FetchedWhole'
      BY <2>1, <3>1, <3>2 DEF ShareInv, FetchedWhole
    <3>4. QED
      BY <2>1, <2>3, <3>1, <3>2, <3>3 DEF ShareInv
  <2>4. QED
    BY <2>2, <2>3
<1>9. ASSUME NEW r \in Readers, FetchChunk(r) PROVE ShareInv'
  <2>1. rpc[r] = "fetch" /\ UNCHANGED <<manifest, pc>>
    BY <1>9 DEF FetchChunk, bucketVars, putVars
  <2>2. GetFails(r) \/ UNCHANGED <<rpc, have, dest>>
    BY <1>9 DEF FetchChunk
  <2>3. CASE GetFails(r)
    BY <2>1, <2>3, GetFailsKeepsShareInv
  <2>4. CASE UNCHANGED <<rpc, have, dest>>
    BY <2>1, <2>4 DEF ShareInv, FetchedWhole
  <2>5. QED
    BY <2>2, <2>3, <2>4
<1>10. ASSUME NEW r \in Readers, FinishGet(r) PROVE ShareInv'
  <2>1. rpc[r] = "fetch" /\ UNCHANGED <<manifest, pc>>
    BY <1>10 DEF FinishGet, bucketVars, putVars
  <2>2. CASE HashMatches(r)
    <3>1. /\ dest' = [dest EXCEPT ![r] = FullFile(have[r])]
          /\ rpc' = [rpc EXCEPT ![r] = "done"]
          /\ UNCHANGED have
      BY <1>10, <2>2 DEF FinishGet, HashMatches
    <3>2. QED
      BY <2>1, <3>1 DEF ShareInv, FetchedWhole
  <2>3. CASE ~HashMatches(r)
    BY <1>10, <2>1, <2>3, GetFailsKeepsShareInv DEF FinishGet
  <2>4. QED
    BY <2>2, <2>3
<1>11. ASSUME NEW r \in Readers, GetBreaks(r) PROVE ShareInv'
  BY <1>11, GetFailsKeepsShareInv DEF GetBreaks, bucketVars, putVars
<1>12. CASE UNCHANGED vars
  BY <1>0, <1>12, QuietStep DEF vars, bucketVars, putVars
<1>13. QED
  BY <1>1, <1>2, <1>3, <1>4, <1>5, <1>6, <1>7, <1>8, <1>9, <1>10, <1>11, <1>12 DEF Next

\* However publishers, removals and sweeps of one name overlap with a
\* share_get, the file it renames into place is the whole file of one upload.
THEOREM SharesArriveWhole == Spec => []FetchedWhole
<1>1. ShareInv => FetchedWhole
  BY DEF ShareInv
<1>2. QED
  BY InitEstablishesShareInv, NextKeepsShareInv, <1>1, PTL DEF Spec
==========================================================================
