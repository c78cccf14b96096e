---------------------------- MODULE DedupeProofs ----------------------------
(***************************************************************************)
(* What a dedupe run promises, for any number of scanners and requests:     *)
(* whatever fails, times out or is restarted, types hold and no object is   *)
(* left outside its bucket; a run that was alone and within its limit       *)
(* leaves every count exact and every layout canonical (Dedupe), and none   *)
(* of its steps does harm on the way.                                       *)
(*                                                                          *)
(* The invariant DedupeInv says of the store only what the scanners need    *)
(* (StoreInv), of every run the shape of its locals (ScansOK), and of a run *)
(* without overlaps what it knows (QuietInv): what it listed is what is     *)
(* committed, the counts it has yet to correct are as listed, the one it is *)
(* correcting is off by what is left to do, and the others are exact.       *)
(***************************************************************************)
EXTENDS Dedupe, ObjectStoreProofs

(***************************************************************************)
(* The store next to the scanners                                           *)
(***************************************************************************)
\* Layouts name directories: those in the cache, and those two calls of a
\* request are about to put there.
PlacedCache == \A o \in Objects : cache[o] # NoLayout => cache[o].dir \in Dirs

PlacedAt(l, r) ==
    /\ l = "get_cache" => r.dir \in Dirs
    /\ l = "rec_link" => r.exDir \in Dirs

Placed == PlacedCache /\ \A p \in Procs : PlacedAt(pc[p], req[p])

\* What every step of the composition keeps of the store.
StoreInv == TypeInv /\ NoObjectOutsideBuckets /\ Placed

\* The layout getLayout finds is in a directory.
LEMMA FoundPlaced ==
  ASSUME EngineType, PlacedCache, NEW o \in Objects, GetLayout(o) # NoLayout
  PROVE  GetLayout(o).dir \in Dirs
  <1>1. DirOf[o] \in Dirs
    BY ObjectsAssumption
  <1> QED
    BY <1>1, ScannedDirType DEF GetLayout, PlacedCache

\* A call that is none of the two, by request p alone, while the process runs.
Elsewhere(p) ==
    /\ crashes' = crashes
    /\ \A q \in Procs \ {p} : pc'[q] = pc[q] /\ req'[q] = req[q]
    /\ pc'[p] \notin {"get_cache", "rec_link"}

\* Where the moves of a request lead.
LEMMA MovesElsewhere ==
  ASSUME TypeInv, NEW p \in Procs, NEW l, l \notin {"get_cache", "rec_link"}
  PROVE  /\ \A r : Enter(p, l, r) => Elsewhere(p)
         /\ Goto(p, l) => Elsewhere(p)
         /\ Fail(p, l) => Elsewhere(p)
  BY DEF Enter, Goto, Fail, Elsewhere, TypeInv, ControlOK, ControlType

\* All calls but two lead elsewhere.
LEMMA WorkElsewhere ==
  ASSUME TypeInv, NEW p \in Procs, Work(p), ~GetData(p), ~RecoverCommittedRef(p)
  PROVE  Elsewhere(p)
  <1>1. ASSUME NEW l, l \notin {"get_cache", "rec_link"}, Goto(p, l) \/ Fail(p, l)
        PROVE  Elsewhere(p)
    BY <1>1, MovesElsewhere
  <1>2. ASSUME NEW l, l \notin {"get_cache", "rec_link"}, NEW r, Enter(p, l, r)
        PROVE  Elsewhere(p)
    BY <1>2, MovesElsewhere
  <1>3. /\ AfterRelease(p) \notin {"get_cache", "rec_link"}
        /\ AfterLayoutRollback(p) \notin {"get_cache", "rec_link"}
    BY DEF AfterRelease, AfterLayoutRollback
  <1> USE DEF FailClean, FailCommand
  <1>4. ASSUME PutEnsureBucket(p) \/ PutLoadExisting(p) \/ PutLoadExistingRef(p) \/ PutPrepareBlob(p)
               \/ PutCreateBlob(p) \/ PutLinkLayout(p)
        PROVE  Elsewhere(p)
    BY <1>1, <1>2, <1>4 DEF PutEnsureBucket, PutLoadExisting, PutLoadExistingRef, PutPrepareBlob,
                            PutCreateBlob, PutLinkLayout
  <1>5. ASSUME PutStageMeta(p) \/ PutIntentPrepared(p) \/ PutIntentLinked(p) \/ PutIntentRetained(p)
        PROVE  Elsewhere(p)
    BY <1>1, <1>5 DEF PutStageMeta, PutIntentPrepared, PutIntentLinked, PutIntentRetained, AdvanceIntent
  <1>6. ASSUME PutRetainBlob(p) \/ PutCommit(p) \/ PutUnstage(p) \/ FailUnstage(p) \/ FailDropBlob(p)
        PROVE  Elsewhere(p)
    BY <1>1, <1>2, <1>6 DEF PutRetainBlob, PutCommit, PutUnstage, FailUnstage, FailDropBlob
  <1>7. ASSUME RollbackStep(p)
        PROVE  Elsewhere(p)
    BY <1>1, <1>2, <1>7 DEF RollbackStep, RollbackLayout, RollbackUnstage, RollbackRestore, RollbackRef,
                            RollbackRefBlob, RollbackBlob
  <1>8. ASSUME DeleteLayout(p)
        PROVE  Elsewhere(p)
    BY <1>1, <1>8 DEF DeleteLayout, Elsewhere, TypeInv, ControlOK, ControlType
  <1>9. ASSUME DeleteLoad(p) \/ DeleteMeta(p) \/ BucketList(p) \/ BucketDrop(p)
        PROVE  Elsewhere(p)
    BY <1>1, <1>2, <1>9 DEF DeleteLoad, DeleteMeta, BucketList, BucketDrop
  <1>10. ASSUME BucketNextObject(p)
         PROVE  Elsewhere(p)
    <2>1. PICK o : Enter(p, "del_load", [req[p] EXCEPT !.obj = o, !.todo = @ \ {o}])
      BY <1>10 DEF BucketNextObject
    <2> DEFINE r == [req[p] EXCEPT !.obj = o, !.todo = @ \ {o}]
    <2>2. Enter(p, "del_load", r)
      BY <2>1
    <2> HIDE DEF r
    <2> QED
      BY <1>2, <2>2
  <1>11. ASSUME ReleaseRef(p) \/ ReleaseBlob(p) \/ GetMeta(p) \/ GetCacheLayout(p)
         PROVE  Elsewhere(p)
    BY <1>1, <1>2, <1>3, <1>11 DEF ReleaseRef, ReleaseBlob, GetMeta, GetCacheLayout
  <1>12. ASSUME RecoverListStaged(p) \/ RecoverPendingDone(p) \/ RecoverLayout(p) \/ RecoverDone(p)
         PROVE  Elsewhere(p)
    BY <1>1, <1>2, <1>12 DEF RecoverListStaged, RecoverPendingDone, RecoverLayout, RecoverDone
  <1>13. ASSUME RecoverNextPending(p)
         PROVE  Elsewhere(p)
    <2>1. PICK o : Enter(p, IF req[p].snap[o].stage \in {"layout_linked", "blob_retained"}
                            THEN "rec_layout" ELSE "rec_unstage",
                         [req[p] EXCEPT !.obj = o, !.hash = req[p].snap[o].hash])
      BY <1>13 DEF RecoverNextPending
    <2> DEFINE r == [req[p] EXCEPT !.obj = o, !.hash = req[p].snap[o].hash]
    <2>2. Enter(p, "rec_layout", r) \/ Enter(p, "rec_unstage", r)
      BY <2>1
    <2> HIDE DEF r
    <2> QED
      BY <1>2, <2>2
  <1>14. ASSUME RecoverLink(p) \/ RecoverUnlink(p) \/ RecoverCheckRelease(p) \/ RecoverUnstage(p)
         PROVE  Elsewhere(p)
    BY <1>1, <1>2, <1>3, <1>14 DEF RecoverLink, RecoverUnlink, RecoverCheckRelease, RecoverUnstage
  <1>15. ASSUME RecoverListRefs(p) \/ RecoverListPending(p) \/ RecoverListLocal(p)
         PROVE  Elsewhere(p)
    BY <1>1, <1>2, <1>15 DEF RecoverListRefs, RecoverListPending, RecoverListLocal
  <1>16. ASSUME RecoverSweep(p)
         PROVE  Elsewhere(p)
    <2>1. CASE \E x \in req[p].sets : Enter(p, "rec_sweep", [req[p] EXCEPT !.sets = @ \ {x}])
      <3>1. PICK x : Enter(p, "rec_sweep", [req[p] EXCEPT !.sets = @ \ {x}])
        BY <2>1
      <3> DEFINE r == [req[p] EXCEPT !.sets = @ \ {x}]
      <3>2. Enter(p, "rec_sweep", r)
        BY <3>1
      <3> HIDE DEF r
      <3> QED
        BY <1>2, <3>2
    <2> QED
      BY <1>1, <1>16, <2>1 DEF RecoverSweep
  <1> QED
    BY <1>4, <1>5, <1>6, <1>7, <1>8, <1>9, <1>10, <1>11, <1>12, <1>13, <1>14, <1>15, <1>16
       DEF Work, PutStep, DeleteStep, GetStep, RecoverStep

\* The two calls put a layout in the cache that names a directory.
LEMMA TwoPlaced ==
  ASSUME TypeInv, Placed, NEW p \in Procs, GetData(p) \/ RecoverCommittedRef(p)
  PROVE  Placed' /\ crashes' = crashes
  <1>1. req[p] \in Requests /\ pc \in [Procs -> Calls] /\ req \in [Procs -> Requests]
    BY DEF TypeInv, ControlOK, ControlType
  <1>2. UNCHANGED cache
    BY DEF GetData, RecoverCommittedRef, FailClean, engineVars
  <1>3. SUFFICES /\ crashes' = crashes
                 /\ \A q \in Procs \ {p} : pc'[q] = pc[q] /\ req'[q] = req[q]
                 /\ PlacedAt(pc[p], req[p])'
    BY <1>2 DEF Placed, PlacedCache
  <1>4. CASE Goto(p, "idle") \/ Fail(p, "idle")
    BY <1>1, <1>4 DEF Goto, Enter, Fail, PlacedAt
  <1>5. CASE GetData(p) /\ ~Goto(p, "idle") /\ ~Fail(p, "idle")
    <2> DEFINE y == GetLayout(req[p].obj)
               r == [req[p] EXCEPT !.dir = y.dir, !.hash = y.hash]
    <2>1. Enter(p, "get_cache", r) /\ y # NoLayout /\ pc[p] = "get_data"
      BY <1>5 DEF GetData, FailClean
    <2>2. req[p].obj \in Objects
      BY <2>1 DEF TypeInv, ControlOK, ShapeOf, GetCalls
    <2>3. y.dir \in Dirs
      BY <2>1, <2>2, FoundPlaced DEF TypeInv, Placed
    <2>4. r.dir = y.dir
      BY <1>1 DEF Requests
    <2> HIDE DEF r, y
    <2> QED
      BY <1>1, <2>1, <2>3, <2>4 DEF Enter, PlacedAt
  <1>6. CASE RecoverCommittedRef(p) /\ ~Goto(p, "idle") /\ ~Fail(p, "idle")
    <2> DEFINE d == refPath[req[p].ex]
               r == [req[p] EXCEPT !.exDir = d]
    <2>1. Enter(p, "rec_link", r) /\ refCount[req[p].ex] # 0 /\ pc[p] = "rec_ref"
      BY <1>6 DEF RecoverCommittedRef, FailClean
    <2>2. req[p].ex \in Hashes
      BY <2>1 DEF TypeInv, ControlOK, ShapeOf
    <2>3. d \in Dirs
      BY <2>1, <2>2 DEF TypeInv, MetaOK, MetaType, RefsOK
    <2>4. r.exDir = d
      BY <1>1 DEF Requests
    <2> HIDE DEF r, d
    <2> QED
      BY <1>1, <2>1, <2>3, <2>4 DEF Enter, PlacedAt
  <1> QED
    BY <1>4, <1>5, <1>6

\* The calls that write a layout name a directory.
LEMMA WorkPlaced ==
  ASSUME TypeInv, Placed, NEW p \in Procs, Work(p)
  PROVE  PlacedCache'
  <1>1. cache \in [Objects -> Layouts]
    BY DEF TypeInv, EngineType
  <1>2. ASSUME UNCHANGED engineVars \/ UNCHANGED cache
        PROVE  PlacedCache'
    BY <1>2 DEF Placed, PlacedCache, engineVars
  <1>3. ASSUME NEW o, NEW d, NEW h, d \in Dirs, LinkObject(o, d, h)
        PROVE  PlacedCache'
    BY <1>1, <1>3 DEF Placed, PlacedCache, LinkObject
  <1>4. ASSUME NEW o, DeleteObjectLayout(o) \/ DeleteObjectLayoutFails(o)
        PROVE  PlacedCache'
    BY <1>1, <1>4 DEF Placed, PlacedCache, DeleteObjectLayout, DeleteObjectLayoutFails
  <1>5. ASSUME NEW d, NEW h, NEW x, SetShards(d, h, x)
        PROVE  PlacedCache'
    BY <1>2, <1>5 DEF SetShards
  <1> USE DEF FailClean, FailCommand
  <1>6. ASSUME PutStep(p)
        PROVE  PlacedCache'
    <2>1. CASE PutLinkLayout(p)
      <3>1. req[p].dir \in Dirs
        BY <2>1 DEF PutLinkLayout, TypeInv, ControlOK, ShapeOf, PreparedCalls
      <3> QED
        BY <1>2, <1>3, <2>1, <3>1 DEF PutLinkLayout
    <2>2. CASE PutCreateBlob(p)
      BY <1>2, <1>5, <2>2 DEF PutCreateBlob, PutBlob, PutBlobFails
    <2>3. CASE FailDropBlob(p)
      BY <1>2, <1>5, <2>3 DEF FailDropBlob, DeleteBlob
    <2>4. CASE PutStageMeta(p) \/ PutIntentPrepared(p) \/ PutIntentLinked(p) \/ PutIntentRetained(p)
      BY <1>2, <2>4 DEF PutStageMeta, PutIntentPrepared, PutIntentLinked, PutIntentRetained, AdvanceIntent
    <2>5. CASE PutEnsureBucket(p) \/ PutLoadExisting(p) \/ PutLoadExistingRef(p) \/ PutPrepareBlob(p)
      BY <1>2, <2>5 DEF PutEnsureBucket, PutLoadExisting, PutLoadExistingRef, PutPrepareBlob
    <2>6. CASE PutRetainBlob(p) \/ PutCommit(p) \/ PutUnstage(p) \/ FailUnstage(p)
      BY <1>2, <2>6 DEF PutRetainBlob, PutCommit, PutUnstage, FailUnstage
    <2> QED
      BY <1>6, <2>1, <2>2, <2>3, <2>4, <2>5, <2>6 DEF PutStep
  <1>7. ASSUME RollbackStep(p)
        PROVE  PlacedCache'
    <2>1. CASE RollbackLayout(p)
      BY <1>2, <1>4, <2>1 DEF RollbackLayout
    <2>2. CASE RollbackRestore(p)
      <3>1. req[p].exDir \in Dirs \cup {None}
        BY DEF TypeInv, ControlOK, ControlType, Requests
      <3> QED
        BY <1>2, <1>3, <2>2, <3>1 DEF RollbackRestore
    <2>3. CASE RollbackUnstage(p) \/ RollbackRef(p) \/ RollbackRefBlob(p) \/ RollbackBlob(p)
      BY <1>2, <1>5, <2>3 DEF RollbackUnstage, RollbackRef, RollbackRefBlob, RollbackBlob, DeleteBlob
    <2> QED
      BY <1>7, <2>1, <2>2, <2>3 DEF RollbackStep
  <1>8. ASSUME DeleteStep(p)
        PROVE  PlacedCache'
    BY <1>2, <1>4, <1>5, <1>8 DEF DeleteStep, DeleteLoad, DeleteMeta, DeleteLayout, ReleaseRef, ReleaseBlob,
                                  BucketList, BucketNextObject, BucketDrop, DeleteBlob
  <1>9. ASSUME GetStep(p)
        PROVE  PlacedCache'
    <2>1. CASE GetCacheLayout(p)
      <3>1. req[p].dir \in Dirs
        BY <2>1 DEF GetCacheLayout, Placed, PlacedAt
      <3> QED
        BY <1>1, <2>1, <3>1 DEF GetCacheLayout, Placed, PlacedCache
    <2> QED
      BY <1>2, <1>9, <2>1 DEF GetStep, GetMeta, GetData
  <1>10. ASSUME RecoverStep(p)
         PROVE  PlacedCache'
    <2>1. CASE RecoverLink(p)
      <3>1. req[p].exDir \in Dirs
        BY <2>1 DEF RecoverLink, Placed, PlacedAt
      <3> QED
        BY <1>2, <1>3, <2>1, <3>1 DEF RecoverLink
    <2>2. CASE RecoverUnlink(p)
      BY <1>2, <1>4, <2>2 DEF RecoverUnlink
    <2>3. CASE RecoverSweep(p)
      BY <1>2, <1>5, <2>3 DEF RecoverSweep, DeleteBlob
    <2>4. CASE RecoverListStaged(p) \/ RecoverNextPending(p) \/ RecoverPendingDone(p)
               \/ RecoverLayout(p) \/ RecoverCommittedRef(p) \/ RecoverCheckRelease(p)
      BY <1>2, <2>4 DEF RecoverListStaged, RecoverNextPending, RecoverPendingDone, RecoverLayout,
                        RecoverCommittedRef, RecoverCheckRelease
    <2>5. CASE RecoverUnstage(p) \/ RecoverListRefs(p) \/ RecoverListPending(p)
               \/ RecoverListLocal(p) \/ RecoverDone(p)
      BY <1>2, <2>5 DEF RecoverUnstage, RecoverListRefs, RecoverListPending, RecoverListLocal, RecoverDone
    <2> QED
      BY <1>10, <2>1, <2>2, <2>3, <2>4, <2>5 DEF RecoverStep
  <1> QED
    BY <1>6, <1>7, <1>8, <1>9, <1>10 DEF Work

\* Nothing that begins puts a layout anywhere.
LEMMA StartPlaced ==
  ASSUME TypeInv, Placed, NEW p \in Procs, StartRequest(p)
  PROVE  Placed'
  <1>1. ASSUME NEW l, NEW r, l \notin {"get_cache", "rec_link"}, Begin(p, l, r)
        PROVE  Elsewhere(p) /\ UNCHANGED cache
    BY <1>1, MovesElsewhere DEF Begin, engineVars
  <1>2. Elsewhere(p) /\ UNCHANGED cache
    <2>1. CASE PutObject(p)
      <3>1. PICK o \in Objects, h \in Hashes :
                Begin(p, "put_bucket", [NoReq EXCEPT !.op = "put", !.obj = o, !.hash = h])
        BY <2>1 DEF PutObject
      <3> QED
        BY <1>1, <3>1
    <2>2. CASE DeleteObject(p)
      BY <1>1, <2>2 DEF DeleteObject
    <2>3. CASE GetObject(p)
      BY <1>1, <2>3 DEF GetObject
    <2>4. CASE DeleteBucket(p)
      BY <1>1, <2>4 DEF DeleteBucket
    <2>5. CASE Recover(p)
      BY <1>1, <2>5 DEF Recover
    <2> QED
      BY <2>1, <2>2, <2>3, <2>4, <2>5 DEF StartRequest
  <1> QED
    BY <1>2 DEF Placed, PlacedCache, PlacedAt, Elsewhere

\* No step of the store puts a layout without a directory in the cache.
LEMMA NextPlaced ==
  ASSUME TypeInv, Placed, [Next]_vars
  PROVE  Placed'
  <1>1. ASSUME NEW p \in Procs, Work(p)
        PROVE  Placed'
    <2>1. CASE GetData(p) \/ RecoverCommittedRef(p)
      BY <2>1, TwoPlaced
    <2>2. CASE Elsewhere(p)
      <3>1. PlacedCache'
        BY <1>1, WorkPlaced
      <3> QED
        BY <2>2, <3>1 DEF Placed, PlacedAt, Elsewhere
    <2> QED
      BY <1>1, <2>1, <2>2, WorkElsewhere
  <1>2. CASE Restart
    <2>1. PlacedCache'
      BY <1>2 DEF Restart, PlacedCache
    <2>2. \A p \in Procs : PlacedAt(pc[p], req[p])'
      BY <1>2 DEF Restart, PlacedAt
    <2> QED
      BY <2>1, <2>2 DEF Placed
  <1>3. CASE CreateBucket \/ Elapse \/ UNCHANGED vars
    BY <1>3 DEF CreateBucket, Elapse, vars, engineVars, Placed, PlacedCache, PlacedAt
  <1> QED
    BY <1>1, <1>2, <1>3, StartPlaced DEF Next

\* No step of the store loses an object's bucket.
LEMMA NextHoused ==
  ASSUME TypeInv, NoObjectOutsideBuckets, [Next]_vars
  PROVE  NoObjectOutsideBuckets'
  <1>1. Housed
    BY DEF Housed, TypeInv, MetaOK
  <1>2. CASE UNCHANGED vars
    BY <1>1, <1>2, HousedUnchanged DEF vars, metaVars
  <1>3. CASE Next
    BY <1>1, <1>3, HousedPut, HousedUndo, HousedRecover, HousedAround DEF Next, Work
  <1> QED
    BY <1>2, <1>3

\* So the store keeps its part of the invariant.
LEMMA NextStore == StoreInv /\ [Next]_vars => StoreInv'
  BY NextType, NextHoused, NextPlaced DEF StoreInv

\* It holds at first.
LEMMA InitStore == Init => StoreInv
  <1>1. Init => NoObjectOutsideBuckets /\ Placed
    BY DEF Init, NoObjectOutsideBuckets, Placed, PlacedCache, PlacedAt
  <1> QED
    BY <1>1, InitTypeInv DEF StoreInv

\* A scanner's step leaves requests alone.
LEMMA StepFrame ==
  ASSUME NEW s, NEW l, NEW r, Step(s, l, r)
  PROVE  UNCHANGED <<pc, req, faults, crashes, elapses>>
  BY DEF Step

\* A scanner's step that touches neither metadata nor engine.
LEMMA QuietlyStore ==
  ASSUME StoreInv, NEW s, NEW l, NEW r, Quietly(s, l, r)
  PROVE  StoreInv' /\ UNCHANGED vars
  <1>1. UNCHANGED vars
    BY StepFrame DEF Quietly, vars
  <1> QED
    BY <1>1, NextStore

\* A scanner's step on the metadata.
LEMMA CommandStore ==
  ASSUME StoreInv, NEW s, NEW l, NEW r, Step(s, l, r), UNCHANGED engineVars,
         MetaOK', NoObjectOutsideBuckets'
  PROVE  StoreInv'
  <1>1. UNCHANGED <<pc, req, faults, crashes, elapses, cache>>
    BY StepFrame DEF engineVars
  <1>2. ControlOK' /\ EngineType'
    BY <1>1, UnchangedEngine DEF StoreInv, TypeInv, ControlOK, ControlType, ShapeOf
  <1>3. Placed'
    BY <1>1 DEF StoreInv, Placed, PlacedCache, PlacedAt
  <1> QED
    BY <1>2, <1>3 DEF StoreInv, TypeInv

\* A scanner's step on the engine.
LEMMA EngineStore ==
  ASSUME StoreInv, NEW s, NEW l, NEW r, Step(s, l, r), UNCHANGED metaVars,
         EngineType', PlacedCache'
  PROVE  StoreInv'
  <1>1. UNCHANGED <<pc, req, faults, crashes, elapses, buckets, objects, staged>>
    BY StepFrame DEF metaVars
  <1>2. ControlOK' /\ MetaOK'
    BY <1>1, UnchangedMeta DEF StoreInv, TypeInv, ControlOK, ControlType, ShapeOf
  <1>3. Placed' /\ NoObjectOutsideBuckets'
    BY <1>1 DEF StoreInv, Placed, PlacedAt, NoObjectOutsideBuckets
  <1> QED
    BY <1>2, <1>3 DEF StoreInv, TypeInv

\* The commands of a scanner.
LEMMA ScanCommands ==
  ASSUME StoreInv
  PROVE  /\ \A h \in Hashes, d \in Dirs : CreateBlobRef(h, d) => MetaOK' /\ NoObjectOutsideBuckets'
         /\ \A h \in Hashes : IncreaseBlobRef(h) => MetaOK' /\ NoObjectOutsideBuckets'
         /\ \A h \in Hashes : DecreaseBlobRef(h) => MetaOK' /\ NoObjectOutsideBuckets'
         /\ \A o \in Objects, h \in Hashes : UpsertObjectMeta(o, h) => MetaOK' /\ NoObjectOutsideBuckets'
         /\ UNCHANGED metaVars => MetaOK' /\ NoObjectOutsideBuckets'
  <1>1. Housed /\ MetaOK
    BY DEF StoreInv, Housed, TypeInv, MetaOK
  <1>2. ASSUME NEW h \in Hashes, NEW d \in Dirs, CreateBlobRef(h, d)
        PROVE  MetaOK' /\ NoObjectOutsideBuckets'
    BY <1>1, <1>2, CreateRefType, HousedRefs
  <1>3. ASSUME NEW h \in Hashes, IncreaseBlobRef(h)
        PROVE  MetaOK' /\ NoObjectOutsideBuckets'
    BY <1>1, <1>3, IncreaseRefType, HousedRefs
  <1>4. ASSUME NEW h \in Hashes, DecreaseBlobRef(h)
        PROVE  MetaOK' /\ NoObjectOutsideBuckets'
    BY <1>1, <1>4, DecreaseRefType, HousedRefs
  <1>5. ASSUME NEW o \in Objects, NEW h \in Hashes, UpsertObjectMeta(o, h)
        PROVE  MetaOK' /\ NoObjectOutsideBuckets'
    BY <1>1, <1>5, UpsertType, HousedUpsert
  <1>6. ASSUME UNCHANGED metaVars
        PROVE  MetaOK' /\ NoObjectOutsideBuckets'
    BY <1>1, <1>6, UnchangedMeta, HousedUnchanged DEF metaVars
  <1> QED
    BY <1>2, <1>3, <1>4, <1>5, <1>6

(***************************************************************************)
(* The locals of a run                                                      *)
(***************************************************************************)
\* What a run keeps in its locals.
Scans ==
    [bkts : SUBSET Buckets, objs : SUBSET Objects, hashes : SUBSET Hashes,
     snap : [Objects -> Hashes \cup {None}], info : [Objects -> Layouts],
     refs : [Hashes -> Nat], path : [Hashes -> Dirs \cup {None}],
     cur : Hashes \cup {None}, left : Nat, back : ScanCalls, obj : Objects \cup {None},
     fixes : 0 .. MaxFixes, limited : BOOLEAN, overlaps : Nat]

RefFixes == {"dd_increase", "dd_decrease", "dd_orphan", "dd_blob"}
LinkFixes == {"dd_link", "dd_upsert"}

\* The locals r of a run about to make call l: it corrects a content, or the
\* layout of an object that is listed with a ref, and still has a fix left.
ScanShape(l, r) ==
    /\ r \in Scans
    /\ \A o \in Objects : r.info[o] # NoLayout => r.info[o].dir \in Dirs
    /\ l \in RefFixes => r.cur \in Hashes
    /\ l = "dd_blob" => r.path[r.cur] \in Dirs
    /\ l = "dd_increase" => r.back \in {"dd_missing", "dd_existing"}
    /\ l = "dd_layouts" => \A o \in r.objs : r.snap[o] # None
    /\ l \in LinkFixes =>
           /\ r.obj \in Objects \ r.objs /\ r.snap[r.obj] \in Hashes
           /\ r.path[r.snap[r.obj]] \in Dirs
           /\ r.fixes < MaxFixes
           /\ \A o \in r.objs : r.snap[o] # None
    /\ l = "dd_end" => r.objs = {}

ScansOK ==
    /\ dpc \in [Scanners -> ScanCalls]
    /\ \A s \in Scanners : ScanShape(dpc[s], dd[s])

\* A run that has not begun.
LEMMA NoScanShape == ScanShape("idle", NoScan)
  <1>1. NoLayout \in Layouts
    BY DEF NoLayout, Layouts
  <1>2. NoScan \in Scans
    BY <1>1, DedupeAssumption DEF NoScan, Scans, ScanCalls
  <1> QED
    BY <1>2 DEF ScanShape, NoScan, RefFixes, LinkFixes

\* An overlap changes nothing else.
LEMMA OverlapShape ==
  ASSUME ScansOK, NEW t \in Scanners
  PROVE  /\ ScanShape(dpc[t], Overlapped(t))
         /\ Active(t) => Overlapped(t).overlaps = dd[t].overlaps + 1
         /\ ~Active(t) => Overlapped(t) = dd[t]
  <1>1. ScanShape(dpc[t], dd[t]) /\ dd[t] \in Scans
    BY DEF ScansOK, ScanShape
  <1> DEFINE r == [dd[t] EXCEPT !.overlaps = @ + 1]
  <1>2. r \in Scans /\ r.overlaps = dd[t].overlaps + 1
    BY <1>1 DEF Scans
  <1>3. /\ r.info = dd[t].info /\ r.cur = dd[t].cur /\ r.path = dd[t].path /\ r.back = dd[t].back
        /\ r.objs = dd[t].objs /\ r.snap = dd[t].snap /\ r.obj = dd[t].obj /\ r.fixes = dd[t].fixes
    BY <1>1 DEF Scans
  <1>4. Overlapped(t) = IF Active(t) THEN r ELSE dd[t]
    BY DEF Overlapped
  <1> HIDE DEF r
  <1>5. ScanShape(dpc[t], r)
    BY <1>1, <1>2, <1>3 DEF ScanShape
  <1> QED
    BY <1>1, <1>2, <1>4, <1>5

\* A scanner's step, to a call whose locals are set, keeps all in shape.
LEMMA StepShape ==
  ASSUME ScansOK, NEW s \in Scanners, NEW l \in ScanCalls, NEW r,
         l # "idle" => ScanShape(l, r), Step(s, l, r)
  PROVE  /\ ScansOK'
         /\ dpc'[s] = l /\ dd'[s] = (IF l = "idle" THEN NoScan ELSE r)
         /\ \A t \in Scanners \ {s} : dpc'[t] = dpc[t] /\ dd'[t] = Overlapped(t)
  <1>1. dpc' \in [Scanners -> ScanCalls] /\ dpc'[s] = l
    BY DEF Step, ScansOK
  <1>2. dd'[s] = IF l = "idle" THEN NoScan ELSE r
    BY DEF Step
  <1>3. \A t \in Scanners \ {s} : dpc'[t] = dpc[t] /\ dd'[t] = Overlapped(t)
    BY DEF Step, ScansOK
  <1>4. ASSUME NEW t \in Scanners
        PROVE  ScanShape(dpc'[t], dd'[t])
    BY <1>1, <1>2, <1>3, NoScanShape, OverlapShape
  <1> QED
    BY <1>1, <1>2, <1>3, <1>4 DEF ScansOK

(***************************************************************************)
(* A run that is alone                                                      *)
(***************************************************************************)
Alone(s) ==
    /\ \A p \in Procs : pc[p] = "idle"
    /\ \A t \in Scanners \ {s} : dpc[t] = "idle"

ListCalls == {"dd_objects", "dd_stat"}
LayoutCalls == {"dd_layouts", "dd_link", "dd_upsert", "dd_end"}
FixCalls == {"dd_missing", "dd_existing"} \cup RefFixes \cup LayoutCalls

\* The loop over the missing refs, and what both loops have left to correct.
Missing(l, r) == l = "dd_missing" \/ (l = "dd_increase" /\ r.back = "dd_missing")
Todo(l, r) == r.hashes \cup {h \in Drifted(r) : Missing(l, r)}

\* The listed objects are the committed ones.
SnapAt(l, r) ==
    /\ l = "dd_buckets" => \A o \in Objects : r.snap[o] = None
    /\ l \in ListCalls =>
           \A o \in Objects : r.snap[o] = IF BucketOf[o] \in r.bkts THEN None ELSE objects[o]
    /\ l \in FixCalls \cup {"dd_refs"} => r.snap = objects

\* So are the layouts that have been read; of the canonicalized objects it no
\* longer matters.
InfoAt(l, r) ==
    \A o \in Objects :
        (l \in LayoutCalls => o \in r.objs) /\ r.info[o] # NoLayout => r.info[o] = GetLayout(o)

\* What the loops have left: missing refs, then wrong counts.
HashesAt(l, r) ==
    /\ Missing(l, r) => \A h \in r.hashes : Expected(r, h) > 0 /\ r.refs[h] = 0
    /\ l \in FixCalls /\ ~Missing(l, r) => r.hashes \subseteq Drifted(r)
    /\ l \in LayoutCalls => r.hashes = {}

\* The ref being corrected is off by what is left to do.
CurAt(l, r) ==
    /\ l \in RefFixes => r.cur \notin Todo(l, r)
    /\ l = "dd_increase" => r.left + refCount[r.cur] = Expected(r, r.cur) /\ refCount[r.cur] > 0
    /\ l = "dd_decrease" => refCount[r.cur] = r.left + Expected(r, r.cur) /\ Expected(r, r.cur) > 0
    /\ l = "dd_orphan" => refCount[r.cur] > 0 /\ Expected(r, r.cur) = 0
    /\ l = "dd_blob" => refCount[r.cur] = 0 /\ Expected(r, r.cur) = 0

\* The layouts of all objects listed with the content could be read.
ReadAll(r, h) == \A o \in Objects : r.snap[o] = h => r.info[o] # NoLayout

\* Refs still to be corrected are as they were listed, all others are exact.
CountAt(l, r, h) ==
    /\ h \in Todo(l, r) => refCount[h] = r.refs[h]
    /\ \/ h \in Todo(l, r)
       \/ l \in RefFixes \ {"dd_blob"} /\ h = r.cur
       \/ r.limited
       \/ ~ReadAll(r, h)
       \/ refCount[h] = Expected(r, h)
    /\ Expected(r, h) > 0 => r.path[h] = refPath[h]

CountsAt(l, r) == l \in FixCalls => \A h \in Hashes : CountAt(l, r, h)

\* The layout of an object is where its ref says it is.
Canonical(r, o) == GetLayout(o) = [dir |-> refPath[r.snap[o]], hash |-> r.snap[o]]

\* Layouts still to be canonicalized aside, all are canonical.
LayoutsAt(l, r) ==
    l \in LayoutCalls =>
        \A o \in Objects :
            \/ r.snap[o] = None
            \/ o \in r.objs
            \/ l = "dd_link" /\ o = r.obj
            \/ r.limited
            \/ ~ReadAll(r, r.snap[o])
            \/ Canonical(r, o)

SoundAt(l, r) ==
    SnapAt(l, r) /\ InfoAt(l, r) /\ HashesAt(l, r) /\ CurAt(l, r) /\ CountsAt(l, r) /\ LayoutsAt(l, r)

\* What a run that is alone knows.
QuietInv ==
    \A s \in Scanners : Active(s) /\ dd[s].overlaps = 0 => Alone(s) /\ SoundAt(dpc[s], dd[s])

DedupeInv == StoreInv /\ ScansOK /\ QuietInv

\* Expected counts are numbers, and count an object that has the content.
LEMMA ExpectedNat ==
  ASSUME NEW r, NEW h
  PROVE  /\ Expected(r, h) \in Nat
         /\ (\E o \in Objects : r.snap[o] = h) => Expected(r, h) > 0
  <1> DEFINE S == {o \in Objects : r.snap[o] = h}
  <1>1. IsFiniteSet(S)
    BY FinitenessAssumption, FS_Subset
  <1>2. Cardinality(S) \in Nat /\ (Cardinality(S) = 0 => S = {})
    BY <1>1, FS_CardinalityType, FS_EmptySet
  <1> QED
    BY <1>2 DEF Expected

\* They depend on the listed objects only.
LEMMA SameExpected ==
  ASSUME NEW r, NEW q, r.snap = q.snap
  PROVE  /\ \A h : Expected(r, h) = Expected(q, h)
         /\ r.refs = q.refs => Drifted(r) = Drifted(q)
  BY DEF Expected, Drifted

\* The steps of a run that is alone: what it knows of its own next state is all
\* there is to show.
LEMMA StepQuiet ==
  ASSUME ScansOK, QuietInv, NEW s \in Scanners, NEW l \in ScanCalls, NEW r,
         Active(s), l # "idle" => ScanShape(l, r) /\ r.overlaps = dd[s].overlaps, Step(s, l, r),
         l # "idle" /\ Alone(s) /\ SoundAt(dpc[s], dd[s]) => SoundAt(dpc[s], dd[s])'
  PROVE  QuietInv'
  <1>1. /\ dpc'[s] = l /\ dd'[s] = (IF l = "idle" THEN NoScan ELSE r)
        /\ \A t \in Scanners \ {s} : dpc'[t] = dpc[t] /\ dd'[t] = Overlapped(t)
    BY StepShape
  <1>2. ASSUME NEW t \in Scanners \ {s}, Active(t)'
        PROVE  dd'[t].overlaps # 0
    <2>1. Active(t) /\ dd'[t] = Overlapped(t) /\ dd[t].overlaps \in Nat
      BY <1>1, <1>2 DEF Active, ScansOK, ScanShape, Scans
    <2> QED
      BY <2>1, OverlapShape
  <1>3. ASSUME Active(s)', dd'[s].overlaps = 0
        PROVE  (Alone(s) /\ SoundAt(dpc[s], dd[s]))'
    <2>1. l # "idle" /\ dd[s].overlaps = 0
      BY <1>1, <1>3 DEF Active
    <2>2. Alone(s) /\ SoundAt(dpc[s], dd[s])
      BY <2>1 DEF QuietInv
    <2>3. Alone(s)'
      BY <1>1, <2>2, StepFrame DEF Alone
    <2> QED
      BY <2>1, <2>2, <2>3
  <1> QED
    BY <1>2, <1>3 DEF QuietInv

\* What a run knows depends on the committed objects, the refs and the layouts.
LEMMA SoundStays ==
  ASSUME NEW l, NEW r, UNCHANGED <<objects, refCount, refPath>>,
         \A o \in Objects : GetLayout(o)' = GetLayout(o), SoundAt(l, r)
  PROVE  SoundAt(l, r)'
  <1>1. SnapAt(l, r)' /\ InfoAt(l, r)'
    BY DEF SoundAt, SnapAt, InfoAt
  <1>2. HashesAt(l, r)' /\ CurAt(l, r)'
    BY DEF SoundAt, HashesAt, CurAt, Todo, Missing, Drifted, Expected
  <1>3. CountsAt(l, r)'
    BY DEF SoundAt, CountsAt, CountAt, Todo, Missing, Drifted, Expected, ReadAll
  <1>4. LayoutsAt(l, r)'
    BY DEF SoundAt, LayoutsAt, Canonical, ReadAll
  <1> QED
    BY <1>1, <1>2, <1>3, <1>4 DEF SoundAt

\* A scanner's step that leaves the store in order.
LEMMA Moved ==
  ASSUME DedupeInv, NEW s \in Scanners, NEW l \in ScanCalls, NEW r,
         Active(s), l # "idle" => ScanShape(l, r) /\ r.overlaps = dd[s].overlaps,
         Step(s, l, r), StoreInv',
         l # "idle" /\ Alone(s) /\ SoundAt(dpc[s], dd[s]) => SoundAt(l, r)'
  PROVE  DedupeInv'
  <1>1. dpc'[s] = l /\ dd'[s] = (IF l = "idle" THEN NoScan ELSE r) /\ ScansOK'
    BY StepShape DEF DedupeInv
  <1>2. ASSUME l # "idle", Alone(s), SoundAt(dpc[s], dd[s])
        PROVE  SoundAt(dpc[s], dd[s])'
    <2>1. SoundAt(l, r)' /\ dpc'[s] = l /\ dd'[s] = r
      BY <1>1, <1>2
    <2> QED
      BY <2>1 DEF SoundAt, SnapAt, InfoAt, HashesAt, CurAt, CountsAt, CountAt, LayoutsAt, Canonical,
                  Todo, Missing, Drifted, Expected, ReadAll
  <1>3. QuietInv'
    BY <1>2, StepQuiet DEF DedupeInv
  <1> QED
    BY <1>1, <1>3 DEF DedupeInv

\* One that touches neither metadata nor engine.
LEMMA QuietlyMoved ==
  ASSUME DedupeInv, NEW s \in Scanners, NEW l \in ScanCalls, NEW r,
         Active(s), l # "idle" => ScanShape(l, r) /\ r.overlaps = dd[s].overlaps,
         Quietly(s, l, r),
         l # "idle" /\ Alone(s) /\ SoundAt(dpc[s], dd[s]) => SoundAt(l, r)
  PROVE  DedupeInv'
  <1>1. Step(s, l, r) /\ StoreInv' /\ UNCHANGED vars
    BY QuietlyStore DEF Quietly, DedupeInv
  <1>2. \A o \in Objects : GetLayout(o)' = GetLayout(o)
    BY <1>1 DEF vars, engineVars, GetLayout, ScannedDir
  <1>3. SoundAt(l, r) => SoundAt(l, r)'
    BY <1>1, <1>2, SoundStays DEF vars, metaVars
  <1> QED
    BY <1>1, <1>3, Moved

\* One that ends the run.
LEMMA Ended ==
  ASSUME DedupeInv, NEW s \in Scanners, NEW r, Active(s), Step(s, "idle", r), StoreInv'
  PROVE  DedupeInv'
  BY Moved DEF ScanCalls

\* A run that ends without a trace.
LEMMA QuietlyEnded ==
  ASSUME DedupeInv, NEW s \in Scanners, NEW r, Active(s), Quietly(s, "idle", r)
  PROVE  DedupeInv'
  BY Ended, QuietlyStore DEF Quietly, DedupeInv

\* The locals of a run.
LEMMA ScanFacts ==
  ASSUME DedupeInv, NEW s \in Scanners
  PROVE  /\ ScanShape(dpc[s], dd[s]) /\ dd[s] \in Scans
         /\ StoreInv /\ MetaType /\ EngineType /\ PlacedCache
  BY DEF DedupeInv, ScansOK, ScanShape, StoreInv, TypeInv, MetaOK, Placed

(***************************************************************************)
(* Collecting                                                               *)
(***************************************************************************)
\* The groups of calls are calls of a run.
CallKinds == /\ FixCalls \cup ListCalls \subseteq ScanCalls
             /\ {"idle", "dd_buckets", "dd_refs"} \subseteq ScanCalls

\* By their definitions.
LEMMA CallKindsHold == CallKinds
  BY DEF CallKinds, FixCalls, RefFixes, LayoutCalls, ListCalls, ScanCalls

\* While a run lists objects, only the listing and the layouts matter.
LEMMA Collected ==
  ASSUME NEW l \in {"dd_buckets", "dd_refs"} \cup ListCalls, NEW r, SnapAt(l, r), InfoAt(l, r)
  PROVE  SoundAt(l, r)
  BY DEF SoundAt, HashesAt, CurAt, CountsAt, LayoutsAt, Missing, FixCalls, RefFixes, LayoutCalls, ListCalls

\* A run that starts among no requests and no other run is alone.
LEMMA StartKeeps ==
  ASSUME DedupeInv, NEW s \in Scanners, DedupeStart(s)
  PROVE  DedupeInv'
  <1> DEFINE others == {p \in Procs : pc[p] # "idle"} \cup {t \in Scanners : Active(t)}
  <1>1. PICK r : r = [NoScan EXCEPT !.overlaps = Cardinality(others)]
    OBVIOUS
  <1>2. IsFiniteSet(others)
    BY FinitenessAssumption, DedupeAssumption, FS_Subset, FS_Union
  <1>3. Cardinality(others) \in Nat /\ (Cardinality(others) = 0 => others = {})
    BY <1>2, FS_CardinalityType, FS_EmptySet
  <1>4. NoScan \in Scans /\ ScanShape("idle", NoScan)
    BY NoScanShape DEF ScanShape
  <1>5. /\ r \in Scans /\ r.overlaps = Cardinality(others)
        /\ r.snap = NoScan.snap /\ r.info = NoScan.info
    BY <1>1, <1>3, <1>4 DEF Scans
  <1>6. ScanShape("dd_buckets", r)
    BY <1>4, <1>5 DEF ScanShape, RefFixes, LinkFixes
  <1>7. Quietly(s, "dd_buckets", r) /\ dpc[s] = "idle"
    BY <1>1 DEF DedupeStart
  <1>8. Step(s, "dd_buckets", r) /\ StoreInv' /\ UNCHANGED vars
    BY <1>7, QuietlyStore DEF Quietly, DedupeInv
  <1>9. /\ dpc'[s] = "dd_buckets" /\ dd'[s] = r /\ ScansOK'
        /\ \A t \in Scanners \ {s} : dpc'[t] = dpc[t] /\ dd'[t] = Overlapped(t)
    BY <1>6, <1>8, StepShape, CallKindsHold DEF DedupeInv, CallKinds
  <1>10. ASSUME NEW t \in Scanners \ {s}, Active(t)'
         PROVE  dd'[t].overlaps # 0
    <2>1. Active(t) /\ dd'[t] = Overlapped(t) /\ dd[t].overlaps \in Nat
      BY <1>9, <1>10 DEF Active, DedupeInv, ScansOK, ScanShape, Scans
    <2> QED
      BY <2>1, OverlapShape DEF DedupeInv
  <1>11. ASSUME dd'[s].overlaps = 0
         PROVE  (Alone(s) /\ SoundAt(dpc[s], dd[s]))'
    <2>1. others = {}
      BY <1>3, <1>5, <1>9, <1>11
    <2>2. Alone(s)'
      BY <1>8, <1>9, <2>1 DEF Alone, Active, vars
    <2>3. SnapAt("dd_buckets", r) /\ InfoAt("dd_buckets", r)
      BY <1>5 DEF NoScan, SnapAt, InfoAt, FixCalls, RefFixes, LayoutCalls, ListCalls
    <2>4. SoundAt("dd_buckets", r)
      BY <2>3, Collected
    <2>5. \A o \in Objects : GetLayout(o)' = GetLayout(o)
      BY <1>8 DEF vars, engineVars, GetLayout, ScannedDir
    <2>6. SoundAt("dd_buckets", r)'
      BY <1>8, <2>4, <2>5, SoundStays DEF vars, metaVars
    <2>7. SoundAt(dpc[s], dd[s])'
      BY <1>9, <2>6 DEF SoundAt, SnapAt, InfoAt, HashesAt, CurAt, CountsAt, CountAt, LayoutsAt, Canonical,
                        Todo, Missing, Drifted, Expected, ReadAll
    <2> QED
      BY <2>2, <2>7
  <1> QED
    BY <1>8, <1>9, <1>10, <1>11 DEF DedupeInv, QuietInv

\* The buckets: an object without its bucket is not committed.
LEMMA ListBucketsKeeps ==
  ASSUME DedupeInv, NEW s \in Scanners, ListBucketsForDedupe(s)
  PROVE  DedupeInv'
  <1>1. PICK q : q = dd[s]
    OBVIOUS
  <1>2. ScanShape("dd_buckets", q) /\ q \in Scans /\ MetaType /\ dpc[s] = "dd_buckets" /\ Active(s)
    BY <1>1, ScanFacts DEF ListBucketsForDedupe, Active
  <1>3. CASE Abort(s)
    BY <1>2, <1>3, QuietlyEnded DEF Abort
  <1>4. CASE Quietly(s, "dd_objects", [q EXCEPT !.bkts = buckets])
    <2>1. PICK r : r = [q EXCEPT !.bkts = buckets]
      OBVIOUS
    <2>2. /\ r \in Scans /\ r.overlaps = q.overlaps /\ r.bkts = buckets
          /\ r.snap = q.snap /\ r.info = q.info
      BY <1>2, <2>1 DEF Scans, MetaType
    <2>3. ScanShape("dd_objects", r)
      BY <1>2, <2>2 DEF ScanShape, RefFixes, LinkFixes
    <2>4. ASSUME SoundAt("dd_buckets", q)
          PROVE  SoundAt("dd_objects", r)
      <3>1. \A o \in Objects : BucketOf[o] \notin buckets => objects[o] = None
        BY DEF DedupeInv, StoreInv, NoObjectOutsideBuckets
      <3>2. SnapAt("dd_objects", r) /\ InfoAt("dd_objects", r)
        BY <2>2, <2>4, <3>1 DEF SoundAt, SnapAt, InfoAt, FixCalls, RefFixes, LayoutCalls, ListCalls
      <3> QED
        BY <3>2, Collected DEF ListCalls
    <2> QED
      BY <1>1, <1>2, <1>4, <2>1, <2>2, <2>3, <2>4, QuietlyMoved, CallKindsHold DEF CallKinds, ListCalls
  <1> QED
    BY <1>1, <1>3, <1>4 DEF ListBucketsForDedupe

\* The objects of a bucket, as they are committed.
LEMMA ListObjectsKeeps ==
  ASSUME DedupeInv, NEW s \in Scanners, ListObjectsForDedupe(s)
  PROVE  DedupeInv'
  <1>1. PICK q : q = dd[s]
    OBVIOUS
  <1>2. ScanShape("dd_objects", q) /\ q \in Scans /\ MetaType /\ dpc[s] = "dd_objects" /\ Active(s)
    BY <1>1, ScanFacts DEF ListObjectsForDedupe, Active
  <1>3. CASE Abort(s)
    BY <1>2, <1>3, QuietlyEnded DEF Abort
  <1>4. CASE q.bkts = {} /\ Quietly(s, "dd_refs", q)
    <2>1. ScanShape("dd_refs", q)
      BY <1>2 DEF ScanShape, RefFixes, LinkFixes
    <2>2. ASSUME SoundAt("dd_objects", q)
          PROVE  SoundAt("dd_refs", q)
      <3>1. q.snap = objects
        BY <1>2, <1>4, <2>2 DEF SoundAt, SnapAt, ListCalls, Scans, MetaType
      <3>2. SnapAt("dd_refs", q) /\ InfoAt("dd_refs", q)
        BY <2>2, <3>1 DEF SoundAt, SnapAt, InfoAt, FixCalls, RefFixes, LayoutCalls, ListCalls
      <3> QED
        BY <3>2, Collected
    <2> QED
      BY <1>1, <1>2, <1>4, <2>1, <2>2, QuietlyMoved, CallKindsHold DEF CallKinds
  <1>5. ASSUME NEW b \in q.bkts, NEW listed, listed = {o \in Objects : BucketOf[o] = b /\ objects[o] # None},
               Quietly(s, "dd_stat",
                     [q EXCEPT !.bkts = @ \ {b}, !.objs = listed,
                        !.snap = [o \in Objects |-> IF o \in listed THEN objects[o] ELSE @[o]]])
        PROVE  DedupeInv'
    <2>1. PICK r : r = [q EXCEPT !.bkts = @ \ {b}, !.objs = listed,
                        !.snap = [o \in Objects |-> IF o \in listed THEN objects[o] ELSE @[o]]]
      OBVIOUS
    <2>2. /\ r \in Scans /\ r.overlaps = q.overlaps /\ r.bkts = q.bkts \ {b} /\ r.info = q.info
          /\ r.snap = [o \in Objects |-> IF o \in listed THEN objects[o] ELSE q.snap[o]]
      BY <1>2, <1>5, <2>1 DEF Scans, MetaType
    <2>3. ScanShape("dd_stat", r)
      BY <1>2, <2>2 DEF ScanShape, RefFixes, LinkFixes
    <2>4. ASSUME SoundAt("dd_objects", q)
          PROVE  SoundAt("dd_stat", r)
      <3>1. SnapAt("dd_stat", r) /\ InfoAt("dd_stat", r)
        BY <1>5, <2>2, <2>4 DEF SoundAt, SnapAt, InfoAt, FixCalls, RefFixes, LayoutCalls, ListCalls
      <3> QED
        BY <3>1, Collected DEF ListCalls
    <2> QED
      BY <1>1, <1>2, <1>5, <2>1, <2>2, <2>3, <2>4, QuietlyMoved, CallKindsHold DEF CallKinds, ListCalls
  <1> QED
    BY <1>1, <1>3, <1>4, <1>5 DEF ListObjectsForDedupe

\* StatObject caches what it finds, and so changes no layout it would find next.
LEMMA CachedFound ==
  ASSUME NEW o \in Objects, cache \in [Objects -> Layouts],
         cache' = [cache EXCEPT ![o] = GetLayout(o)], UNCHANGED disk
  PROVE  \A x \in Objects : GetLayout(x)' = GetLayout(x)
  <1>1. \A x \in Objects : cache'[x] = IF x = o THEN GetLayout(o) ELSE cache[x]
    OBVIOUS
  <1>2. \A x \in Objects : ScannedDir(x)' = ScannedDir(x)
    BY DEF ScannedDir
  <1>3. ASSUME NEW x \in Objects, x # o
        PROVE  GetLayout(x)' = GetLayout(x)
    BY <1>1, <1>2, <1>3 DEF GetLayout
  <1>4. GetLayout(o)' = GetLayout(o)
    BY <1>1, <1>2 DEF GetLayout
  <1> QED
    BY <1>3, <1>4

\* The layouts of the listed objects.
LEMMA LoadKeeps ==
  ASSUME DedupeInv, NEW s \in Scanners, loadDedupeObject(s)
  PROVE  DedupeInv'
  <1>1. PICK q : q = dd[s]
    OBVIOUS
  <1>2. /\ ScanShape("dd_stat", q) /\ q \in Scans /\ MetaType /\ dpc[s] = "dd_stat" /\ Active(s)
        /\ StoreInv /\ EngineType /\ PlacedCache
    BY <1>1, ScanFacts DEF loadDedupeObject, Active
  <1>3. CASE q.objs = {} /\ Quietly(s, "dd_objects", q)
    <2>1. ScanShape("dd_objects", q)
      BY <1>2 DEF ScanShape, RefFixes, LinkFixes
    <2>2. ASSUME SoundAt("dd_stat", q)
          PROVE  SoundAt("dd_objects", q)
      <3>1. SnapAt("dd_objects", q) /\ InfoAt("dd_objects", q)
        BY <2>2 DEF SoundAt, SnapAt, InfoAt, FixCalls, RefFixes, LayoutCalls, ListCalls
      <3> QED
        BY <3>1, Collected DEF ListCalls
    <2> QED
      BY <1>1, <1>2, <1>3, <2>1, <2>2, QuietlyMoved, CallKindsHold DEF CallKinds, ListCalls
  <1>4. ASSUME NEW o \in q.objs, Quietly(s, "dd_stat", [q EXCEPT !.objs = @ \ {o}])
        PROVE  DedupeInv'
    <2>1. PICK r : r = [q EXCEPT !.objs = @ \ {o}]
      OBVIOUS
    <2>2. /\ r \in Scans /\ r.overlaps = q.overlaps /\ r.bkts = q.bkts /\ r.info = q.info /\ r.snap = q.snap
      BY <1>2, <2>1 DEF Scans
    <2>3. ScanShape("dd_stat", r)
      BY <1>2, <2>2 DEF ScanShape, RefFixes, LinkFixes
    <2>4. ASSUME SoundAt("dd_stat", q)
          PROVE  SoundAt("dd_stat", r)
      <3>1. SnapAt("dd_stat", r) /\ InfoAt("dd_stat", r)
        BY <2>2, <2>4 DEF SoundAt, SnapAt, InfoAt, FixCalls, RefFixes, LayoutCalls, ListCalls
      <3> QED
        BY <3>1, Collected DEF ListCalls
    <2> QED
      BY <1>1, <1>2, <1>4, <2>1, <2>2, <2>3, <2>4, QuietlyMoved, CallKindsHold DEF CallKinds, ListCalls
  <1>5. ASSUME NEW o \in q.objs, Step(s, "dd_stat", [q EXCEPT !.objs = @ \ {o}, !.info[o] = GetLayout(o)]),
               cache' = [cache EXCEPT ![o] = GetLayout(o)], UNCHANGED <<metaVars, disk, shards>>
        PROVE  DedupeInv'
    <2>1. PICK r : r = [q EXCEPT !.objs = @ \ {o}, !.info[o] = GetLayout(o)]
      OBVIOUS
    <2>2. o \in Objects /\ GetLayout(o) \in Layouts
      BY <1>2, GetLayoutType DEF Scans
    <2>3. /\ r \in Scans /\ r.overlaps = q.overlaps /\ r.bkts = q.bkts /\ r.snap = q.snap
          /\ r.info = [q.info EXCEPT ![o] = GetLayout(o)]
      BY <1>2, <2>1, <2>2 DEF Scans
    <2>4. q.info \in [Objects -> Layouts]
      BY <1>2 DEF Scans
    <2>5. GetLayout(o) # NoLayout => GetLayout(o).dir \in Dirs
      BY <1>2, <2>2, FoundPlaced
    <2>6. ScanShape("dd_stat", r)
      BY <1>2, <2>3, <2>4, <2>5 DEF ScanShape, RefFixes, LinkFixes
    <2>7. \A x \in Objects : GetLayout(x)' = GetLayout(x)
      BY <1>2, <1>5, <2>2, CachedFound DEF EngineType
    <2>8. ASSUME SoundAt("dd_stat", q)
          PROVE  SoundAt("dd_stat", r)'
      <3>1. SnapAt("dd_stat", r) /\ InfoAt("dd_stat", r)
        BY <2>3, <2>4, <2>8 DEF SoundAt, SnapAt, InfoAt, FixCalls, RefFixes, LayoutCalls, ListCalls
      <3>2. SoundAt("dd_stat", r)
        BY <3>1, Collected DEF ListCalls
      <3> QED
        BY <1>5, <2>7, <3>2, SoundStays DEF metaVars
    <2>9. EngineType' /\ PlacedCache'
      BY <1>2, <1>5, <2>2, <2>5 DEF EngineType, PlacedCache
    <2>10. Step(s, "dd_stat", r) /\ StoreInv'
      BY <1>2, <1>5, <2>1, <2>9, EngineStore
    <2> QED
      BY <1>1, <1>2, <2>3, <2>6, <2>8, <2>10, Moved, CallKindsHold DEF CallKinds, ListCalls
  <1> QED
    BY <1>1, <1>3, <1>4, <1>5 DEF loadDedupeObject

(***************************************************************************)
(* Correcting references                                                    *)
(***************************************************************************)
RefCalls == {"dd_missing", "dd_existing"} \cup RefFixes

\* While references are corrected, what the run listed does not change: only
\* the refs matter.
LEMMA Corrected ==
  ASSUME NEW k \in RefCalls, NEW q, SoundAt(k, q), NEW l \in RefCalls, NEW r,
         UNCHANGED <<objects, engineVars>>, r.snap = q.snap, r.info = q.info,
         (HashesAt(l, r) /\ CurAt(l, r) /\ CountsAt(l, r))'
  PROVE  SoundAt(l, r)'
  <1>1. \A o \in Objects : GetLayout(o)' = GetLayout(o)
    BY DEF engineVars, GetLayout, ScannedDir
  <1>2. SnapAt(l, r)' /\ InfoAt(l, r)'
    BY <1>1 DEF SoundAt, SnapAt, InfoAt, RefCalls, FixCalls, RefFixes, LayoutCalls, ListCalls
  <1>3. LayoutsAt(l, r)'
    BY DEF LayoutsAt, RefCalls, RefFixes, LayoutCalls
  <1> QED
    BY <1>2, <1>3 DEF SoundAt

\* The refs as they are listed, and which of them are missing.
LEMMA ListRefsKeeps ==
  ASSUME DedupeInv, NEW s \in Scanners, ListBlobRefs(s)
  PROVE  DedupeInv'
  <1>1. PICK q : q = dd[s]
    OBVIOUS
  <1>2. ScanShape("dd_refs", q) /\ q \in Scans /\ MetaType /\ dpc[s] = "dd_refs" /\ Active(s)
    BY <1>1, ScanFacts DEF ListBlobRefs, Active
  <1>3. CASE Abort(s)
    BY <1>2, <1>3, QuietlyEnded DEF Abort
  <1>4. ASSUME NEW hs, hs = {h \in Hashes : Expected(q, h) > 0 /\ refCount[h] = 0},
               Quietly(s, "dd_missing", [q EXCEPT !.refs = refCount, !.path = refPath, !.hashes = hs])
        PROVE  DedupeInv'
    <2>1. PICK r : r = [q EXCEPT !.refs = refCount, !.path = refPath, !.hashes = hs]
      OBVIOUS
    <2>2. /\ r \in Scans /\ r.overlaps = q.overlaps /\ r.refs = refCount /\ r.path = refPath /\ r.hashes = hs
          /\ r.snap = q.snap /\ r.info = q.info
      BY <1>2, <1>4, <2>1 DEF Scans, MetaType
    <2>3. ScanShape("dd_missing", r)
      BY <1>2, <2>2 DEF ScanShape, RefFixes, LinkFixes
    <2>4. ASSUME SoundAt("dd_refs", q)
          PROVE  SoundAt("dd_missing", r)
      <3>1. SnapAt("dd_missing", r) /\ InfoAt("dd_missing", r)
        BY <2>2, <2>4 DEF SoundAt, SnapAt, InfoAt, FixCalls, RefFixes, LayoutCalls, ListCalls
      <3>2. \A h : Expected(r, h) = Expected(q, h) /\ Expected(r, h) \in Nat
        BY <2>2, SameExpected, ExpectedNat
      <3>3. HashesAt("dd_missing", r) /\ CurAt("dd_missing", r) /\ LayoutsAt("dd_missing", r)
        BY <1>4, <2>2, <3>2 DEF HashesAt, CurAt, LayoutsAt, Missing, FixCalls, RefFixes, LayoutCalls
      <3>4. ASSUME NEW h \in Hashes
            PROVE  CountAt("dd_missing", r, h)
        BY <1>2, <1>4, <2>2, <3>2 DEF CountAt, Todo, Missing, Drifted, MetaType
      <3> QED
        BY <3>1, <3>3, <3>4 DEF SoundAt, CountsAt
    <2> QED
      BY <1>1, <1>2, <1>4, <2>1, <2>2, <2>3, <2>4, QuietlyMoved, CallKindsHold DEF CallKinds, FixCalls
  <1> QED
    BY <1>1, <1>3, <1>4 DEF ListBlobRefs

\* The loops end, or an item does, for want of fixes: then nothing is claimed of
\* the refs that were not reached.
LEMMA LimitedKeeps ==
  ASSUME DedupeInv, NEW s \in Scanners, NEW k, NEW q, NEW l, NEW x, q = dd[s], k = dpc[s],
         k \in RefCalls, l \in {"dd_missing", "dd_existing"}, x \in Scans,
         x.overlaps = q.overlaps, x.snap = q.snap, x.info = q.info, x.refs = q.refs, x.path = q.path,
         x.hashes \subseteq q.hashes, Missing(k, q) = Missing(l, x), Limited(s, l, x)
  PROVE  DedupeInv'
  <1>1. PICK r : r = [x EXCEPT !.limited = TRUE]
    OBVIOUS
  <1>2. /\ r \in Scans /\ r.overlaps = q.overlaps /\ r.snap = q.snap /\ r.info = q.info /\ r.refs = q.refs
        /\ r.path = q.path /\ r.hashes = x.hashes /\ r.limited = TRUE /\ r.back = x.back
    BY <1>1 DEF Scans
  <1>3. ScanShape(k, q) /\ MetaType
    BY ScanFacts
  <1>4. ScanShape(l, r)
    BY <1>2, <1>3 DEF ScanShape, RefFixes, LinkFixes
  <1>5. Quietly(s, l, r) /\ Active(s)
    BY <1>1 DEF Limited, Active, RefCalls, RefFixes
  <1>6. ASSUME SoundAt(k, q)
        PROVE  SoundAt(l, r)
    <2>1. (\A h : Expected(r, h) = Expected(q, h)) /\ Drifted(r) = Drifted(q)
      BY <1>2, SameExpected
    <2>2. SnapAt(l, r) /\ InfoAt(l, r)
      BY <1>2, <1>6 DEF SoundAt, SnapAt, InfoAt, RefCalls, FixCalls, RefFixes, LayoutCalls, ListCalls
    <2>3. Missing(l, r) = Missing(k, q)
      BY <1>2 DEF Missing
    <2>4. HashesAt(l, r) /\ CurAt(l, r) /\ LayoutsAt(l, r)
      BY <1>2, <1>6, <2>1, <2>3 DEF SoundAt, HashesAt, CurAt, LayoutsAt, RefCalls, FixCalls, RefFixes, LayoutCalls
    <2>5. Todo(l, r) \subseteq Todo(k, q)
      BY <1>2, <2>1, <2>3 DEF Todo
    <2>6. ASSUME NEW h \in Hashes
          PROVE  CountAt(l, r, h)
      <3>1. CountAt(k, q, h)
        BY <1>6 DEF SoundAt, CountsAt, RefCalls, FixCalls
      <3> QED
        BY <1>2, <2>1, <2>5, <3>1 DEF CountAt
    <2> QED
      BY <2>2, <2>4, <2>6 DEF SoundAt, CountsAt
  <1> QED
    BY <1>2, <1>4, <1>5, <1>6, QuietlyMoved, CallKindsHold DEF CallKinds, FixCalls

\* What the commands on a ref do to it, and leave of the others.
LEMMA OneRef ==
  ASSUME MetaType, NEW h \in Hashes
  PROVE  /\ \A d : CreateBlobRef(h, d) =>
              /\ refCount'[h] = refCount[h] + 1
              /\ refPath'[h] = IF refCount[h] = 0 THEN d ELSE refPath[h]
         /\ IncreaseBlobRef(h) => refCount'[h] = refCount[h] + 1 /\ refPath'[h] = refPath[h]
         /\ DecreaseBlobRef(h) =>
              /\ refCount'[h] = IF refCount[h] <= 1 THEN 0 ELSE refCount[h] - 1
              /\ refCount[h] > 1 => refPath'[h] = refPath[h]
         /\ \A d : CreateBlobRef(h, d) \/ IncreaseBlobRef(h) \/ DecreaseBlobRef(h) =>
              /\ \A g \in Hashes \ {h} : refCount'[g] = refCount[g] /\ refPath'[g] = refPath[g]
              /\ objects' = objects
  BY DEF MetaType, CreateBlobRef, IncreaseBlobRef, DecreaseBlobRef

\* Missing refs are created from a layout that could be read.
LEMMA FixMissingKeeps ==
  ASSUME DedupeInv, NEW s \in Scanners, fixMissingBlobRef(s)
  PROVE  DedupeInv'
  <1>1. PICK q : q = dd[s]
    OBVIOUS
  <1>2. /\ ScanShape("dd_missing", q) /\ q \in Scans /\ MetaType /\ dpc[s] = "dd_missing" /\ Active(s)
        /\ StoreInv
    BY <1>1, ScanFacts DEF fixMissingBlobRef, Active
  <1>3. CASE q.hashes = {} /\ Quietly(s, "dd_existing", [q EXCEPT !.hashes = Drifted(q)])
    <2>1. PICK r : r = [q EXCEPT !.hashes = Drifted(q)]
      OBVIOUS
    <2>2. /\ r \in Scans /\ r.overlaps = q.overlaps /\ r.hashes = Drifted(q) /\ r.snap = q.snap
          /\ r.info = q.info /\ r.refs = q.refs /\ r.path = q.path /\ r.limited = q.limited
      BY <1>2, <2>1 DEF Scans, Drifted
    <2>3. ScanShape("dd_existing", r)
      BY <1>2, <2>2 DEF ScanShape, RefFixes, LinkFixes
    <2>4. ASSUME SoundAt("dd_missing", q)
          PROVE  SoundAt("dd_existing", r)
      <3>1. (\A h : Expected(r, h) = Expected(q, h)) /\ Drifted(r) = Drifted(q)
        BY <2>2, SameExpected
      <3>2. SnapAt("dd_existing", r) /\ InfoAt("dd_existing", r)
        BY <2>2, <2>4 DEF SoundAt, SnapAt, InfoAt, FixCalls, RefFixes, LayoutCalls, ListCalls
      <3>3. HashesAt("dd_existing", r) /\ CurAt("dd_existing", r) /\ LayoutsAt("dd_existing", r)
        BY <2>2, <3>1 DEF HashesAt, CurAt, LayoutsAt, Missing, FixCalls, RefFixes, LayoutCalls
      <3>4. ASSUME NEW h \in Hashes
            PROVE  CountAt("dd_existing", r, h)
        <4>1. CountAt("dd_missing", q, h)
          BY <2>4 DEF SoundAt, CountsAt, FixCalls
        <4> QED
          BY <1>3, <2>2, <3>1, <4>1 DEF CountAt, Todo, Missing, ReadAll, RefFixes
      <3> QED
        BY <3>2, <3>3, <3>4 DEF SoundAt, CountsAt
    <2> QED
      BY <1>1, <1>2, <1>3, <2>1, <2>2, <2>3, <2>4, QuietlyMoved, CallKindsHold DEF CallKinds, FixCalls
  <1>4. ASSUME NEW h \in q.hashes, NEW first \in Objects, q.snap[first] = h,
               NEW x, x = [q EXCEPT !.hashes = @ \ {h}]
        PROVE  /\ q.info[first] = NoLayout /\ Quietly(s, "dd_missing", x) => DedupeInv'
               /\ Limited(s, "dd_missing", x) => DedupeInv'
               /\ \A d \in Dirs : /\ AbortCommand(s, CreateBlobRef(h, d)) => DedupeInv'
                                  /\ /\ CreateBlobRef(h, d) /\ ~reachedLimit(q)
                                     /\ Step(s, "dd_increase",
                                             [x EXCEPT !.path[h] = d, !.fixes = @ + 1, !.cur = h,
                                                !.left = Expected(q, h) - 1, !.back = "dd_missing"])
                                     /\ UNCHANGED engineVars
                                     => DedupeInv'
    <2>1. /\ x \in Scans /\ x.overlaps = q.overlaps /\ x.hashes = q.hashes \ {h} /\ x.snap = q.snap /\ h \in Hashes
          /\ x.info = q.info /\ x.refs = q.refs /\ x.path = q.path /\ x.limited = q.limited /\ x.fixes = q.fixes
      BY <1>2, <1>4 DEF Scans
    <2>2. Expected(q, h) \in Nat /\ Expected(q, h) > 0
      BY <1>4, ExpectedNat
    <2>3. ASSUME q.info[first] = NoLayout, Quietly(s, "dd_missing", x)
          PROVE  DedupeInv'
      <3>1. ScanShape("dd_missing", x)
        BY <1>2, <2>1 DEF ScanShape, RefFixes, LinkFixes
      <3>2. ASSUME SoundAt("dd_missing", q)
            PROVE  SoundAt("dd_missing", x)
        <4>1. (\A g : Expected(x, g) = Expected(q, g)) /\ Drifted(x) = Drifted(q)
          BY <2>1, SameExpected
        <4>2. SnapAt("dd_missing", x) /\ InfoAt("dd_missing", x)
          BY <2>1, <3>2 DEF SoundAt, SnapAt, InfoAt, FixCalls, RefFixes, LayoutCalls, ListCalls
        <4>3. HashesAt("dd_missing", x) /\ CurAt("dd_missing", x) /\ LayoutsAt("dd_missing", x)
          BY <2>1, <3>2, <4>1 DEF SoundAt, HashesAt, CurAt, LayoutsAt, Missing, FixCalls, RefFixes, LayoutCalls
        <4>4. ASSUME NEW g \in Hashes
              PROVE  CountAt("dd_missing", x, g)
          <5>1. CountAt("dd_missing", q, g)
            BY <3>2 DEF SoundAt, CountsAt, FixCalls
          <5>2. g = h => ~ReadAll(x, g)
            BY <1>4, <2>1, <2>3 DEF ReadAll
          <5> QED
            BY <2>1, <4>1, <5>1, <5>2 DEF CountAt, Todo, Missing, ReadAll, RefFixes
        <4> QED
          BY <4>2, <4>3, <4>4 DEF SoundAt, CountsAt
      <3> QED
        BY <1>1, <1>2, <2>1, <2>3, <3>1, <3>2, QuietlyMoved, CallKindsHold DEF CallKinds, FixCalls
    <2>4. ASSUME Limited(s, "dd_missing", x)
          PROVE  DedupeInv'
      BY <1>1, <1>2, <2>1, <2>4, LimitedKeeps DEF RefCalls, Missing
    <2>5. ASSUME NEW d \in Dirs, AbortCommand(s, CreateBlobRef(h, d))
          PROVE  DedupeInv'
      <3>1. StoreInv' /\ Step(s, "idle", NoScan)
        BY <1>2, <2>1, <2>5, ScanCommands, CommandStore DEF AbortCommand
      <3> QED
        BY <1>2, <3>1, Ended
    <2>6. ASSUME NEW d \in Dirs, CreateBlobRef(h, d), ~reachedLimit(q), UNCHANGED engineVars,
                 Step(s, "dd_increase",
                         [x EXCEPT !.path[h] = d, !.fixes = @ + 1, !.cur = h,
                            !.left = Expected(q, h) - 1, !.back = "dd_missing"])
          PROVE  DedupeInv'
      <3>1. PICK r : r = [x EXCEPT !.path[h] = d, !.fixes = @ + 1, !.cur = h,
                            !.left = Expected(q, h) - 1, !.back = "dd_missing"]
        OBVIOUS
      <3>2. x.fixes + 1 \in 0 .. MaxFixes
        BY <2>1, <2>6, DedupeAssumption DEF reachedLimit, Scans
      <3>3. /\ r \in Scans /\ r.overlaps = q.overlaps /\ r.hashes = q.hashes \ {h} /\ r.snap = q.snap
            /\ r.info = q.info /\ r.refs = q.refs /\ r.limited = q.limited
            /\ r.cur = h /\ r.left = Expected(q, h) - 1 /\ r.back = "dd_missing"
            /\ r.path = [q.path EXCEPT ![h] = d]
        <4>1. [x.path EXCEPT ![h] = d] \in [Hashes -> Dirs \cup {None}]
          BY <2>1 DEF Scans
        <4>2. Expected(q, h) - 1 \in Nat /\ "dd_missing" \in ScanCalls
          BY <2>2 DEF ScanCalls
        <4>3. PICK y : y = [x.path EXCEPT ![h] = d]
          OBVIOUS
        <4>4. r = [x EXCEPT !.path = y, !.fixes = @ + 1, !.cur = h, !.left = Expected(q, h) - 1,
                     !.back = "dd_missing"]
          BY <3>1, <4>3
        <4>5. r \in Scans
          BY <2>1, <3>2, <4>1, <4>2, <4>3, <4>4 DEF Scans
        <4> QED
          BY <2>1, <4>3, <4>4, <4>5 DEF Scans
      <3>4. ScanShape("dd_increase", r)
        BY <1>2, <2>1, <3>3 DEF ScanShape, RefFixes, LinkFixes
      <3>5. StoreInv' /\ Step(s, "dd_increase", r)
        BY <1>2, <2>1, <2>6, <3>1, ScanCommands, CommandStore
      <3>6. ASSUME SoundAt("dd_missing", q)
            PROVE  SoundAt("dd_increase", r)'
        <4>1. (\A g : Expected(r, g) = Expected(q, g)) /\ Drifted(r) = Drifted(q)
          BY <3>3, SameExpected
        <4>2. q.refs[h] = 0 /\ h \notin Drifted(q)
          BY <1>4, <3>6 DEF SoundAt, HashesAt, Missing, Drifted
        <4>3. refCount[h] = 0
          BY <1>4, <2>1, <3>6, <4>2 DEF SoundAt, CountsAt, CountAt, Todo, FixCalls
        <4>4. refCount'[h] = 1 /\ refPath'[h] = d
          BY <1>2, <2>1, <2>6, <4>3, OneRef
        <4>5. objects' = objects /\ \A g \in Hashes \ {h} : refCount'[g] = refCount[g] /\ refPath'[g] = refPath[g]
          BY <1>2, <2>1, <2>6, OneRef
        <4>6. Todo("dd_increase", r) = Todo("dd_missing", q) \ {h}
          BY <3>3, <4>1, <4>2 DEF Todo, Missing
        <4>7. HashesAt("dd_increase", r)'
          BY <3>3, <3>6, <4>1 DEF SoundAt, HashesAt, Missing, FixCalls, RefFixes, LayoutCalls
        <4>8. CurAt("dd_increase", r)'
          BY <2>2, <3>3, <4>1, <4>4, <4>6 DEF CurAt, RefFixes
        <4>9. ASSUME NEW g \in Hashes
              PROVE  CountAt("dd_increase", r, g)'
          <5>1. CountAt("dd_missing", q, g)
            BY <3>6 DEF SoundAt, CountsAt, FixCalls
          <5>2. CASE g = h
            <6>1. q.path \in [Hashes -> Dirs \cup {None}]
              BY <1>2 DEF Scans
            <6> QED
              BY <2>1, <3>3, <4>4, <4>6, <5>2, <6>1 DEF CountAt, RefFixes
          <5>3. CASE g # h
            <6>1. q.path \in [Hashes -> Dirs \cup {None}]
              BY <1>2 DEF Scans
            <6>2. r.path[g] = q.path[g]
              BY <3>3, <5>3, <6>1
            <6> QED
              BY <3>3, <4>1, <4>5, <4>6, <5>1, <5>3, <6>2 DEF CountAt, ReadAll, RefFixes
          <5> QED
            BY <5>2, <5>3
        <4> QED
          BY <2>6, <3>3, <3>6, <4>5, <4>7, <4>8, <4>9, Corrected DEF CountsAt, RefCalls, RefFixes
      <3> QED
        BY <1>1, <1>2, <3>3, <3>4, <3>5, <3>6, Moved, CallKindsHold DEF CallKinds, FixCalls, RefFixes
    <2> QED
      BY <2>3, <2>4, <2>5, <2>6
  <1>5. ASSUME NEW o \in Objects, q.info[o] # NoLayout
        PROVE  q.info[o].dir \in Dirs
    BY <1>2, <1>5 DEF ScanShape
  <1> QED
    BY <1>1, <1>3, <1>4, <1>5 DEF fixMissingBlobRef

\* A command on the ref being corrected: of the other refs nothing changes.
LEMMA CurMoved ==
  ASSUME MetaType, NEW k \in RefFixes, NEW q, q.cur \in Hashes, SoundAt(k, q),
         NEW l \in RefCalls, NEW r, UNCHANGED engineVars,
         r.snap = q.snap, r.info = q.info, r.refs = q.refs, r.hashes = q.hashes, r.limited = q.limited,
         \A g \in Hashes \ {q.cur} : r.path[g] = q.path[g],
         Missing(l, r) = Missing(k, q),
         \E d : CreateBlobRef(q.cur, d) \/ IncreaseBlobRef(q.cur) \/ DecreaseBlobRef(q.cur),
         Expected(q, q.cur) > 0 => r.path[q.cur] = refPath'[q.cur],
         \/ l \in RefFixes \ {"dd_blob"} /\ r.cur = q.cur
         \/ refCount'[q.cur] = Expected(q, q.cur),
         CurAt(l, r)'
  PROVE  SoundAt(l, r)'
  <1>1. (\A g : Expected(r, g) = Expected(q, g)) /\ Drifted(r) = Drifted(q)
    BY SameExpected
  <1>2. objects' = objects /\ \A g \in Hashes \ {q.cur} : refCount'[g] = refCount[g] /\ refPath'[g] = refPath[g]
    BY OneRef
  <1>3. Todo(l, r) = Todo(k, q) /\ q.cur \notin Todo(k, q)
    BY <1>1 DEF Todo, SoundAt, CurAt
  <1>4. HashesAt(l, r)'
    BY <1>1 DEF SoundAt, HashesAt, RefCalls, FixCalls, RefFixes, LayoutCalls
  <1>5. ASSUME NEW g \in Hashes
        PROVE  CountAt(l, r, g)'
    <2>1. CountAt(k, q, g)
      BY DEF SoundAt, CountsAt, FixCalls
    <2>2. CASE g = q.cur
      BY <1>1, <1>3, <2>2 DEF CountAt
    <2>3. CASE g # q.cur
      BY <1>1, <1>2, <1>3, <2>1, <2>3 DEF CountAt, ReadAll
    <2> QED
      BY <2>2, <2>3
  <1>6. k \in RefCalls
    BY DEF RefCalls
  <1> QED
    BY <1>2, <1>4, <1>5, <1>6, Corrected DEF CountsAt

\* The correction of a ref is over, and its count is the expected one.
LEMMA CurDone ==
  ASSUME NEW k \in RefFixes, NEW q, q.cur \in Hashes, SoundAt(k, q),
         NEW l \in {"dd_missing", "dd_existing"},
         Missing(l, q) = Missing(k, q), refCount[q.cur] = Expected(q, q.cur)
  PROVE  SoundAt(l, q)
  <1>1. Todo(l, q) = Todo(k, q) /\ q.cur \notin Todo(k, q)
    BY DEF Todo, SoundAt, CurAt
  <1>2. HashesAt(l, q) /\ CurAt(l, q) /\ LayoutsAt(l, q)
    BY DEF SoundAt, HashesAt, CurAt, LayoutsAt, FixCalls, RefFixes, LayoutCalls
  <1>3. ASSUME NEW g \in Hashes
        PROVE  CountAt(l, q, g)
    <2>1. CountAt(k, q, g)
      BY DEF SoundAt, CountsAt, FixCalls
    <2> QED
      BY <1>1, <2>1 DEF CountAt
  <1>4. SnapAt(l, q) /\ InfoAt(l, q)
    BY DEF SoundAt, SnapAt, InfoAt, FixCalls, RefFixes, LayoutCalls, ListCalls
  <1> QED
    BY <1>2, <1>3, <1>4 DEF SoundAt, CountsAt

\* References are added one by one.
LEMMA IncreaseKeeps ==
  ASSUME DedupeInv, NEW s \in Scanners, increaseBlobRef(s)
  PROVE  DedupeInv'
  <1>1. PICK q : q = dd[s]
    OBVIOUS
  <1>2. /\ ScanShape("dd_increase", q) /\ q \in Scans /\ MetaType /\ dpc[s] = "dd_increase" /\ Active(s)
        /\ StoreInv
    BY <1>1, ScanFacts DEF increaseBlobRef, Active
  <1>3. q.cur \in Hashes /\ q.back \in {"dd_missing", "dd_existing"} /\ q.left \in Nat
    BY <1>2 DEF ScanShape, RefFixes, Scans
  <1>4. Missing("dd_increase", q) = Missing(q.back, q)
    BY <1>3 DEF Missing
  <1>5. CASE q.left = 0 /\ Quietly(s, q.back, q)
    <2>1. ASSUME SoundAt("dd_increase", q)
          PROVE  SoundAt(q.back, q)
      <3>1. refCount[q.cur] = Expected(q, q.cur)
        BY <1>2, <1>3, <1>5, <2>1 DEF SoundAt, CurAt, MetaType
      <3> QED
        BY <1>3, <1>4, <2>1, <3>1, CurDone DEF RefFixes
    <2>2. ScanShape(q.back, q)
      BY <1>2, <1>3 DEF ScanShape, RefFixes, LinkFixes
    <2> QED
      BY <1>1, <1>2, <1>3, <1>5, <2>1, <2>2, QuietlyMoved, CallKindsHold DEF CallKinds, FixCalls
  <1>6. CASE Limited(s, q.back, q)
    BY <1>1, <1>2, <1>3, <1>4, <1>6, LimitedKeeps DEF RefCalls, RefFixes
  <1>7. CASE Quietly(s, "idle", NoScan)
    BY <1>2, <1>7, QuietlyEnded
  <1>8. CASE AbortCommand(s, IncreaseBlobRef(q.cur))
    <2>1. StoreInv' /\ Step(s, "idle", NoScan)
      BY <1>2, <1>3, <1>8, ScanCommands, CommandStore DEF AbortCommand
    <2> QED
      BY <1>2, <2>1, Ended
  <1>9. CASE /\ q.left > 0 /\ ~reachedLimit(q) /\ IncreaseBlobRef(q.cur) /\ UNCHANGED engineVars
             /\ Step(s, "dd_increase", [q EXCEPT !.left = @ - 1, !.fixes = @ + 1])
    <2>1. PICK r : r = [q EXCEPT !.left = @ - 1, !.fixes = @ + 1]
      OBVIOUS
    <2>2. q.fixes + 1 \in 0 .. MaxFixes /\ q.left - 1 \in Nat
      BY <1>2, <1>3, <1>9, DedupeAssumption DEF reachedLimit, Scans
    <2>3. /\ r \in Scans /\ r.overlaps = q.overlaps /\ r.hashes = q.hashes /\ r.snap = q.snap
          /\ r.info = q.info /\ r.refs = q.refs /\ r.limited = q.limited /\ r.path = q.path
          /\ r.cur = q.cur /\ r.left = q.left - 1 /\ r.back = q.back
      BY <1>2, <2>1, <2>2 DEF Scans
    <2>4. ScanShape("dd_increase", r)
      BY <1>2, <2>3 DEF ScanShape, RefFixes, LinkFixes
    <2>5. StoreInv' /\ Step(s, "dd_increase", r)
      BY <1>2, <1>3, <1>9, <2>1, ScanCommands, CommandStore
    <2>6. refCount'[q.cur] = refCount[q.cur] + 1 /\ refPath'[q.cur] = refPath[q.cur] /\ refCount[q.cur] \in Nat
      BY <1>2, <1>3, <1>9, OneRef DEF MetaType
    <2>7. ASSUME SoundAt("dd_increase", q)
          PROVE  SoundAt("dd_increase", r)'
      <3>1. (\A g : Expected(r, g) = Expected(q, g)) /\ Drifted(r) = Drifted(q)
        BY <2>3, SameExpected
      <3>2. Missing("dd_increase", r) = Missing("dd_increase", q) /\ Todo("dd_increase", r) = Todo("dd_increase", q)
        BY <2>3, <3>1 DEF Missing, Todo
      <3>3. CurAt("dd_increase", r)'
        BY <1>3, <2>3, <2>6, <2>7, <3>1, <3>2 DEF SoundAt, CurAt, RefFixes
      <3>4. Expected(q, q.cur) > 0 => r.path[q.cur] = refPath'[q.cur]
        BY <1>3, <2>3, <2>6, <2>7 DEF SoundAt, CountsAt, CountAt, FixCalls, RefFixes
      <3> QED
        BY <1>2, <1>3, <1>9, <2>3, <2>7, <3>2, <3>3, <3>4, CurMoved DEF RefFixes, RefCalls
    <2> QED
      BY <1>1, <1>2, <2>3, <2>4, <2>5, <2>7, Moved, CallKindsHold DEF CallKinds, FixCalls, RefFixes
  <1> QED
    BY <1>1, <1>5, <1>6, <1>7, <1>8, <1>9 DEF increaseBlobRef

\* The counts of the listing decide what is to be done with a ref.
LEMMA FixCountKeeps ==
  ASSUME DedupeInv, NEW s \in Scanners, fixBlobRefCount(s)
  PROVE  DedupeInv'
  <1>1. PICK q : q = dd[s]
    OBVIOUS
  <1>2. ScanShape("dd_existing", q) /\ q \in Scans /\ MetaType /\ dpc[s] = "dd_existing" /\ Active(s)
    BY <1>1, ScanFacts DEF fixBlobRefCount, Active
  <1>3. CASE q.hashes = {} /\ Quietly(s, "dd_layouts", [q EXCEPT !.objs = {o \in Objects : q.snap[o] # None}])
    <2>1. PICK r : r = [q EXCEPT !.objs = {o \in Objects : q.snap[o] # None}]
      OBVIOUS
    <2>2. /\ r \in Scans /\ r.overlaps = q.overlaps /\ r.hashes = {} /\ r.snap = q.snap /\ r.limited = q.limited
          /\ r.info = q.info /\ r.refs = q.refs /\ r.path = q.path /\ r.objs = {o \in Objects : q.snap[o] # None}
      BY <1>2, <1>3, <2>1 DEF Scans
    <2>3. ScanShape("dd_layouts", r)
      BY <1>2, <2>2 DEF ScanShape, RefFixes, LinkFixes
    <2>4. ASSUME SoundAt("dd_existing", q)
          PROVE  SoundAt("dd_layouts", r)
      <3>1. (\A h : Expected(r, h) = Expected(q, h)) /\ Drifted(r) = Drifted(q)
        BY <2>2, SameExpected
      <3>2. SnapAt("dd_layouts", r) /\ InfoAt("dd_layouts", r)
        BY <2>2, <2>4 DEF SoundAt, SnapAt, InfoAt, FixCalls, RefFixes, LayoutCalls, ListCalls
      <3>3. HashesAt("dd_layouts", r) /\ CurAt("dd_layouts", r) /\ LayoutsAt("dd_layouts", r)
        BY <2>2, <3>1 DEF HashesAt, CurAt, LayoutsAt, Missing, FixCalls, RefFixes, LayoutCalls
      <3>4. ASSUME NEW h \in Hashes
            PROVE  CountAt("dd_layouts", r, h)
        <4>1. CountAt("dd_existing", q, h)
          BY <2>4 DEF SoundAt, CountsAt, FixCalls
        <4> QED
          BY <1>3, <2>2, <3>1, <4>1 DEF CountAt, Todo, Missing, ReadAll, RefFixes
      <3> QED
        BY <3>2, <3>3, <3>4 DEF SoundAt, CountsAt
    <2> QED
      BY <1>1, <1>2, <1>3, <2>1, <2>2, <2>3, <2>4, QuietlyMoved, CallKindsHold DEF CallKinds, FixCalls, LayoutCalls
  <1>4. ASSUME NEW h \in q.hashes, NEW fix, fix = [q EXCEPT !.hashes = @ \ {h}, !.cur = h, !.back = "dd_existing"],
               NEW l \in {"dd_orphan", "dd_increase", "dd_decrease"}, NEW n \in Nat, NEW r,
               r = [fix EXCEPT !.left = n] \/ (l = "dd_orphan" /\ r = fix),
               l = "dd_orphan" => Expected(q, h) = 0,
               l = "dd_increase" => Expected(q, h) > q.refs[h] /\ n = Expected(q, h) - q.refs[h],
               l = "dd_decrease" => Expected(q, h) > 0 /\ n = q.refs[h] - Expected(q, h),
               Quietly(s, l, r)
        PROVE  DedupeInv'
    <2>1. h \in Hashes /\ q.refs[h] \in Nat /\ Expected(q, h) \in Nat
      BY <1>2, <1>4, ExpectedNat DEF Scans
    <2>2. /\ fix \in Scans /\ fix.overlaps = q.overlaps /\ fix.hashes = q.hashes \ {h} /\ fix.snap = q.snap
          /\ fix.limited = q.limited /\ fix.info = q.info /\ fix.refs = q.refs /\ fix.path = q.path
          /\ fix.cur = h /\ fix.back = "dd_existing"
      BY <1>2, <1>4, <2>1 DEF Scans, ScanCalls
    <2>3. /\ r \in Scans /\ r.overlaps = q.overlaps /\ r.hashes = q.hashes \ {h} /\ r.snap = q.snap
          /\ r.limited = q.limited /\ r.info = q.info /\ r.refs = q.refs /\ r.path = q.path
          /\ r.cur = h /\ r.back = "dd_existing" /\ (l # "dd_orphan" => r.left = n)
      <3>1. CASE r = [fix EXCEPT !.left = n]
        BY <2>2, <3>1 DEF Scans
      <3>2. CASE l = "dd_orphan" /\ r = fix
        BY <2>2, <3>2
      <3> QED
        BY <1>4, <3>1, <3>2
    <2>4. ScanShape(l, r)
      BY <1>2, <2>1, <2>3 DEF ScanShape, RefFixes, LinkFixes
    <2>5. ASSUME SoundAt("dd_existing", q)
          PROVE  SoundAt(l, r)
      <3>1. (\A g : Expected(r, g) = Expected(q, g)) /\ Drifted(r) = Drifted(q)
        BY <2>3, SameExpected
      <3>2. SnapAt(l, r) /\ InfoAt(l, r)
        BY <2>3, <2>5 DEF SoundAt, SnapAt, InfoAt, FixCalls, RefFixes, LayoutCalls, ListCalls
      <3>3. ~Missing(l, r) /\ Todo(l, r) = q.hashes \ {h} /\ Todo("dd_existing", q) = q.hashes
        BY <2>3 DEF Missing, Todo
      <3>4. HashesAt(l, r) /\ LayoutsAt(l, r)
        BY <2>3, <2>5, <3>1, <3>3 DEF SoundAt, HashesAt, LayoutsAt, Missing, FixCalls, RefFixes, LayoutCalls
      <3>5. refCount[h] = q.refs[h] /\ q.refs[h] > 0
        BY <2>1, <2>5, <3>3 DEF SoundAt, CountsAt, CountAt, HashesAt, Missing, Drifted, FixCalls
      <3>6. CurAt(l, r)
        BY <1>4, <2>1, <2>3, <3>1, <3>3, <3>5 DEF CurAt, RefFixes
      <3>7. ASSUME NEW g \in Hashes
            PROVE  CountAt(l, r, g)
        <4>1. CountAt("dd_existing", q, g)
          BY <2>5 DEF SoundAt, CountsAt, FixCalls
        <4> QED
          BY <2>3, <3>1, <3>3, <4>1 DEF CountAt, ReadAll, RefFixes
      <3> QED
        BY <3>2, <3>4, <3>6, <3>7 DEF SoundAt, CountsAt
    <2> QED
      BY <1>1, <1>2, <1>4, <2>3, <2>4, <2>5, QuietlyMoved, CallKindsHold DEF CallKinds, FixCalls, RefFixes
  <1>5. ASSUME NEW h \in q.hashes
        PROVE  q.refs[h] \in Nat /\ Expected(q, h) \in Nat
    BY <1>2, ExpectedNat DEF Scans
  <1> QED
    <2>1. SUFFICES ASSUME NEW h \in q.hashes, NEW fix,
                          fix = [q EXCEPT !.hashes = @ \ {h}, !.cur = h, !.back = "dd_existing"],
                          \/ Expected(q, h) = 0 /\ Quietly(s, "dd_orphan", fix)
                          \/ /\ Expected(q, h) > q.refs[h]
                             /\ Quietly(s, "dd_increase", [fix EXCEPT !.left = Expected(q, h) - q.refs[h]])
                          \/ /\ 0 < Expected(q, h) /\ Expected(q, h) < q.refs[h]
                             /\ Quietly(s, "dd_decrease", [fix EXCEPT !.left = q.refs[h] - Expected(q, h)])
                   PROVE  DedupeInv'
      BY <1>1, <1>3 DEF fixBlobRefCount
    <2>2. CASE Expected(q, h) = 0 /\ Quietly(s, "dd_orphan", fix)
      BY <1>4, <1>5, <2>1, <2>2
    <2>3. CASE Expected(q, h) > q.refs[h] /\ Quietly(s, "dd_increase", [fix EXCEPT !.left = Expected(q, h) - q.refs[h]])
      <3>1. Expected(q, h) - q.refs[h] \in Nat
        BY <1>5, <2>3
      <3> QED
        BY <1>4, <2>1, <2>3, <3>1
    <2>4. CASE /\ 0 < Expected(q, h) /\ Expected(q, h) < q.refs[h]
               /\ Quietly(s, "dd_decrease", [fix EXCEPT !.left = q.refs[h] - Expected(q, h)])
      <3>1. q.refs[h] - Expected(q, h) \in Nat
        BY <1>5, <2>4
      <3> QED
        BY <1>4, <2>1, <2>4, <3>1
    <2> QED
      BY <2>1, <2>2, <2>3, <2>4

\* References are taken one by one, down to the expected count.
LEMMA DecreaseKeeps ==
  ASSUME DedupeInv, NEW s \in Scanners, decreaseBlobRefToExpected(s)
  PROVE  DedupeInv'
  <1>1. PICK q : q = dd[s]
    OBVIOUS
  <1>2. /\ ScanShape("dd_decrease", q) /\ q \in Scans /\ MetaType /\ dpc[s] = "dd_decrease" /\ Active(s)
        /\ StoreInv
    BY <1>1, ScanFacts DEF decreaseBlobRefToExpected, Active
  <1>3. q.cur \in Hashes /\ q.left \in Nat
    BY <1>2 DEF ScanShape, RefFixes, Scans
  <1>4. Missing("dd_decrease", q) = Missing("dd_existing", q)
    BY DEF Missing
  <1>5. CASE q.left = 0 /\ Quietly(s, "dd_existing", q)
    <2>1. ASSUME SoundAt("dd_decrease", q)
          PROVE  SoundAt("dd_existing", q)
      <3>1. refCount[q.cur] = Expected(q, q.cur)
        BY <1>5, <2>1, ExpectedNat DEF SoundAt, CurAt
      <3> QED
        BY <1>3, <1>4, <2>1, <3>1, CurDone DEF RefFixes
    <2>2. ScanShape("dd_existing", q)
      BY <1>2 DEF ScanShape, RefFixes, LinkFixes
    <2> QED
      BY <1>1, <1>2, <1>5, <2>1, <2>2, QuietlyMoved, CallKindsHold DEF CallKinds, FixCalls
  <1>6. CASE Limited(s, "dd_existing", q)
    BY <1>1, <1>2, <1>4, <1>6, LimitedKeeps DEF RefCalls, RefFixes
  <1>7. CASE AbortCommand(s, DecreaseBlobRef(q.cur))
    <2>1. StoreInv' /\ Step(s, "idle", NoScan)
      BY <1>2, <1>3, <1>7, ScanCommands, CommandStore DEF AbortCommand
    <2> QED
      BY <1>2, <2>1, Ended
  <1>8. CASE /\ q.left > 0 /\ ~reachedLimit(q) /\ DecreaseBlobRef(q.cur) /\ UNCHANGED engineVars
             /\ Step(s, "dd_decrease", [q EXCEPT !.left = @ - 1, !.fixes = @ + 1])
    <2>1. PICK r : r = [q EXCEPT !.left = @ - 1, !.fixes = @ + 1]
      OBVIOUS
    <2>2. q.fixes + 1 \in 0 .. MaxFixes /\ q.left - 1 \in Nat
      BY <1>2, <1>3, <1>8, DedupeAssumption DEF reachedLimit, Scans
    <2>3. /\ r \in Scans /\ r.overlaps = q.overlaps /\ r.hashes = q.hashes /\ r.snap = q.snap
          /\ r.info = q.info /\ r.refs = q.refs /\ r.limited = q.limited /\ r.path = q.path
          /\ r.cur = q.cur /\ r.left = q.left - 1 /\ r.back = q.back
      BY <1>2, <2>1, <2>2 DEF Scans
    <2>4. ScanShape("dd_decrease", r)
      BY <1>2, <2>3 DEF ScanShape, RefFixes, LinkFixes
    <2>5. StoreInv' /\ Step(s, "dd_decrease", r)
      BY <1>2, <1>3, <1>8, <2>1, ScanCommands, CommandStore
    <2>6. ASSUME SoundAt("dd_decrease", q)
          PROVE  SoundAt("dd_decrease", r)'
      <3>1. (\A g : Expected(r, g) = Expected(q, g)) /\ Drifted(r) = Drifted(q) /\ Expected(q, q.cur) \in Nat
        BY <2>3, SameExpected, ExpectedNat
      <3>2. Missing("dd_decrease", r) = Missing("dd_decrease", q) /\ Todo("dd_decrease", r) = Todo("dd_decrease", q)
        BY <2>3, <3>1 DEF Missing, Todo
      <3>3. refCount[q.cur] = q.left + Expected(q, q.cur) /\ Expected(q, q.cur) > 0
        BY <2>6 DEF SoundAt, CurAt
      <3>4. refCount'[q.cur] = refCount[q.cur] - 1 /\ refPath'[q.cur] = refPath[q.cur]
        BY <1>2, <1>3, <1>8, <3>1, <3>3, OneRef
      <3>5. CurAt("dd_decrease", r)'
        BY <1>3, <2>3, <2>6, <3>1, <3>2, <3>3, <3>4 DEF SoundAt, CurAt, RefFixes
      <3>6. Expected(q, q.cur) > 0 => r.path[q.cur] = refPath'[q.cur]
        BY <1>3, <2>3, <2>6, <3>4 DEF SoundAt, CountsAt, CountAt, FixCalls, RefFixes
      <3> QED
        BY <1>2, <1>3, <1>8, <2>3, <2>6, <3>2, <3>5, <3>6, CurMoved DEF RefFixes, RefCalls
    <2> QED
      BY <1>1, <1>2, <2>3, <2>4, <2>5, <2>6, Moved, CallKindsHold DEF CallKinds, FixCalls, RefFixes
  <1> QED
    BY <1>1, <1>5, <1>6, <1>7, <1>8 DEF decreaseBlobRefToExpected

\* A ref nobody uses is decreased until it is removed.
LEMMA OrphanKeeps ==
  ASSUME DedupeInv, NEW s \in Scanners, removeOrphanBlobRef(s)
  PROVE  DedupeInv'
  <1>1. PICK q : q = dd[s]
    OBVIOUS
  <1>2. /\ ScanShape("dd_orphan", q) /\ q \in Scans /\ MetaType /\ dpc[s] = "dd_orphan" /\ Active(s)
        /\ StoreInv /\ RefsOK
    BY <1>1, ScanFacts DEF removeOrphanBlobRef, Active, StoreInv, TypeInv, MetaOK
  <1>3. q.cur \in Hashes /\ q.path \in [Hashes -> Dirs \cup {None}]
    BY <1>2 DEF ScanShape, RefFixes, Scans
  <1>4. CASE Limited(s, "dd_existing", q)
    <2>1. Missing("dd_orphan", q) = Missing("dd_existing", q)
      BY DEF Missing
    <2> QED
      BY <1>1, <1>2, <1>4, <2>1, LimitedKeeps DEF RefCalls, RefFixes
  <1>5. CASE AbortCommand(s, DecreaseBlobRef(q.cur))
    <2>1. StoreInv' /\ Step(s, "idle", NoScan)
      BY <1>2, <1>3, <1>5, ScanCommands, CommandStore DEF AbortCommand
    <2> QED
      BY <1>2, <2>1, Ended
  <1>6. ASSUME NEW l, NEW r, ~reachedLimit(q), DecreaseBlobRef(q.cur), UNCHANGED engineVars, Step(s, l, r),
               \/ /\ refCount[q.cur] = 1 /\ l = "dd_blob"
                  /\ r = [q EXCEPT !.fixes = @ + 1, !.path[q.cur] = refPath[q.cur]]
               \/ refCount[q.cur] # 1 /\ l = "dd_orphan" /\ r = [q EXCEPT !.fixes = @ + 1]
        PROVE  DedupeInv'
    <2>1. q.fixes + 1 \in 0 .. MaxFixes
      BY <1>2, <1>3, <1>6, DedupeAssumption DEF reachedLimit, Scans
    <2>2. /\ r \in Scans /\ r.overlaps = q.overlaps /\ r.hashes = q.hashes /\ r.snap = q.snap
          /\ r.info = q.info /\ r.refs = q.refs /\ r.limited = q.limited /\ r.cur = q.cur /\ r.back = q.back
          /\ r.path = IF l = "dd_blob" THEN [q.path EXCEPT ![q.cur] = refPath[q.cur]] ELSE q.path
      <3>1. CASE l = "dd_orphan"
        BY <1>2, <1>6, <2>1, <3>1 DEF Scans
      <3>2. CASE l = "dd_blob"
        <4>1. PICK y : y = [q.path EXCEPT ![q.cur] = refPath[q.cur]]
          OBVIOUS
        <4>2. y \in [Hashes -> Dirs \cup {None}]
          BY <1>2, <1>3, <4>1 DEF MetaType
        <4>3. r = [q EXCEPT !.fixes = @ + 1, !.path = y]
          BY <1>6, <3>2, <4>1
        <4> QED
          BY <1>2, <2>1, <3>2, <4>1, <4>2, <4>3 DEF Scans
      <3> QED
        BY <1>6, <3>1, <3>2
    <2>3. ScanShape(l, r)
      <3>1. l = "dd_blob" => r.path[r.cur] \in Dirs
        BY <1>2, <1>3, <1>6, <2>2 DEF RefsOK
      <3> QED
        BY <1>2, <1>6, <2>2, <3>1 DEF ScanShape, RefFixes, LinkFixes
    <2>4. StoreInv'
      BY <1>2, <1>3, <1>6, ScanCommands, CommandStore
    <2>5. ASSUME SoundAt("dd_orphan", q)
          PROVE  SoundAt(l, r)'
      <3>1. (\A g : Expected(r, g) = Expected(q, g)) /\ Drifted(r) = Drifted(q)
        BY <2>2, SameExpected
      <3>2. Missing(l, r) = Missing("dd_orphan", q) /\ Todo(l, r) = Todo("dd_orphan", q)
        BY <1>6, <2>2, <3>1 DEF Missing, Todo
      <3>3. refCount[q.cur] > 0 /\ Expected(q, q.cur) = 0 /\ refCount[q.cur] \in Nat
        BY <1>2, <1>3, <2>5 DEF SoundAt, CurAt, MetaType
      <3>4. refCount'[q.cur] = IF refCount[q.cur] = 1 THEN 0 ELSE refCount[q.cur] - 1
        BY <1>2, <1>3, <1>6, <3>3, OneRef
      <3>5. CurAt(l, r)'
        BY <1>6, <2>2, <2>5, <3>1, <3>2, <3>3, <3>4 DEF SoundAt, CurAt, RefFixes
      <3>6. \A g \in Hashes \ {q.cur} : r.path[g] = q.path[g]
        BY <1>3, <2>2
      <3>7. \/ l \in RefFixes \ {"dd_blob"} /\ r.cur = q.cur
            \/ refCount'[q.cur] = Expected(q, q.cur)
        BY <1>6, <2>2, <3>3, <3>4 DEF RefFixes
      <3>8. l \in RefCalls /\ "dd_orphan" \in RefFixes /\ ~(Expected(q, q.cur) > 0)
        BY <1>6, <3>3 DEF RefFixes, RefCalls
      <3> QED
        BY <1>2, <1>3, <1>6, <2>2, <2>5, <3>2, <3>5, <3>6, <3>7, <3>8, CurMoved
    <2> QED
      BY <1>1, <1>2, <1>6, <2>2, <2>3, <2>4, <2>5, Moved, CallKindsHold DEF CallKinds, FixCalls, RefFixes
  <1> QED
    BY <1>1, <1>4, <1>5, <1>6 DEF removeOrphanBlobRef

\* The blob of a removed ref is deleted.
LEMMA OrphanBlobKeeps ==
  ASSUME DedupeInv, NEW s \in Scanners, deleteRemovedOrphanBlob(s)
  PROVE  DedupeInv'
  <1>1. PICK q : q = dd[s]
    OBVIOUS
  <1>2. /\ ScanShape("dd_blob", q) /\ q \in Scans /\ EngineType /\ PlacedCache /\ dpc[s] = "dd_blob" /\ Active(s)
        /\ StoreInv
    BY <1>1, ScanFacts DEF deleteRemovedOrphanBlob, Active
  <1>3. CASE Abort(s)
    BY <1>2, <1>3, QuietlyEnded DEF Abort
  <1>4. CASE DeleteBlob(q.path[q.cur], q.cur) /\ Step(s, "dd_existing", q) /\ UNCHANGED metaVars
    <2>1. EngineType' /\ UNCHANGED <<cache, disk>>
      BY <1>2, <1>4, SetShardsType DEF DeleteBlob, SetShards
    <2>2. StoreInv'
      BY <1>2, <1>4, <2>1, EngineStore DEF PlacedCache
    <2>3. ScanShape("dd_existing", q)
      BY <1>2 DEF ScanShape, RefFixes, LinkFixes
    <2>4. ASSUME SoundAt("dd_blob", q)
          PROVE  SoundAt("dd_existing", q)'
      <3>1. q.cur \in Hashes
        BY <1>2 DEF ScanShape, RefFixes
      <3>2. refCount[q.cur] = Expected(q, q.cur) /\ Missing("dd_existing", q) = Missing("dd_blob", q)
        BY <2>4 DEF SoundAt, CurAt, Missing
      <3>3. SoundAt("dd_existing", q)
        BY <2>4, <3>1, <3>2, CurDone DEF RefFixes
      <3>4. \A o \in Objects : GetLayout(o)' = GetLayout(o)
        BY <2>1 DEF GetLayout, ScannedDir
      <3> QED
        BY <1>4, <3>3, <3>4, SoundStays DEF metaVars
    <2> QED
      BY <1>1, <1>2, <1>4, <2>2, <2>3, <2>4, Moved, CallKindsHold DEF CallKinds, FixCalls
  <1> QED
    BY <1>1, <1>3, <1>4 DEF deleteRemovedOrphanBlob

(***************************************************************************)
(* Correcting layouts                                                       *)
(***************************************************************************)
\* While layouts are corrected, refs and listings stay what they are.
LEMMA Laid ==
  ASSUME NEW k \in LayoutCalls, NEW q, SoundAt(k, q), NEW l \in LayoutCalls, NEW r,
         r.snap = q.snap, r.info = q.info, r.refs = q.refs, r.path = q.path, r.hashes = q.hashes,
         q.limited => r.limited, r.objs \subseteq q.objs, LayoutsAt(l, r)
  PROVE  SoundAt(l, r)
  <1>1. (\A g : Expected(r, g) = Expected(q, g)) /\ Drifted(r) = Drifted(q)
    BY SameExpected
  <1>2. ~Missing(l, r) /\ ~Missing(k, q) /\ Todo(l, r) = {} /\ Todo(k, q) = {} /\ q.hashes = {}
    BY DEF SoundAt, HashesAt, Todo, Missing, LayoutCalls
  <1>3. SnapAt(l, r) /\ InfoAt(l, r)
    BY DEF SoundAt, SnapAt, InfoAt, FixCalls, RefFixes, LayoutCalls, ListCalls
  <1>4. HashesAt(l, r) /\ CurAt(l, r)
    BY <1>2 DEF HashesAt, CurAt, RefFixes, LayoutCalls
  <1>5. ASSUME NEW g \in Hashes
        PROVE  CountAt(l, r, g)
    <2>1. CountAt(k, q, g)
      BY DEF SoundAt, CountsAt, FixCalls
    <2> QED
      BY <1>1, <1>2, <2>1 DEF CountAt, ReadAll, RefFixes, LayoutCalls
  <1> QED
    BY <1>3, <1>4, <1>5 DEF SoundAt, CountsAt

\* The ref of a listed content counts, and where it is is known, as soon as the
\* references are corrected.
LEMMA RefOfListed ==
  ASSUME MetaType, RefsOK, NEW k \in LayoutCalls, NEW q, SoundAt(k, q),
         NEW o \in Objects, q.snap[o] \in Hashes
  PROVE  /\ q.path[q.snap[o]] = refPath[q.snap[o]]
         /\ q.limited \/ ~ReadAll(q, q.snap[o]) \/ refPath[q.snap[o]] \in Dirs
  <1> DEFINE h == q.snap[o]
  <1>1. CountAt(k, q, h) /\ Todo(k, q) = {}
    BY DEF SoundAt, CountsAt, HashesAt, Todo, Missing, FixCalls, LayoutCalls
  <1>2. Expected(q, h) \in Nat /\ Expected(q, h) > 0
    BY ExpectedNat
  <1> QED
    BY <1>1, <1>2 DEF CountAt, RefsOK, RefFixes, LayoutCalls

\* Each object's layout is compared with the listed ref.
LEMMA CanonicalizeKeeps ==
  ASSUME DedupeInv, NEW s \in Scanners, canonicalizeDedupeLayouts(s)
  PROVE  DedupeInv'
  <1>1. PICK q : q = dd[s]
    OBVIOUS
  <1>2. /\ ScanShape("dd_layouts", q) /\ q \in Scans /\ MetaType /\ dpc[s] = "dd_layouts" /\ Active(s)
        /\ RefsOK /\ "dd_layouts" \in LayoutCalls
    BY <1>1, ScanFacts DEF canonicalizeDedupeLayouts, Active, StoreInv, TypeInv, MetaOK, LayoutCalls
  <1>3. CASE q.objs = {} /\ Quietly(s, "dd_end", q)
    <2>1. ScanShape("dd_end", q)
      BY <1>2, <1>3 DEF ScanShape, RefFixes, LinkFixes
    <2>2. ASSUME SoundAt("dd_layouts", q)
          PROVE  SoundAt("dd_end", q)
      <3>1. LayoutsAt("dd_end", q)
        BY <2>2 DEF SoundAt, LayoutsAt, LayoutCalls
      <3> QED
        BY <1>2, <2>2, <3>1, Laid DEF LayoutCalls
    <2> QED
      BY <1>1, <1>2, <1>3, <2>1, <2>2, QuietlyMoved, CallKindsHold DEF CallKinds, FixCalls, LayoutCalls
  <1>4. ASSUME NEW o \in q.objs, NEW rest, rest = [q EXCEPT !.objs = @ \ {o}]
        PROVE  /\ ~dedupeLayoutMismatch(q, o) /\ Quietly(s, "dd_layouts", rest) => DedupeInv'
               /\ Limited(s, "dd_layouts", rest) => DedupeInv'
               /\ /\ dedupeLayoutMismatch(q, o) /\ ~reachedLimit(q)
                  /\ Quietly(s, "dd_link", [rest EXCEPT !.obj = o])
                  => DedupeInv'
    <2>1. /\ rest \in Scans /\ rest.overlaps = q.overlaps /\ rest.hashes = q.hashes /\ rest.snap = q.snap
          /\ rest.info = q.info /\ rest.refs = q.refs /\ rest.path = q.path /\ rest.limited = q.limited
          /\ rest.objs = q.objs \ {o} /\ rest.fixes = q.fixes
      BY <1>2, <1>4 DEF Scans
    <2>2. o \in Objects /\ q.snap[o] \in Hashes /\ q.path[q.snap[o]] \in Dirs \cup {None}
      BY <1>2, <1>4 DEF ScanShape, Scans
    <2>3. ASSUME ~dedupeLayoutMismatch(q, o), Quietly(s, "dd_layouts", rest)
          PROVE  DedupeInv'
      <3>1. ScanShape("dd_layouts", rest)
        BY <1>2, <2>1 DEF ScanShape, RefFixes, LinkFixes
      <3>2. ASSUME SoundAt("dd_layouts", q)
            PROVE  SoundAt("dd_layouts", rest)
        <4>1. q.limited \/ ~ReadAll(q, q.snap[o]) \/ Canonical(q, o)
          <5>1. SUFFICES ASSUME ~q.limited, ReadAll(q, q.snap[o])
                         PROVE  Canonical(q, o)
            OBVIOUS
          <5>2. q.path[q.snap[o]] = refPath[q.snap[o]] /\ refPath[q.snap[o]] \in Dirs
            BY <1>2, <2>2, <3>2, <5>1, RefOfListed
          <5>3. q.info[o] # NoLayout /\ q.info[o] = GetLayout(o)
            BY <1>4, <2>2, <3>2, <5>1 DEF ReadAll, SoundAt, InfoAt
          <5>4. refPath[q.snap[o]] # None
            BY <5>2, ObjectsAssumption
          <5> QED
            BY <2>3, <5>2, <5>3, <5>4 DEF dedupeLayoutMismatch, Canonical
        <4>2. \A x \in Objects : Canonical(rest, x) <=> Canonical(q, x)
          BY <2>1 DEF Canonical
        <4>3. \A h : ReadAll(rest, h) <=> ReadAll(q, h)
          BY <2>1 DEF ReadAll
        <4>4. LayoutsAt("dd_layouts", rest)
          BY <2>1, <3>2, <4>1, <4>2, <4>3 DEF SoundAt, LayoutsAt
        <4> QED
          BY <1>2, <2>1, <3>2, <4>4, Laid
      <3> QED
        BY <1>1, <1>2, <2>1, <2>3, <3>1, <3>2, QuietlyMoved, CallKindsHold DEF CallKinds, FixCalls
    <2>4. ASSUME Limited(s, "dd_layouts", rest)
          PROVE  DedupeInv'
      <3>1. PICK r : r = [rest EXCEPT !.limited = TRUE]
        OBVIOUS
      <3>2. /\ r \in Scans /\ r.overlaps = q.overlaps /\ r.hashes = q.hashes /\ r.snap = q.snap
            /\ r.info = q.info /\ r.refs = q.refs /\ r.path = q.path /\ r.limited = TRUE
            /\ r.objs = q.objs \ {o}
        BY <2>1, <3>1 DEF Scans
      <3>3. ScanShape("dd_layouts", r)
        BY <1>2, <3>2 DEF ScanShape, RefFixes, LinkFixes
      <3>4. LayoutsAt("dd_layouts", r)
        BY <3>2 DEF LayoutsAt
      <3>5. SoundAt("dd_layouts", q) => SoundAt("dd_layouts", r)
        BY <1>2, <3>2, <3>4, Laid
      <3>6. Quietly(s, "dd_layouts", r)
        BY <2>4, <3>1 DEF Limited
      <3> QED
        BY <1>1, <1>2, <3>2, <3>3, <3>5, <3>6, QuietlyMoved, CallKindsHold DEF CallKinds, FixCalls
    <2>5. ASSUME dedupeLayoutMismatch(q, o), ~reachedLimit(q), Quietly(s, "dd_link", [rest EXCEPT !.obj = o])
          PROVE  DedupeInv'
      <3>1. PICK r : r = [rest EXCEPT !.obj = o]
        OBVIOUS
      <3>2. /\ r \in Scans /\ r.overlaps = q.overlaps /\ r.hashes = q.hashes /\ r.snap = q.snap
            /\ r.info = q.info /\ r.refs = q.refs /\ r.path = q.path /\ r.limited = q.limited
            /\ r.objs = q.objs \ {o} /\ r.obj = o /\ r.fixes = q.fixes
        BY <2>1, <2>2, <3>1 DEF Scans
      <3>3. r.path[r.snap[o]] \in Dirs
        BY <2>2, <2>5, <3>2 DEF dedupeLayoutMismatch
      <3>4. r.fixes < MaxFixes
        BY <1>2, <2>5, <3>2, DedupeAssumption DEF reachedLimit, Scans
      <3>5. ScanShape("dd_link", r)
        BY <1>2, <2>2, <3>2, <3>3, <3>4 DEF ScanShape, RefFixes, LinkFixes
      <3>6. ASSUME SoundAt("dd_layouts", q)
            PROVE  SoundAt("dd_link", r)
        <4>1. \A x \in Objects : Canonical(r, x) <=> Canonical(q, x)
          BY <3>2 DEF Canonical
        <4>2. \A h : ReadAll(r, h) <=> ReadAll(q, h)
          BY <3>2 DEF ReadAll
        <4>3. LayoutsAt("dd_link", r)
          BY <3>2, <3>6, <4>1, <4>2 DEF SoundAt, LayoutsAt, LayoutCalls
        <4> QED
          BY <1>2, <3>2, <3>6, <4>3, Laid DEF LayoutCalls
      <3> QED
        BY <1>1, <1>2, <2>5, <3>1, <3>2, <3>5, <3>6, QuietlyMoved, CallKindsHold DEF CallKinds, FixCalls, LayoutCalls
    <2> QED
      BY <2>3, <2>4, <2>5
  <1> QED
    BY <1>1, <1>3, <1>4 DEF canonicalizeDedupeLayouts

\* The layout getLayout finds depends on the object's own cache entry and files.
LEMMA ElsewhereFound ==
  ASSUME EngineType, EngineType', NEW x \in Objects, cache'[x] = cache[x], disk'[x] = disk[x]
  PROVE  GetLayout(x)' = GetLayout(x)
  <1>1. ASSUME \E d \in Dirs : disk[x][d] # None
        PROVE  ScannedDir(x)' = ScannedDir(x)
    <2> DEFINE S == {d \in Dirs : disk[x][d] # None}
               First(d) == d \in S /\ \A e \in S : d <= e
    <2>1. \E d \in S : \A e \in S : d <= e
      BY <1>1, FirstDir
    <2>2. First(ScannedDir(x))
      BY <2>1 DEF ScannedDir
    <2>3. \A d \in Dirs : disk'[x][d] # None <=> d \in S
      OBVIOUS
    <2>4. First(ScannedDir(x)')
      BY <2>1, <2>3 DEF ScannedDir
    <2>5. \A a, b \in Nat : a <= b /\ b <= a => a = b
      OBVIOUS
    <2> QED
      BY <2>2, <2>4, <2>5, ObjectsAssumption
  <1> QED
    BY <1>1 DEF GetLayout

\* A layout is linked to where the ref says it is.
LEMMA LinkKeeps ==
  ASSUME DedupeInv, NEW s \in Scanners, LinkCanonical(s)
  PROVE  DedupeInv'
  <1>1. PICK q : q = dd[s]
    OBVIOUS
  <1>2. /\ ScanShape("dd_link", q) /\ q \in Scans /\ MetaType /\ EngineType /\ PlacedCache
        /\ dpc[s] = "dd_link" /\ Active(s) /\ RefsOK /\ StoreInv
        /\ "dd_link" \in LayoutCalls /\ "dd_upsert" \in LayoutCalls
    BY <1>1, ScanFacts DEF LinkCanonical, Active, StoreInv, TypeInv, MetaOK, LayoutCalls
  <1>3. CASE Abort(s)
    BY <1>2, <1>3, QuietlyEnded DEF Abort
  <1>4. CASE /\ LinkObject(q.obj, q.path[q.snap[q.obj]], q.snap[q.obj]) /\ Step(s, "dd_upsert", q)
             /\ UNCHANGED metaVars
    <2>1. PICK o, h, d : o = q.obj /\ h = q.snap[q.obj] /\ d = q.path[q.snap[q.obj]]
      OBVIOUS
    <2>2. o \in Objects \ q.objs /\ h \in Hashes /\ d \in Dirs
      BY <1>2, <2>1 DEF ScanShape, LinkFixes
    <2>3. LinkObject(o, d, h)
      BY <1>4, <2>1
    <2>4. EngineType'
      BY <1>2, <2>2, <2>3, LinkType
    <2>5. cache' = [cache EXCEPT ![o] = [dir |-> d, hash |-> h]] /\ \A x \in Objects \ {o} : disk'[x] = disk[x]
      BY <1>2, <2>2, <2>3 DEF LinkObject, EngineType
    <2>6. PlacedCache'
      BY <1>2, <2>2, <2>5 DEF PlacedCache, EngineType
    <2>7. StoreInv'
      BY <1>2, <1>4, <2>4, <2>6, EngineStore
    <2>8. ScanShape("dd_upsert", q)
      BY <1>2 DEF ScanShape, RefFixes, LinkFixes
    <2>9. ASSUME SoundAt("dd_link", q)
          PROVE  SoundAt("dd_upsert", q)'
      <3>1. GetLayout(o)' = [dir |-> d, hash |-> h]
        <4>1. [dir |-> d, hash |-> h] # NoLayout
          BY <2>2, ObjectsAssumption DEF NoLayout
        <4> QED
          BY <1>2, <2>2, <2>5, <4>1 DEF GetLayout, EngineType
      <3>2. \A x \in Objects \ {o} : GetLayout(x)' = GetLayout(x)
        <4>1. \A x \in Objects \ {o} : cache'[x] = cache[x] /\ disk'[x] = disk[x]
          BY <1>2, <2>2, <2>5 DEF EngineType
        <4> QED
          BY <1>2, <2>4, <4>1, ElsewhereFound
      <3>3. d = refPath[h]
        BY <1>2, <2>1, <2>2, <2>9, RefOfListed
      <3>4. UNCHANGED <<objects, refCount, refPath>>
        BY <1>4 DEF metaVars
      <3>5. SnapAt("dd_upsert", q)' /\ InfoAt("dd_upsert", q)'
        BY <2>2, <2>9, <3>2, <3>4 DEF SoundAt, SnapAt, InfoAt, FixCalls, RefFixes, LayoutCalls, ListCalls
      <3>6. HashesAt("dd_upsert", q)' /\ CurAt("dd_upsert", q)'
        BY <2>9 DEF SoundAt, HashesAt, CurAt, Missing, FixCalls, RefFixes, LayoutCalls
      <3>7. ASSUME NEW g \in Hashes
            PROVE  CountAt("dd_upsert", q, g)'
        <4>1. CountAt("dd_link", q, g)
          BY <2>9 DEF SoundAt, CountsAt, FixCalls, LayoutCalls
        <4> QED
          BY <3>4, <4>1 DEF CountAt, Todo, Missing, RefFixes
      <3>8. Canonical(q, o)'
        BY <2>1, <3>1, <3>3, <3>4 DEF Canonical
      <3>9. \A x \in Objects \ {o} : Canonical(q, x) => Canonical(q, x)'
        BY <3>2, <3>4 DEF Canonical
      <3>10. LayoutsAt("dd_upsert", q)'
        BY <2>1, <2>9, <3>8, <3>9 DEF SoundAt, LayoutsAt, ReadAll, LayoutCalls
      <3> QED
        BY <3>5, <3>6, <3>7, <3>10 DEF SoundAt, CountsAt
    <2> QED
      BY <1>1, <1>2, <1>4, <2>7, <2>8, <2>9, Moved, CallKindsHold DEF CallKinds, FixCalls, LayoutCalls
  <1> QED
    BY <1>1, <1>3, <1>4 DEF LinkCanonical

\* The metadata is written back as it was listed.
LEMMA UpsertKeeps ==
  ASSUME DedupeInv, NEW s \in Scanners, UpsertCanonical(s)
  PROVE  DedupeInv'
  <1>1. PICK q : q = dd[s]
    OBVIOUS
  <1>2. /\ ScanShape("dd_upsert", q) /\ q \in Scans /\ MetaType /\ dpc[s] = "dd_upsert" /\ Active(s)
        /\ StoreInv /\ "dd_layouts" \in LayoutCalls /\ "dd_upsert" \in LayoutCalls
    BY <1>1, ScanFacts DEF UpsertCanonical, Active, LayoutCalls
  <1>3. PICK o, h : o = q.obj /\ h = q.snap[q.obj]
    OBVIOUS
  <1>4. o \in Objects /\ h \in Hashes
    BY <1>2, <1>3 DEF ScanShape, LinkFixes
  <1>5. UNCHANGED engineVars
    BY DEF UpsertCanonical
  <1>6. CASE Step(s, "idle", NoScan) /\ (UNCHANGED metaVars \/ UpsertObjectMeta(o, h))
    <2>1. StoreInv'
      BY <1>2, <1>4, <1>5, <1>6, ScanCommands, CommandStore
    <2> QED
      BY <1>2, <1>6, <2>1, Ended
  <1>7. CASE UpsertObjectMeta(o, h) /\ Step(s, "dd_layouts", [q EXCEPT !.fixes = @ + 1])
    <2>1. PICK r : r = [q EXCEPT !.fixes = @ + 1]
      OBVIOUS
    <2>2. q.fixes + 1 \in 0 .. MaxFixes
      BY <1>2, DedupeAssumption DEF ScanShape, LinkFixes, Scans
    <2>3. /\ r \in Scans /\ r.overlaps = q.overlaps /\ r.hashes = q.hashes /\ r.snap = q.snap
          /\ r.info = q.info /\ r.refs = q.refs /\ r.path = q.path /\ r.limited = q.limited
          /\ r.objs = q.objs
      BY <1>2, <2>1, <2>2 DEF Scans
    <2>4. ScanShape("dd_layouts", r)
      BY <1>2, <2>3 DEF ScanShape, RefFixes, LinkFixes
    <2>5. StoreInv' /\ Step(s, "dd_layouts", r)
      BY <1>2, <1>4, <1>5, <1>7, <2>1, ScanCommands, CommandStore
    <2>6. ASSUME SoundAt("dd_upsert", q)
          PROVE  SoundAt("dd_layouts", r)'
      <3>1. objects[o] = h
        BY <1>3, <2>6 DEF SoundAt, SnapAt, FixCalls, LayoutCalls
      <3>2. UNCHANGED <<objects, refCount, refPath>>
        BY <1>2, <1>4, <1>7, <3>1 DEF UpsertObjectMeta, MetaType
      <3>3. LayoutsAt("dd_layouts", r)
        <4>1. \A x \in Objects : Canonical(r, x) <=> Canonical(q, x)
          BY <2>3 DEF Canonical
        <4>2. \A g : ReadAll(r, g) <=> ReadAll(q, g)
          BY <2>3 DEF ReadAll
        <4> QED
          BY <2>3, <2>6, <4>1, <4>2 DEF SoundAt, LayoutsAt, LayoutCalls
      <3>4. SoundAt("dd_layouts", r)
        BY <1>2, <2>3, <2>6, <3>3, Laid
      <3>5. \A x \in Objects : GetLayout(x)' = GetLayout(x)
        BY <1>5 DEF engineVars, GetLayout, ScannedDir
      <3> QED
        BY <3>2, <3>4, <3>5, SoundStays
    <2> QED
      BY <1>1, <1>2, <2>3, <2>4, <2>5, <2>6, Moved, CallKindsHold DEF CallKinds, FixCalls
  <1> QED
    BY <1>1, <1>3, <1>6, <1>7 DEF UpsertCanonical, AbortCommand

(***************************************************************************)
(* All steps                                                                *)
(***************************************************************************)
\* Every call of a run.
LEMMA ScanKeeps ==
  ASSUME DedupeInv, NEW s \in Scanners, DedupeStart(s) \/ ScanWork(s)
  PROVE  DedupeInv'
  <1>1. CASE DedupeEnd(s)
    BY <1>1, QuietlyEnded DEF DedupeEnd, Active
  <1> QED
    BY <1>1, StartKeeps, ListBucketsKeeps, ListObjectsKeeps, LoadKeeps, ListRefsKeeps, FixMissingKeeps,
       IncreaseKeeps, FixCountKeeps, DecreaseKeeps, OrphanKeeps, OrphanBlobKeeps, CanonicalizeKeeps,
       LinkKeeps, UpsertKeeps DEF ScanWork

\* A step of the store is an overlap to every run, and a restart ends them.
LEMMA BesideKeeps ==
  ASSUME DedupeInv, Beside(Next)
  PROVE  DedupeInv'
  <1>1. StoreInv' /\ ScansOK
    BY NextStore DEF Beside, DedupeInv
  <1>2. CASE crashes' # crashes
    <2>1. \A s \in Scanners : dpc'[s] = "idle" /\ dd'[s] = NoScan
      BY <1>2 DEF Beside
    <2>2. ScansOK'
      BY <1>2, <2>1, NoScanShape DEF Beside, ScansOK, ScanCalls
    <2> QED
      BY <1>1, <2>1, <2>2 DEF DedupeInv, QuietInv, Active
  <1>3. CASE crashes' = crashes
    <2>1. dpc' = dpc /\ \A s \in Scanners : dd'[s] = Overlapped(s)
      BY <1>3 DEF Beside
    <2>2. ScansOK'
      BY <1>1, <2>1, OverlapShape DEF ScansOK
    <2>3. ASSUME NEW s \in Scanners, Active(s)'
          PROVE  dd'[s].overlaps # 0
      <3>1. Active(s) /\ dd[s].overlaps \in Nat
        BY <1>1, <2>1, <2>3 DEF Active, ScansOK, ScanShape, Scans
      <3> QED
        BY <1>1, <2>1, <3>1, OverlapShape
    <2> QED
      BY <1>1, <2>2, <2>3 DEF DedupeInv, QuietInv
  <1> QED
    BY <1>2, <1>3

\* A stuttering step.
LEMMA StutterKeeps ==
  ASSUME DedupeInv, UNCHANGED <<vars, dedupeVars>>
  PROVE  DedupeInv'
  <1>1. StoreInv'
    BY NextStore DEF DedupeInv
  <1>2. dpc' = dpc /\ dd' = dd /\ UNCHANGED <<pc, objects, refCount, refPath, cache, disk>>
    BY DEF dedupeVars, vars, metaVars, engineVars
  <1>3. ScansOK'
    BY <1>2 DEF DedupeInv, ScansOK, ScanShape
  <1>4. ASSUME NEW s \in Scanners, Active(s)', dd'[s].overlaps = 0
        PROVE  (Alone(s) /\ SoundAt(dpc[s], dd[s]))'
    <2>1. PICK l, r : l = dpc[s] /\ r = dd[s]
      OBVIOUS
    <2>2. Alone(s) /\ SoundAt(l, r)
      BY <1>2, <1>4, <2>1 DEF DedupeInv, QuietInv, Active
    <2>3. \A o \in Objects : GetLayout(o)' = GetLayout(o)
      BY <1>2 DEF GetLayout, ScannedDir
    <2>4. SoundAt(l, r)' /\ l = dpc'[s] /\ r = dd'[s]
      BY <1>2, <2>1, <2>2, <2>3, SoundStays
    <2>5. SoundAt(dpc[s], dd[s])'
      BY <2>4 DEF SoundAt, SnapAt, InfoAt, HashesAt, CurAt, CountsAt, CountAt, LayoutsAt, Canonical,
                  Todo, Missing, Drifted, Expected, ReadAll
    <2> QED
      BY <1>2, <2>2, <2>5 DEF Alone
  <1> QED
    BY <1>1, <1>3, <1>4 DEF DedupeInv, QuietInv

\* The invariant is inductive.
LEMMA DedupeStep == DedupeInv /\ [DedupeNext]_<<vars, dedupeVars>> => DedupeInv'
  BY ScanKeeps, BesideKeeps, StutterKeeps DEF DedupeNext

\* No run has begun.
LEMMA DedupeStarts == DedupeInit => DedupeInv
  <1> SUFFICES ASSUME DedupeInit
               PROVE  DedupeInv
    OBVIOUS
  <1>1. StoreInv /\ \A s \in Scanners : dpc[s] = "idle" /\ dd[s] = NoScan
    BY InitStore DEF DedupeInit
  <1>2. ScansOK
    BY <1>1, NoScanShape DEF DedupeInit, ScansOK, ScanCalls
  <1> QED
    BY <1>1, <1>2 DEF DedupeInv, QuietInv, Active

\* Next to any number of scanners and requests, with any failures, lost replies,
\* restarts and expiries, DedupeInv holds: the store stays in order, and a run
\* that is alone knows what is committed and what its refs count.
THEOREM DedupeInvariant == DedupeSpec => []DedupeInv
  BY DedupeStarts, DedupeStep, PTL DEF DedupeSpec

\* DedupeTypeOK: the store and the locals of the runs are well typed, and no run
\* makes more than MaxFixes fixes, whichever of its loops counts them.
THEOREM DedupeTypes == DedupeSpec => []DedupeTypeOK
  <1>1. DedupeInv => DedupeTypeOK
    BY TypeParts DEF DedupeInv, StoreInv, TypeInv, MetaOK, ControlOK, ScansOK, ScanShape, Scans, DedupeTypeOK
  <1> QED
    BY <1>1, DedupeInvariant, PTL

\* NoObjectOutsideBuckets: the metadata a run writes back as it listed it does not
\* bring an object back whose bucket was deleted meanwhile.
THEOREM ScansKeepBuckets == DedupeSpec => []NoObjectOutsideBuckets
  <1>1. DedupeInv => NoObjectOutsideBuckets
    BY DEF DedupeInv, StoreInv
  <1> QED
    BY <1>1, DedupeInvariant, PTL

\* What a run that was alone and within its limit has corrected.
LEMMA Reached ==
  ASSUME DedupeInv, NEW s \in Scanners, Reconciled(s)
  PROVE  /\ SoundAt("dd_end", dd[s]) /\ ScanShape("dd_end", dd[s]) /\ ~dd[s].limited
         /\ dd[s].snap = objects
         /\ \A h : Legible(s, h) => ReadAll(dd[s], h)
  <1>1. dpc[s] = "dd_end" /\ dd[s].overlaps = 0 /\ ~dd[s].limited
    BY DEF Reconciled
  <1>2. SoundAt("dd_end", dd[s]) /\ ScanShape("dd_end", dd[s])
    BY <1>1 DEF DedupeInv, QuietInv, ScansOK, Active
  <1>3. dd[s].snap = objects
    BY <1>2 DEF SoundAt, SnapAt, FixCalls, LayoutCalls
  <1> QED
    BY <1>1, <1>2, <1>3 DEF Legible, ReadAll, Users

\* QuietRunExact: whatever failed puts, deletes, crashes and overlapping runs left
\* behind, a run that is alone and within its limit ends with every blob ref
\* counting exactly the committed objects with its content.
THEOREM QuietRunsExact == DedupeSpec => []QuietRunExact
  <1>1. DedupeInv => QuietRunExact
    <2> SUFFICES ASSUME DedupeInv, NEW s \in Scanners, Reconciled(s), NEW h \in Hashes, Legible(s, h)
                 PROVE  refCount[h] = Cardinality(Users(h))
      BY DEF QuietRunExact
    <2>1. PICK r : r = dd[s]
      OBVIOUS
    <2>2. SoundAt("dd_end", r) /\ ~r.limited /\ r.snap = objects /\ ReadAll(r, h)
      BY <2>1, Reached
    <2>3. CountAt("dd_end", r, h) /\ Todo("dd_end", r) = {}
      BY <2>2 DEF SoundAt, CountsAt, HashesAt, Todo, Missing, FixCalls, LayoutCalls
    <2>4. refCount[h] = Expected(r, h)
      BY <2>2, <2>3 DEF CountAt, RefFixes
    <2> QED
      BY <2>2, <2>4 DEF Expected, Users
  <1> QED
    BY <1>1, DedupeInvariant, PTL

\* QuietRunCanonical: and with the layout of every object where its ref says.
THEOREM QuietRunsCanonical == DedupeSpec => []QuietRunCanonical
  <1>1. DedupeInv => QuietRunCanonical
    <2> SUFFICES ASSUME DedupeInv, NEW s \in Scanners, Reconciled(s), NEW o \in Objects,
                        objects[o] # None, Legible(s, objects[o])
                 PROVE  GetLayout(o) = [dir |-> refPath[objects[o]], hash |-> objects[o]]
      BY DEF QuietRunCanonical
    <2>1. PICK r : r = dd[s]
      OBVIOUS
    <2>2. /\ SoundAt("dd_end", r) /\ ~r.limited /\ r.snap = objects /\ ReadAll(r, objects[o]) /\ r.objs = {}
      BY <2>1, Reached DEF ScanShape
    <2>3. Canonical(r, o)
      BY <2>2 DEF SoundAt, LayoutsAt, LayoutCalls
    <2> QED
      BY <2>2, <2>3 DEF Canonical
  <1> QED
    BY <1>1, DedupeInvariant, PTL

(***************************************************************************)
(* What a run that is alone does on its way                                 *)
(***************************************************************************)
\* A content that is not counted has no path.
PathsCounted == \A h \in Hashes : refCount[h] = 0 => refPath[h] = None

\* The commands on refs keep that.
LEMMA PathsCommands ==
  ASSUME MetaType, PathsCounted, NEW h, NEW d,
         CreateBlobRef(h, d) \/ IncreaseBlobRef(h) \/ DecreaseBlobRef(h)
  PROVE  PathsCounted'
  BY DEF MetaType, PathsCounted, CreateBlobRef, IncreaseBlobRef, DecreaseBlobRef

\* A command is on the refs or leaves them alone.
RefCommand ==
    \/ UNCHANGED <<refCount, refPath>>
    \/ \E h, d : CreateBlobRef(h, d) \/ IncreaseBlobRef(h) \/ DecreaseBlobRef(h)

\* The store reaches the refs by their commands only.
LEMMA RefCommands ==
  ASSUME TypeInv, [Next]_vars
  PROVE  RefCommand
  <1> USE DEF RefCommand, metaVars, FailClean, FailCommand
  <1>1. ASSUME NEW p \in Procs, PutEnsureBucket(p) \/ PutLoadExisting(p) \/ PutLoadExistingRef(p)
                                \/ PutPrepareBlob(p) \/ PutCreateBlob(p) \/ PutLinkLayout(p) \/ FailDropBlob(p)
        PROVE  UNCHANGED <<refCount, refPath>>
    BY <1>1 DEF PutEnsureBucket, PutLoadExisting, PutLoadExistingRef, PutPrepareBlob, PutCreateBlob,
                PutLinkLayout, FailDropBlob
  <1>2. ASSUME NEW p \in Procs, PutStageMeta(p) \/ PutIntentPrepared(p) \/ PutIntentLinked(p) \/ PutIntentRetained(p)
        PROVE  UNCHANGED <<refCount, refPath>>
    BY <1>2 DEF PutStageMeta, PutIntentPrepared, PutIntentLinked, PutIntentRetained, AdvanceIntent,
                StageObjectMeta
  <1>3. ASSUME NEW p \in Procs, PutCommit(p) \/ PutUnstage(p) \/ FailUnstage(p)
        PROVE  UNCHANGED <<refCount, refPath>>
    BY <1>3 DEF PutCommit, PutUnstage, FailUnstage, UpsertObjectMeta, DeleteStagedObjectMeta
  <1>4. ASSUME NEW p \in Procs, PutRetainBlob(p)
        PROVE  RefCommand
    BY <1>4 DEF PutRetainBlob
  <1>5. ASSUME NEW p \in Procs, RollbackStep(p)
        PROVE  RefCommand
    <2>1. CASE RollbackRef(p)
      BY <2>1 DEF RollbackRef
    <2> QED
      BY <1>5, <2>1 DEF RollbackStep, RollbackLayout, RollbackUnstage, RollbackRestore, RollbackRefBlob,
                        RollbackBlob, DeleteStagedObjectMeta
  <1>6. ASSUME NEW p \in Procs, DeleteStep(p)
        PROVE  RefCommand
    <2>1. CASE ReleaseRef(p)
      BY <2>1 DEF ReleaseRef
    <2>2. CASE DeleteMeta(p) \/ BucketDrop(p)
      BY <2>2 DEF DeleteMeta, BucketDrop, DeleteObjectMeta, DeleteBucketMeta
    <2> QED
      BY <1>6, <2>1, <2>2 DEF DeleteStep, DeleteLoad, DeleteLayout, ReleaseBlob, BucketList, BucketNextObject
  <1>7. ASSUME NEW p \in Procs, GetStep(p)
        PROVE  UNCHANGED <<refCount, refPath>>
    BY <1>7 DEF GetStep, GetMeta, GetData, GetCacheLayout
  <1>8. ASSUME NEW p \in Procs, RecoverStep(p)
        PROVE  UNCHANGED <<refCount, refPath>>
    <2>1. CASE RecoverListStaged(p) \/ RecoverNextPending(p) \/ RecoverPendingDone(p) \/ RecoverLayout(p)
               \/ RecoverCommittedRef(p) \/ RecoverLink(p) \/ RecoverUnlink(p)
      BY <2>1 DEF RecoverListStaged, RecoverNextPending, RecoverPendingDone, RecoverLayout,
                  RecoverCommittedRef, RecoverLink, RecoverUnlink
    <2>2. CASE RecoverUnstage(p)
      BY <2>2 DEF RecoverUnstage, DeleteStagedObjectMeta
    <2>3. CASE RecoverCheckRelease(p) \/ RecoverListRefs(p) \/ RecoverListPending(p) \/ RecoverListLocal(p)
               \/ RecoverSweep(p) \/ RecoverDone(p)
      BY <2>3 DEF RecoverCheckRelease, RecoverListRefs, RecoverListPending, RecoverListLocal, RecoverSweep,
                  RecoverDone
    <2> QED
      BY <1>8, <2>1, <2>2, <2>3 DEF RecoverStep
  <1>9. ASSUME NEW p \in Procs, StartRequest(p)
        PROVE  UNCHANGED <<refCount, refPath>>
    BY <1>9, Begun
  <1>10. CASE CreateBucket \/ Restart \/ Elapse \/ UNCHANGED vars
    BY <1>10 DEF CreateBucket, Restart, Elapse, vars
  <1> QED
    BY <1>1, <1>2, <1>3, <1>4, <1>5, <1>6, <1>7, <1>8, <1>9, <1>10 DEF Next, Work, PutStep

\* So does a run.
LEMMA ScanRefCommands ==
  ASSUME NEW s \in Scanners, DedupeStart(s) \/ ScanWork(s)
  PROVE  RefCommand
  <1>1. UNCHANGED metaVars => UNCHANGED <<refCount, refPath>>
    BY DEF metaVars
  <1>2. ASSUME NEW l, NEW r, Quietly(s, l, r)
        PROVE  UNCHANGED <<refCount, refPath>>
    BY <1>1, <1>2 DEF Quietly
  <1>3. CASE DedupeStart(s) \/ ListBucketsForDedupe(s) \/ ListObjectsForDedupe(s) \/ ListBlobRefs(s)
    BY <1>2, <1>3 DEF DedupeStart, ListBucketsForDedupe, ListObjectsForDedupe, ListBlobRefs, Abort, RefCommand
  <1>4. CASE loadDedupeObject(s) \/ LinkCanonical(s) \/ deleteRemovedOrphanBlob(s)
    BY <1>1, <1>2, <1>4 DEF loadDedupeObject, LinkCanonical, deleteRemovedOrphanBlob, Abort, RefCommand
  <1>5. CASE fixMissingBlobRef(s)
    BY <1>1, <1>2, <1>5 DEF fixMissingBlobRef, Limited, AbortCommand, RefCommand
  <1>6. CASE increaseBlobRef(s) \/ decreaseBlobRefToExpected(s) \/ removeOrphanBlobRef(s)
    BY <1>1, <1>2, <1>6 DEF increaseBlobRef, decreaseBlobRefToExpected, removeOrphanBlobRef, Limited,
                            AbortCommand, RefCommand
  <1>7. CASE fixBlobRefCount(s) \/ canonicalizeDedupeLayouts(s) \/ DedupeEnd(s)
    BY <1>2, <1>7 DEF fixBlobRefCount, canonicalizeDedupeLayouts, DedupeEnd, Limited, RefCommand
  <1>8. CASE UpsertCanonical(s)
    BY <1>1, <1>8 DEF UpsertCanonical, AbortCommand, UpsertObjectMeta, RefCommand
  <1> QED
    BY <1>3, <1>4, <1>5, <1>6, <1>7, <1>8 DEF ScanWork

\* The invariant that the steps on the way need.
KeepInv == DedupeInv /\ PathsCounted

\* With the paths the invariant is still inductive.
LEMMA KeepStep == KeepInv /\ [DedupeNext]_<<vars, dedupeVars>> => KeepInv'
  <1> SUFFICES ASSUME KeepInv, [DedupeNext]_<<vars, dedupeVars>>
               PROVE  KeepInv'
    OBVIOUS
  <1>1. TypeInv /\ MetaType
    BY DEF KeepInv, DedupeInv, StoreInv, TypeInv, MetaOK
  <1>2. RefCommand
    BY <1>1, RefCommands, ScanRefCommands DEF DedupeNext, Beside, vars, metaVars, RefCommand
  <1>3. PathsCounted'
    BY <1>1, <1>2, PathsCommands DEF RefCommand, KeepInv, PathsCounted
  <1> QED
    BY <1>3, DedupeStep DEF KeepInv

\* What QuietRunKeeps asks of a step.
Gentle ==
    /\ \A h \in Hashes : Drift(h)' <= Drift(h)
    /\ \A o \in Objects : RefBacked /\ objects[o] # None /\ Readable(o) => Readable(o)'

\* Drifts are numbers.
LEMMA DriftNat ==
  ASSUME MetaType, NEW h \in Hashes
  PROVE  refCount[h] \in Nat /\ Cardinality(Users(h)) \in Nat /\ Drift(h) \in Nat
  <1>1. IsFiniteSet(Users(h))
    BY FinitenessAssumption, FS_Subset DEF Users
  <1> QED
    BY <1>1, FS_CardinalityType DEF MetaType, Drift

\* A run that is alone expects of a content what the committed objects hold.
LEMMA ExpectedUsers ==
  ASSUME NEW q, q.snap = objects, NEW h
  PROVE  Expected(q, h) = Cardinality(Users(h))
  BY DEF Expected, Users

\* A step of the refs that moves one count towards the objects it counts.
LEMMA GentleRefs ==
  ASSUME MetaType, UNCHANGED <<objects, engineVars>>, NEW h \in Hashes,
         \A g \in Hashes \ {h} : refCount'[g] = refCount[g],
         \/ refCount'[h] = refCount[h]
         \/ refCount[h] < Cardinality(Users(h)) /\ refCount'[h] = refCount[h] + 1
         \/ refCount[h] > Cardinality(Users(h)) /\ refCount'[h] = refCount[h] - 1
  PROVE  Gentle
  <1>1. \A g : Users(g)' = Users(g)
    BY DEF Users
  <1>2. \A g \in Hashes \ {h} : Drift(g)' = Drift(g)
    BY <1>1 DEF Drift
  <1>3. Drift(h)' <= Drift(h)
    BY <1>1, DriftNat DEF Drift
  <1>4. \A g \in Hashes : Drift(g)' <= Drift(g)
    BY <1>2, <1>3, DriftNat
  <1>5. \A o \in Objects : Readable(o)' = Readable(o)
    BY DEF Readable, GetLayout, ScannedDir, engineVars
  <1> QED
    BY <1>4, <1>5 DEF Gentle

\* A step of the engine that keeps readable objects so.
LEMMA GentleEngine ==
  ASSUME MetaType, UNCHANGED <<objects, refCount>>,
         \A o \in Objects : RefBacked /\ objects[o] # None /\ Readable(o) => Readable(o)'
  PROVE  Gentle
  <1>1. \A h \in Hashes : Drift(h)' = Drift(h)
    BY DEF Drift, Users
  <1> QED
    BY <1>1, DriftNat DEF Gentle

\* A step that changes none of these.
LEMMA GentleUnchanged ==
  ASSUME MetaType, UNCHANGED <<objects, refCount, engineVars>>
  PROVE  Gentle
  <1>1. \A o \in Objects : Readable(o)' = Readable(o)
    BY DEF Readable, GetLayout, ScannedDir, engineVars
  <1> QED
    BY <1>1, GentleEngine

\* So it is with a step of a run that calls neither.
LEMMA GentleQuietly ==
  ASSUME MetaType, NEW s, NEW l, NEW r, Quietly(s, l, r)
  PROVE  Gentle
  BY GentleUnchanged DEF Quietly, metaVars

\* A run that is alone creates a missing ref for objects that are there.
LEMMA FixMissingGentle ==
  ASSUME MetaType, NEW s \in Scanners, fixMissingBlobRef(s),
         ScanShape(dpc[s], dd[s]), SoundAt(dpc[s], dd[s])
  PROVE  Gentle
  <1>1. PICK q : q = dd[s]
    OBVIOUS
  <1>2. SoundAt("dd_missing", q) /\ q \in Scans
    BY <1>1 DEF fixMissingBlobRef, ScanShape
  <1>3. CASE \E l, r : Quietly(s, l, r)
    BY <1>3, GentleQuietly
  <1>4. ASSUME NEW h \in q.hashes, NEW d, CreateBlobRef(h, d), UNCHANGED engineVars
        PROVE  Gentle
    <2>1. h \in Hashes /\ q.snap = objects
      BY <1>2, <1>4 DEF Scans, SoundAt, SnapAt, FixCalls
    <2>2. Expected(q, h) > 0 /\ refCount[h] = 0
      BY <1>2, <2>1 DEF SoundAt, HashesAt, CountsAt, CountAt, Todo, Missing, FixCalls
    <2>3. refCount'[h] = refCount[h] + 1
      BY <1>4, <2>1, OneRef
    <2>4. refCount[h] < Cardinality(Users(h))
      BY <2>1, <2>2, ExpectedUsers
    <2> QED
      BY <1>4, <2>1, <2>3, <2>4, OneRef, GentleRefs
  <1>5. CASE \E l, r : Step(s, l, r) /\ UNCHANGED <<metaVars, engineVars>>
    BY <1>5, GentleUnchanged DEF metaVars
  <1> QED
    BY <1>1, <1>3, <1>4, <1>5 DEF fixMissingBlobRef, Limited, AbortCommand

\* It adds references while there are objects more.
LEMMA IncreaseGentle ==
  ASSUME MetaType, NEW s \in Scanners, increaseBlobRef(s),
         ScanShape(dpc[s], dd[s]), SoundAt(dpc[s], dd[s])
  PROVE  Gentle
  <1>1. PICK q : q = dd[s]
    OBVIOUS
  <1>2. SoundAt("dd_increase", q) /\ q \in Scans /\ q.cur \in Hashes
    BY <1>1 DEF increaseBlobRef, ScanShape, RefFixes
  <1>3. CASE \E l, r : Quietly(s, l, r)
    BY <1>3, GentleQuietly
  <1>4. CASE q.left > 0 /\ IncreaseBlobRef(q.cur) /\ UNCHANGED engineVars
    <2>1. q.snap = objects /\ q.left + refCount[q.cur] = Expected(q, q.cur) /\ q.left \in Nat
      BY <1>2 DEF Scans, SoundAt, SnapAt, CurAt, FixCalls, RefFixes
    <2>2. refCount'[q.cur] = refCount[q.cur] + 1
      BY <1>2, <1>4, OneRef
    <2>3. refCount[q.cur] < Cardinality(Users(q.cur))
      BY <1>2, <1>4, <2>1, ExpectedUsers, DriftNat
    <2> QED
      BY <1>2, <1>4, <2>1, <2>2, <2>3, OneRef, GentleRefs
  <1>5. CASE UNCHANGED <<metaVars, engineVars>>
    BY <1>5, GentleUnchanged DEF metaVars
  <1> QED
    BY <1>1, <1>3, <1>4, <1>5 DEF increaseBlobRef, Limited, AbortCommand

\* It takes references while there are objects fewer.
LEMMA DecreaseGentle ==
  ASSUME MetaType, NEW s \in Scanners, decreaseBlobRefToExpected(s) \/ removeOrphanBlobRef(s),
         ScanShape(dpc[s], dd[s]), SoundAt(dpc[s], dd[s])
  PROVE  Gentle
  <1>1. PICK q : q = dd[s]
    OBVIOUS
  <1>2. PICK l \in {"dd_decrease", "dd_orphan"} : l = dpc[s]
    BY DEF decreaseBlobRefToExpected, removeOrphanBlobRef
  <1>3. SoundAt(l, q) /\ q \in Scans /\ q.cur \in Hashes
    BY <1>1, <1>2 DEF ScanShape, RefFixes
  <1>4. CASE \E k, r : Quietly(s, k, r)
    BY <1>4, GentleQuietly
  <1>5. CASE DecreaseBlobRef(q.cur) /\ UNCHANGED engineVars /\ (l = "dd_decrease" => q.left > 0)
    <2>1. q.snap = objects /\ q.left \in Nat
      BY <1>3 DEF Scans, SoundAt, SnapAt, FixCalls, RefFixes
    <2>2. refCount[q.cur] > Expected(q, q.cur)
      <3>1. Expected(q, q.cur) \in Nat /\ refCount[q.cur] \in Nat
        BY <1>3, ExpectedNat, DriftNat
      <3> QED
        BY <1>2, <1>3, <1>5, <2>1, <3>1 DEF SoundAt, CurAt
    <2>3. refCount[q.cur] > Cardinality(Users(q.cur))
      BY <2>1, <2>2, ExpectedUsers
    <2>4. refCount'[q.cur] = refCount[q.cur] - 1
      BY <1>3, <1>5, <2>3, OneRef, DriftNat
    <2> QED
      BY <1>3, <1>5, <2>3, <2>4, OneRef, GentleRefs
  <1>6. CASE UNCHANGED <<metaVars, engineVars>>
    BY <1>6, GentleUnchanged DEF metaVars
  <1>7. CASE decreaseBlobRefToExpected(s)
    BY <1>1, <1>2, <1>4, <1>5, <1>6, <1>7 DEF decreaseBlobRefToExpected, Limited, AbortCommand
  <1>8. CASE removeOrphanBlobRef(s)
    BY <1>1, <1>2, <1>4, <1>5, <1>6, <1>8 DEF removeOrphanBlobRef, Limited, AbortCommand
  <1> QED
    BY <1>7, <1>8

\* What StatObject caches it had found already.
LEMMA LoadGentle ==
  ASSUME MetaType, EngineType, NEW s \in Scanners, loadDedupeObject(s), ScanShape(dpc[s], dd[s])
  PROVE  Gentle
  <1>1. CASE \E l, r : Quietly(s, l, r)
    BY <1>1, GentleQuietly
  <1>2. ASSUME NEW o \in dd[s].objs, cache' = [cache EXCEPT ![o] = GetLayout(o)],
               UNCHANGED <<metaVars, disk, shards>>
        PROVE  Gentle
    <2>1. o \in Objects
      BY DEF ScanShape, Scans
    <2>2. \A x \in Objects : GetLayout(x)' = GetLayout(x)
      BY <1>2, <2>1, CachedFound DEF EngineType
    <2>3. \A x \in Objects : Readable(x) => Readable(x)'
      BY <1>2, <2>2 DEF Readable, metaVars
    <2> QED
      BY <1>2, <2>3, GentleEngine DEF metaVars
  <1> QED
    BY <1>1, <1>2 DEF loadDedupeObject

\* The content whose blob is deleted has no object.
LEMMA OrphanBlobGentle ==
  ASSUME MetaType, EngineType, PlacedCache, NEW s \in Scanners, deleteRemovedOrphanBlob(s),
         ScanShape(dpc[s], dd[s]), SoundAt(dpc[s], dd[s])
  PROVE  Gentle
  <1>1. PICK q : q = dd[s]
    OBVIOUS
  <1>2. PICK d, h : d = q.path[q.cur] /\ h = q.cur
    OBVIOUS
  <1>3. SoundAt("dd_blob", q) /\ h \in Hashes /\ d \in Dirs
    BY <1>1, <1>2 DEF deleteRemovedOrphanBlob, ScanShape, RefFixes
  <1>4. CASE Abort(s)
    BY <1>4, GentleQuietly DEF Abort
  <1>5. CASE DeleteBlob(d, h) /\ UNCHANGED metaVars
    <2>1. q.snap = objects /\ Expected(q, h) = 0
      BY <1>2, <1>3 DEF SoundAt, SnapAt, CurAt, FixCalls, RefFixes
    <2>2. \A o \in Objects : objects[o] # h
      BY <2>1, ExpectedNat
    <2>3. ASSUME NEW o \in Objects, objects[o] # None, Readable(o)
          PROVE  Readable(o)'
      <3>1. PICK y : y = GetLayout(o)
        OBVIOUS
      <3>2. y.hash = objects[o] /\ shards[y.dir][y.hash] = "full"
        BY <2>3, <3>1 DEF Readable
      <3>3. y # NoLayout /\ y.hash # h /\ y.hash \in Hashes
        BY <2>2, <2>3, <3>2 DEF MetaType, NoLayout
      <3>4. y.dir \in Dirs
        BY <3>1, <3>3, FoundPlaced
      <3>5. shards'[y.dir][y.hash] = shards[y.dir][y.hash]
        BY <1>3, <1>5, <3>3, <3>4 DEF EngineType, DeleteBlob, SetShards
      <3>6. GetLayout(o)' = y /\ objects' = objects
        BY <1>5, <3>1 DEF DeleteBlob, SetShards, GetLayout, ScannedDir, metaVars
      <3> QED
        BY <3>2, <3>5, <3>6 DEF Readable
    <2> QED
      BY <1>5, <2>3, GentleEngine DEF metaVars
  <1> QED
    BY <1>1, <1>2, <1>4, <1>5 DEF deleteRemovedOrphanBlob

\* A layout is linked to shards that its ref is backed by.
LEMMA LinkGentle ==
  ASSUME MetaType, RefsOK, PathsCounted, EngineType, NEW s \in Scanners, LinkCanonical(s),
         ScanShape(dpc[s], dd[s]), SoundAt(dpc[s], dd[s])
  PROVE  Gentle
  <1>1. PICK q : q = dd[s]
    OBVIOUS
  <1>2. PICK o, h, d : o = q.obj /\ h = q.snap[q.obj] /\ d = q.path[q.snap[q.obj]]
    OBVIOUS
  <1>3. SoundAt("dd_link", q) /\ o \in Objects /\ h \in Hashes /\ d \in Dirs
    BY <1>1, <1>2 DEF LinkCanonical, ScanShape, LinkFixes
  <1>4. CASE Abort(s)
    BY <1>4, GentleQuietly DEF Abort
  <1>5. CASE LinkObject(o, d, h) /\ UNCHANGED metaVars
    <2>1. EngineType'
      BY <1>3, <1>5, LinkType
    <2>2. objects[o] = h /\ refPath[h] = d
      BY <1>2, <1>3, RefOfListed DEF SoundAt, SnapAt, FixCalls, LayoutCalls
    <2>3. refCount[h] > 0
      BY <1>3, <2>2, ObjectsAssumption DEF PathsCounted, MetaType
    <2>4. ASSUME RefBacked
          PROVE  Readable(o)'
      <3>1. shards[d][h] = "full"
        BY <1>3, <2>2, <2>3, <2>4 DEF RefBacked
      <3>2. GetLayout(o)' = [dir |-> d, hash |-> h]
        <4>1. cache'[o] = [dir |-> d, hash |-> h]
          BY <1>3, <1>5 DEF LinkObject, EngineType
        <4> QED
          BY <1>3, <4>1, ObjectsAssumption DEF GetLayout, NoLayout
      <3>3. shards' = shards /\ objects' = objects
        BY <1>5 DEF LinkObject, metaVars
      <3> QED
        BY <2>2, <3>1, <3>2, <3>3 DEF Readable
    <2>5. ASSUME NEW x \in Objects \ {o}, Readable(x)
          PROVE  Readable(x)'
      <3>1. cache'[x] = cache[x] /\ disk'[x] = disk[x] /\ shards' = shards /\ objects' = objects
        BY <1>3, <1>5 DEF LinkObject, EngineType, metaVars
      <3>2. GetLayout(x)' = GetLayout(x)
        BY <2>1, <3>1, ElsewhereFound
      <3> QED
        BY <2>5, <3>1, <3>2 DEF Readable
    <2> QED
      BY <1>5, <2>4, <2>5, GentleEngine DEF metaVars
  <1> QED
    BY <1>1, <1>2, <1>4, <1>5 DEF LinkCanonical

\* The metadata that is written back is what is committed.
LEMMA UpsertGentle ==
  ASSUME MetaType, NEW s \in Scanners, UpsertCanonical(s),
         ScanShape(dpc[s], dd[s]), SoundAt(dpc[s], dd[s])
  PROVE  Gentle
  <1>1. PICK q : q = dd[s]
    OBVIOUS
  <1>2. SoundAt("dd_upsert", q) /\ q.obj \in Objects /\ UNCHANGED engineVars
    BY <1>1 DEF UpsertCanonical, ScanShape, LinkFixes
  <1>3. q.snap = objects
    BY <1>2 DEF SoundAt, SnapAt, FixCalls, LayoutCalls
  <1>4. UpsertObjectMeta(q.obj, q.snap[q.obj]) => UNCHANGED <<objects, refCount>>
    BY <1>2, <1>3 DEF UpsertObjectMeta, MetaType
  <1> QED
    BY <1>1, <1>2, <1>4, GentleUnchanged DEF UpsertCanonical, AbortCommand, metaVars

\* Every call of a run that is alone.
LEMMA ScanGentle ==
  ASSUME KeepInv, NEW s \in Scanners, ScanWork(s), SoundAt(dpc[s], dd[s])
  PROVE  Gentle
  <1>1. /\ MetaType /\ EngineType /\ PlacedCache /\ RefsOK /\ PathsCounted
        /\ ScanShape(dpc[s], dd[s])
    BY ScanFacts DEF KeepInv, DedupeInv, StoreInv, TypeInv, MetaOK
  <1>2. CASE ListBucketsForDedupe(s) \/ ListObjectsForDedupe(s) \/ ListBlobRefs(s)
    BY <1>1, <1>2, GentleQuietly DEF ListBucketsForDedupe, ListObjectsForDedupe, ListBlobRefs, Abort
  <1>3. CASE fixBlobRefCount(s) \/ canonicalizeDedupeLayouts(s) \/ DedupeEnd(s)
    BY <1>1, <1>3, GentleQuietly DEF fixBlobRefCount, canonicalizeDedupeLayouts, DedupeEnd, Limited
  <1> QED
    BY <1>1, <1>2, <1>3, FixMissingGentle, IncreaseGentle, DecreaseGentle, LoadGentle, OrphanBlobGentle,
       LinkGentle, UpsertGentle DEF ScanWork

\* Only a request in flight makes a call.
LEMMA WorkBusy ==
  ASSUME NEW p \in Procs, Work(p)
  PROVE  pc[p] # "idle"
  <1>1. PutStep(p) => pc[p] # "idle"
    BY DEF PutStep, PutEnsureBucket, PutLoadExisting, PutLoadExistingRef, PutStageMeta, PutPrepareBlob,
           PutCreateBlob, PutIntentPrepared, PutLinkLayout, PutIntentLinked, PutRetainBlob,
           PutIntentRetained, PutCommit, PutUnstage, FailUnstage, FailDropBlob, AdvanceIntent
  <1>2. RollbackStep(p) => pc[p] # "idle"
    BY DEF RollbackStep, RollbackLayout, RollbackUnstage, RollbackRestore, RollbackRef, RollbackRefBlob,
           RollbackBlob
  <1>3. DeleteStep(p) \/ GetStep(p) => pc[p] # "idle"
    BY DEF DeleteStep, DeleteLoad, DeleteMeta, DeleteLayout, ReleaseRef, ReleaseBlob, BucketList,
           BucketNextObject, BucketDrop, GetStep, GetMeta, GetData, GetCacheLayout
  <1>4. RecoverStep(p) => pc[p] # "idle"
    BY DEF RecoverStep, RecoverListStaged, RecoverNextPending, RecoverPendingDone, RecoverLayout,
           RecoverCommittedRef, RecoverLink, RecoverUnlink, RecoverCheckRelease, RecoverUnstage,
           RecoverListRefs, RecoverListPending, RecoverListLocal, RecoverSweep, RecoverDone
  <1> QED
    BY <1>1, <1>2, <1>3, <1>4 DEF Work

\* The steps of others that can be taken while a run is alone, and move no request.
LEMMA OthersGentle ==
  ASSUME TypeInv, \A p \in Procs : pc[p] = "idle", Next, UNCHANGED pc
  PROVE  Gentle
  <1>1. MetaType /\ \A p \in Procs : ~Work(p)
    BY WorkBusy DEF TypeInv, MetaOK
  <1>2. \A p \in Procs : ~StartRequest(p)
    BY Begun
  <1>3. ~Restart
    BY DEF Restart, TypeInv, ControlOK, ControlType
  <1>4. CASE CreateBucket \/ Elapse
    BY <1>1, <1>4, GentleUnchanged DEF CreateBucket, Elapse
  <1> QED
    BY <1>1, <1>2, <1>3, <1>4 DEF Next

\* Only a run that has begun makes a call.
LEMMA ScanBusy ==
  ASSUME NEW t \in Scanners, ScanWork(t)
  PROVE  dpc[t] # "idle"
  BY DEF ScanWork, ListBucketsForDedupe, ListObjectsForDedupe, loadDedupeObject, ListBlobRefs,
         fixMissingBlobRef, increaseBlobRef, fixBlobRefCount, decreaseBlobRefToExpected,
         removeOrphanBlobRef, deleteRemovedOrphanBlob, canonicalizeDedupeLayouts, LinkCanonical,
         UpsertCanonical, DedupeEnd

\* Any step while a run is alone.
LEMMA AloneGentle ==
  ASSUME KeepInv, NEW s \in Scanners, Active(s), dd[s].overlaps = 0, UNCHANGED pc, DedupeNext
  PROVE  Gentle
  <1>1. Alone(s) /\ SoundAt(dpc[s], dd[s]) /\ TypeInv /\ MetaType
    BY DEF KeepInv, DedupeInv, QuietInv, StoreInv, TypeInv, MetaOK
  <1>2. CASE Beside(Next)
    BY <1>1, <1>2, OthersGentle DEF Beside, Alone
  <1>3. ASSUME NEW t \in Scanners, DedupeStart(t)
        PROVE  Gentle
    BY <1>1, <1>3, GentleQuietly DEF DedupeStart
  <1>4. ASSUME NEW t \in Scanners, ScanWork(t)
        PROVE  Gentle
    <2>1. t = s
      BY <1>1, <1>4, ScanBusy DEF Alone
    <2> QED
      BY <1>1, <1>4, <2>1, ScanGentle
  <1> QED
    BY <1>2, <1>3, <1>4 DEF DedupeNext

\* QuietRunKeeps: no step of a run that is alone widens the distance between a
\* count and the objects it counts, or takes a readable object's content away
\* while the refs are backed by shards.
THEOREM QuietRunsKeep == DedupeSpec => QuietRunKeeps
  <1> DEFINE Keeps == \A s \in Scanners : Active(s) /\ dd[s].overlaps = 0 /\ UNCHANGED pc => Gentle
  <1>1. DedupeInit => KeepInv
    BY DedupeStarts DEF KeepInv, PathsCounted, DedupeInit, Init
  <1>2. KeepInv /\ [DedupeNext]_<<vars, dedupeVars>> => KeepInv'
    BY KeepStep
  <1>3. KeepInv /\ [DedupeNext]_<<vars, dedupeVars>> => [Keeps]_<<vars, dedupeVars>>
    BY AloneGentle
  <1>4. DedupeSpec => [][Keeps]_<<vars, dedupeVars>>
    BY <1>1, <1>2, <1>3, PTL DEF DedupeSpec
  <1> QED
    BY <1>4 DEF QuietRunKeeps, Gentle
=============================================================================
