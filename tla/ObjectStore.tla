---------------------------- MODULE ObjectStore ----------------------------
(***************************************************************************)
(* The object store: Store (internal/store) over the replicated metadata    *)
(* (the Raft state machine, internal/raft) and the erasure-coded engine     *)
(* (internal/engine).                                                       *)
(*                                                                          *)
(* A request is a goroutine that makes one metadata or engine call after    *)
(* another.  Each call is atomic, nothing is locked between two calls, and  *)
(* every call may fail.  An action below is one call of a request together  *)
(* with the local computation up to the next call; pc[p] names the call     *)
(* that request p makes next and req[p] holds the handler's locals.         *)
(***************************************************************************)
EXTENDS Integers, FiniteSets

CONSTANTS
    Procs,        \* request goroutines that can be in flight at a time
    Buckets,
    Objects,      \* bucket/key pairs
    BucketOf,     \* the bucket of an object
    DirOf,        \* makeShardDir(key) of an object: its home shard directory
    Dirs,         \* shard directories, numbered in lexical order
    Hashes,       \* content hashes
    None,         \* no hash, no directory, no object
    MaxFaults,    \* how many calls may fail
    MaxCrashes,   \* how many times the process may be killed or restarted
    MaxElapses,   \* how many times the pending TTL may pass
    MaxRefs,      \* no put of a content referenced this often is started
    Contend,      \* TRUE: requests in flight may touch the same object
    LostReplies   \* TRUE: a command that timed out may have been applied

\* Objects are bucket/key pairs: each has a bucket and a home directory.
ASSUME ObjectsAssumption ==
    /\ BucketOf \in [Objects -> Buckets]
    /\ DirOf \in [Objects -> Dirs]
    /\ Dirs \subseteq Nat
    /\ None \notin Hashes \cup Dirs \cup Objects \cup Buckets

\* A process has finitely many requests in flight and finitely many objects.
ASSUME FinitenessAssumption ==
    /\ IsFiniteSet(Procs)
    /\ IsFiniteSet(Objects)
    /\ Procs \cap Objects = {}

ASSUME BoundsAssumption ==
    /\ MaxFaults \in Nat
    /\ MaxCrashes \in Nat
    /\ MaxElapses \in Nat
    /\ MaxRefs \in Nat
    /\ Contend \in BOOLEAN
    /\ LostReplies \in BOOLEAN

VARIABLES
    buckets,      \* metadata: the buckets that exist
    objects,      \* metadata: committed object -> content hash
    staged,       \* metadata: pending object -> write intent
    refCount,     \* metadata: blobRefs[hash].RefCount, 0 when there is no ref
    refPath,      \* metadata: blobRefs[hash].Path
    cache,        \* engine: layoutCache, lost on restart
    disk,         \* engine: meta.json of an object in each shard directory
    shards,       \* engine: chunk files of a hash in each shard directory
    pc,           \* the call each request makes next
    req,          \* the locals of each request
    faults,       \* calls that failed so far
    crashes,      \* restarts so far
    elapses       \* times the pending TTL passed so far

metaVars == <<buckets, objects, staged, refCount, refPath>>
engineVars == <<cache, disk, shards>>
vars == <<metaVars, engineVars, pc, req, faults, crashes, elapses>>

(***************************************************************************)
(* Values                                                                   *)
(***************************************************************************)
Stages == {"none", "metadata_staged", "blob_prepared", "layout_linked", "blob_retained"}

\* A staged write: its content hash, its write intent stage, and whether its
\* UpdatedAt lies before the pending TTL's cutoff.
NoIntent == [hash |-> None, stage |-> "none", old |-> FALSE]
Intents == [hash : Hashes \cup {None}, stage : Stages, old : BOOLEAN]

NoLayout == [dir |-> None, hash |-> None]
Layouts == [dir : Dirs \cup {None}, hash : Hashes \cup {None}]

\* The chunks of one content in one shard directory.
ShardSets == Dirs \X Hashes

PutCalls == {"put_bucket", "put_load", "put_loadref", "put_stage", "put_prepare",
             "put_blob", "put_prepared", "put_link", "put_linked", "put_retain",
             "put_retained", "put_commit", "put_unstage"}
RollbackCalls == {"fail_unstage", "fail_blob", "rb_layout", "rb_unstage", "rb_restore",
                  "rb_ref", "rb_refblob", "rb_blob"}
DeleteCalls == {"del_load", "del_meta", "del_layout", "rel_ref", "rel_blob"}
BucketCalls == {"bkt_list", "bkt_next"}
GetCalls == {"get_meta", "get_data", "get_cache"}
RecoverCalls == {"rec_list", "rec_next", "rec_layout", "rec_ref", "rec_link", "rec_unlink",
                 "rec_check", "rec_unstage", "rec_refs", "rec_staged", "rec_local", "rec_sweep"}
Calls == {"idle"} \cup PutCalls \cup RollbackCalls \cup DeleteCalls \cup BucketCalls
             \cup GetCalls \cup RecoverCalls

\* The locals of a request.  ex and exDir are the existingObject of a put (its
\* hash, and its blob ref's path if the ref exists); dir, hit and created are
\* the prepared blob, whether its ref existed and whether this put wrote it;
\* mut is the blobRefMutation; rel and relDir the blob being released; layErr
\* the layout error a delete reports last; snap the staged writes a recovery
\* listed; todo what a loop has left; live and sets the shard sets a sweep
\* keeps and deletes.
Requests ==
    [op : {"none", "put", "delete", "bucket", "get", "recover", "boot"},
     obj : Objects \cup {None}, bkt : Buckets \cup {None}, hash : Hashes \cup {None},
     ex : Hashes \cup {None}, exDir : Dirs \cup {None},
     dir : Dirs \cup {None}, hit : BOOLEAN, created : BOOLEAN,
     mut : {"unchanged", "increased", "created"},
     rel : Hashes \cup {None}, relDir : Dirs \cup {None}, layErr : BOOLEAN,
     snap : [Objects -> Intents], todo : SUBSET Objects,
     live : SUBSET ShardSets, sets : SUBSET ShardSets]

NoReq ==
    [op |-> "none", obj |-> None, bkt |-> None, hash |-> None, ex |-> None,
     exDir |-> None, dir |-> None, hit |-> FALSE, created |-> FALSE,
     mut |-> "unchanged", rel |-> None, relDir |-> None, layErr |-> FALSE,
     snap |-> [o \in Objects |-> NoIntent], todo |-> {}, live |-> {}, sets |-> {}]

TypeOK ==
    /\ buckets \in SUBSET Buckets
    /\ objects \in [Objects -> Hashes \cup {None}]
    /\ staged \in [Objects -> Intents]
    /\ refCount \in [Hashes -> Nat]
    /\ refPath \in [Hashes -> Dirs \cup {None}]
    /\ cache \in [Objects -> Layouts]
    /\ disk \in [Objects -> [Dirs -> Hashes \cup {None}]]
    /\ shards \in [Dirs -> [Hashes -> {"none", "partial", "full"}]]
    /\ pc \in [Procs -> Calls]
    /\ req \in [Procs -> Requests]
    /\ faults \in Nat
    /\ crashes \in Nat
    /\ elapses \in Nat

Init ==
    /\ buckets = {}
    /\ objects = [o \in Objects |-> None]
    /\ staged = [o \in Objects |-> NoIntent]
    /\ refCount = [h \in Hashes |-> 0]
    /\ refPath = [h \in Hashes |-> None]
    /\ cache = [o \in Objects |-> NoLayout]
    /\ disk = [o \in Objects |-> [d \in Dirs |-> None]]
    /\ shards = [d \in Dirs |-> [h \in Hashes |-> "none"]]
    /\ pc = [p \in Procs |-> "idle"]
    /\ req = [p \in Procs |-> NoReq]
    /\ faults = 0
    /\ crashes = 0
    /\ elapses = 0

(***************************************************************************)
(* Control: the next call of a request, and its failures                    *)
(***************************************************************************)
Enter(p, l, r) ==
    /\ pc' = [pc EXCEPT ![p] = l]
    /\ req' = [req EXCEPT ![p] = IF l = "idle" THEN NoReq ELSE r]
    /\ UNCHANGED <<faults, crashes, elapses>>

Goto(p, l) == Enter(p, l, req[p])

\* A call fails before it has any effect, and the handler goes on at l.
Fail(p, l) ==
    /\ faults < MaxFaults
    /\ faults' = faults + 1
    /\ pc' = [pc EXCEPT ![p] = l]
    /\ req' = [req EXCEPT ![p] = IF l = "idle" THEN NoReq ELSE @]
    /\ UNCHANGED <<crashes, elapses>>

\* A call that touches neither metadata nor engine when it fails.
FailClean(p, l) == Fail(p, l) /\ UNCHANGED <<metaVars, engineVars>>

\* A metadata command that fails: it was never applied or, when SyncPropose
\* timed out waiting for the answer, it was.
FailCommand(p, l, Command) ==
    /\ Fail(p, l)
    /\ UNCHANGED engineVars
    /\ UNCHANGED metaVars \/ (LostReplies /\ Command)

(***************************************************************************)
(* The metadata state machine's commands                                    *)
(***************************************************************************)
\* stageObjectMeta is refused when the bucket does not exist.
StageObjectMeta(o, h, stage) ==
    /\ BucketOf[o] \in buckets
    /\ staged' = [staged EXCEPT ![o] = [hash |-> h, stage |-> stage, old |-> FALSE]]
    /\ UNCHANGED <<buckets, objects, refCount, refPath>>

\* Mutant: the commit does not look at the bucket.
UpsertObjectMetaUnchecked(o, h) ==
    /\ objects' = [objects EXCEPT ![o] = h]
    /\ UNCHANGED <<buckets, staged, refCount, refPath>>

UpsertObjectMeta(o, h) ==
    /\ BucketOf[o] \in buckets
    /\ objects' = [objects EXCEPT ![o] = h]
    /\ UNCHANGED <<buckets, staged, refCount, refPath>>

DeleteStagedObjectMeta(o) ==
    /\ staged' = [staged EXCEPT ![o] = NoIntent]
    /\ UNCHANGED <<buckets, objects, refCount, refPath>>

DeleteObjectMeta(o) ==
    /\ objects' = [objects EXCEPT ![o] = None]
    /\ UNCHANGED <<buckets, staged, refCount, refPath>>

\* Mutant: a ref that exists is overwritten by a new one.
CreateBlobRefAnew(h, d) ==
    /\ refCount' = [refCount EXCEPT ![h] = 1]
    /\ refPath' = [refPath EXCEPT ![h] = d]
    /\ UNCHANGED <<buckets, objects, staged>>

\* createBlobRef on an existing ref counts one more and keeps the old path.
CreateBlobRef(h, d) ==
    /\ refCount' = [refCount EXCEPT ![h] = @ + 1]
    /\ refPath' = [refPath EXCEPT ![h] = IF refCount[h] = 0 THEN d ELSE @]
    /\ UNCHANGED <<buckets, objects, staged>>

IncreaseBlobRef(h) ==
    /\ refCount[h] > 0
    /\ refCount' = [refCount EXCEPT ![h] = @ + 1]
    /\ UNCHANGED <<buckets, objects, staged, refPath>>

\* The last reference removes the ref; a missing ref is no error.
DecreaseBlobRef(h) ==
    /\ refCount' = [refCount EXCEPT ![h] = IF @ <= 1 THEN 0 ELSE @ - 1]
    /\ refPath' = [refPath EXCEPT ![h] = IF refCount[h] <= 1 THEN None ELSE @]
    /\ UNCHANGED <<buckets, objects, staged>>

\* deleteBucket drops the bucket's objects and staged writes, not their refs.
DeleteBucketMeta(b) ==
    /\ b \in buckets
    /\ buckets' = buckets \ {b}
    /\ objects' = [o \in Objects |-> IF BucketOf[o] = b THEN None ELSE objects[o]]
    /\ staged' = [o \in Objects |-> IF BucketOf[o] = b THEN NoIntent ELSE staged[o]]
    /\ UNCHANGED <<refCount, refPath>>

(***************************************************************************)
(* The engine's calls                                                       *)
(***************************************************************************)
\* The layout a directory walk finds first, for an object not in its home.
ScannedDir(o) ==
    CHOOSE d \in Dirs : /\ disk[o][d] # None
                        /\ \A e \in Dirs : disk[o][e] # None => d <= e

\* getLayout: the cache, then meta.json in the home directory, then a scan.
GetLayout(o) ==
    IF cache[o] # NoLayout THEN cache[o]
    ELSE IF disk[o][DirOf[o]] # None
         THEN [dir |-> DirOf[o], hash |-> disk[o][DirOf[o]]]
    ELSE IF \E d \in Dirs : disk[o][d] # None
         THEN [dir |-> ScannedDir(o), hash |-> disk[o][ScannedDir(o)]]
    ELSE NoLayout

\* LinkObject writes meta.json in the blob's directory, and no other place.
LinkObject(o, d, h) ==
    /\ disk' = [disk EXCEPT ![o] = [@ EXCEPT ![d] = h]]
    /\ cache' = [cache EXCEPT ![o] = [dir |-> d, hash |-> h]]
    /\ UNCHANGED shards

\* DeleteObjectLayout removes the layout getLayout finds.
DeleteObjectLayout(o) ==
    LET l == GetLayout(o) IN
    /\ l # NoLayout
    /\ cache' = [cache EXCEPT ![o] = NoLayout]
    /\ disk' = [disk EXCEPT ![o] = [@ EXCEPT ![l.dir] = None]]
    /\ UNCHANGED shards

\* Its failing form: the cache entry is dropped before the file is removed.
DeleteObjectLayoutFails(o) ==
    /\ cache' = [cache EXCEPT ![o] = NoLayout]
    /\ UNCHANGED <<disk, shards>>

SetShards(d, h, s) ==
    /\ shards' = [shards EXCEPT ![d] = [@ EXCEPT ![h] = s]]
    /\ UNCHANGED <<cache, disk>>

PutBlob(d, h) == SetShards(d, h, "full")

\* PutBlob stops at the first shard it cannot write and cleans nothing up.
PutBlobFails(d, h) ==
    \/ UNCHANGED engineVars
    \/ shards[d][h] = "none" /\ SetShards(d, h, "partial")

DeleteBlob(d, h) == SetShards(d, h, "none")

(***************************************************************************)
(* Requests begin                                                           *)
(***************************************************************************)
\* The objects a request in flight may read or write.
Touches(p) ==
    IF pc[p] = "idle" THEN {}
    ELSE IF req[p].op \in {"put", "delete", "get"} THEN {req[p].obj}
    ELSE IF req[p].op = "bucket" THEN {o \in Objects : BucketOf[o] = req[p].bkt}
    ELSE Objects

\* The HTTP server accepts requests once startup recovery has ended.  Without
\* contention, a request waits for those that touch the same objects.
MayStart(p, objs) ==
    /\ pc[p] = "idle"
    /\ \A q \in Procs : pc[q] # "idle" => req[q].op # "boot"
    /\ Contend \/ \A q \in Procs : Touches(q) \cap objs = {}

Begin(p, l, r) == Enter(p, l, r) /\ UNCHANGED <<metaVars, engineVars>>

PutObject(p) ==
    \E o \in Objects, h \in Hashes :
        /\ MayStart(p, {o})
        /\ refCount[h] < MaxRefs
        /\ Begin(p, "put_bucket", [NoReq EXCEPT !.op = "put", !.obj = o, !.hash = h])

DeleteObject(p) ==
    \E o \in Objects :
        /\ MayStart(p, {o})
        /\ Begin(p, "del_load", [NoReq EXCEPT !.op = "delete", !.obj = o])

GetObject(p) ==
    \E o \in Objects :
        /\ MayStart(p, {o})
        /\ Begin(p, "get_meta", [NoReq EXCEPT !.op = "get", !.obj = o])

DeleteBucket(p) ==
    \E b \in Buckets :
        /\ MayStart(p, {o \in Objects : BucketOf[o] = b})
        /\ Begin(p, "bkt_list", [NoReq EXCEPT !.op = "bucket", !.bkt = b])

\* Recover, called through the admin API while requests are served.
Recover(p) ==
    /\ MayStart(p, Objects)
    /\ Begin(p, "rec_list", [NoReq EXCEPT !.op = "recover"])

\* CreateBucket is one metadata command.
CreateBucket ==
    /\ \A q \in Procs : pc[q] # "idle" => req[q].op # "boot"
    /\ \E b \in Buckets \ buckets : buckets' = buckets \cup {b}
    /\ UNCHANGED <<objects, staged, refCount, refPath, engineVars, pc, req, faults, crashes, elapses>>

(***************************************************************************)
(* PutObject                                                                *)
(***************************************************************************)
PutEnsureBucket(p) ==
    /\ pc[p] = "put_bucket"
    /\ \/ /\ Goto(p, IF BucketOf[req[p].obj] \in buckets THEN "put_load" ELSE "idle")
          /\ UNCHANGED <<metaVars, engineVars>>
       \/ FailClean(p, "idle")

\* loadExistingObject: the committed metadata, then its blob ref.
PutLoadExisting(p) ==
    LET ex == objects[req[p].obj] IN
    /\ pc[p] = "put_load"
    /\ \/ /\ Enter(p, IF ex = None THEN "put_stage" ELSE "put_loadref",
                   [req[p] EXCEPT !.ex = ex])
          /\ UNCHANGED <<metaVars, engineVars>>
       \/ FailClean(p, "idle")

PutLoadExistingRef(p) ==
    /\ pc[p] = "put_loadref"
    /\ \/ /\ Enter(p, "put_stage", [req[p] EXCEPT !.exDir = refPath[req[p].ex]])
          /\ UNCHANGED <<metaVars, engineVars>>
       \/ FailClean(p, "idle")

\* updatePendingWriteIntent rewrites the whole staged entry from the request's
\* own copy.  An error, and a missing bucket, take the handler to errCall.
AdvanceIntent(p, call, stage, okCall, errCall) ==
    /\ pc[p] = call
    /\ \/ /\ StageObjectMeta(req[p].obj, req[p].hash, stage)
          /\ Goto(p, okCall)
          /\ UNCHANGED engineVars
       \/ /\ BucketOf[req[p].obj] \notin buckets
          /\ Goto(p, errCall)
          /\ UNCHANGED <<metaVars, engineVars>>
       \/ FailCommand(p, errCall, StageObjectMeta(req[p].obj, req[p].hash, stage))

PutStageMeta(p) == AdvanceIntent(p, "put_stage", "metadata_staged", "put_prepare", "idle")
PutIntentPrepared(p) == AdvanceIntent(p, "put_prepared", "blob_prepared", "put_link", "rb_layout")
PutIntentLinked(p) == AdvanceIntent(p, "put_linked", "layout_linked", "put_retain", "rb_layout")
PutIntentRetained(p) == AdvanceIntent(p, "put_retained", "blob_retained", "put_commit", "rb_layout")

\* prepareBlob: content already stored is reused where its ref says it is.
PutPrepareBlob(p) ==
    LET h == req[p].hash IN
    /\ pc[p] = "put_prepare"
    /\ \/ /\ IF refCount[h] > 0
             THEN Enter(p, "put_prepared", [req[p] EXCEPT !.hit = TRUE, !.dir = refPath[h]])
             ELSE Goto(p, "put_blob")
          /\ UNCHANGED <<metaVars, engineVars>>
       \/ FailClean(p, "fail_unstage")

PutCreateBlob(p) ==
    LET d == DirOf[req[p].obj] IN
    /\ pc[p] = "put_blob"
    /\ \/ /\ PutBlob(d, req[p].hash)
          /\ Enter(p, "put_prepared", [req[p] EXCEPT !.created = TRUE, !.dir = d])
       \/ /\ PutBlobFails(d, req[p].hash)
          /\ Fail(p, "fail_unstage")
    /\ UNCHANGED metaVars

\* linkPutLayout: a failed link drops the blob this put wrote and nothing else.
PutLinkLayout(p) ==
    /\ pc[p] = "put_link"
    /\ \/ /\ LinkObject(req[p].obj, req[p].dir, req[p].hash)
          /\ Goto(p, "put_linked")
          /\ UNCHANGED metaVars
       \/ FailClean(p, IF req[p].created THEN "fail_blob" ELSE "idle")

\* retainBlob: create the ref, keep the reference the object already has, or
\* take one more.
PutRetainBlob(p) ==
    LET h == req[p].hash
        Mutated(m) == Enter(p, "put_retained", [req[p] EXCEPT !.mut = m]) IN
    /\ pc[p] = "put_retain"
    /\ \/ /\ ~req[p].hit
          /\ CreateBlobRef(h, req[p].dir)
          /\ Mutated("created")
          /\ UNCHANGED engineVars
       \/ /\ req[p].hit /\ req[p].ex = h
          /\ Mutated("unchanged")
          /\ UNCHANGED <<metaVars, engineVars>>
       \/ /\ req[p].hit /\ req[p].ex # h
          /\ IncreaseBlobRef(h)
          /\ Mutated("increased")
          /\ UNCHANGED engineVars
       \/ /\ req[p].hit /\ req[p].ex # h
          /\ refCount[h] = 0
          /\ Goto(p, "rb_layout")
          /\ UNCHANGED <<metaVars, engineVars>>
       \/ ~req[p].hit /\ FailCommand(p, "rb_layout", CreateBlobRef(h, req[p].dir))
       \/ req[p].hit /\ req[p].ex # h /\ FailCommand(p, "rb_layout", IncreaseBlobRef(h))

\* The commit point.  The blob the object no longer refers to is released
\* afterwards; rel is None when there is none.
PutCommit(p) ==
    LET o == req[p].obj
        replaced == IF req[p].ex = req[p].hash THEN None ELSE req[p].ex IN
    /\ pc[p] = "put_commit"
    /\ \/ /\ UpsertObjectMeta(o, req[p].hash)
          /\ Enter(p, "put_unstage", [req[p] EXCEPT !.rel = replaced])
          /\ UNCHANGED engineVars
       \/ /\ BucketOf[o] \notin buckets
          /\ Goto(p, "rb_layout")
          /\ UNCHANGED <<metaVars, engineVars>>
       \/ FailCommand(p, "rb_layout", UpsertObjectMeta(o, req[p].hash))

\* Mutant: the replaced blob is not released.
PutUnstageOnly(p) ==
    /\ pc[p] = "put_unstage"
    /\ \/ DeleteStagedObjectMeta(req[p].obj) /\ Goto(p, "idle") /\ UNCHANGED engineVars
       \/ FailClean(p, "idle")

\* A failure here is returned to the client although the put is committed.
PutUnstage(p) ==
    /\ pc[p] = "put_unstage"
    /\ \/ /\ DeleteStagedObjectMeta(req[p].obj)
          /\ Goto(p, IF req[p].rel = None THEN "idle" ELSE "rel_ref")
          /\ UNCHANGED engineVars
       \/ FailCommand(p, "idle", DeleteStagedObjectMeta(req[p].obj))

\* preparePutBlob's cleanup after it failed.
FailUnstage(p) ==
    /\ pc[p] = "fail_unstage"
    /\ \/ DeleteStagedObjectMeta(req[p].obj) /\ Goto(p, "idle") /\ UNCHANGED engineVars
       \/ FailCommand(p, "idle", DeleteStagedObjectMeta(req[p].obj))

FailDropBlob(p) ==
    /\ pc[p] = "fail_blob"
    /\ \/ DeleteBlob(req[p].dir, req[p].hash) /\ Goto(p, "idle") /\ UNCHANGED metaVars
       \/ FailClean(p, "idle")

(***************************************************************************)
(* rollbackPut: every step runs, whatever the earlier ones returned         *)
(***************************************************************************)
RollbackLayout(p) ==
    /\ pc[p] = "rb_layout"
    /\ UNCHANGED metaVars
    /\ \/ DeleteObjectLayout(req[p].obj) /\ Goto(p, "rb_unstage")
       \/ GetLayout(req[p].obj) = NoLayout /\ Goto(p, "rb_unstage") /\ UNCHANGED engineVars
       \/ DeleteObjectLayoutFails(req[p].obj) /\ Fail(p, "rb_unstage")

RollbackUnstage(p) ==
    /\ pc[p] = "rb_unstage"
    /\ \/ DeleteStagedObjectMeta(req[p].obj) /\ Goto(p, "rb_restore") /\ UNCHANGED engineVars
       \/ FailCommand(p, "rb_restore", DeleteStagedObjectMeta(req[p].obj))

\* Mutant: the layout of the overwritten object is not put back.
RollbackRestoreNothing(p) ==
    /\ pc[p] = "rb_restore"
    /\ Goto(p, "rb_ref")
    /\ UNCHANGED <<metaVars, engineVars>>

\* restorePreviousLayout links the layout of the object as the put found it.
RollbackRestore(p) ==
    /\ pc[p] = "rb_restore"
    /\ UNCHANGED metaVars
    /\ \/ /\ req[p].exDir # None
          /\ LinkObject(req[p].obj, req[p].exDir, req[p].ex)
          /\ Goto(p, "rb_ref")
       \/ /\ req[p].exDir = None
          /\ Goto(p, "rb_ref")
          /\ UNCHANGED engineVars
       \/ /\ req[p].exDir # None
          /\ Fail(p, "rb_ref")
          /\ UNCHANGED engineVars

\* rollbackBlobRef gives the reference back; its last holder deletes the blob.
RollbackRef(p) ==
    LET h == req[p].hash IN
    /\ pc[p] = "rb_ref"
    /\ UNCHANGED engineVars
    /\ \/ /\ req[p].mut = "unchanged"
          /\ Goto(p, "rb_blob")
          /\ UNCHANGED metaVars
       \/ /\ req[p].mut # "unchanged"
          /\ DecreaseBlobRef(h)
          /\ IF refCount[h] = 1
             THEN Enter(p, "rb_refblob", [req[p] EXCEPT !.relDir = refPath[h]])
             ELSE Goto(p, "rb_blob")
       \/ /\ req[p].mut # "unchanged"
          /\ FailCommand(p, "rb_blob", DecreaseBlobRef(h))

RollbackRefBlob(p) ==
    /\ pc[p] = "rb_refblob"
    /\ \/ DeleteBlob(req[p].relDir, req[p].hash) /\ Goto(p, "rb_blob") /\ UNCHANGED metaVars
       \/ FailClean(p, "rb_blob")

\* cleanupCreatedBlob deletes the blob this put wrote, whoever uses it now.
RollbackBlob(p) ==
    /\ pc[p] = "rb_blob"
    /\ UNCHANGED metaVars
    /\ \/ req[p].created /\ DeleteBlob(req[p].dir, req[p].hash) /\ Goto(p, "idle")
       \/ ~req[p].created /\ Goto(p, "idle") /\ UNCHANGED engineVars
       \/ req[p].created /\ Fail(p, "idle") /\ UNCHANGED engineVars

(***************************************************************************)
(* releaseBlob, called by a put that replaced an object, by DeleteObject    *)
(* and by recovery                                                          *)
(***************************************************************************)
AfterRelease(p) ==
    IF req[p].op = "bucket" /\ ~req[p].layErr THEN "bkt_next"
    ELSE IF req[p].op \in {"recover", "boot"} THEN "rec_unstage"
    ELSE "idle"

ReleaseRef(p) ==
    LET h == req[p].rel IN
    /\ pc[p] = "rel_ref"
    /\ \/ /\ DecreaseBlobRef(h)
          /\ IF refCount[h] = 1
             THEN Enter(p, "rel_blob", [req[p] EXCEPT !.relDir = refPath[h]])
             ELSE Goto(p, AfterRelease(p))
          /\ UNCHANGED engineVars
       \/ FailCommand(p, "idle", DecreaseBlobRef(h))

ReleaseBlob(p) ==
    /\ pc[p] = "rel_blob"
    /\ \/ DeleteBlob(req[p].relDir, req[p].rel) /\ Goto(p, AfterRelease(p)) /\ UNCHANGED metaVars
       \/ FailClean(p, "idle")

(***************************************************************************)
(* DeleteObject and DeleteBucket                                            *)
(***************************************************************************)
\* An object that is not there is an error to a client, not to DeleteBucket.
DeleteLoad(p) ==
    LET h == objects[req[p].obj] IN
    /\ pc[p] = "del_load"
    /\ \/ /\ IF h = None
             THEN Goto(p, IF req[p].op = "bucket" THEN "bkt_next" ELSE "idle")
             ELSE Enter(p, "del_meta", [req[p] EXCEPT !.rel = h, !.layErr = FALSE])
          /\ UNCHANGED <<metaVars, engineVars>>
       \/ FailClean(p, "idle")

DeleteMeta(p) ==
    /\ pc[p] = "del_meta"
    /\ \/ DeleteObjectMeta(req[p].obj) /\ Goto(p, "del_layout") /\ UNCHANGED engineVars
       \/ FailCommand(p, "idle", DeleteObjectMeta(req[p].obj))

\* A layout error is kept for the end: the blob is released in any case.
DeleteLayout(p) ==
    /\ pc[p] = "del_layout"
    /\ UNCHANGED metaVars
    /\ \/ DeleteObjectLayout(req[p].obj) /\ Goto(p, "rel_ref")
       \/ GetLayout(req[p].obj) = NoLayout /\ Goto(p, "rel_ref") /\ UNCHANGED engineVars
       \/ /\ DeleteObjectLayoutFails(req[p].obj)
          /\ faults < MaxFaults
          /\ faults' = faults + 1
          /\ pc' = [pc EXCEPT ![p] = "rel_ref"]
          /\ req' = [req EXCEPT ![p].layErr = TRUE]
          /\ UNCHANGED <<crashes, elapses>>

BucketList(p) ==
    LET b == req[p].bkt
        listed == {o \in Objects : BucketOf[o] = b /\ objects[o] # None} IN
    /\ pc[p] = "bkt_list"
    /\ \/ /\ IF b \in buckets
             THEN Enter(p, "bkt_next", [req[p] EXCEPT !.todo = listed])
             ELSE Goto(p, "idle")
          /\ UNCHANGED <<metaVars, engineVars>>
       \/ FailClean(p, "idle")

\* The listed objects are deleted one by one, then the bucket.
BucketNextObject(p) ==
    /\ pc[p] = "bkt_next"
    /\ \E o \in req[p].todo :
           Enter(p, "del_load", [req[p] EXCEPT !.obj = o, !.todo = @ \ {o}])
    /\ UNCHANGED <<metaVars, engineVars>>

BucketDrop(p) ==
    /\ pc[p] = "bkt_next"
    /\ req[p].todo = {}
    /\ UNCHANGED engineVars
    /\ \/ DeleteBucketMeta(req[p].bkt) /\ Goto(p, "idle")
       \/ req[p].bkt \notin buckets /\ Goto(p, "idle") /\ UNCHANGED metaVars
       \/ FailCommand(p, "idle", DeleteBucketMeta(req[p].bkt))

(***************************************************************************)
(* GetObject: committed metadata, then whatever the layout points at        *)
(***************************************************************************)
GetMeta(p) ==
    LET h == objects[req[p].obj] IN
    /\ pc[p] = "get_meta"
    /\ \/ /\ Enter(p, IF h = None THEN "idle" ELSE "get_data", [req[p] EXCEPT !.hash = h])
          /\ UNCHANGED <<metaVars, engineVars>>
       \/ FailClean(p, "idle")

\* Reading shards changes nothing.  A layout found on disk is put in the cache
\* in a step of its own: getLayout holds no lock between the two.
GetData(p) ==
    LET l == GetLayout(req[p].obj) IN
    /\ pc[p] = "get_data"
    /\ \/ /\ IF cache[req[p].obj] # NoLayout \/ l = NoLayout
             THEN Goto(p, "idle")
             ELSE Enter(p, "get_cache", [req[p] EXCEPT !.dir = l.dir, !.hash = l.hash])
          /\ UNCHANGED <<metaVars, engineVars>>
       \/ FailClean(p, "idle")

GetCacheLayout(p) ==
    /\ pc[p] = "get_cache"
    /\ cache' = [cache EXCEPT ![req[p].obj] = [dir |-> req[p].dir, hash |-> req[p].hash]]
    /\ Goto(p, "idle")
    /\ UNCHANGED <<metaVars, disk, shards>>

(***************************************************************************)
(* Recover: expired staged writes, then orphan shard sets.  Any error ends  *)
(* the recovery.                                                            *)
(***************************************************************************)
RecoverListStaged(p) ==
    LET expired == {o \in Objects : staged[o].old} IN
    /\ pc[p] = "rec_list"
    /\ \/ /\ Enter(p, "rec_next", [req[p] EXCEPT !.snap = staged, !.todo = expired])
          /\ UNCHANGED <<metaVars, engineVars>>
       \/ FailClean(p, "idle")

\* pendingExpiredRecoveryDecision: what the stage says was done is undone.
RecoverNextPending(p) ==
    /\ pc[p] = "rec_next"
    /\ \E o \in req[p].todo :
           Enter(p, IF req[p].snap[o].stage \in {"layout_linked", "blob_retained"}
                    THEN "rec_layout" ELSE "rec_unstage",
                 [req[p] EXCEPT !.obj = o, !.hash = req[p].snap[o].hash])
    /\ UNCHANGED <<metaVars, engineVars>>

RecoverPendingDone(p) ==
    /\ pc[p] = "rec_next"
    /\ req[p].todo = {}
    /\ Goto(p, "rec_refs")
    /\ UNCHANGED <<metaVars, engineVars>>

\* rollbackPendingLayout: restore the committed layout, if there is one.
RecoverLayout(p) ==
    LET committed == objects[req[p].obj] IN
    /\ pc[p] = "rec_layout"
    /\ \/ /\ Enter(p, IF committed = None THEN "rec_unlink" ELSE "rec_ref",
                   [req[p] EXCEPT !.ex = committed])
          /\ UNCHANGED <<metaVars, engineVars>>
       \/ FailClean(p, "idle")

RecoverCommittedRef(p) ==
    LET ref == req[p].ex IN
    /\ pc[p] = "rec_ref"
    /\ \/ /\ IF refCount[ref] = 0
             THEN Goto(p, "idle")
             ELSE Enter(p, "rec_link", [req[p] EXCEPT !.exDir = refPath[ref]])
          /\ UNCHANGED <<metaVars, engineVars>>
       \/ FailClean(p, "idle")

AfterLayoutRollback(p) ==
    IF req[p].snap[req[p].obj].stage = "blob_retained" THEN "rec_check" ELSE "rec_unstage"

RecoverLink(p) ==
    /\ pc[p] = "rec_link"
    /\ \/ /\ LinkObject(req[p].obj, req[p].exDir, req[p].ex)
          /\ Goto(p, AfterLayoutRollback(p))
          /\ UNCHANGED metaVars
       \/ FailClean(p, "idle")

RecoverUnlink(p) ==
    /\ pc[p] = "rec_unlink"
    /\ UNCHANGED metaVars
    /\ \/ DeleteObjectLayout(req[p].obj) /\ Goto(p, AfterLayoutRollback(p))
       \/ /\ GetLayout(req[p].obj) = NoLayout
          /\ Goto(p, AfterLayoutRollback(p))
          /\ UNCHANGED engineVars
       \/ DeleteObjectLayoutFails(req[p].obj) /\ Fail(p, "idle")

\* shouldReleasePendingBlob: the write's reference is released unless the
\* object is now committed with the same content.
RecoverCheckRelease(p) ==
    LET h == req[p].hash IN
    /\ pc[p] = "rec_check"
    /\ \/ /\ IF objects[req[p].obj] = h
             THEN Goto(p, "rec_unstage")
             ELSE Enter(p, "rel_ref", [req[p] EXCEPT !.rel = h])
          /\ UNCHANGED <<metaVars, engineVars>>
       \/ FailClean(p, "idle")

RecoverUnstage(p) ==
    /\ pc[p] = "rec_unstage"
    /\ \/ /\ DeleteStagedObjectMeta(req[p].obj)
          /\ Enter(p, "rec_next", [req[p] EXCEPT !.todo = @ \ {req[p].obj}])
          /\ UNCHANGED engineVars
       \/ FailCommand(p, "idle", DeleteStagedObjectMeta(req[p].obj))

\* Mutant: contents without a ref are listed with an empty path.
RecoverListRefsAll(p) ==
    /\ pc[p] = "rec_refs"
    /\ \/ /\ Enter(p, "rec_staged", [req[p] EXCEPT !.live = {<<refPath[h], h>> : h \in Hashes}])
          /\ UNCHANGED <<metaVars, engineVars>>
       \/ FailClean(p, "idle")

\* cleanupOrphanShardSets: live are the blob refs, then the staged writes in
\* their keys' home directories; local shard sets are listed last.
RecoverListRefs(p) ==
    LET refs == {<<refPath[h], h>> : h \in {g \in Hashes : refCount[g] > 0}} IN
    /\ pc[p] = "rec_refs"
    /\ \/ Enter(p, "rec_staged", [req[p] EXCEPT !.live = refs]) /\ UNCHANGED <<metaVars, engineVars>>
       \/ FailClean(p, "idle")

PendingShardSets == {<<DirOf[o], staged[o].hash>> : o \in {q \in Objects : staged[q] # NoIntent}}

\* Mutant: the staged writes replace the blob refs in the live set.
RecoverListPendingOnly(p) ==
    /\ pc[p] = "rec_staged"
    /\ \/ /\ Enter(p, "rec_local", [req[p] EXCEPT !.live = PendingShardSets])
          /\ UNCHANGED <<metaVars, engineVars>>
       \/ FailClean(p, "idle")

RecoverListPending(p) ==
    /\ pc[p] = "rec_staged"
    /\ \/ /\ Enter(p, "rec_local", [req[p] EXCEPT !.live = @ \cup PendingShardSets])
          /\ UNCHANGED <<metaVars, engineVars>>
       \/ FailClean(p, "idle")

\* Mutant: shard sets are told apart by their hash alone.
RecoverListLocalByHash(p) ==
    LET orphan == {s \in ShardSets : /\ shards[s[1]][s[2]] # "none"
                                     /\ \A t \in req[p].live : t[2] # s[2]} IN
    /\ pc[p] = "rec_local"
    /\ \/ /\ Enter(p, "rec_sweep", [req[p] EXCEPT !.sets = orphan, !.live = {}])
          /\ UNCHANGED <<metaVars, engineVars>>
       \/ FailClean(p, "idle")

RecoverListLocal(p) ==
    LET local == {s \in ShardSets : shards[s[1]][s[2]] # "none"} IN
    /\ pc[p] = "rec_local"
    /\ \/ /\ Enter(p, "rec_sweep", [req[p] EXCEPT !.sets = local \ req[p].live, !.live = {}])
          /\ UNCHANGED <<metaVars, engineVars>>
       \/ FailClean(p, "idle")

\* Mutant: the sweep starts over after each set.
RecoverSweepAgain(p) ==
    /\ pc[p] = "rec_sweep"
    /\ \/ /\ \E s \in req[p].sets : DeleteBlob(s[1], s[2])
          /\ Goto(p, "rec_sweep")
          /\ UNCHANGED metaVars
       \/ req[p].sets # {} /\ FailClean(p, "idle")

RecoverSweep(p) ==
    /\ pc[p] = "rec_sweep"
    /\ \/ /\ \E s \in req[p].sets :
              /\ DeleteBlob(s[1], s[2])
              /\ Enter(p, "rec_sweep", [req[p] EXCEPT !.sets = @ \ {s}])
          /\ UNCHANGED metaVars
       \/ req[p].sets # {} /\ FailClean(p, "idle")

RecoverDone(p) ==
    /\ pc[p] = "rec_sweep"
    /\ req[p].sets = {}
    /\ Goto(p, "idle")
    /\ UNCHANGED <<metaVars, engineVars>>

(***************************************************************************)
(* Environment                                                              *)
(***************************************************************************)
\* The process stops, in the middle of any call or between requests, and
\* starts again: metadata and files survive, the layout cache and the
\* requests do not, and startup recovery runs before the server listens.
Restart ==
    /\ crashes < MaxCrashes
    /\ crashes' = crashes + 1
    /\ \E p \in Procs :
           /\ pc' = [q \in Procs |-> IF q = p THEN "rec_list" ELSE "idle"]
           /\ req' = [q \in Procs |-> IF q = p THEN [NoReq EXCEPT !.op = "boot"] ELSE NoReq]
    /\ cache' = [o \in Objects |-> NoLayout]
    /\ UNCHANGED <<metaVars, disk, shards, faults, elapses>>

\* The pending TTL passes for every staged write that no request in flight is
\* still working on: a put updates its intent more often than that.
Elapse ==
    LET abandoned == {o \in Objects : /\ staged[o] # NoIntent
                                      /\ \A p \in Procs : o \notin Touches(p)} IN
    /\ elapses < MaxElapses
    /\ elapses' = elapses + 1
    /\ abandoned # {}
    /\ staged' = [o \in Objects |-> IF o \in abandoned THEN [staged[o] EXCEPT !.old = TRUE]
                                     ELSE staged[o]]
    /\ UNCHANGED <<buckets, objects, refCount, refPath, engineVars, pc, req, faults, crashes>>

PutStep(p) ==
    \/ PutEnsureBucket(p) \/ PutLoadExisting(p) \/ PutLoadExistingRef(p)
    \/ PutStageMeta(p) \/ PutPrepareBlob(p) \/ PutCreateBlob(p)
    \/ PutIntentPrepared(p) \/ PutLinkLayout(p) \/ PutIntentLinked(p)
    \/ PutRetainBlob(p) \/ PutIntentRetained(p) \/ PutCommit(p) \/ PutUnstage(p)
    \/ FailUnstage(p) \/ FailDropBlob(p)

RollbackStep(p) ==
    \/ RollbackLayout(p) \/ RollbackUnstage(p) \/ RollbackRestore(p)
    \/ RollbackRef(p) \/ RollbackRefBlob(p) \/ RollbackBlob(p)

DeleteStep(p) ==
    \/ DeleteLoad(p) \/ DeleteMeta(p) \/ DeleteLayout(p)
    \/ ReleaseRef(p) \/ ReleaseBlob(p)
    \/ BucketList(p) \/ BucketNextObject(p) \/ BucketDrop(p)

GetStep(p) == GetMeta(p) \/ GetData(p) \/ GetCacheLayout(p)

RecoverStep(p) ==
    \/ RecoverListStaged(p) \/ RecoverNextPending(p) \/ RecoverPendingDone(p)
    \/ RecoverLayout(p) \/ RecoverCommittedRef(p) \/ RecoverLink(p) \/ RecoverUnlink(p)
    \/ RecoverCheckRelease(p) \/ RecoverUnstage(p) \/ RecoverListRefs(p)
    \/ RecoverListPending(p) \/ RecoverListLocal(p) \/ RecoverSweep(p) \/ RecoverDone(p)

StartRequest(p) ==
    \/ PutObject(p) \/ DeleteObject(p) \/ GetObject(p) \/ DeleteBucket(p) \/ Recover(p)

\* The next call of a request in flight.
Work(p) == PutStep(p) \/ RollbackStep(p) \/ DeleteStep(p) \/ GetStep(p) \/ RecoverStep(p)

Next ==
    \/ \E p \in Procs : StartRequest(p) \/ Work(p)
    \/ CreateBucket
    \/ Restart
    \/ Elapse

Spec == Init /\ [][Next]_vars

\* Every call returns, with an answer or a timeout, so a request goes on.
FairSpec == Spec /\ \A p \in Procs : WF_vars(Work(p))

(***************************************************************************)
(* Properties                                                               *)
(***************************************************************************)
\* A put, a delete or a bucket deletion on the object is in flight.
Writing(o) ==
    \E p \in Procs : req[p].op \in {"put", "delete", "bucket"} /\ o \in Touches(p)

\* GetObject returns the content the committed metadata names.
Readable(o) ==
    LET l == GetLayout(o) IN
    /\ l.hash = objects[o]
    /\ shards[l.dir][l.hash] = "full"

\* A committed object that no request is writing is readable, whatever other
\* puts, overwrites, deletes, recoveries and single failures came before:
\* rollbackPut puts the old layout back, deduplicated content outlives the
\* objects that wrote it, and the sweep spares what is referenced.
CommittedReadable ==
    crashes = 0 /\ elapses = 0 =>
        \A o \in Objects : objects[o] # None /\ ~Writing(o) => Readable(o)

\* The same across restarts, for objects that have no staged write left.
SettledReadable ==
    \A o \in Objects :
        objects[o] # None /\ ~Writing(o) /\ staged[o] = NoIntent => Readable(o)

\* The content of every blob ref is complete where the ref says it is: a put
\* that finds the ref deduplicates onto it without looking at the shards.
RefBacked ==
    \A h \in Hashes : refCount[h] > 0 => shards[refPath[h]][h] = "full"

\* A recovery that reaches its end leaves no shard set behind that neither a
\* blob ref nor a staged write accounts for.
SweepComplete ==
    \A p \in Procs : pc[p] = "rec_sweep" /\ req[p].sets = {} =>
        \A d \in Dirs, h \in Hashes : shards[d][h] # "none" =>
            (refCount[h] > 0 /\ refPath[h] = d) \/ <<d, h>> \in PendingShardSets

\* Request p holds a reference to h that no committed object accounts for: a
\* put between retainBlob and its commit (or its rollback), and a put or a
\* delete that has replaced or removed an object and not yet released it.
Holds(p, h) ==
    \/ /\ pc[p] \in {"put_retained", "put_commit", "rb_layout", "rb_unstage", "rb_restore", "rb_ref"}
       /\ req[p].mut # "unchanged"
       /\ req[p].hash = h
    \/ /\ pc[p] \in {"put_unstage", "del_layout", "rel_ref"}
       /\ req[p].rel = h

\* Who counts on content h.
Claims(h) ==
    {o \in Objects : objects[o] = h} \cup {p \in Procs : Holds(p, h)}

\* The reference count covers every committed object and every request that
\* holds a reference, so no release can free content that is in use.
ClaimsCovered ==
    \A h \in Hashes : Cardinality(Claims(h)) <= refCount[h]

\* No content is referenced by more committed objects than its count says.
NoUndercount ==
    \A h \in Hashes : Cardinality({o \in Objects : objects[o] = h}) <= refCount[h]

(***************************************************************************)
(* Why NoUndercount holds without contention, expiry and lost replies: the  *)
(* inductive invariant ReferencesInv, proved in ObjectStoreProofs.          *)
(***************************************************************************)
\* Requests in flight touch different objects.
TouchDisjoint == \A p, q \in Procs : p # q => Touches(p) \cap Touches(q) = {}

\* No staged write has expired.
NothingExpired == \A o \in Objects : ~staged[o].old

\* What the locals r of a request about to make call l say of the committed
\* objects.  A put still finds the object it loaded, has no reference before
\* retainBlob, and keeps the old one only for unchanged content; a delete still
\* finds the object it loaded; a recovery finds nothing to undo.
Remembers(l, r) ==
    /\ l \in PutCalls \ {"put_bucket", "put_load", "put_unstage"} => objects[r.obj] = r.ex
    /\ l \in PutCalls \ {"put_retained", "put_commit", "put_unstage"} => r.mut = "unchanged"
    /\ l \in {"put_retained", "put_commit"} /\ r.mut = "unchanged" => r.ex = r.hash
    /\ l = "del_meta" => objects[r.obj] = r.rel
    /\ r.op = "bucket" => \A o \in r.todo : BucketOf[o] = r.bkt
    /\ l \in {"del_load", "del_meta"} /\ r.op = "bucket" => BucketOf[r.obj] = r.bkt
    /\ r.op \in {"recover", "boot"} =>
           /\ r.todo = {}
           /\ l \in {"rec_list", "rec_next", "rec_refs", "rec_staged", "rec_local", "rec_sweep"}

ReferencesInv ==
    /\ TouchDisjoint
    /\ NothingExpired
    /\ \A p \in Procs : pc[p] # "idle" => Remembers(pc[p], req[p])
    /\ ClaimsCovered

\* References leak only through failures: as long as no call failed and the
\* process was not killed, counts are exact, also between concurrent requests.
LeakOnlyAfterFailure ==
    faults = 0 /\ crashes = 0 =>
        \A h \in Hashes : refCount[h] = Cardinality(Claims(h))

\* No object is committed or staged in a bucket that does not exist, in whatever
\* order puts, recoveries and bucket deletions overlap: a put that is overtaken
\* by DeleteBucket is refused and does not bring the object back.
NoObjectOutsideBuckets ==
    \A o \in Objects :
        objects[o] # None \/ staged[o] # NoIntent => BucketOf[o] \in buckets

\* The shards a put has written stay there until the put commits or gives up.
InFlightBlobKept ==
    \A p \in Procs :
        /\ pc[p] \in {"put_prepared", "put_link", "put_linked", "put_retain", "put_retained", "put_commit"}
        /\ req[p].created
        => shards[req[p].dir][req[p].hash] = "full"

\* Every request ends: the loops over a bucket's objects, over expired writes
\* and over orphan shard sets are finite, and every error path leads out.
RequestsFinish ==
    \A p \in Procs : pc[p] # "idle" ~> pc[p] = "idle"
=============================================================================
