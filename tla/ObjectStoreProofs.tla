------------------------- MODULE ObjectStoreProofs -------------------------
(***************************************************************************)
(* Proofs about ObjectStore, in four parts.                                 *)
(*                                                                          *)
(* Types: for any number of requests, objects, contents, failures, restarts *)
(* and expiries, with or without contention.  The commands of the metadata, *)
(* the calls of the engine and the control moves each keep their part of    *)
(* the type invariant; an action is a combination of one of each.  With as  *)
(* little assumed, no object is outside the buckets.                        *)
(*                                                                          *)
(* Reference counts: without contention on an object, as long as no staged  *)
(* write expires and no command is applied although it timed out, counts    *)
(* cover what is in use (ReferencesInv counts, besides committed objects,   *)
(* the requests that hold a reference on the way), and until something      *)
(* fails they are exact (ExactInv).                                         *)
(*                                                                          *)
(* One request at a time: a sweep that ends is complete (SweepInv), and     *)
(* with at most one call failing every blob ref is backed by shards         *)
(* (BackedInv), for any kills and expiries.                                 *)
(*                                                                          *)
(* Readability: then, until a restart, every committed object that is not   *)
(* being written is readable (CachedInv).                                   *)
(***************************************************************************)
EXTENDS ObjectStore, FiniteSetTheorems, WellFoundedInduction, TLAPS

MetaType ==
    /\ buckets \in SUBSET Buckets
    /\ objects \in [Objects -> Hashes \cup {None}]
    /\ staged \in [Objects -> Intents]
    /\ refCount \in [Hashes -> Nat]
    /\ refPath \in [Hashes -> Dirs \cup {None}]

EngineType ==
    /\ cache \in [Objects -> Layouts]
    /\ disk \in [Objects -> [Dirs -> Hashes \cup {None}]]
    /\ shards \in [Dirs -> [Hashes -> {"none", "partial", "full"}]]

ControlType ==
    /\ pc \in [Procs -> Calls]
    /\ req \in [Procs -> Requests]
    /\ faults \in Nat
    /\ crashes \in Nat
    /\ elapses \in Nat

\* The type invariant is the conjunction of its three parts.
LEMMA TypeParts ==
  /\ TypeOK <=> MetaType /\ EngineType /\ ControlType
  /\ TypeOK' <=> MetaType' /\ EngineType' /\ ControlType'
  BY DEF TypeOK, MetaType, EngineType, ControlType

\* The empty locals a request starts from are well typed.
LEMMA NoReqType == NoReq \in Requests
  BY DEF NoReq, Requests, NoIntent, Intents, Stages

\* Initial states are well typed.
LEMMA InitType == Init => TypeOK
  <1>1. NoReq \in Requests
    BY NoReqType
  <1>2. NoIntent \in Intents
    BY DEF NoIntent, Intents, Stages
  <1>3. NoLayout \in Layouts
    BY DEF NoLayout, Layouts
  <1> QED
    BY <1>1, <1>2, <1>3 DEF Init, TypeOK, Calls

(***************************************************************************)
(* Which locals a request has set when it makes call l.  The type invariant *)
(* needs it: a call that indexes a metadata map with req[p].obj is typed    *)
(* only if the handler has set obj by then.                                 *)
(***************************************************************************)
PendingCalls == {"rec_layout", "rec_ref", "rec_link", "rec_unlink", "rec_check", "rec_unstage"}

\* The calls of a put between prepareBlob and the blob ref.
PreparedCalls == {"put_prepared", "put_link", "put_linked", "put_retain"}

ShapeOf(l, r) ==
    /\ l \in PutCalls \cup RollbackCalls =>
           r.op = "put" /\ r.obj \in Objects /\ r.hash \in Hashes
    /\ l \in PreparedCalls => r.dir \in Dirs
    /\ l \in {"put_loadref", "rec_ref", "rec_link"} => r.ex \in Hashes
    /\ l \in GetCalls => r.op = "get" /\ r.obj \in Objects
    /\ l \in {"del_load", "del_meta", "del_layout"} =>
           r.op \in {"delete", "bucket"} /\ r.obj \in Objects
    /\ l \in {"rel_ref", "rel_blob"} =>
           /\ r.op \in {"put", "delete", "bucket", "recover", "boot"}
           /\ r.obj \in Objects
           /\ r.op \in {"recover", "boot"} => r.hash \in Hashes
    /\ l \in {"del_meta", "del_layout", "rel_ref", "rel_blob"} => r.rel \in Hashes
    /\ l \in BucketCalls => r.op = "bucket"
    /\ l \in RecoverCalls => r.op \in {"recover", "boot"}
    /\ l \in PendingCalls => r.obj \in Objects /\ r.hash \in Hashes
    /\ r.op \in {"recover", "boot"} => \A o \in r.todo : r.snap[o].hash \in Hashes

ControlOK == ControlType /\ \A p \in Procs : ShapeOf(pc[p], req[p])

\* A staged write has content, and a blob ref has a path.
StagedOK == \A o \in Objects : staged[o] # NoIntent => staged[o].hash \in Hashes
RefsOK == \A h \in Hashes : refCount[h] > 0 => refPath[h] \in Dirs

MetaOK == MetaType /\ StagedOK /\ RefsOK

TypeInv == MetaOK /\ EngineType /\ ControlOK

\* Every call named above is one of the calls a request can make.
LEMMA CallsFacts ==
  /\ "idle" \in Calls /\ PutCalls \subseteq Calls /\ RollbackCalls \subseteq Calls
  /\ DeleteCalls \subseteq Calls /\ BucketCalls \subseteq Calls
  /\ GetCalls \subseteq Calls /\ RecoverCalls \subseteq Calls
  BY DEF Calls

(***************************************************************************)
(* Control moves                                                            *)
(***************************************************************************)
\* A request that is over has no locals.
LEMMA IdleShape == ShapeOf("idle", NoReq)
  BY DEF ShapeOf, NoReq, PutCalls, RollbackCalls, GetCalls, BucketCalls, RecoverCalls, PendingCalls,
         PreparedCalls

\* Moving to a call whose locals are set keeps the control state well formed.
LEMMA EnterOK ==
  ASSUME ControlOK, NEW p \in Procs, NEW l \in Calls, NEW r \in Requests,
         l # "idle" => ShapeOf(l, r), Enter(p, l, r)
  PROVE  ControlOK'
  <1>1. ControlType'
    BY NoReqType DEF ControlOK, ControlType, Enter
  <1>2. ASSUME NEW q \in Procs
        PROVE  ShapeOf(pc'[q], req'[q])
    <2>1. CASE q # p
      BY <2>1 DEF ControlOK, ControlType, Enter
    <2>2. CASE q = p
      <3>1. pc'[p] = l /\ req'[p] = IF l = "idle" THEN NoReq ELSE r
        BY DEF ControlOK, ControlType, Enter
      <3> QED
        BY <2>2, <3>1, IdleShape
    <2> QED
      BY <2>1, <2>2
  <1> QED
    BY <1>1, <1>2 DEF ControlOK

\* Moving on to a call whose locals are in shape keeps the requests well-formed.
LEMMA GotoOK ==
  ASSUME ControlOK, NEW p \in Procs, NEW l \in Calls,
         l # "idle" => ShapeOf(l, req[p]), Goto(p, l)
  PROVE  ControlOK'
  <1>1. req[p] \in Requests
    BY DEF ControlOK, ControlType
  <1> QED
    BY <1>1, EnterOK DEF Goto

\* A failed call leaves the locals alone.
LEMMA FailOK ==
  ASSUME ControlOK, NEW p \in Procs, NEW l \in Calls,
         l # "idle" => ShapeOf(l, req[p]), Fail(p, l)
  PROVE  ControlOK'
  <1>1. ControlType'
    BY NoReqType DEF ControlOK, ControlType, Fail
  <1>2. ASSUME NEW q \in Procs
        PROVE  ShapeOf(pc'[q], req'[q])
    <2>1. CASE q # p
      BY <2>1 DEF ControlOK, ControlType, Fail
    <2>2. CASE q = p
      <3>1. pc'[p] = l /\ req'[p] = IF l = "idle" THEN NoReq ELSE req[p]
        BY DEF ControlOK, ControlType, Fail
      <3> QED
        BY <2>2, <3>1, IdleShape
    <2> QED
      BY <2>1, <2>2
  <1> QED
    BY <1>1, <1>2 DEF ControlOK

\* A step that leaves the metadata alone keeps it well-formed.
LEMMA UnchangedMeta == MetaOK /\ UNCHANGED metaVars => MetaOK'
  BY DEF MetaOK, MetaType, StagedOK, RefsOK, metaVars

\* A step that leaves the engine alone keeps its type.
LEMMA UnchangedEngine == EngineType /\ UNCHANGED engineVars => EngineType'
  BY DEF EngineType, engineVars

(***************************************************************************)
(* Metadata commands                                                        *)
(***************************************************************************)
LEMMA StageType ==
  ASSUME MetaOK, NEW o \in Objects, NEW h \in Hashes, NEW s \in Stages,
         StageObjectMeta(o, h, s)
  PROVE  MetaOK'
  BY DEF MetaOK, StagedOK, RefsOK, MetaType, StageObjectMeta, Intents

\* upsertObjectMeta keeps the metadata well-formed.
LEMMA UpsertType ==
  ASSUME MetaOK, NEW o \in Objects, NEW h \in Hashes, UpsertObjectMeta(o, h)
  PROVE  MetaOK'
  BY DEF MetaOK, StagedOK, RefsOK, MetaType, UpsertObjectMeta

\* deleteStagedObjectMeta keeps the metadata well-formed.
LEMMA UnstageType ==
  ASSUME MetaOK, NEW o \in Objects, DeleteStagedObjectMeta(o)
  PROVE  MetaOK'
  BY DEF MetaOK, StagedOK, RefsOK, MetaType, DeleteStagedObjectMeta, Intents, NoIntent, Stages

\* deleteObjectMeta keeps the metadata well-formed.
LEMMA DeleteMetaType ==
  ASSUME MetaOK, NEW o \in Objects, DeleteObjectMeta(o)
  PROVE  MetaOK'
  BY DEF MetaOK, StagedOK, RefsOK, MetaType, DeleteObjectMeta

\* createBlobRef keeps a path for every ref that is counted.
LEMMA CreateRefType ==
  ASSUME MetaOK, NEW h \in Hashes, NEW d \in Dirs, CreateBlobRef(h, d)
  PROVE  MetaOK'
  BY DEF MetaOK, StagedOK, RefsOK, MetaType, CreateBlobRef

\* increaseBlobRef keeps a path for every ref that is counted.
LEMMA IncreaseRefType ==
  ASSUME MetaOK, NEW h \in Hashes, IncreaseBlobRef(h)
  PROVE  MetaOK'
  BY DEF MetaOK, StagedOK, RefsOK, MetaType, IncreaseBlobRef

\* decreaseBlobRef keeps a path for every ref that is still counted.
LEMMA DecreaseRefType ==
  ASSUME MetaOK, NEW h \in Hashes, DecreaseBlobRef(h)
  PROVE  MetaOK'
  BY DEF MetaOK, StagedOK, RefsOK, MetaType, DecreaseBlobRef

\* deleteBucket keeps the metadata well-formed.
LEMMA DropBucketType ==
  ASSUME MetaOK, NEW b, DeleteBucketMeta(b)
  PROVE  MetaOK'
  BY DEF MetaOK, StagedOK, RefsOK, MetaType, DeleteBucketMeta, Intents, NoIntent, Stages

(***************************************************************************)
(* Engine calls                                                             *)
(***************************************************************************)
\* A directory walk over a non-empty set of directories has a first one.
LEMMA FirstDir ==
  ASSUME NEW S \in SUBSET Dirs, S # {}
  PROVE  \E d \in S : \A e \in S : d <= e
  <1>1. S \subseteq Nat
    BY ObjectsAssumption
  <1>2. \E d \in S : \A e \in S : <<e, d>> \notin OpToRel(<, Nat)
    BY <1>1, WFMin, NatLessThanWellFounded, Zenon
  <1>3. \A d, e \in Nat : e < d => <<e, d>> \in OpToRel(<, Nat)
    BY DEF OpToRel
  <1>4. PICK d \in S : \A e \in S : <<e, d>> \notin OpToRel(<, Nat)
    BY <1>2
  <1>5. \A e \in S : ~(e < d)
    BY <1>1, <1>3, <1>4
  <1>6. \A e \in S : d <= e
    BY <1>1, <1>5
  <1> QED
    BY <1>6

\* A directory walk that finds a layout finds it in an existing directory.
LEMMA ScannedDirType ==
  ASSUME EngineType, NEW o \in Objects, \E d \in Dirs : disk[o][d] # None
  PROVE  ScannedDir(o) \in Dirs
  <1> DEFINE S == {d \in Dirs : disk[o][d] # None}
  <1>1. \E d \in S : \A e \in S : d <= e
    BY FirstDir
  <1> QED
    BY <1>1 DEF ScannedDir

\* getLayout returns a layout, and the directory of a layout it finds exists.
LEMMA GetLayoutType ==
  ASSUME EngineType, NEW o \in Objects
  PROVE  GetLayout(o) \in Layouts
  <1>1. disk[o] \in [Dirs -> Hashes \cup {None}] /\ cache[o] \in Layouts
    BY DEF EngineType
  <1>2. \A d \in Dirs : [dir |-> d, hash |-> disk[o][d]] \in Layouts
    BY <1>1 DEF Layouts
  <1>3. DirOf[o] \in Dirs
    BY ObjectsAssumption
  <1>4. NoLayout \in Layouts
    BY DEF NoLayout, Layouts
  <1> QED
    BY <1>1, <1>2, <1>3, <1>4, ScannedDirType DEF GetLayout

\* LinkObject keeps the type of the layouts.
LEMMA LinkType ==
  ASSUME EngineType, NEW o \in Objects,
         NEW d \in Dirs \cup {None}, NEW h \in Hashes \cup {None}, LinkObject(o, d, h)
  PROVE  EngineType'
  BY DEF EngineType, LinkObject, Layouts

\* DeleteObjectLayout, succeeding or not, keeps the type of the layouts.
LEMMA UnlinkType ==
  ASSUME EngineType, NEW o \in Objects, DeleteObjectLayout(o) \/ DeleteObjectLayoutFails(o)
  PROVE  EngineType'
  <1>1. NoLayout \in Layouts
    BY DEF NoLayout, Layouts
  <1>2. CASE DeleteObjectLayoutFails(o)
    BY <1>1, <1>2 DEF EngineType, DeleteObjectLayoutFails
  <1>3. CASE DeleteObjectLayout(o)
    <2>1. PICK d : disk' = [disk EXCEPT ![o] = [@ EXCEPT ![d] = None]]
      BY <1>3 DEF DeleteObjectLayout
    <2>2. [disk[o] EXCEPT ![d] = None] \in [Dirs -> Hashes \cup {None}]
      BY DEF EngineType
    <2>3. disk' \in [Objects -> [Dirs -> Hashes \cup {None}]]
      BY <2>1, <2>2 DEF EngineType
    <2> QED
      BY <1>1, <1>3, <2>3 DEF EngineType, DeleteObjectLayout
  <1> QED
    BY <1>2, <1>3

\* Writing and deleting shards keeps their type.
LEMMA SetShardsType ==
  ASSUME EngineType, NEW d, NEW h, NEW s \in {"none", "partial", "full"}, SetShards(d, h, s)
  PROVE  EngineType'
  BY DEF EngineType, SetShards

(***************************************************************************)
(* Steps that only move a request, and failures that touch nothing          *)
(***************************************************************************)
LEMMA QuietEnter ==
  ASSUME TypeInv, NEW p \in Procs, NEW l \in Calls, NEW r \in Requests,
         l # "idle" => ShapeOf(l, r), Enter(p, l, r), UNCHANGED <<metaVars, engineVars>>
  PROVE  TypeInv'
  BY EnterOK, UnchangedMeta, UnchangedEngine DEF TypeInv

\* A request moves on, with its locals unchanged.
LEMMA QuietGoto ==
  ASSUME TypeInv, NEW p \in Procs, NEW l \in Calls,
         l # "idle" => ShapeOf(l, req[p]), Goto(p, l), UNCHANGED <<metaVars, engineVars>>
  PROVE  TypeInv'
  BY GotoOK, UnchangedMeta, UnchangedEngine DEF TypeInv

\* A call failed without a trace.
LEMMA QuietFail ==
  ASSUME TypeInv, NEW p \in Procs, NEW l \in Calls,
         l # "idle" => ShapeOf(l, req[p]), FailClean(p, l)
  PROVE  TypeInv'
  BY FailOK, UnchangedMeta, UnchangedEngine DEF TypeInv, FailClean

\* A metadata command that failed, applied or not.
LEMMA CommandFail ==
  ASSUME TypeInv, NEW p \in Procs, NEW l \in Calls,
         l # "idle" => ShapeOf(l, req[p]), Fail(p, l), UNCHANGED engineVars, MetaOK'
  PROVE  TypeInv'
  BY FailOK, UnchangedEngine DEF TypeInv

\* A metadata command or an engine call, and a move.
LEMMA MetaStep ==
  ASSUME TypeInv, MetaOK', UNCHANGED engineVars, ControlOK'
  PROVE  TypeInv'
  BY UnchangedEngine DEF TypeInv

\* A step on the engine alone.
LEMMA EngineStep ==
  ASSUME TypeInv, EngineType', UNCHANGED metaVars, ControlOK'
  PROVE  TypeInv'
  BY UnchangedMeta DEF TypeInv

(***************************************************************************)
(* PutObject and its rollback                                               *)
(***************************************************************************)
\* The locals of a put, and the calls they suffice for.
IsPut(r) == r \in Requests /\ r.op = "put" /\ r.obj \in Objects /\ r.hash \in Hashes

\* The locals of a put have the shape each of its later calls needs.
LEMMA PutShape ==
  ASSUME NEW r, IsPut(r), NEW l \in (PutCalls \cup RollbackCalls) \ {"put_loadref"},
         l \in PreparedCalls => r.dir \in Dirs
  PROVE  ShapeOf(l, r)
  BY DEF IsPut, ShapeOf, PutCalls, RollbackCalls, GetCalls, BucketCalls, RecoverCalls, PendingCalls, PreparedCalls

\* A request making a call of a put or of its rollback is a put.
LEMMA PutLocals ==
  ASSUME TypeInv, NEW p \in Procs, pc[p] \in PutCalls \cup RollbackCalls
  PROVE  IsPut(req[p])
  BY DEF TypeInv, ControlOK, ControlType, ShapeOf, IsPut

\* Every update a put makes to its locals keeps them those of a put.
LEMMA PutUpdates ==
  ASSUME NEW r, IsPut(r), NEW h \in Hashes \cup {None}, NEW d \in Dirs \cup {None},
         NEW m \in {"unchanged", "increased", "created"}
  PROVE  /\ IsPut([r EXCEPT !.ex = h])
         /\ IsPut([r EXCEPT !.exDir = d])
         /\ IsPut([r EXCEPT !.hit = TRUE, !.dir = d])
         /\ IsPut([r EXCEPT !.created = TRUE, !.dir = d])
         /\ IsPut([r EXCEPT !.mut = m])
         /\ IsPut([r EXCEPT !.rel = h])
         /\ IsPut([r EXCEPT !.relDir = d])
  <1> USE DEF IsPut, Requests
  <1>1. IsPut([r EXCEPT !.ex = h])
    OBVIOUS
  <1>2. IsPut([r EXCEPT !.exDir = d])
    OBVIOUS
  <1>3. IsPut([r EXCEPT !.hit = TRUE, !.dir = d])
    OBVIOUS
  <1>4. IsPut([r EXCEPT !.created = TRUE, !.dir = d])
    OBVIOUS
  <1>5. IsPut([r EXCEPT !.mut = m])
    OBVIOUS
  <1>6. IsPut([r EXCEPT !.rel = h])
    OBVIOUS
  <1>7. IsPut([r EXCEPT !.relDir = d])
    OBVIOUS
  <1> HIDE DEF IsPut
  <1> QED
    BY <1>1, <1>2, <1>3, <1>4, <1>5, <1>6, <1>7

\* Every step of PutObject keeps the type invariant.
LEMMA PutStepType ==
  ASSUME TypeInv, NEW p \in Procs, PutStep(p)
  PROVE  TypeInv'
  <1> USE CallsFacts
  <1> DEFINE o == req[p].obj
             h == req[p].hash
  <1>0. /\ pc[p] \in PutCalls \cup RollbackCalls
        /\ IsPut(req[p])
    <2>1. pc[p] \in PutCalls \cup RollbackCalls
      BY DEF PutStep, PutEnsureBucket, PutLoadExisting, PutLoadExistingRef, PutStageMeta,
             PutPrepareBlob, PutCreateBlob, PutIntentPrepared, PutLinkLayout, PutIntentLinked,
             PutRetainBlob, PutIntentRetained, PutCommit, PutUnstage, FailUnstage, FailDropBlob,
             AdvanceIntent, PutCalls, RollbackCalls
    <2> QED
      BY <2>1, PutLocals
  <1>a. /\ req[p] \in Requests /\ o \in Objects /\ h \in Hashes /\ req[p].dir \in Dirs \cup {None}
        /\ req[p].ex \in Hashes \cup {None}
    BY <1>0 DEF IsPut, Requests
  <1>b. /\ MetaOK /\ EngineType /\ ControlOK
        /\ refPath \in [Hashes -> Dirs \cup {None}]
        /\ objects[o] \in Hashes \cup {None}
        /\ DirOf[o] \in Dirs
    BY <1>a, ObjectsAssumption DEF TypeInv, MetaOK, MetaType
  <1>c. ASSUME NEW l \in {"idle"} \cup ((PutCalls \cup RollbackCalls) \ {"put_loadref"}),
               l \in PreparedCalls => req[p].dir \in Dirs
        PROVE  l \in Calls /\ (l # "idle" => ShapeOf(l, req[p]))
    BY <1>0, <1>c, PutShape
  <1>d. pc[p] \in PreparedCalls => req[p].dir \in Dirs
    BY DEF TypeInv, ControlOK, ShapeOf
  <1>1. CASE PutEnsureBucket(p)
    <2>1. "put_load" \in PutCalls \ PreparedCalls
      BY DEF PutCalls, PreparedCalls
    <2> QED
      BY <1>1, <1>c, <2>1, QuietGoto, QuietFail DEF PutEnsureBucket, PreparedCalls
  <1>2. CASE PutLoadExisting(p)
    <2> DEFINE r == [req[p] EXCEPT !.ex = objects[o]]
    <2>1. IsPut(r)
      BY <1>0, <1>b, PutUpdates
    <2>2. r \in Requests /\ r.ex = objects[o]
      BY <1>a, <2>1 DEF IsPut, Requests
    <2>3. ShapeOf("put_stage", r)
      BY <2>1, PutShape DEF PutCalls, PreparedCalls
    <2>4. objects[o] # None => ShapeOf("put_loadref", r)
      BY <1>b, <2>1, <2>2 DEF ShapeOf, IsPut, PutCalls, RollbackCalls, GetCalls, BucketCalls,
                              RecoverCalls, PendingCalls, PreparedCalls
    <2> QED
      BY <1>2, <1>c, <2>2, <2>3, <2>4, QuietEnter, QuietFail DEF PutLoadExisting, PutCalls, PreparedCalls
  <1>3. CASE PutLoadExistingRef(p)
    <2> DEFINE r == [req[p] EXCEPT !.exDir = refPath[req[p].ex]]
    <2>1. req[p].ex \in Hashes
      BY <1>3 DEF PutLoadExistingRef, TypeInv, ControlOK, ShapeOf
    <2>2. IsPut(r)
      BY <1>0, <1>b, <2>1, PutUpdates
    <2>3. ShapeOf("put_stage", r) /\ r \in Requests
      BY <2>2, PutShape DEF PutCalls, PreparedCalls, IsPut
    <2> QED
      BY <1>3, <1>c, <2>3, QuietEnter, QuietFail DEF PutLoadExistingRef, PutCalls, PreparedCalls
  <1>4. ASSUME NEW call, NEW stage \in Stages, NEW okCall \in PutCalls \ {"put_loadref"},
               NEW errCall \in {"idle"} \cup RollbackCalls,
               call \in PreparedCalls \/ okCall \notin PreparedCalls,
               AdvanceIntent(p, call, stage, okCall, errCall)
        PROVE  TypeInv'
    <2>1. CASE StageObjectMeta(o, h, stage) /\ Goto(p, okCall) /\ UNCHANGED engineVars
      <3>1. MetaOK'
        BY <1>a, <1>b, <2>1, StageType
      <3>2. ControlOK'
        BY <1>4, <1>b, <1>c, <1>d, <2>1, GotoOK DEF AdvanceIntent
      <3> QED
        BY <2>1, <3>1, <3>2, MetaStep
    <2>2. CASE Goto(p, errCall) /\ UNCHANGED <<metaVars, engineVars>>
      BY <1>c, <2>2, QuietGoto DEF PutCalls, RollbackCalls, PreparedCalls
    <2>3. CASE FailCommand(p, errCall, StageObjectMeta(o, h, stage))
      <3>1. MetaOK'
        BY <1>a, <1>b, <2>3, StageType, UnchangedMeta DEF FailCommand
      <3> QED
        BY <1>c, <2>3, <3>1, CommandFail DEF FailCommand, PutCalls, RollbackCalls, PreparedCalls
    <2> QED
      BY <1>4, <2>1, <2>2, <2>3 DEF AdvanceIntent
  <1>5. CASE PutStageMeta(p) \/ PutIntentPrepared(p) \/ PutIntentLinked(p) \/ PutIntentRetained(p)
    BY <1>4, <1>5 DEF PutStageMeta, PutIntentPrepared, PutIntentLinked, PutIntentRetained,
                      PutCalls, RollbackCalls, PreparedCalls, Stages
  <1>6. CASE PutPrepareBlob(p)
    <2> DEFINE r == [req[p] EXCEPT !.hit = TRUE, !.dir = refPath[h]]
    <2>1. IsPut(r)
      BY <1>0, <1>a, <1>b, PutUpdates
    <2>2. r \in Requests /\ (refCount[h] > 0 => r.dir \in Dirs)
      BY <1>a, <1>b, <2>1 DEF IsPut, Requests, MetaOK, RefsOK
    <2> HIDE DEF r
    <2>3. refCount[h] > 0 => ShapeOf("put_prepared", r)
      BY <2>1, <2>2, PutShape DEF PutCalls
    <2> QED
      BY <1>6, <1>c, <2>2, <2>3, QuietEnter, QuietGoto, QuietFail
      DEF PutPrepareBlob, PutCalls, RollbackCalls, PreparedCalls, r
  <1>7. CASE PutCreateBlob(p)
    <2> DEFINE r == [req[p] EXCEPT !.created = TRUE, !.dir = DirOf[o]]
    <2>1. IsPut(r)
      BY <1>0, <1>b, PutUpdates
    <2>a. r.dir \in Dirs
      BY <1>a, <1>b DEF Requests
    <2>2. ShapeOf("put_prepared", r) /\ r \in Requests /\ "put_prepared" \in Calls
      BY <2>1, <2>a, PutShape DEF PutCalls, IsPut
    <2>3. ControlOK'
      BY <1>7, <1>b, <1>c, <2>2, EnterOK, FailOK DEF PutCreateBlob, RollbackCalls, PreparedCalls
    <2>4. EngineType'
      BY <1>7, <1>b, SetShardsType, UnchangedEngine DEF PutCreateBlob, PutBlob, PutBlobFails
    <2> QED
      BY <1>7, <2>3, <2>4, EngineStep DEF PutCreateBlob
  <1>8. CASE PutLinkLayout(p)
    <2>1. CASE LinkObject(o, req[p].dir, h) /\ Goto(p, "put_linked") /\ UNCHANGED metaVars
      <3>1. EngineType'
        BY <1>a, <1>b, <2>1, LinkType
      <3>2. ControlOK'
        BY <1>8, <1>b, <1>c, <1>d, <2>1, GotoOK DEF PutLinkLayout, PutCalls, PreparedCalls
      <3> QED
        BY <2>1, <3>1, <3>2, EngineStep
    <2>2. CASE FailClean(p, IF req[p].created THEN "fail_blob" ELSE "idle")
      BY <1>c, <2>2, QuietFail DEF RollbackCalls, PreparedCalls
    <2> QED
      BY <1>8, <2>1, <2>2 DEF PutLinkLayout
  <1>9. CASE PutRetainBlob(p)
    <2>1. ASSUME NEW m \in {"unchanged", "increased", "created"},
                 Enter(p, "put_retained", [req[p] EXCEPT !.mut = m])
          PROVE  ControlOK'
      <3>1. IsPut([req[p] EXCEPT !.mut = m])
        BY <1>0, PutUpdates
      <3>2. /\ ShapeOf("put_retained", [req[p] EXCEPT !.mut = m])
            /\ [req[p] EXCEPT !.mut = m] \in Requests
            /\ "put_retained" \in Calls
        BY <3>1, PutShape DEF PutCalls, PreparedCalls, IsPut
      <3> QED
        BY <1>b, <2>1, <3>2, EnterOK
    <2>2. CASE /\ CreateBlobRef(h, req[p].dir)
               /\ Enter(p, "put_retained", [req[p] EXCEPT !.mut = "created"])
               /\ UNCHANGED engineVars
      BY <1>9, <1>a, <1>b, <1>d, <2>1, <2>2, CreateRefType, MetaStep DEF PutRetainBlob, PreparedCalls
    <2>3. CASE /\ Enter(p, "put_retained", [req[p] EXCEPT !.mut = "unchanged"])
               /\ UNCHANGED <<metaVars, engineVars>>
      BY <1>b, <2>1, <2>3, UnchangedMeta, MetaStep
    <2>4. CASE /\ IncreaseBlobRef(h)
               /\ Enter(p, "put_retained", [req[p] EXCEPT !.mut = "increased"])
               /\ UNCHANGED engineVars
      BY <1>a, <1>b, <2>1, <2>4, IncreaseRefType, MetaStep
    <2>5. CASE Goto(p, "rb_layout") /\ UNCHANGED <<metaVars, engineVars>>
      BY <1>c, <2>5, QuietGoto DEF RollbackCalls, PreparedCalls
    <2>6. CASE FailCommand(p, "rb_layout", CreateBlobRef(h, req[p].dir))
      <3>1. MetaOK'
        BY <1>9, <1>a, <1>b, <1>d, <2>6, CreateRefType, UnchangedMeta
        DEF FailCommand, PutRetainBlob, PreparedCalls
      <3> QED
        BY <1>c, <2>6, <3>1, CommandFail DEF FailCommand, RollbackCalls, PreparedCalls
    <2>7. CASE FailCommand(p, "rb_layout", IncreaseBlobRef(h))
      <3>1. MetaOK'
        BY <1>a, <1>b, <2>7, IncreaseRefType, UnchangedMeta DEF FailCommand
      <3> QED
        BY <1>c, <2>7, <3>1, CommandFail DEF FailCommand, RollbackCalls, PreparedCalls
    <2> QED
      BY <1>9, <2>2, <2>3, <2>4, <2>5, <2>6, <2>7 DEF PutRetainBlob
  <1>10. CASE PutCommit(p)
    <2> DEFINE replaced == IF req[p].ex = h THEN None ELSE req[p].ex
               r == [req[p] EXCEPT !.rel = replaced]
    <2>1. IsPut(r)
      BY <1>0, <1>a, PutUpdates
    <2>a. "put_unstage" \in PutCalls \ ({"put_loadref"} \cup PreparedCalls)
      BY DEF PutCalls, PreparedCalls
    <2> HIDE DEF r
    <2>2. ShapeOf("put_unstage", r) /\ r \in Requests /\ "put_unstage" \in Calls
      BY <2>1, <2>a, PutShape DEF IsPut
    <2> USE DEF r
    <2>3. CASE UpsertObjectMeta(o, h) /\ Enter(p, "put_unstage", r) /\ UNCHANGED engineVars
      BY <1>a, <1>b, <2>2, <2>3, UpsertType, EnterOK, MetaStep
    <2>4. CASE Goto(p, "rb_layout") /\ UNCHANGED <<metaVars, engineVars>>
      BY <1>c, <2>4, QuietGoto DEF RollbackCalls, PreparedCalls
    <2>5. CASE FailCommand(p, "rb_layout", UpsertObjectMeta(o, h))
      <3>1. MetaOK'
        BY <1>a, <1>b, <2>5, UpsertType, UnchangedMeta DEF FailCommand
      <3> QED
        BY <1>c, <2>5, <3>1, CommandFail DEF FailCommand, RollbackCalls, PreparedCalls
    <2> QED
      BY <1>10, <2>3, <2>4, <2>5 DEF PutCommit
  <1>11. CASE PutUnstage(p)
    <2>1. CASE FailCommand(p, "idle", DeleteStagedObjectMeta(o))
      <3>1. MetaOK'
        BY <1>a, <1>b, <2>1, UnstageType, UnchangedMeta DEF FailCommand
      <3> QED
        BY <2>1, <3>1, CommandFail DEF FailCommand
    <2>2. CASE /\ DeleteStagedObjectMeta(o)
               /\ Goto(p, IF req[p].rel = None THEN "idle" ELSE "rel_ref")
               /\ UNCHANGED engineVars
      <3>1. MetaOK'
        BY <1>a, <1>b, <2>2, UnstageType
      <3>2. req[p].rel # None => ShapeOf("rel_ref", req[p]) /\ "rel_ref" \in Calls
        BY <1>0 DEF ShapeOf, IsPut, Requests, PutCalls, RollbackCalls, GetCalls, DeleteCalls,
                    BucketCalls, RecoverCalls, PendingCalls, PreparedCalls
      <3>3. ControlOK'
        BY <1>b, <2>2, <3>2, GotoOK
      <3> QED
        BY <2>2, <3>1, <3>3, MetaStep
    <2> QED
      BY <1>11, <2>1, <2>2 DEF PutUnstage
  <1>12. CASE FailUnstage(p)
    <2>1. MetaOK'
      BY <1>12, <1>a, <1>b, UnstageType, UnchangedMeta DEF FailUnstage, FailCommand
    <2> QED
      BY <1>12, <1>b, <2>1, CommandFail, GotoOK, MetaStep DEF FailUnstage, FailCommand
  <1>13. CASE FailDropBlob(p)
    BY <1>13, <1>b, QuietFail, SetShardsType, GotoOK, EngineStep DEF FailDropBlob, DeleteBlob
  <1> QED
    BY <1>1, <1>2, <1>3, <1>5, <1>6, <1>7, <1>8, <1>9, <1>10, <1>11, <1>12, <1>13 DEF PutStep

\* Every step of rollbackPut keeps the type invariant.
LEMMA RollbackStepType ==
  ASSUME TypeInv, NEW p \in Procs, RollbackStep(p)
  PROVE  TypeInv'
  <1> USE CallsFacts
  <1> DEFINE o == req[p].obj
             h == req[p].hash
  <1>0. IsPut(req[p])
    <2>1. pc[p] \in RollbackCalls
      BY DEF RollbackStep, RollbackLayout, RollbackUnstage, RollbackRestore, RollbackRef,
             RollbackRefBlob, RollbackBlob, RollbackCalls
    <2> QED
      BY <2>1, PutLocals
  <1>a. /\ req[p] \in Requests /\ o \in Objects /\ h \in Hashes
        /\ req[p].ex \in Hashes \cup {None} /\ req[p].exDir \in Dirs \cup {None}
    BY <1>0 DEF IsPut, Requests
  <1>b. /\ MetaOK /\ EngineType /\ ControlOK
        /\ refPath[h] \in Dirs \cup {None}
    BY <1>a DEF TypeInv, MetaOK, MetaType
  <1>c. ASSUME NEW l \in {"idle"} \cup RollbackCalls
        PROVE  l \in Calls /\ (l # "idle" => ShapeOf(l, req[p]))
    BY <1>0, PutShape DEF PutCalls, RollbackCalls, PreparedCalls
  <1>d. /\ "rb_unstage" \in RollbackCalls /\ "rb_restore" \in RollbackCalls
        /\ "rb_ref" \in RollbackCalls /\ "rb_refblob" \in RollbackCalls /\ "rb_blob" \in RollbackCalls
    BY DEF RollbackCalls
  <1>1. CASE RollbackLayout(p)
    <2>1. EngineType'
      BY <1>1, <1>a, <1>b, UnlinkType, UnchangedEngine DEF RollbackLayout
    <2>2. ControlOK'
      BY <1>1, <1>b, <1>c, <1>d, GotoOK, FailOK DEF RollbackLayout
    <2> QED
      BY <1>1, <2>1, <2>2, EngineStep DEF RollbackLayout
  <1>2. CASE RollbackUnstage(p)
    <2>1. MetaOK'
      BY <1>2, <1>a, <1>b, UnstageType, UnchangedMeta DEF RollbackUnstage, FailCommand
    <2> QED
      BY <1>2, <1>b, <1>c, <1>d, <2>1, CommandFail, GotoOK, MetaStep DEF RollbackUnstage, FailCommand
  <1>3. CASE RollbackRestore(p)
    <2>1. EngineType'
      BY <1>3, <1>a, <1>b, LinkType, UnchangedEngine DEF RollbackRestore
    <2>2. ControlOK'
      BY <1>3, <1>b, <1>c, <1>d, GotoOK, FailOK DEF RollbackRestore
    <2> QED
      BY <1>3, <2>1, <2>2, EngineStep DEF RollbackRestore
  <1>4. CASE RollbackRef(p)
    <2> DEFINE r == [req[p] EXCEPT !.relDir = refPath[h]]
    <2>1. IsPut(r)
      BY <1>0, <1>b, PutUpdates
    <2>2. ShapeOf("rb_refblob", r) /\ r \in Requests
      BY <1>d, <2>1, PutShape DEF IsPut, PutCalls, PreparedCalls
    <2>3. ControlOK'
      BY <1>4, <1>b, <1>c, <1>d, <2>2, EnterOK, GotoOK, FailOK DEF RollbackRef, FailCommand
    <2>4. MetaOK'
      BY <1>4, <1>a, <1>b, DecreaseRefType, UnchangedMeta DEF RollbackRef, FailCommand
    <2> QED
      BY <1>4, <2>3, <2>4, MetaStep DEF RollbackRef
  <1>5. CASE RollbackRefBlob(p)
    BY <1>5, <1>b, <1>c, <1>d, SetShardsType, GotoOK, EngineStep, QuietFail
    DEF RollbackRefBlob, DeleteBlob
  <1>6. CASE RollbackBlob(p)
    <2>1. EngineType'
      BY <1>6, <1>b, SetShardsType, UnchangedEngine DEF RollbackBlob, DeleteBlob
    <2>2. ControlOK'
      BY <1>6, <1>b, <1>c, GotoOK, FailOK DEF RollbackBlob
    <2> QED
      BY <1>6, <2>1, <2>2, EngineStep DEF RollbackBlob
  <1> QED
    BY <1>1, <1>2, <1>3, <1>4, <1>5, <1>6 DEF RollbackStep

(***************************************************************************)
(* Releases, DeleteObject, DeleteBucket and GetObject                       *)
(***************************************************************************)
LEMMA DeleteStepType ==
  ASSUME TypeInv, NEW p \in Procs, DeleteStep(p)
  PROVE  TypeInv'
  <1> USE CallsFacts
  <1> DEFINE o == req[p].obj
             r0 == req[p]
  <1>a. /\ MetaOK /\ EngineType /\ ControlOK
        /\ req[p] \in Requests /\ ShapeOf(pc[p], req[p])
        /\ refPath \in [Hashes -> Dirs \cup {None}]
        /\ objects \in [Objects -> Hashes \cup {None}]
    BY DEF TypeInv, MetaOK, MetaType, ControlOK, ControlType
  <1>b. ShapeOf("idle", NoReq) /\ "idle" \in Calls
    BY IdleShape
  <1>c. /\ "bkt_next" \in Calls /\ "del_load" \in Calls /\ "del_meta" \in Calls /\ "del_layout" \in Calls
        /\ "rel_ref" \in Calls /\ "rel_blob" \in Calls /\ "rec_unstage" \in Calls
    BY DEF BucketCalls, DeleteCalls, RecoverCalls
  <1>1. CASE DeleteLoad(p)
    <2> DEFINE r == [req[p] EXCEPT !.rel = objects[o], !.layErr = FALSE]
    <2>1. o \in Objects /\ req[p].op \in {"delete", "bucket"}
      BY <1>1, <1>a DEF DeleteLoad, ShapeOf
    <2>2. r \in Requests
      BY <1>a, <2>1 DEF Requests
    <2>3. objects[o] # None => ShapeOf("del_meta", r)
      BY <1>a, <2>1 DEF ShapeOf, Requests, PutCalls, RollbackCalls, GetCalls, BucketCalls, RecoverCalls, PendingCalls, PreparedCalls
    <2>4. req[p].op = "bucket" => ShapeOf("bkt_next", req[p])
      BY <1>a, <2>1 DEF ShapeOf, PutCalls, RollbackCalls, GetCalls, BucketCalls, RecoverCalls, PendingCalls, PreparedCalls
    <2> QED
      BY <1>1, <1>c, <2>2, <2>3, <2>4, QuietEnter, QuietGoto, QuietFail DEF DeleteLoad
  <1>2. CASE DeleteMeta(p)
    <2>1. o \in Objects /\ ShapeOf("del_layout", req[p])
      BY <1>2, <1>a DEF DeleteMeta, ShapeOf, PutCalls, RollbackCalls, GetCalls, BucketCalls, RecoverCalls, PendingCalls, PreparedCalls
    <2> QED
      <3>1. MetaOK'
        BY <1>2, <1>a, <2>1, DeleteMetaType, UnchangedMeta DEF DeleteMeta, FailCommand
      <3> QED
        BY <1>2, <1>a, <1>c, <2>1, <3>1, CommandFail, GotoOK, MetaStep DEF DeleteMeta, FailCommand
  <1>3. CASE DeleteLayout(p)
    <2>1. o \in Objects /\ ShapeOf("rel_ref", req[p])
      BY <1>3, <1>a DEF DeleteLayout, ShapeOf, PutCalls, RollbackCalls, GetCalls, BucketCalls, RecoverCalls, PendingCalls, PreparedCalls
    <2>2. EngineType'
      BY <1>3, <1>a, <2>1, UnlinkType, UnchangedEngine DEF DeleteLayout
    <2>3. CASE Goto(p, "rel_ref")
      BY <1>3, <1>a, <1>c, <2>1, <2>2, <2>3, GotoOK, EngineStep DEF DeleteLayout
    <2>4. CASE ~Goto(p, "rel_ref")
      <3> DEFINE r == [req[p] EXCEPT !.layErr = TRUE]
      <3>1. /\ faults' = faults + 1
            /\ pc' = [pc EXCEPT ![p] = "rel_ref"]
            /\ req' = [req EXCEPT ![p] = r]
            /\ UNCHANGED <<crashes, elapses>>
        BY <1>3, <2>4 DEF DeleteLayout
      <3>2. r \in Requests
        BY <1>a DEF Requests
      <3>3. ShapeOf("rel_ref", r)
        BY <1>a, <2>1 DEF ShapeOf, Requests, PutCalls, RollbackCalls, GetCalls, BucketCalls, RecoverCalls, PendingCalls, PreparedCalls
      <3> HIDE DEF r
      <3>4. ControlOK'
        BY <1>a, <1>c, <3>1, <3>2, <3>3 DEF ControlOK, ControlType
      <3> QED
        BY <1>3, <2>2, <3>4, EngineStep DEF DeleteLayout
    <2> QED
      BY <2>3, <2>4
  <1>4. ASSUME pc[p] \in {"rel_ref", "rel_blob"}
        PROVE  /\ req[p].rel \in Hashes
               /\ ShapeOf("rel_blob", req[p])
               /\ AfterRelease(p) \in Calls
               /\ AfterRelease(p) # "idle" => ShapeOf(AfterRelease(p), req[p])
    BY <1>4, <1>a, <1>c DEF AfterRelease, ShapeOf, PutCalls, RollbackCalls, GetCalls, BucketCalls,
                      RecoverCalls, PendingCalls, PreparedCalls
  <1>5. CASE ReleaseRef(p)
    <2> DEFINE r == [req[p] EXCEPT !.relDir = refPath[req[p].rel]]
    <2>0. pc[p] = "rel_ref"
      BY <1>5 DEF ReleaseRef
    <2>1. r \in Requests
      BY <1>4, <1>a, <2>0 DEF Requests
    <2>2. ShapeOf("rel_blob", r)
      BY <1>4, <1>a, <2>0 DEF ShapeOf, Requests, PutCalls, RollbackCalls, GetCalls, BucketCalls,
                              RecoverCalls, PendingCalls, PreparedCalls
    <2>3. CASE DecreaseBlobRef(req[p].rel) /\ UNCHANGED engineVars /\ Enter(p, "rel_blob", r)
      BY <1>4, <1>a, <1>c, <2>0, <2>1, <2>2, <2>3, DecreaseRefType, EnterOK, MetaStep
    <2>4. CASE DecreaseBlobRef(req[p].rel) /\ UNCHANGED engineVars /\ Goto(p, AfterRelease(p))
      BY <1>4, <1>a, <2>0, <2>4, DecreaseRefType, GotoOK, MetaStep
    <2>5. CASE FailCommand(p, "idle", DecreaseBlobRef(req[p].rel))
      <3>1. MetaOK'
        BY <1>4, <1>a, <2>0, <2>5, DecreaseRefType, UnchangedMeta DEF FailCommand
      <3> QED
        BY <2>5, <3>1, CommandFail DEF FailCommand
    <2> QED
      BY <1>5, <2>3, <2>4, <2>5 DEF ReleaseRef
  <1>6. CASE ReleaseBlob(p)
    <2>0. pc[p] = "rel_blob"
      BY <1>6 DEF ReleaseBlob
    <2> QED
      BY <1>4, <1>6, <1>a, <2>0, SetShardsType, GotoOK, EngineStep, QuietFail DEF ReleaseBlob, DeleteBlob
  <1>7. CASE BucketList(p)
    <2> DEFINE r == [req[p] EXCEPT !.todo = {q \in Objects : BucketOf[q] = req[p].bkt /\ objects[q] # None}]
    <2>1. r \in Requests /\ req[p].op = "bucket"
      BY <1>7, <1>a DEF BucketList, ShapeOf, BucketCalls, Requests
    <2>2. ShapeOf("bkt_next", r)
      BY <2>1, <1>a DEF ShapeOf, Requests, PutCalls, RollbackCalls, GetCalls, BucketCalls, RecoverCalls, PendingCalls, PreparedCalls
    <2> QED
      BY <1>7, <1>c, <2>1, <2>2, QuietEnter, QuietGoto, QuietFail DEF BucketList
  <1>8. CASE BucketNextObject(p)
    <2>1. PICK q \in req[p].todo : Enter(p, "del_load", [req[p] EXCEPT !.obj = q, !.todo = @ \ {q}])
      BY <1>8 DEF BucketNextObject
    <2> DEFINE r == [req[p] EXCEPT !.obj = q, !.todo = @ \ {q}]
    <2>a. q \in Objects /\ req[p].op = "bucket" /\ req[p].todo \ {q} \in SUBSET Objects
      BY <1>8, <1>a DEF BucketNextObject, Requests, ShapeOf, BucketCalls
    <2>b. r \in Requests
      BY <1>a, <2>a DEF Requests
    <2>2. r \in Requests /\ q \in Objects /\ req[p].op = "bucket"
      BY <2>a, <2>b
    <2>3. ShapeOf("del_load", r)
      BY <2>2, <1>a DEF ShapeOf, Requests, PutCalls, RollbackCalls, GetCalls, BucketCalls, RecoverCalls, PendingCalls, PreparedCalls
    <2> QED
      BY <1>8, <1>c, <2>1, <2>2, <2>3, QuietEnter DEF BucketNextObject
  <1>9. CASE BucketDrop(p)
    <2>1. MetaOK'
      BY <1>9, <1>a, DropBucketType, UnchangedMeta DEF BucketDrop, FailCommand
    <2>2. ControlOK'
      BY <1>9, <1>a, GotoOK, FailOK DEF BucketDrop, FailCommand
    <2> QED
      BY <1>9, <2>1, <2>2, MetaStep DEF BucketDrop
  <1> QED
    BY <1>1, <1>2, <1>3, <1>5, <1>6, <1>7, <1>8, <1>9 DEF DeleteStep

\* Every step of GetObject keeps the type invariant.
LEMMA GetStepType ==
  ASSUME TypeInv, NEW p \in Procs, GetStep(p)
  PROVE  TypeInv'
  <1> USE CallsFacts
  <1> DEFINE o == req[p].obj
  <1>a. /\ MetaOK /\ EngineType /\ ControlOK
        /\ req[p] \in Requests
        /\ objects \in [Objects -> Hashes \cup {None}]
    BY DEF TypeInv, MetaOK, MetaType, ControlOK, ControlType
  <1>b. o \in Objects /\ req[p].op = "get"
    BY DEF GetStep, GetMeta, GetData, GetCacheLayout, TypeInv, ControlOK, ShapeOf, GetCalls
  <1>c. ASSUME NEW r \in Requests, r.op = "get", r.obj \in Objects, NEW l \in GetCalls
        PROVE  ShapeOf(l, r)
    BY <1>c DEF ShapeOf, PutCalls, RollbackCalls, GetCalls, BucketCalls, RecoverCalls, PendingCalls, PreparedCalls
  <1>1. CASE GetMeta(p)
    <2> DEFINE r == [req[p] EXCEPT !.hash = objects[o]]
    <2>1. r \in Requests /\ r.op = "get" /\ r.obj \in Objects
      BY <1>a, <1>b DEF Requests
    <2> HIDE DEF r
    <2>2. ShapeOf("get_data", r) /\ "get_data" \in Calls
      BY <1>c, <2>1 DEF GetCalls
    <2>3. CASE FailClean(p, "idle")
      BY <2>3, QuietFail
    <2>4. CASE Enter(p, IF objects[o] = None THEN "idle" ELSE "get_data", r) /\ UNCHANGED <<metaVars, engineVars>>
      BY <2>1, <2>2, <2>4, QuietEnter
    <2> QED
      BY <1>1, <2>3, <2>4 DEF GetMeta, r
  <1>2. CASE GetData(p)
    <2> DEFINE l == GetLayout(o)
               r == [req[p] EXCEPT !.dir = l.dir, !.hash = l.hash]
    <2>0. l.dir \in Dirs \cup {None} /\ l.hash \in Hashes \cup {None}
      BY <1>a, <1>b, GetLayoutType DEF Layouts
    <2> HIDE DEF l
    <2>1. r \in Requests /\ r.op = "get" /\ r.obj \in Objects
      BY <1>a, <1>b, <2>0 DEF Requests
    <2> HIDE DEF r
    <2>2. ShapeOf("get_cache", r) /\ "get_cache" \in Calls
      BY <1>c, <2>1 DEF GetCalls
    <2> QED
      BY <1>2, <2>1, <2>2, QuietEnter, QuietGoto, QuietFail DEF GetData, r, l
  <1>3. CASE GetCacheLayout(p)
    <2>1. [dir |-> req[p].dir, hash |-> req[p].hash] \in Layouts
      BY <1>a DEF Requests, Layouts
    <2>2. EngineType'
      BY <1>3, <1>a, <2>1 DEF GetCacheLayout, EngineType
    <2> QED
      BY <1>3, <1>a, <2>2, GotoOK, EngineStep DEF GetCacheLayout
  <1> QED
    BY <1>1, <1>2, <1>3 DEF GetStep

(***************************************************************************)
(* Recover                                                                  *)
(***************************************************************************)
IsRecovery(r) ==
    /\ r \in Requests /\ r.op \in {"recover", "boot"}
    /\ \A o \in r.todo : r.snap[o].hash \in Hashes

\* The calls that need no more than a recovery's own locals.
LEMMA RecoverShape ==
  ASSUME NEW r, IsRecovery(r),
         NEW l \in RecoverCalls, l \in PendingCalls => r.obj \in Objects /\ r.hash \in Hashes,
         l \in {"rec_ref", "rec_link"} => r.ex \in Hashes
  PROVE  ShapeOf(l, r)
  BY DEF ShapeOf, IsRecovery, PutCalls, RollbackCalls, GetCalls, BucketCalls, RecoverCalls, PendingCalls, PreparedCalls

\* Every step of a recovery keeps the type invariant.
LEMMA RecoverStepType ==
  ASSUME TypeInv, NEW p \in Procs, RecoverStep(p)
  PROVE  TypeInv'
  <1> USE CallsFacts
  <1> DEFINE o == req[p].obj
  <1>a. /\ MetaOK /\ EngineType /\ ControlOK
        /\ req[p] \in Requests /\ ShapeOf(pc[p], req[p])
        /\ refPath \in [Hashes -> Dirs \cup {None}]
        /\ objects \in [Objects -> Hashes \cup {None}]
        /\ staged \in [Objects -> Intents]
        /\ refCount \in [Hashes -> Nat]
    BY DEF TypeInv, MetaOK, MetaType, ControlOK, ControlType
  <1>b. IsRecovery(req[p])
    <2>1. pc[p] \in RecoverCalls
      BY DEF RecoverStep, RecoverListStaged, RecoverNextPending, RecoverPendingDone, RecoverLayout,
             RecoverCommittedRef, RecoverLink, RecoverUnlink, RecoverCheckRelease, RecoverUnstage,
             RecoverListRefs, RecoverListPending, RecoverListLocal, RecoverSweep, RecoverDone, RecoverCalls
    <2> QED
      BY <1>a, <2>1 DEF IsRecovery, ShapeOf
  <1>c. pc[p] \in PendingCalls => o \in Objects /\ req[p].hash \in Hashes
    BY <1>a DEF ShapeOf
  <1>d. pc[p] \in {"rec_ref", "rec_link"} => req[p].ex \in Hashes
    BY <1>a DEF ShapeOf
  <1>e. pc[p] \in {"rec_link", "rec_unlink"} =>
          /\ AfterLayoutRollback(p) \in Calls
          /\ AfterLayoutRollback(p) # "idle" => ShapeOf(AfterLayoutRollback(p), req[p])
    BY <1>b, <1>c, RecoverShape DEF AfterLayoutRollback, RecoverCalls, PendingCalls
  <1>1. CASE RecoverListStaged(p)
    <2> DEFINE r == [req[p] EXCEPT !.snap = staged, !.todo = {q \in Objects : staged[q].old}]
    <2>a. {q \in Objects : staged[q].old} \in SUBSET Objects
      OBVIOUS
    <2>b. r \in Requests
      BY <1>a, <2>a DEF Requests
    <2>1. r \in Requests /\ r.op = req[p].op
      BY <1>a, <2>b DEF Requests
    <2>2. \A q \in r.todo : r.snap[q].hash \in Hashes
      BY <1>a DEF Requests, MetaOK, StagedOK, NoIntent
    <2> HIDE DEF r
    <2>3. ShapeOf("rec_next", r)
      BY <1>b, <2>1, <2>2, RecoverShape DEF IsRecovery, RecoverCalls, PendingCalls
    <2> QED
      BY <1>1, <2>1, <2>3, QuietEnter, QuietFail DEF RecoverListStaged, RecoverCalls, r
  <1>2. CASE RecoverNextPending(p)
    <2>1. PICK q \in req[p].todo :
            Enter(p, IF req[p].snap[q].stage \in {"layout_linked", "blob_retained"}
                     THEN "rec_layout" ELSE "rec_unstage",
                  [req[p] EXCEPT !.obj = q, !.hash = req[p].snap[q].hash])
      BY <1>2 DEF RecoverNextPending
    <2> DEFINE r == [req[p] EXCEPT !.obj = q, !.hash = req[p].snap[q].hash]
    <2>2. q \in Objects /\ req[p].snap[q].hash \in Hashes
      BY <1>a, <1>b DEF Requests, IsRecovery
    <2>3. r \in Requests /\ r.obj = q /\ r.hash \in Hashes /\ r.op = req[p].op
          /\ r.todo = req[p].todo /\ r.snap = req[p].snap
      BY <1>a, <2>2 DEF Requests
    <2> HIDE DEF r
    <2>4. IsRecovery(r)
      BY <1>b, <2>3 DEF IsRecovery
    <2>5. ShapeOf("rec_layout", r) /\ ShapeOf("rec_unstage", r)
      BY <2>2, <2>3, <2>4, RecoverShape DEF RecoverCalls, PendingCalls
    <2>6. "rec_layout" \in Calls /\ "rec_unstage" \in Calls
      BY DEF RecoverCalls
    <2> QED
      BY <1>2, <2>1, <2>3, <2>5, <2>6, QuietEnter DEF RecoverNextPending, r
  <1>3. CASE RecoverPendingDone(p)
    <2>1. ShapeOf("rec_refs", req[p])
      BY <1>b, RecoverShape DEF RecoverCalls, PendingCalls
    <2> QED
      BY <1>3, <2>1, QuietGoto DEF RecoverPendingDone, RecoverCalls
  <1>4. CASE RecoverLayout(p)
    <2> DEFINE r == [req[p] EXCEPT !.ex = objects[o]]
    <2>0. o \in Objects /\ req[p].hash \in Hashes
      BY <1>4, <1>c DEF RecoverLayout, PendingCalls
    <2>1. r \in Requests /\ r.obj = o /\ r.hash = req[p].hash /\ r.ex = objects[o] /\ r.op = req[p].op
          /\ r.todo = req[p].todo /\ r.snap = req[p].snap
      BY <1>a, <2>0 DEF Requests
    <2> HIDE DEF r
    <2>2. IsRecovery(r)
      BY <1>b, <2>1 DEF IsRecovery
    <2>3. ShapeOf("rec_unlink", r) /\ (objects[o] # None => ShapeOf("rec_ref", r))
      BY <1>a, <2>0, <2>1, <2>2, RecoverShape DEF RecoverCalls, PendingCalls
    <2>4. "rec_unlink" \in Calls /\ "rec_ref" \in Calls
      BY DEF RecoverCalls
    <2>5. CASE FailClean(p, "idle")
      BY <2>5, QuietFail
    <2>6. CASE Enter(p, IF objects[o] = None THEN "rec_unlink" ELSE "rec_ref", r)
               /\ UNCHANGED <<metaVars, engineVars>>
      BY <2>1, <2>3, <2>4, <2>6, QuietEnter
    <2> QED
      BY <1>4, <2>5, <2>6 DEF RecoverLayout, r
  <1>5. CASE RecoverCommittedRef(p)
    <2> DEFINE r == [req[p] EXCEPT !.exDir = refPath[req[p].ex]]
    <2>0. o \in Objects /\ req[p].hash \in Hashes /\ req[p].ex \in Hashes
      BY <1>5, <1>c, <1>d DEF RecoverCommittedRef, PendingCalls
    <2>1. r \in Requests /\ r.obj = o /\ r.hash = req[p].hash /\ r.ex = req[p].ex /\ r.op = req[p].op
          /\ r.todo = req[p].todo /\ r.snap = req[p].snap
      BY <1>a, <2>0 DEF Requests
    <2> HIDE DEF r
    <2>2. IsRecovery(r)
      BY <1>b, <2>1 DEF IsRecovery
    <2>3. ShapeOf("rec_link", r) /\ "rec_link" \in Calls
      BY <2>0, <2>1, <2>2, RecoverShape DEF RecoverCalls, PendingCalls
    <2> QED
      BY <1>5, <2>1, <2>3, QuietEnter, QuietGoto, QuietFail DEF RecoverCommittedRef, r
  <1>6. CASE RecoverLink(p)
    <2>0. o \in Objects /\ req[p].ex \in Hashes \cup {None} /\ req[p].exDir \in Dirs \cup {None}
      BY <1>6, <1>a, <1>c DEF RecoverLink, PendingCalls, Requests
    <2> QED
      BY <1>6, <1>a, <1>e, <2>0, LinkType, GotoOK, EngineStep, QuietFail DEF RecoverLink
  <1>7. CASE RecoverUnlink(p)
    <2>0. o \in Objects
      BY <1>7, <1>c DEF RecoverUnlink, PendingCalls
    <2>1. EngineType'
      BY <1>7, <1>a, <2>0, UnlinkType, UnchangedEngine DEF RecoverUnlink
    <2>2. ControlOK'
      BY <1>7, <1>a, <1>e, GotoOK, FailOK DEF RecoverUnlink
    <2> QED
      BY <1>7, <2>1, <2>2, EngineStep DEF RecoverUnlink
  <1>8. CASE RecoverCheckRelease(p)
    <2> DEFINE r == [req[p] EXCEPT !.rel = req[p].hash]
    <2>0. o \in Objects /\ req[p].hash \in Hashes
      BY <1>8, <1>c DEF RecoverCheckRelease, PendingCalls
    <2>1. r \in Requests /\ r.obj = o /\ r.hash = req[p].hash /\ r.rel = req[p].hash /\ r.op = req[p].op
          /\ r.todo = req[p].todo /\ r.snap = req[p].snap
      BY <1>a, <2>0 DEF Requests
    <2> HIDE DEF r
    <2>2. ShapeOf("rel_ref", r) /\ "rel_ref" \in Calls
      BY <1>b, <2>0, <2>1 DEF ShapeOf, IsRecovery, PutCalls, RollbackCalls, GetCalls, DeleteCalls,
                              BucketCalls, RecoverCalls, PendingCalls, PreparedCalls
    <2>3. ShapeOf("rec_unstage", req[p]) /\ "rec_unstage" \in Calls
      BY <1>b, <2>0, RecoverShape DEF RecoverCalls, PendingCalls
    <2> QED
      BY <1>8, <2>1, <2>2, <2>3, QuietEnter, QuietGoto, QuietFail DEF RecoverCheckRelease, r
  <1>9. CASE RecoverUnstage(p)
    <2> DEFINE r == [req[p] EXCEPT !.todo = @ \ {o}]
    <2>0. o \in Objects
      BY <1>9, <1>c DEF RecoverUnstage, PendingCalls
    <2>a. req[p].todo \ {o} \in SUBSET Objects
      BY <1>a DEF Requests
    <2>1. r \in Requests /\ r.todo = req[p].todo \ {o} /\ r.snap = req[p].snap /\ r.op = req[p].op
      BY <1>a, <2>a DEF Requests
    <2> HIDE DEF r
    <2>2. IsRecovery(r)
      BY <1>b, <2>1 DEF IsRecovery
    <2>3. ShapeOf("rec_next", r) /\ "rec_next" \in Calls
      BY <2>2, RecoverShape DEF RecoverCalls, PendingCalls
    <2>4. MetaOK'
      BY <1>9, <1>a, <2>0, UnstageType, UnchangedMeta DEF RecoverUnstage, FailCommand
    <2> QED
      BY <1>9, <1>a, <2>1, <2>3, <2>4, EnterOK, MetaStep, CommandFail DEF RecoverUnstage, FailCommand, r
  <1>f. ASSUME NEW r \in Requests, r.op = req[p].op, r.todo = req[p].todo, r.snap = req[p].snap,
               NEW l \in {"rec_staged", "rec_local", "rec_sweep"}
        PROVE  ShapeOf(l, r) /\ l \in Calls
    <2>1. IsRecovery(r)
      BY <1>b, <1>f DEF IsRecovery
    <2> QED
      BY <2>1, RecoverShape DEF RecoverCalls, PendingCalls
  <1>10. CASE RecoverListRefs(p)
    <2> DEFINE refs == {<<refPath[h], h>> : h \in {g \in Hashes : refCount[g] > 0}}
               r == [req[p] EXCEPT !.live = refs]
    <2>1. refs \in SUBSET ShardSets
      BY <1>a DEF MetaOK, RefsOK, ShardSets
    <2> HIDE DEF refs
    <2>2. r \in Requests /\ r.op = req[p].op /\ r.todo = req[p].todo /\ r.snap = req[p].snap
      BY <1>a, <2>1 DEF Requests
    <2> HIDE DEF r
    <2> QED
      BY <1>10, <1>f, <2>2, QuietEnter, QuietFail DEF RecoverListRefs, r, refs
  <1>11. CASE RecoverListPending(p)
    <2> DEFINE r == [req[p] EXCEPT !.live = @ \cup PendingShardSets]
    <2>1. PendingShardSets \in SUBSET ShardSets
      BY <1>a, ObjectsAssumption DEF PendingShardSets, MetaOK, StagedOK, ShardSets
    <2>2. req[p].live \cup PendingShardSets \in SUBSET ShardSets
      BY <1>a, <2>1 DEF Requests
    <2>3. r \in Requests /\ r.op = req[p].op /\ r.todo = req[p].todo /\ r.snap = req[p].snap
      BY <1>a, <2>2 DEF Requests
    <2> HIDE DEF r
    <2> QED
      BY <1>11, <1>f, <2>3, QuietEnter, QuietFail DEF RecoverListPending, r
  <1>12. CASE RecoverListLocal(p)
    <2> DEFINE local == {s \in ShardSets : shards[s[1]][s[2]] # "none"}
               orphans == local \ req[p].live
               r == [req[p] EXCEPT !.sets = orphans, !.live = {}]
    <2>1. orphans \in SUBSET ShardSets /\ {} \in SUBSET ShardSets
      OBVIOUS
    <2> HIDE DEF local, orphans
    <2>a. r \in Requests
      BY <1>a, <2>1 DEF Requests
    <2>2. r \in Requests /\ r.op = req[p].op /\ r.todo = req[p].todo /\ r.snap = req[p].snap
      BY <1>a, <2>a DEF Requests
    <2> HIDE DEF r
    <2> QED
      BY <1>12, <1>f, <2>2, QuietEnter, QuietFail DEF RecoverListLocal, r, local, orphans
  <1>13. CASE RecoverSweep(p)
    <2>1. ASSUME NEW s \in req[p].sets, DeleteBlob(s[1], s[2]), UNCHANGED metaVars,
                 Enter(p, "rec_sweep", [req[p] EXCEPT !.sets = @ \ {s}])
          PROVE  TypeInv'
      <3> DEFINE r == [req[p] EXCEPT !.sets = @ \ {s}]
      <3>1. req[p].sets \ {s} \in SUBSET ShardSets
        BY <1>a DEF Requests
      <3>2. r \in Requests /\ r.op = req[p].op /\ r.todo = req[p].todo /\ r.snap = req[p].snap
        BY <1>a, <3>1 DEF Requests
      <3> HIDE DEF r
      <3>3. ControlOK'
        BY <1>a, <1>f, <2>1, <3>2, EnterOK DEF r
      <3>4. EngineType'
        BY <1>a, <2>1, SetShardsType DEF DeleteBlob
      <3> QED
        BY <2>1, <3>3, <3>4, EngineStep
    <2>2. CASE FailClean(p, "idle")
      BY <2>2, QuietFail
    <2> QED
      BY <1>13, <2>1, <2>2 DEF RecoverSweep
  <1>14. CASE RecoverDone(p)
    BY <1>14, QuietGoto DEF RecoverDone
  <1> QED
    BY <1>1, <1>2, <1>3, <1>4, <1>5, <1>6, <1>7, <1>8, <1>9, <1>10, <1>11, <1>12, <1>13, <1>14
    DEF RecoverStep

(***************************************************************************)
(* Requests begin, and the environment                                      *)
(***************************************************************************)
LEMMA StartType ==
  ASSUME TypeInv, NEW p \in Procs, StartRequest(p)
  PROVE  TypeInv'
  <1> USE CallsFacts
  <1>a. NoReq \in Requests /\ NoReq.todo = {}
    BY NoReqType DEF NoReq
  <1>1. CASE PutObject(p)
    <2>1. PICK o \in Objects, h \in Hashes :
            Begin(p, "put_bucket", [NoReq EXCEPT !.op = "put", !.obj = o, !.hash = h])
      BY <1>1 DEF PutObject
    <2> DEFINE r == [NoReq EXCEPT !.op = "put", !.obj = o, !.hash = h]
    <2>2. IsPut(r)
      BY <1>a DEF IsPut, Requests
    <2> HIDE DEF r
    <2>3. ShapeOf("put_bucket", r) /\ r \in Requests /\ "put_bucket" \in Calls
      BY <2>2, PutShape DEF IsPut, PutCalls, PreparedCalls
    <2> QED
      BY <2>1, <2>3, QuietEnter DEF Begin, r
  <1>2. CASE DeleteObject(p)
    <2>1. PICK o \in Objects : Begin(p, "del_load", [NoReq EXCEPT !.op = "delete", !.obj = o])
      BY <1>2 DEF DeleteObject
    <2> DEFINE r == [NoReq EXCEPT !.op = "delete", !.obj = o]
    <2>a. r \in Requests
      BY <1>a DEF Requests
    <2>2. r \in Requests /\ r.op = "delete" /\ r.obj \in Objects
      BY <1>a, <2>a DEF NoReq
    <2> HIDE DEF r
    <2>3. ShapeOf("del_load", r) /\ "del_load" \in Calls
      BY <2>2 DEF ShapeOf, DeleteCalls, PutCalls, RollbackCalls, GetCalls, BucketCalls, RecoverCalls,
                  PendingCalls, PreparedCalls
    <2> QED
      BY <2>1, <2>2, <2>3, QuietEnter DEF Begin, r
  <1>3. CASE GetObject(p)
    <2>1. PICK o \in Objects : Begin(p, "get_meta", [NoReq EXCEPT !.op = "get", !.obj = o])
      BY <1>3 DEF GetObject
    <2> DEFINE r == [NoReq EXCEPT !.op = "get", !.obj = o]
    <2>a. r \in Requests
      BY <1>a DEF Requests
    <2>2. r \in Requests /\ r.op = "get" /\ r.obj \in Objects
      BY <1>a, <2>a DEF NoReq
    <2> HIDE DEF r
    <2>3. ShapeOf("get_meta", r) /\ "get_meta" \in Calls
      BY <2>2 DEF ShapeOf, PutCalls, RollbackCalls, GetCalls, BucketCalls, RecoverCalls,
                  PendingCalls, PreparedCalls
    <2> QED
      BY <2>1, <2>2, <2>3, QuietEnter DEF Begin, r
  <1>4. CASE DeleteBucket(p)
    <2>1. PICK b \in Buckets : Begin(p, "bkt_list", [NoReq EXCEPT !.op = "bucket", !.bkt = b])
      BY <1>4 DEF DeleteBucket
    <2> DEFINE r == [NoReq EXCEPT !.op = "bucket", !.bkt = b]
    <2>a. r \in Requests
      BY <1>a DEF Requests
    <2>2. r \in Requests /\ r.op = "bucket"
      BY <1>a, <2>a DEF NoReq
    <2> HIDE DEF r
    <2>3. ShapeOf("bkt_list", r) /\ "bkt_list" \in Calls
      BY <2>2 DEF ShapeOf, PutCalls, RollbackCalls, GetCalls, BucketCalls, RecoverCalls,
                  PendingCalls, PreparedCalls
    <2> QED
      BY <2>1, <2>2, <2>3, QuietEnter DEF Begin, r
  <1>5. CASE Recover(p)
    <2> DEFINE r == [NoReq EXCEPT !.op = "recover"]
    <2>1. r \in Requests /\ r.op = "recover" /\ r.todo = {}
      BY <1>a DEF Requests
    <2> HIDE DEF r
    <2>2. ShapeOf("rec_list", r) /\ "rec_list" \in Calls
      BY <2>1, RecoverShape DEF IsRecovery, RecoverCalls, PendingCalls
    <2> QED
      BY <1>5, <2>1, <2>2, QuietEnter DEF Recover, Begin, r
  <1> QED
    BY <1>1, <1>2, <1>3, <1>4, <1>5 DEF StartRequest

\* A restart keeps the type invariant.
LEMMA RestartType ==
  ASSUME TypeInv, Restart
  PROVE  TypeInv'
  <1> DEFINE r == [NoReq EXCEPT !.op = "boot"]
  <1>1. r \in Requests /\ r.op = "boot" /\ r.todo = {}
    BY NoReqType DEF Requests, NoReq
  <1> HIDE DEF r
  <1>2. ShapeOf("rec_list", r) /\ "rec_list" \in Calls /\ "idle" \in Calls
    BY <1>1, RecoverShape, CallsFacts DEF IsRecovery, RecoverCalls, PendingCalls
  <1>3. PICK p \in Procs :
          /\ pc' = [q \in Procs |-> IF q = p THEN "rec_list" ELSE "idle"]
          /\ req' = [q \in Procs |-> IF q = p THEN r ELSE NoReq]
    BY DEF Restart, r
  <1>4. ControlOK'
    BY <1>1, <1>2, <1>3, IdleShape, NoReqType DEF Restart, TypeInv, ControlOK, ControlType
  <1>5. EngineType'
    BY DEF Restart, TypeInv, EngineType, NoLayout, Layouts
  <1> QED
    BY <1>4, <1>5, EngineStep DEF Restart

\* The passing of the pending TTL keeps the type invariant.
LEMMA ElapseType ==
  ASSUME TypeInv, Elapse
  PROVE  TypeInv'
  <1>1. ASSUME NEW o \in Objects, staged'[o] # staged[o]
        PROVE  /\ staged[o] # NoIntent
               /\ staged'[o] = [staged[o] EXCEPT !.old = TRUE]
    BY <1>1 DEF Elapse, TypeInv, MetaOK, MetaType
  <1>2. ASSUME NEW o \in Objects
        PROVE  staged'[o] \in Intents /\ (staged'[o] # NoIntent => staged'[o].hash \in Hashes)
    <2>1. staged[o] \in Intents /\ (staged[o] # NoIntent => staged[o].hash \in Hashes)
      BY DEF TypeInv, MetaOK, MetaType, StagedOK
    <2>2. CASE staged'[o] = staged[o]
      BY <2>1, <2>2
    <2>3. CASE staged'[o] # staged[o]
      BY <1>1, <2>1, <2>3 DEF Intents
    <2> QED
      BY <2>2, <2>3
  <1>3. staged' \in [Objects -> Intents] /\ StagedOK'
    BY <1>2 DEF Elapse, StagedOK
  <1>4. MetaOK'
    BY <1>3 DEF Elapse, TypeInv, MetaOK, MetaType, RefsOK
  <1>5. ControlOK'
    BY DEF Elapse, TypeInv, ControlOK, ControlType
  <1> QED
    BY <1>4, <1>5, MetaStep DEF Elapse

\* CreateBucket keeps the type invariant.
LEMMA CreateBucketType ==
  ASSUME TypeInv, CreateBucket
  PROVE  TypeInv'
  BY DEF CreateBucket, TypeInv, MetaOK, MetaType, StagedOK, RefsOK, EngineType, engineVars,
         ControlOK, ControlType

\* A step that changes nothing keeps the type invariant.
LEMMA StutterType ==
  ASSUME TypeInv, UNCHANGED vars
  PROVE  TypeInv'
  <1>1. ControlOK'
    BY DEF vars, TypeInv, ControlOK, ControlType
  <1> QED
    BY <1>1, UnchangedMeta, UnchangedEngine DEF TypeInv, vars

\* Every step of the specification keeps the invariant.
LEMMA NextType == TypeInv /\ [Next]_vars => TypeInv'
  BY PutStepType, RollbackStepType, DeleteStepType, GetStepType, RecoverStepType, StartType,
     RestartType, ElapseType, CreateBucketType, StutterType
  DEF Next, Work

\* The initial state satisfies the type invariant.
LEMMA InitTypeInv == Init => TypeInv
  <1> SUFFICES ASSUME Init PROVE TypeInv
    OBVIOUS
  <1>1. MetaType /\ EngineType /\ ControlType
    BY InitType, TypeParts
  <1>2. StagedOK /\ RefsOK
    BY DEF Init, StagedOK, RefsOK
  <1>3. \A p \in Procs : ShapeOf(pc[p], req[p])
    BY IdleShape DEF Init
  <1> QED
    BY <1>1, <1>2, <1>3 DEF TypeInv, MetaOK, ControlOK

\* The strengthened type invariant holds in every reachable state.
THEOREM TypeInvariant == Spec => []TypeInv
  BY InitTypeInv, NextType, PTL DEF Spec

\* Whatever requests, failures, restarts and expiries happen, metadata, engine
\* and request locals keep their types: no handler uses an object, a content or
\* a directory it has not set.
THEOREM TypeCorrectness == Spec => []TypeOK
  <1>1. TypeInv => TypeOK
    BY TypeParts DEF TypeInv, MetaOK, ControlOK
  <1> QED
    BY <1>1, TypeInvariant, PTL

(***************************************************************************)
(* Objects and buckets                                                      *)
(***************************************************************************)
\* The metadata is well typed and no object is outside the buckets.
Housed == MetaType /\ NoObjectOutsideBuckets

\* A step that changes no bucket, object or staged write.
LEMMA HousedUnchanged ==
  ASSUME Housed, UNCHANGED <<buckets, objects, staged>>
  PROVE  NoObjectOutsideBuckets'
  BY DEF Housed, NoObjectOutsideBuckets

\* A staged write has its bucket: stageObjectMeta looks at it.
LEMMA HousedStage ==
  ASSUME Housed, NEW o, NEW h, NEW s, StageObjectMeta(o, h, s)
  PROVE  NoObjectOutsideBuckets'
  BY DEF Housed, MetaType, NoObjectOutsideBuckets, StageObjectMeta

\* A commit has its bucket: upsertObjectMeta looks at it.
LEMMA HousedUpsert ==
  ASSUME Housed, NEW o, NEW h, UpsertObjectMeta(o, h)
  PROVE  NoObjectOutsideBuckets'
  BY DEF Housed, MetaType, NoObjectOutsideBuckets, UpsertObjectMeta

\* Removing a staged write asks for no bucket.
LEMMA HousedUnstage ==
  ASSUME Housed, NEW o, DeleteStagedObjectMeta(o)
  PROVE  NoObjectOutsideBuckets'
  BY DEF Housed, MetaType, NoObjectOutsideBuckets, DeleteStagedObjectMeta

\* Neither does deleting an object.
LEMMA HousedDelete ==
  ASSUME Housed, NEW o, DeleteObjectMeta(o)
  PROVE  NoObjectOutsideBuckets'
  BY DEF Housed, MetaType, NoObjectOutsideBuckets, DeleteObjectMeta

\* Blob refs have no bucket.
LEMMA HousedRefs ==
  ASSUME Housed, NEW h, NEW d, CreateBlobRef(h, d) \/ IncreaseBlobRef(h) \/ DecreaseBlobRef(h)
  PROVE  NoObjectOutsideBuckets'
  BY HousedUnchanged DEF CreateBlobRef, IncreaseBlobRef, DecreaseBlobRef

\* deleteBucket takes the bucket's objects and staged writes with it.
LEMMA HousedDrop ==
  ASSUME Housed, NEW b, DeleteBucketMeta(b)
  PROVE  NoObjectOutsideBuckets'
  BY DEF Housed, MetaType, NoObjectOutsideBuckets, DeleteBucketMeta

\* The calls of a put.
LEMMA HousedPut ==
  ASSUME Housed, NEW p \in Procs, PutStep(p)
  PROVE  NoObjectOutsideBuckets'
  <1>1. UNCHANGED metaVars => NoObjectOutsideBuckets'
    BY HousedUnchanged DEF metaVars
  <1>2. ASSUME NEW c, NEW s, NEW l, NEW e, AdvanceIntent(p, c, s, l, e)
        PROVE  NoObjectOutsideBuckets'
    BY <1>1, <1>2, HousedStage DEF AdvanceIntent, FailCommand
  <1>3. CASE PutStageMeta(p) \/ PutIntentPrepared(p) \/ PutIntentLinked(p) \/ PutIntentRetained(p)
    BY <1>2, <1>3 DEF PutStageMeta, PutIntentPrepared, PutIntentLinked, PutIntentRetained
  <1>4. CASE PutEnsureBucket(p) \/ PutLoadExisting(p) \/ PutLoadExistingRef(p)
             \/ PutPrepareBlob(p) \/ PutCreateBlob(p) \/ PutLinkLayout(p) \/ FailDropBlob(p)
    BY <1>1, <1>4 DEF PutEnsureBucket, PutLoadExisting, PutLoadExistingRef, PutPrepareBlob,
       PutCreateBlob, PutLinkLayout, FailDropBlob, FailClean
  <1>5. CASE PutRetainBlob(p)
    BY <1>1, <1>5, HousedRefs DEF PutRetainBlob, FailCommand
  <1>6. CASE PutCommit(p)
    BY <1>1, <1>6, HousedUpsert DEF PutCommit, FailCommand
  <1>7. CASE PutUnstage(p) \/ FailUnstage(p)
    BY <1>1, <1>7, HousedUnstage DEF PutUnstage, FailUnstage, FailCommand
  <1> QED
    BY <1>3, <1>4, <1>5, <1>6, <1>7 DEF PutStep

\* The calls of a rollback, a delete and a bucket deletion.
LEMMA HousedUndo ==
  ASSUME Housed, NEW p \in Procs, RollbackStep(p) \/ DeleteStep(p)
  PROVE  NoObjectOutsideBuckets'
  <1>1. UNCHANGED metaVars => NoObjectOutsideBuckets'
    BY HousedUnchanged DEF metaVars
  <1>2. CASE RollbackStep(p)
    <2>1. CASE RollbackLayout(p) \/ RollbackRestore(p) \/ RollbackRefBlob(p) \/ RollbackBlob(p)
      BY <1>1, <2>1 DEF RollbackLayout, RollbackRestore, RollbackRefBlob, RollbackBlob, FailClean
    <2>2. CASE RollbackUnstage(p)
      BY <1>1, <2>2, HousedUnstage DEF RollbackUnstage, FailCommand
    <2>3. CASE RollbackRef(p)
      BY <1>1, <2>3, HousedRefs DEF RollbackRef, FailCommand
    <2> QED
      BY <1>2, <2>1, <2>2, <2>3 DEF RollbackStep
  <1>3. CASE DeleteStep(p)
    <2>1. CASE DeleteLoad(p) \/ DeleteLayout(p) \/ ReleaseBlob(p) \/ BucketList(p)
               \/ BucketNextObject(p)
      BY <1>1, <2>1 DEF DeleteLoad, DeleteLayout, ReleaseBlob, BucketList, BucketNextObject,
         FailClean
    <2>2. CASE DeleteMeta(p)
      BY <1>1, <2>2, HousedDelete DEF DeleteMeta, FailCommand
    <2>3. CASE ReleaseRef(p)
      BY <1>1, <2>3, HousedRefs DEF ReleaseRef, FailCommand
    <2>4. CASE BucketDrop(p)
      BY <1>1, <2>4, HousedDrop DEF BucketDrop, FailCommand
    <2> QED
      BY <1>3, <2>1, <2>2, <2>3, <2>4 DEF DeleteStep
  <1> QED
    BY <1>2, <1>3

\* The calls of a read and of a recovery.
LEMMA HousedRecover ==
  ASSUME Housed, NEW p \in Procs, GetStep(p) \/ RecoverStep(p)
  PROVE  NoObjectOutsideBuckets'
  <1>1. UNCHANGED metaVars => NoObjectOutsideBuckets'
    BY HousedUnchanged DEF metaVars
  <1>2. CASE GetStep(p)
    BY <1>1, <1>2 DEF GetStep, GetMeta, GetData, GetCacheLayout, FailClean
  <1>3. CASE RecoverUnstage(p)
    BY <1>1, <1>3, HousedUnstage DEF RecoverUnstage, FailCommand
  <1>4. CASE RecoverListStaged(p) \/ RecoverNextPending(p) \/ RecoverPendingDone(p)
             \/ RecoverLayout(p) \/ RecoverCommittedRef(p) \/ RecoverLink(p) \/ RecoverUnlink(p)
    BY <1>1, <1>4 DEF RecoverListStaged, RecoverNextPending, RecoverPendingDone, RecoverLayout,
       RecoverCommittedRef, RecoverLink, RecoverUnlink, FailClean
  <1>5. CASE RecoverCheckRelease(p) \/ RecoverListRefs(p) \/ RecoverListPending(p)
             \/ RecoverListLocal(p) \/ RecoverSweep(p) \/ RecoverDone(p)
    BY <1>1, <1>5 DEF RecoverCheckRelease, RecoverListRefs, RecoverListPending,
       RecoverListLocal, RecoverSweep, RecoverDone, FailClean
  <1> QED
    BY <1>2, <1>3, <1>4, <1>5 DEF RecoverStep

\* Everything else: requests that begin, CreateBucket, a restart, an expiry.
LEMMA HousedAround ==
  ASSUME Housed, (\E p \in Procs : StartRequest(p)) \/ CreateBucket \/ Restart \/ Elapse
  PROVE  NoObjectOutsideBuckets'
  <1>1. UNCHANGED metaVars => NoObjectOutsideBuckets'
    BY HousedUnchanged DEF metaVars
  <1>2. ASSUME NEW p \in Procs, StartRequest(p)
        PROVE  NoObjectOutsideBuckets'
    BY <1>1, <1>2 DEF StartRequest, PutObject, DeleteObject, GetObject, DeleteBucket, Recover, Begin
  <1>3. CASE CreateBucket
    BY <1>3 DEF CreateBucket, Housed, NoObjectOutsideBuckets
  <1>4. CASE Restart
    BY <1>1, <1>4 DEF Restart
  <1>5. CASE Elapse
    <2>1. ASSUME NEW o \in Objects, staged'[o] # NoIntent
          PROVE  staged[o] # NoIntent
      BY <1>5, <2>1 DEF Elapse
    <2> QED
      BY <1>5, <2>1 DEF Elapse, Housed, NoObjectOutsideBuckets
  <1> QED
    BY <1>2, <1>3, <1>4, <1>5

\* With or without contention, lost replies, restarts and expiries, no object is
\* committed or staged in a bucket that does not exist: stageObjectMeta and
\* upsertObjectMeta look at the bucket in the state machine itself, and
\* deleteBucket takes the bucket's entries with it.
THEOREM ObjectsStayInBuckets == Spec => []NoObjectOutsideBuckets
  <1>1. Init => NoObjectOutsideBuckets
    BY DEF Init, NoObjectOutsideBuckets
  <1>2. TypeInv /\ NoObjectOutsideBuckets /\ [Next]_vars => NoObjectOutsideBuckets'
    <2> SUFFICES ASSUME TypeInv, NoObjectOutsideBuckets, [Next]_vars
                 PROVE  NoObjectOutsideBuckets'
      OBVIOUS
    <2>1. Housed
      BY DEF Housed, TypeInv, MetaOK
    <2>2. CASE UNCHANGED vars
      BY <2>1, <2>2, HousedUnchanged DEF vars, metaVars
    <2>3. CASE Next
      BY <2>1, <2>3, HousedPut, HousedUndo, HousedRecover, HousedAround DEF Next, Work
    <2> QED
      BY <2>2, <2>3
  <1> QED
    BY <1>1, <1>2, TypeInvariant, PTL DEF Spec

(***************************************************************************)
(* Counting                                                                 *)
(***************************************************************************)
LEMMA ClaimsFinite ==
  ASSUME NEW h
  PROVE  /\ IsFiniteSet(Claims(h)) /\ Cardinality(Claims(h)) \in Nat
         /\ IsFiniteSet(Claims(h)') /\ Cardinality(Claims(h)') \in Nat
  <1>1. IsFiniteSet(Objects \cup Procs)
    BY FinitenessAssumption, FS_Union
  <1>2. Claims(h) \subseteq Objects \cup Procs /\ Claims(h)' \subseteq Objects \cup Procs
    BY DEF Claims
  <1>3. IsFiniteSet(Claims(h)) /\ IsFiniteSet(Claims(h)')
    BY <1>1, <1>2, FS_Subset
  <1> QED
    BY <1>3, FS_CardinalityType

\* A set that loses nothing it had, gains at most one, or swaps one for another.
LEMMA CountSubset ==
  ASSUME NEW S, IsFiniteSet(S), NEW T, T \subseteq S
  PROVE  Cardinality(T) <= Cardinality(S)
  BY FS_Subset

\* Adding one element to a finite set adds at most one to its size.
LEMMA CountAdd ==
  ASSUME NEW S, IsFiniteSet(S), NEW x, NEW T, T \subseteq S \cup {x}
  PROVE  Cardinality(T) <= Cardinality(S) + 1
  <1>1. /\ IsFiniteSet(S \cup {x})
        /\ Cardinality(S \cup {x}) = IF x \in S THEN Cardinality(S) ELSE Cardinality(S) + 1
    BY FS_AddElement
  <1>2. Cardinality(T) <= Cardinality(S \cup {x}) /\ IsFiniteSet(T)
    BY <1>1, FS_Subset
  <1>3. Cardinality(S) \in Nat /\ Cardinality(T) \in Nat
    BY <1>2, FS_CardinalityType
  <1> QED
    BY <1>1, <1>2, <1>3

\* Taking one element out of a finite set takes one off its size.
LEMMA CountRemove ==
  ASSUME NEW S, IsFiniteSet(S), NEW x \in S, NEW T, T \subseteq S \ {x}
  PROVE  Cardinality(T) <= Cardinality(S) - 1
  <1>1. IsFiniteSet(S \ {x}) /\ Cardinality(S \ {x}) = Cardinality(S) - 1
    BY FS_RemoveElement
  <1> QED
    BY <1>1, FS_Subset

\* Replacing one element of a finite set does not make it larger.
LEMMA CountSwap ==
  ASSUME NEW S, IsFiniteSet(S), NEW x \in S, NEW y, NEW T, T \subseteq (S \ {x}) \cup {y}
  PROVE  Cardinality(T) <= Cardinality(S)
  <1>1. IsFiniteSet(S \ {x}) /\ Cardinality(S \ {x}) = Cardinality(S) - 1
    BY FS_RemoveElement
  <1>2. Cardinality(T) <= Cardinality(S \ {x}) + 1
    BY <1>1, CountAdd
  <1>3. Cardinality(S) \in Nat
    BY FS_CardinalityType
  <1> QED
    BY <1>1, <1>2, <1>3

(***************************************************************************)
(* Frames: a step of p leaves the other requests alone and touches no more  *)
(* objects than before.                                                     *)
(***************************************************************************)
Frame(p) ==
    /\ \A q \in Procs \ {p} : pc'[q] = pc[q] /\ req'[q] = req[q]
    /\ Touches(p)' \subseteq Touches(p)

\* What a request with locals r at call l touches.
TouchedAt(l, r) ==
    IF l = "idle" THEN {}
    ELSE IF r.op \in {"put", "delete", "get"} THEN {r.obj}
    ELSE IF r.op = "bucket" THEN {o \in Objects : BucketOf[o] = r.bkt}
    ELSE Objects

\* What a request touches depends on its call and its locals alone.
LEMMA TouchesTouchedAt ==
  ASSUME NEW p
  PROVE  Touches(p) = TouchedAt(pc[p], req[p]) /\ Touches(p)' = TouchedAt(pc'[p], req'[p])
  <1>1. Touches(p) = TouchedAt(pc[p], req[p])
    BY DEF Touches, TouchedAt
  <1>2. Touches(p)' = TouchedAt(pc'[p], req'[p])
    BY DEF Touches, TouchedAt
  <1> QED
    BY <1>1, <1>2

\* Locals of the same request.
SameRequest(r, s) ==
    /\ r.op = s.op
    /\ r.bkt = s.bkt
    /\ r.op \in {"put", "delete", "get"} => r.obj = s.obj

\* Enter moves one request, and the request keeps touching what it touched.
LEMMA EnterFrame ==
  ASSUME TypeInv, NEW p \in Procs, pc[p] # "idle", NEW l, NEW r,
         l # "idle" => SameRequest(r, req[p]), Enter(p, l, r)
  PROVE  Frame(p) /\ pc'[p] = l /\ req'[p] = IF l = "idle" THEN NoReq ELSE r
  <1>1. pc'[p] = l /\ req'[p] = IF l = "idle" THEN NoReq ELSE r
    BY DEF TypeInv, ControlOK, ControlType, Enter
  <1>2. \A q \in Procs \ {p} : pc'[q] = pc[q] /\ req'[q] = req[q]
    BY DEF TypeInv, ControlOK, ControlType, Enter
  <1>3. Touches(p)' \subseteq Touches(p)
    BY <1>1, TouchesTouchedAt DEF TouchedAt, SameRequest
  <1> QED
    BY <1>1, <1>2, <1>3 DEF Frame

\* Goto moves one request and leaves its locals alone.
LEMMA GotoFrame ==
  ASSUME TypeInv, NEW p \in Procs, pc[p] # "idle", NEW l, Goto(p, l)
  PROVE  Frame(p) /\ pc'[p] = l /\ req'[p] = IF l = "idle" THEN NoReq ELSE req[p]
  BY EnterFrame DEF Goto, SameRequest

\* A failure moves one request and leaves its locals alone.
LEMMA FailFrame ==
  ASSUME TypeInv, NEW p \in Procs, pc[p] # "idle", NEW l, Fail(p, l)
  PROVE  Frame(p) /\ pc'[p] = l /\ req'[p] = IF l = "idle" THEN NoReq ELSE req[p]
  <1>1. pc'[p] = l /\ req'[p] = IF l = "idle" THEN NoReq ELSE req[p]
    BY DEF TypeInv, ControlOK, ControlType, Fail
  <1>2. \A q \in Procs \ {p} : pc'[q] = pc[q] /\ req'[q] = req[q]
    BY DEF TypeInv, ControlOK, ControlType, Fail
  <1>3. Touches(p)' \subseteq Touches(p)
    BY <1>1, TouchesTouchedAt DEF TouchedAt
  <1> QED
    BY <1>1, <1>2, <1>3 DEF Frame

\* Requests that touched different objects still do.
LEMMA FrameDisjoint ==
  ASSUME TouchDisjoint, NEW p \in Procs, Frame(p)
  PROVE  TouchDisjoint'
  <1>1. \A q \in Procs \ {p} : Touches(q)' = Touches(q)
    BY TouchesTouchedAt DEF Frame
  <1> QED
    BY <1>1 DEF TouchDisjoint, Frame

(***************************************************************************)
(* Steps that leave objects and counts alone                                *)
(***************************************************************************)
\* A reference held by locals r at call l.
HeldAt(l, r, h) ==
    \/ /\ l \in {"put_retained", "put_commit", "rb_layout", "rb_unstage", "rb_restore", "rb_ref"}
       /\ r.mut # "unchanged"
       /\ r.hash = h
    \/ /\ l \in {"put_unstage", "del_layout", "rel_ref"}
       /\ r.rel = h

\* What a request holds depends on its call and its locals alone.
LEMMA HoldsHeldAt ==
  ASSUME NEW p, NEW h
  PROVE  (Holds(p, h) <=> HeldAt(pc[p], req[p], h)) /\ (Holds(p, h)' <=> HeldAt(pc'[p], req'[p], h))
  BY DEF Holds, HeldAt

\* If objects and counts stay, and the acting request holds no new reference,
\* the invariant stays.
LEMMA QuietStep ==
  ASSUME ReferencesInv, TypeInv, NEW p \in Procs, Frame(p), UNCHANGED <<objects, refCount>>,
         NothingExpired', pc'[p] # "idle" => Remembers(pc'[p], req'[p]),
         \A h \in Hashes : HeldAt(pc'[p], req'[p], h) => HeldAt(pc[p], req[p], h)
  PROVE  ReferencesInv'
  <1>1. TouchDisjoint'
    BY FrameDisjoint DEF ReferencesInv
  <1>2. ASSUME NEW q \in Procs, pc'[q] # "idle"
        PROVE  Remembers(pc[q], req[q])'
    BY <1>2 DEF ReferencesInv, Frame, Remembers
  <1>3. ASSUME NEW h \in Hashes
        PROVE  Cardinality(Claims(h)') <= refCount'[h]
    <2>1. \A q \in Procs : Holds(q, h)' => Holds(q, h)
      BY HoldsHeldAt DEF Frame
    <2>2. Claims(h)' \subseteq Claims(h)
      BY <2>1 DEF Claims
    <2>3. Cardinality(Claims(h)') <= Cardinality(Claims(h))
      BY <2>2, ClaimsFinite, CountSubset
    <2>4. Cardinality(Claims(h)) <= refCount[h] /\ refCount[h] \in Nat
      BY DEF ReferencesInv, ClaimsCovered, TypeInv, MetaOK, MetaType
    <2> QED
      BY <2>3, <2>4, ClaimsFinite
  <1> QED
    BY <1>1, <1>2, <1>3 DEF ReferencesInv, ClaimsCovered

(***************************************************************************)
(* What a step of a request leaves alone                                    *)
(***************************************************************************)
LEMMA Facts ==
  ASSUME TypeInv, ReferencesInv, NEW p \in Procs, pc[p] # "idle"
  PROVE  /\ req[p] \in Requests /\ ShapeOf(pc[p], req[p]) /\ Remembers(pc[p], req[p])
         /\ NothingExpired /\ TouchDisjoint /\ ClaimsCovered
  BY DEF TypeInv, ControlOK, ControlType, ReferencesInv

\* A step that leaves the metadata alone expires nothing and counts nothing.
LEMMA StagedUnchanged == NothingExpired /\ UNCHANGED metaVars => NothingExpired' /\ UNCHANGED <<objects, refCount>>
  BY DEF NothingExpired, metaVars

\* Staging a write expires nothing and counts nothing.
LEMMA StageKeeps ==
  ASSUME TypeInv, NothingExpired, NEW o, NEW h, NEW s, StageObjectMeta(o, h, s)
  PROVE  NothingExpired' /\ UNCHANGED <<objects, refCount>>
  BY DEF TypeInv, MetaOK, MetaType, NothingExpired, StageObjectMeta

\* Removing a staged write expires nothing and counts nothing.
LEMMA UnstageKeeps ==
  ASSUME TypeInv, NothingExpired, NEW o, DeleteStagedObjectMeta(o)
  PROVE  NothingExpired' /\ UNCHANGED <<objects, refCount>>
  BY DEF TypeInv, MetaOK, MetaType, NothingExpired, DeleteStagedObjectMeta, NoIntent

\* The request ends.
LEMMA EndStep ==
  ASSUME ReferencesInv, TypeInv, NEW p \in Procs, pc[p] # "idle",
         Goto(p, "idle") \/ Fail(p, "idle"), NothingExpired', UNCHANGED <<objects, refCount>>
  PROVE  ReferencesInv'
  <1>1. Frame(p) /\ pc'[p] = "idle"
    BY GotoFrame, FailFrame
  <1>2. \A h : ~HeldAt("idle", req'[p], h)
    BY DEF HeldAt
  <1> QED
    BY <1>1, <1>2, QuietStep

\* The request goes on with other locals, having learnt nothing wrong and
\* holding nothing new.
LEMMA OnStep ==
  ASSUME ReferencesInv, TypeInv, NEW p \in Procs, pc[p] # "idle", NEW l, l # "idle", NEW r,
         Enter(p, l, r), SameRequest(r, req[p]), NothingExpired', UNCHANGED <<objects, refCount>>,
         Remembers(l, r), \A h \in Hashes : HeldAt(l, r, h) => HeldAt(pc[p], req[p], h)
  PROVE  ReferencesInv'
  BY EnterFrame, QuietStep

\* The same for a request that keeps its locals.
LEMMA OnGoto ==
  ASSUME ReferencesInv, TypeInv, NEW p \in Procs, pc[p] # "idle", NEW l, l # "idle",
         Goto(p, l) \/ Fail(p, l), NothingExpired', UNCHANGED <<objects, refCount>>,
         Remembers(l, req[p]), \A h \in Hashes : HeldAt(l, req[p], h) => HeldAt(pc[p], req[p], h)
  PROVE  ReferencesInv'
  BY GotoFrame, FailFrame, QuietStep

(***************************************************************************)
(* PutObject up to the blob ref                                             *)
(***************************************************************************)
\* Where a put moves without taking or dropping a reference.
LEMMA PutMove ==
  ASSUME NEW l \in PutCalls \ {"put_retained", "put_commit", "put_unstage"}, NEW r \in Requests,
         Remembers(l, r), r.op = "put"
  PROVE  /\ \A k \in PutCalls \ {"put_retained", "put_commit", "put_unstage"} :
                l \notin {"put_bucket", "put_load"} => Remembers(k, r)
         /\ Remembers("put_load", r)
         /\ \A k \in RollbackCalls : Remembers(k, r) /\ \A h : ~HeldAt(k, r, h)
  BY DEF Remembers, HeldAt, PutCalls, RollbackCalls

\* The steps of a put before retainBlob keep the reference invariant.
LEMMA PutEarlyRefs ==
  ASSUME TypeInv, ReferencesInv, LostReplies = FALSE, NEW p \in Procs,
         \/ PutEnsureBucket(p) \/ PutLoadExisting(p) \/ PutLoadExistingRef(p)
         \/ PutStageMeta(p) \/ PutPrepareBlob(p) \/ PutCreateBlob(p)
         \/ PutIntentPrepared(p) \/ PutLinkLayout(p) \/ PutIntentLinked(p)
  PROVE  ReferencesInv'
  <1> DEFINE early == {"put_bucket", "put_load", "put_loadref", "put_stage", "put_prepare", "put_blob",
                       "put_prepared", "put_link", "put_linked"}
  <1>1. pc[p] \in early
    BY DEF PutEnsureBucket, PutLoadExisting, PutLoadExistingRef, PutStageMeta, PutPrepareBlob,
           PutCreateBlob, PutIntentPrepared, PutLinkLayout, PutIntentLinked, AdvanceIntent
  <1>2. pc[p] # "idle" /\ pc[p] \in PutCalls \ {"put_retained", "put_commit", "put_unstage"}
    BY <1>1 DEF PutCalls
  <1>3. /\ req[p] \in Requests /\ Remembers(pc[p], req[p]) /\ NothingExpired /\ req[p].op = "put"
        /\ req[p].obj \in Objects
    BY <1>2, Facts DEF ShapeOf
  <1>4. ASSUME NEW l \in RollbackCalls \cup (PutCalls \ {"put_retained", "put_commit", "put_unstage"}),
               Goto(p, l) \/ Fail(p, l), NothingExpired', UNCHANGED <<objects, refCount>>,
               pc[p] \in {"put_bucket", "put_load"} => l \in RollbackCalls \cup {"put_load"}
        PROVE  ReferencesInv'
    <2>1. l # "idle"
      BY <1>4 DEF PutCalls, RollbackCalls
    <2>2. Remembers(l, req[p]) /\ \A h : ~HeldAt(l, req[p], h)
      <3>1. CASE l \in RollbackCalls
        BY <1>2, <1>3, <3>1, PutMove
      <3>2. CASE l \in PutCalls \ {"put_retained", "put_commit", "put_unstage"}
        <4>1. Remembers(l, req[p])
          BY <1>2, <1>3, <1>4, <3>2, PutMove DEF PutCalls, RollbackCalls
        <4>2. \A h : ~HeldAt(l, req[p], h)
          BY <3>2 DEF HeldAt, PutCalls
        <4> QED
          BY <4>1, <4>2
      <3> QED
        BY <1>4, <3>1, <3>2
    <2> QED
      BY <1>2, <1>4, <2>1, <2>2, OnGoto
  <1>5. ASSUME NEW l \in PutCalls \ {"put_retained", "put_commit", "put_unstage"}, NEW r,
               Enter(p, l, r), SameRequest(r, req[p]), Remembers(l, r),
               NothingExpired', UNCHANGED <<objects, refCount>>
        PROVE  ReferencesInv'
    <2>1. l # "idle" /\ \A h : ~HeldAt(l, r, h)
      BY <1>5 DEF HeldAt, PutCalls
    <2> QED
      BY <1>2, <1>5, <2>1, OnStep
  <1>6. ASSUME UNCHANGED metaVars
        PROVE  NothingExpired' /\ UNCHANGED <<objects, refCount>>
    BY <1>3, <1>6, StagedUnchanged
  <1>7. CASE PutEnsureBucket(p)
    <2>1. "put_load" \in PutCalls \ {"put_retained", "put_commit", "put_unstage"}
      BY DEF PutCalls
    <2>2. UNCHANGED metaVars
      BY <1>7 DEF PutEnsureBucket, FailClean
    <2> QED
      BY <1>2, <1>4, <1>6, <1>7, <2>1, <2>2, EndStep DEF PutEnsureBucket, FailClean
  <1>8. CASE PutLoadExisting(p)
    <2> DEFINE ex == objects[req[p].obj]
               r == [req[p] EXCEPT !.ex = ex]
               l == IF ex = None THEN "put_stage" ELSE "put_loadref"
    <2>1. pc[p] = "put_load" /\ UNCHANGED metaVars
      BY <1>8 DEF PutLoadExisting, FailClean
    <2>2. SameRequest(r, req[p]) /\ r.ex = ex /\ r.obj = req[p].obj /\ r.mut = req[p].mut /\ r.op = "put"
      BY <1>3 DEF SameRequest, Requests
    <2>3. req[p].mut = "unchanged"
      BY <1>3, <2>1 DEF Remembers, PutCalls
    <2> HIDE DEF r
    <2>4. Remembers("put_stage", r) /\ Remembers("put_loadref", r)
      BY <2>2, <2>3 DEF Remembers, PutCalls
    <2>5. l \in PutCalls \ {"put_retained", "put_commit", "put_unstage"} /\ Remembers(l, r)
      BY <2>4 DEF PutCalls
    <2>6. Enter(p, l, r) \/ Fail(p, "idle")
      BY <1>8 DEF PutLoadExisting, FailClean, r
    <2> HIDE DEF l
    <2> QED
      BY <1>2, <1>5, <1>6, <2>1, <2>2, <2>5, <2>6, EndStep
  <1>9. CASE PutLoadExistingRef(p)
    <2> DEFINE r == [req[p] EXCEPT !.exDir = refPath[req[p].ex]]
    <2>1. pc[p] = "put_loadref" /\ UNCHANGED metaVars
      BY <1>9 DEF PutLoadExistingRef, FailClean
    <2>2. SameRequest(r, req[p]) /\ r.ex = req[p].ex /\ r.obj = req[p].obj /\ r.mut = req[p].mut /\ r.op = "put"
      BY <1>3 DEF SameRequest, Requests
    <2> HIDE DEF r
    <2>3. Remembers("put_stage", r) /\ "put_stage" \in PutCalls
      BY <1>3, <2>1, <2>2 DEF Remembers, PutCalls
    <2>4. Enter(p, "put_stage", r) \/ Fail(p, "idle")
      BY <1>9 DEF PutLoadExistingRef, FailClean, r
    <2> QED
      BY <1>2, <1>5, <1>6, <2>1, <2>2, <2>3, <2>4, EndStep
  <1>10. ASSUME NEW stage, NEW okCall \in {"put_prepare", "put_link", "put_retain"},
                NEW errCall \in {"idle", "rb_layout"},
                NEW call \in {"put_stage", "put_prepared", "put_linked"},
                AdvanceIntent(p, call, stage, okCall, errCall)
         PROVE  ReferencesInv'
    <2>1. /\ okCall \in PutCalls \ {"put_retained", "put_commit", "put_unstage"}
          /\ pc[p] \notin {"put_bucket", "put_load"} /\ "rb_layout" \in RollbackCalls
      BY <1>10 DEF AdvanceIntent, PutCalls, RollbackCalls
    <2>2. CASE StageObjectMeta(req[p].obj, req[p].hash, stage) /\ Goto(p, okCall)
      BY <1>3, <1>4, <2>1, <2>2, StageKeeps
    <2>3. CASE UNCHANGED metaVars /\ (Goto(p, errCall) \/ Fail(p, errCall))
      BY <1>2, <1>4, <1>6, <2>1, <2>3, EndStep
    <2> QED
      BY <1>10, <2>2, <2>3 DEF AdvanceIntent, FailClean, FailCommand
  <1>11. CASE PutStageMeta(p) \/ PutIntentPrepared(p) \/ PutIntentLinked(p)
    BY <1>10, <1>11 DEF PutStageMeta, PutIntentPrepared, PutIntentLinked
  <1>12. CASE PutPrepareBlob(p)
    <2> DEFINE r == [req[p] EXCEPT !.hit = TRUE, !.dir = refPath[req[p].hash]]
    <2>1. pc[p] = "put_prepare" /\ UNCHANGED metaVars
      BY <1>12 DEF PutPrepareBlob, FailClean
    <2>2. SameRequest(r, req[p]) /\ r.ex = req[p].ex /\ r.obj = req[p].obj /\ r.mut = req[p].mut /\ r.op = "put"
      BY <1>3 DEF SameRequest, Requests
    <2> HIDE DEF r
    <2>3. Remembers("put_prepared", r)
      BY <1>3, <2>1, <2>2 DEF Remembers, PutCalls
    <2>4. Enter(p, "put_prepared", r) \/ Goto(p, "put_blob") \/ Fail(p, "fail_unstage")
      BY <1>12 DEF PutPrepareBlob, FailClean, r
    <2>5. /\ "put_prepared" \in PutCalls /\ "put_blob" \in PutCalls /\ "fail_unstage" \in RollbackCalls
      BY DEF PutCalls, RollbackCalls
    <2> QED
      BY <1>4, <1>5, <1>6, <2>1, <2>2, <2>3, <2>4, <2>5
  <1>13. CASE PutCreateBlob(p)
    <2> DEFINE r == [req[p] EXCEPT !.created = TRUE, !.dir = DirOf[req[p].obj]]
    <2>1. pc[p] = "put_blob" /\ UNCHANGED metaVars
      BY <1>13 DEF PutCreateBlob
    <2>2. SameRequest(r, req[p]) /\ r.ex = req[p].ex /\ r.obj = req[p].obj /\ r.mut = req[p].mut /\ r.op = "put"
      BY <1>3 DEF SameRequest, Requests
    <2> HIDE DEF r
    <2>3. Remembers("put_prepared", r)
      BY <1>3, <2>1, <2>2 DEF Remembers, PutCalls
    <2>4. Enter(p, "put_prepared", r) \/ Fail(p, "fail_unstage")
      BY <1>13 DEF PutCreateBlob, r
    <2>5. /\ "put_prepared" \in PutCalls /\ "fail_unstage" \in RollbackCalls
      BY DEF PutCalls, RollbackCalls
    <2> QED
      BY <1>4, <1>5, <1>6, <2>1, <2>2, <2>3, <2>4, <2>5
  <1>14. CASE PutLinkLayout(p)
    <2>1. pc[p] = "put_link" /\ UNCHANGED metaVars
      BY <1>14 DEF PutLinkLayout, FailClean
    <2>2. Goto(p, "put_linked") \/ Fail(p, "fail_blob") \/ Fail(p, "idle")
      BY <1>14 DEF PutLinkLayout, FailClean
    <2>3. "put_linked" \in PutCalls /\ "fail_blob" \in RollbackCalls
      BY DEF PutCalls, RollbackCalls
    <2> QED
      BY <1>2, <1>4, <1>6, <2>1, <2>2, <2>3, EndStep
  <1> QED
    BY <1>7, <1>8, <1>9, <1>11, <1>12, <1>13, <1>14

(***************************************************************************)
(* Steps that take, move or give back a reference                           *)
(***************************************************************************)
\* A step of p that writes only objects p touches leaves the other requests'
\* knowledge of their objects valid.
LEMMA OthersRemember ==
  ASSUME TypeInv, ReferencesInv, NEW p \in Procs, NEW q \in Procs \ {p}, Frame(p), pc'[q] # "idle",
         \A o \in Objects \ Touches(p) : objects'[o] = objects[o]
  PROVE  Remembers(pc[q], req[q])'
  <1>1. pc'[q] = pc[q] /\ req'[q] = req[q]
    BY DEF Frame
  <1>2. Remembers(pc[q], req[q]) /\ ShapeOf(pc[q], req[q])
    BY <1>1 DEF ReferencesInv, TypeInv, ControlOK
  <1>3. pc[q] \in PutCalls \/ pc[q] = "del_meta" => req[q].obj \in Objects /\ req[q].obj \in Touches(q)
    BY <1>1, <1>2, TouchesTouchedAt, ObjectsAssumption DEF ShapeOf, Remembers, TouchedAt
  <1>4. pc[q] \in PutCalls \/ pc[q] = "del_meta" => objects'[req[q].obj] = objects[req[q].obj]
    BY <1>3 DEF ReferencesInv, TouchDisjoint
  <1> QED
    BY <1>1, <1>2, <1>4 DEF Remembers

\* A step of one request that leaves the objects of the others alone keeps the
\* reference invariant if every count still covers its claims.
LEMMA CountStep ==
  ASSUME TypeInv, ReferencesInv, NEW p \in Procs, Frame(p), NothingExpired',
         \A o \in Objects \ Touches(p) : objects'[o] = objects[o],
         pc'[p] # "idle" => Remembers(pc[p], req[p])',
         \A h \in Hashes : Cardinality(Claims(h)') <= refCount'[h]
  PROVE  ReferencesInv'
  <1>1. TouchDisjoint'
    BY FrameDisjoint DEF ReferencesInv
  <1>2. \A q \in Procs : pc'[q] # "idle" => Remembers(pc[q], req[q])'
    BY OthersRemember
  <1> QED
    BY <1>1, <1>2 DEF ReferencesInv, ClaimsCovered

\* The claims on h of everyone but p, and p's own.
LEMMA ClaimsOfOthers ==
  ASSUME NEW p \in Procs, Frame(p), NEW h, NEW D \in SUBSET Objects,
         \A o \in Objects \ D : objects'[o] = h => objects[o] = h
  PROVE  /\ Claims(h)' \subseteq Claims(h) \cup D \cup {p}
         /\ ~HeldAt(pc'[p], req'[p], h) => Claims(h)' \subseteq (Claims(h) \ {p}) \cup D
  <1>1. \A q \in Procs \ {p} : Holds(q, h)' => Holds(q, h)
    BY HoldsHeldAt DEF Frame
  <1>2. Holds(p, h)' <=> HeldAt(pc'[p], req'[p], h)
    BY HoldsHeldAt
  <1>3. p \notin Objects
    BY FinitenessAssumption
  <1> QED
    BY <1>1, <1>2, <1>3 DEF Claims

\* How the claims on a content change when no object does.
LEMMA ClaimsIfObjectsStay ==
  ASSUME NEW p \in Procs, Frame(p), NEW h, UNCHANGED objects
  PROVE  /\ Claims(h)' \subseteq Claims(h) \cup {p}
         /\ ~HeldAt(pc'[p], req'[p], h) => Claims(h)' \subseteq Claims(h) \ {p}
  <1>1. {} \in SUBSET Objects /\ \A o \in Objects \ {} : objects'[o] = h => objects[o] = h
    OBVIOUS
  <1>2. /\ Claims(h)' \subseteq Claims(h) \cup {} \cup {p}
        /\ ~HeldAt(pc'[p], req'[p], h) => Claims(h)' \subseteq (Claims(h) \ {p}) \cup {}
    BY <1>1, ClaimsOfOthers, Zenon
  <1> QED
    BY <1>2

\* Every count covers its claims, and both are numbers.
LEMMA Covered ==
  ASSUME TypeInv, ReferencesInv, NEW h \in Hashes
  PROVE  /\ Cardinality(Claims(h)) \in Nat /\ Cardinality(Claims(h)') \in Nat
         /\ refCount[h] \in Nat
         /\ Cardinality(Claims(h)) <= refCount[h]
  BY ClaimsFinite DEF ReferencesInv, ClaimsCovered, TypeInv, MetaOK, MetaType

\* One more reference for content h, held by p or by nobody.
LEMMA TakeStep ==
  ASSUME TypeInv, ReferencesInv, NEW p \in Procs, Frame(p), NothingExpired', UNCHANGED objects,
         NEW g \in Hashes, refCount'[g] = refCount[g] + 1,
         \A h \in Hashes \ {g} : refCount'[h] = refCount[h],
         \A h \in Hashes \ {g} : ~HeldAt(pc'[p], req'[p], h),
         pc'[p] # "idle" => Remembers(pc[p], req[p])'
  PROVE  ReferencesInv'
  <1>1. ASSUME NEW h \in Hashes
        PROVE  Cardinality(Claims(h)') <= refCount'[h]
    <2>1. CASE h = g
      <3>1. Claims(h)' \subseteq Claims(h) \cup {p}
        BY ClaimsIfObjectsStay
      <3>2. Cardinality(Claims(h)') <= Cardinality(Claims(h)) + 1
        BY <3>1, ClaimsFinite, CountAdd
      <3> QED
        BY <2>1, <3>2, Covered
    <2>2. CASE h # g
      <3>1. Claims(h)' \subseteq Claims(h)
        BY <2>2, ClaimsIfObjectsStay
      <3>2. Cardinality(Claims(h)') <= Cardinality(Claims(h))
        BY <3>1, ClaimsFinite, CountSubset
      <3> QED
        BY <2>2, <3>2, Covered
    <2> QED
      BY <2>1, <2>2
  <1> QED
    BY <1>1, CountStep

\* The reference p holds is given back.
LEMMA GiveBackStep ==
  ASSUME TypeInv, ReferencesInv, NEW p \in Procs, Frame(p), NothingExpired', UNCHANGED objects,
         NEW g \in Hashes, HeldAt(pc[p], req[p], g), DecreaseBlobRef(g),
         \A h \in Hashes : ~HeldAt(pc'[p], req'[p], h),
         pc'[p] # "idle" => Remembers(pc[p], req[p])'
  PROVE  ReferencesInv'
  <1>1. ASSUME NEW h \in Hashes
        PROVE  Cardinality(Claims(h)') <= refCount'[h]
    <2>0. Claims(h)' \subseteq Claims(h) \ {p}
      BY ClaimsIfObjectsStay
    <2>1. CASE h = g
      <3>1. p \in Claims(h)
        BY <2>1, HoldsHeldAt DEF Claims
      <3>2. Cardinality(Claims(h)') <= Cardinality(Claims(h)) - 1
        BY <2>0, <3>1, ClaimsFinite, CountRemove
      <3>3. refCount'[h] = IF refCount[h] <= 1 THEN 0 ELSE refCount[h] - 1
        BY <2>1 DEF TypeInv, MetaOK, MetaType, DecreaseBlobRef
      <3> QED
        BY <3>2, <3>3, Covered
    <2>2. CASE h # g
      <3>1. Cardinality(Claims(h)') <= Cardinality(Claims(h))
        BY <2>0, ClaimsFinite, CountSubset
      <3>2. refCount'[h] = refCount[h]
        BY <2>2 DEF TypeInv, MetaOK, MetaType, DecreaseBlobRef
      <3> QED
        BY <3>1, <3>2, Covered
    <2> QED
      BY <2>1, <2>2
  <1> QED
    BY <1>1, CountStep

\* Writing v into object o moves the claim of o from one content to another.
LEMMA ClaimsIfWritten ==
  ASSUME NEW p \in Procs, Frame(p), NEW o \in Objects, NEW v, NEW g,
         objects'[o] = v, \A q \in Objects \ {o} : objects'[q] = objects[q]
  PROVE  /\ v # g => Claims(g)' \subseteq (Claims(g) \ {o}) \cup {p}
         /\ ~HeldAt(pc'[p], req'[p], g) => Claims(g)' \subseteq (Claims(g) \ {p}) \cup {o}
         /\ ~HeldAt(pc'[p], req'[p], g) /\ (v # g \/ objects[o] = g) => Claims(g)' \subseteq Claims(g)
  <1>1. \A q \in Procs \ {p} : Holds(q, g)' => Holds(q, g)
    BY HoldsHeldAt DEF Frame
  <1>2. Holds(p, g)' <=> HeldAt(pc'[p], req'[p], g)
    BY HoldsHeldAt
  <1>3. p \notin Objects /\ Procs \cap Objects = {}
    BY FinitenessAssumption
  <1> QED
    BY <1>1, <1>2, <1>3 DEF Claims

\* The steps of a put from retainBlob on keep the reference invariant.
LEMMA PutLateRefs ==
  ASSUME TypeInv, ReferencesInv, LostReplies = FALSE, NEW p \in Procs,
         \/ PutRetainBlob(p) \/ PutIntentRetained(p) \/ PutCommit(p) \/ PutUnstage(p)
         \/ FailUnstage(p) \/ FailDropBlob(p)
  PROVE  ReferencesInv'
  <1> DEFINE o == req[p].obj
             h == req[p].hash
  <1>0. pc[p] # "idle" /\ pc[p] \in PutCalls \cup RollbackCalls
    BY DEF PutRetainBlob, PutIntentRetained, PutCommit, PutUnstage, FailUnstage, FailDropBlob,
           AdvanceIntent, PutCalls, RollbackCalls
  <1>1. /\ req[p] \in Requests /\ Remembers(pc[p], req[p]) /\ NothingExpired
        /\ req[p].op = "put" /\ o \in Objects /\ h \in Hashes
        /\ req[p].ex \in Hashes \cup {None} /\ None \notin Hashes
    BY <1>0, Facts, ObjectsAssumption DEF ShapeOf, Requests
  <1>2. ASSUME UNCHANGED metaVars
        PROVE  NothingExpired' /\ UNCHANGED <<objects, refCount>>
    BY <1>1, <1>2, StagedUnchanged
  <1>3. Remembers("rb_layout", req[p]) /\ Remembers("rel_ref", req[p])
    BY <1>1 DEF Remembers, PutCalls
  <1>4. CASE PutRetainBlob(p)
    <2>1. pc[p] = "put_retain"
      BY <1>4 DEF PutRetainBlob
    <2>2. req[p].mut = "unchanged" /\ objects[o] = req[p].ex
      BY <1>1, <2>1 DEF Remembers, PutCalls
    <2>3. ASSUME NEW m \in {"unchanged", "increased", "created"},
                 Enter(p, "put_retained", [req[p] EXCEPT !.mut = m]),
                 UNCHANGED objects, m = "unchanged" => req[p].ex = h
          PROVE  /\ Frame(p) /\ Remembers(pc[p], req[p])'
                 /\ \A g : HeldAt(pc'[p], req'[p], g) => m # "unchanged" /\ g = h
                 /\ pc'[p] = "put_retained"
                 /\ Remembers(pc'[p], req'[p])
      <3> DEFINE r == [req[p] EXCEPT !.mut = m]
      <3>1. SameRequest(r, req[p]) /\ r.ex = req[p].ex /\ r.obj = o /\ r.mut = m /\ r.op = "put" /\ r.hash = h
        BY <1>1 DEF SameRequest, Requests
      <3> HIDE DEF r
      <3>2. Frame(p) /\ pc'[p] = "put_retained" /\ req'[p] = r
        BY <1>0, <2>3, <3>1, EnterFrame DEF r
      <3>3. Remembers("put_retained", r)
        BY <2>2, <2>3, <3>1 DEF Remembers, PutCalls
      <3>4. \A g : HeldAt("put_retained", r, g) => m # "unchanged" /\ g = h
        BY <3>1 DEF HeldAt
      <3> QED
        BY <2>3, <3>2, <3>3, <3>4 DEF Remembers
    <2>4. CASE /\ CreateBlobRef(h, req[p].dir)
               /\ Enter(p, "put_retained", [req[p] EXCEPT !.mut = "created"])
      <3>1. /\ UNCHANGED objects /\ NothingExpired'
            /\ refCount'[h] = refCount[h] + 1 /\ \A g \in Hashes \ {h} : refCount'[g] = refCount[g]
        BY <1>1, <2>4 DEF CreateBlobRef, NothingExpired, TypeInv, MetaOK, MetaType
      <3> QED
        BY <1>1, <2>3, <2>4, <3>1, TakeStep
    <2>5. CASE /\ IncreaseBlobRef(h)
               /\ Enter(p, "put_retained", [req[p] EXCEPT !.mut = "increased"])
      <3>1. /\ UNCHANGED objects /\ NothingExpired'
            /\ refCount'[h] = refCount[h] + 1 /\ \A g \in Hashes \ {h} : refCount'[g] = refCount[g]
        BY <1>1, <2>5 DEF IncreaseBlobRef, NothingExpired, TypeInv, MetaOK, MetaType
      <3> QED
        BY <1>1, <2>3, <2>5, <3>1, TakeStep
    <2>6. CASE /\ req[p].ex = h /\ UNCHANGED metaVars
               /\ Enter(p, "put_retained", [req[p] EXCEPT !.mut = "unchanged"])
      <3>1. /\ NothingExpired' /\ UNCHANGED <<objects, refCount>>
        BY <1>2, <2>6
      <3>2. /\ Frame(p) /\ Remembers(pc'[p], req'[p])
            /\ \A g : ~HeldAt(pc'[p], req'[p], g)
        BY <2>3, <2>6, <3>1
      <3> QED
        BY <3>1, <3>2, QuietStep
    <2>7. CASE UNCHANGED metaVars /\ (Goto(p, "rb_layout") \/ Fail(p, "rb_layout"))
      <3>1. \A g : ~HeldAt("rb_layout", req[p], g)
        BY <2>2 DEF HeldAt
      <3> QED
        BY <1>0, <1>2, <1>3, <2>7, <3>1, OnGoto
    <2> QED
      BY <1>4, <2>4, <2>5, <2>6, <2>7 DEF PutRetainBlob, FailClean, FailCommand
  <1>5. CASE PutIntentRetained(p)
    <2>1. pc[p] = "put_retained"
      BY <1>5 DEF PutIntentRetained, AdvanceIntent
    <2>2. Remembers("put_commit", req[p])
      BY <1>1, <2>1 DEF Remembers, PutCalls
    <2>3. \A g : HeldAt("put_commit", req[p], g) \/ HeldAt("rb_layout", req[p], g) => HeldAt(pc[p], req[p], g)
      BY <2>1 DEF HeldAt
    <2>4. CASE StageObjectMeta(o, h, "blob_retained") /\ Goto(p, "put_commit")
      BY <1>0, <1>1, <2>2, <2>3, <2>4, StageKeeps, OnGoto
    <2>5. CASE UNCHANGED metaVars /\ (Goto(p, "rb_layout") \/ Fail(p, "rb_layout"))
      BY <1>0, <1>2, <1>3, <2>3, <2>5, OnGoto
    <2> QED
      BY <1>5, <2>4, <2>5 DEF PutIntentRetained, AdvanceIntent, FailClean, FailCommand
  <1>6. CASE PutCommit(p)
    <2>1. pc[p] = "put_commit"
      BY <1>6 DEF PutCommit
    <2>2. objects[o] = req[p].ex /\ (req[p].mut = "unchanged" => req[p].ex = h)
      BY <1>1, <2>1 DEF Remembers, PutCalls
    <2>3. CASE UNCHANGED metaVars /\ (Goto(p, "rb_layout") \/ Fail(p, "rb_layout"))
      <3>1. \A g : HeldAt("rb_layout", req[p], g) => HeldAt(pc[p], req[p], g)
        BY <2>1 DEF HeldAt
      <3> QED
        BY <1>0, <1>2, <1>3, <2>3, <3>1, OnGoto
    <2> DEFINE replaced == IF req[p].ex = h THEN None ELSE req[p].ex
               r == [req[p] EXCEPT !.rel = replaced]
    <2>4. CASE UpsertObjectMeta(o, h) /\ Enter(p, "put_unstage", r)
      <3>1. SameRequest(r, req[p]) /\ r.rel = replaced /\ r.op = "put" /\ r.obj = o
        BY <1>1 DEF SameRequest, Requests
      <3> HIDE DEF r
      <3>2. Frame(p) /\ pc'[p] = "put_unstage" /\ req'[p] = r
        BY <1>0, <2>4, <3>1, EnterFrame
      <3>3. /\ refCount' = refCount /\ NothingExpired'
            /\ objects'[o] = h /\ \A q \in Objects \ {o} : objects'[q] = objects[q]
        BY <1>1, <2>4 DEF UpsertObjectMeta, NothingExpired, TypeInv, MetaOK, MetaType
      <3>4. Remembers(pc[p], req[p])'
        BY <3>1, <3>2 DEF Remembers, PutCalls
      <3>5. \A q \in Objects \ Touches(p) : objects'[q] = objects[q]
        BY <1>0, <1>1, <3>3, TouchesTouchedAt DEF TouchedAt
      <3>6. ASSUME NEW g \in Hashes
            PROVE  Cardinality(Claims(g)') <= refCount'[g]
        <4>1. HeldAt(pc'[p], req'[p], g) <=> g = replaced
          BY <3>1, <3>2 DEF HeldAt
        <4>0. /\ h # g => Claims(g)' \subseteq (Claims(g) \ {o}) \cup {p}
              /\ ~HeldAt(pc'[p], req'[p], g) => Claims(g)' \subseteq (Claims(g) \ {p}) \cup {o}
              /\ ~HeldAt(pc'[p], req'[p], g) /\ (h # g \/ objects[o] = g) => Claims(g)' \subseteq Claims(g)
          BY <1>1, <3>2, <3>3, ClaimsIfWritten
        <4>2. CASE g = h /\ req[p].mut = "unchanged"
          <5>1. Claims(g)' \subseteq Claims(g)
            BY <1>1, <2>2, <4>0, <4>1, <4>2
          <5> QED
            BY <3>3, <5>1, ClaimsFinite, CountSubset, Covered
        <4>3. CASE g = h /\ req[p].mut # "unchanged"
          <5>1. p \in Claims(g)
            BY <2>1, <4>3, HoldsHeldAt DEF HeldAt, Claims
          <5>2. Claims(g)' \subseteq (Claims(g) \ {p}) \cup {o}
            BY <1>1, <4>0, <4>1, <4>3
          <5>3. Cardinality(Claims(g)') <= Cardinality(Claims(g))
            BY <5>1, <5>2, ClaimsFinite, CountSwap
          <5> QED
            BY <3>3, <5>3, Covered
        <4>4. CASE g # h /\ g = req[p].ex
          <5>1. o \in Claims(g)
            BY <1>1, <2>2, <4>4 DEF Claims
          <5>2. Claims(g)' \subseteq (Claims(g) \ {o}) \cup {p}
            BY <4>0, <4>4
          <5>3. Cardinality(Claims(g)') <= Cardinality(Claims(g))
            BY <5>1, <5>2, ClaimsFinite, CountSwap
          <5> QED
            BY <3>3, <5>3, Covered
        <4>5. CASE g # h /\ g # req[p].ex
          <5>1. Claims(g)' \subseteq Claims(g)
            BY <1>1, <4>0, <4>1, <4>5
          <5> QED
            BY <3>3, <5>1, ClaimsFinite, CountSubset, Covered
        <4> QED
          BY <4>2, <4>3, <4>4, <4>5
      <3> QED
        BY <3>2, <3>3, <3>4, <3>5, <3>6, CountStep
    <2> QED
      BY <1>6, <2>3, <2>4 DEF PutCommit, FailClean, FailCommand
  <1>7. CASE PutUnstage(p)
    <2>1. \A g : HeldAt("rel_ref", req[p], g) => HeldAt(pc[p], req[p], g)
      BY <1>7 DEF PutUnstage, HeldAt
    <2>2. CASE DeleteStagedObjectMeta(o) /\ (Goto(p, "idle") \/ Goto(p, "rel_ref"))
      BY <1>0, <1>1, <1>3, <2>1, <2>2, UnstageKeeps, EndStep, OnGoto
    <2>3. CASE UNCHANGED metaVars /\ Fail(p, "idle")
      BY <1>0, <1>2, <2>3, EndStep
    <2> QED
      BY <1>7, <2>2, <2>3 DEF PutUnstage, FailClean, FailCommand
  <1>8. CASE FailUnstage(p)
    BY <1>0, <1>1, <1>2, <1>8, UnstageKeeps, EndStep DEF FailUnstage, FailClean, FailCommand
  <1>9. CASE FailDropBlob(p)
    BY <1>0, <1>2, <1>9, EndStep DEF FailDropBlob, FailClean
  <1> QED
    BY <1>4, <1>5, <1>6, <1>7, <1>8, <1>9

\* The steps of rollbackPut keep the reference invariant.
LEMMA RollbackRefs ==
  ASSUME TypeInv, ReferencesInv, LostReplies = FALSE, NEW p \in Procs, RollbackStep(p)
  PROVE  ReferencesInv'
  <1> DEFINE h == req[p].hash
  <1>0. pc[p] # "idle" /\ pc[p] \in RollbackCalls
    BY DEF RollbackStep, RollbackLayout, RollbackUnstage, RollbackRestore, RollbackRef,
           RollbackRefBlob, RollbackBlob, RollbackCalls
  <1>1. /\ req[p] \in Requests /\ NothingExpired
        /\ req[p].op = "put" /\ req[p].obj \in Objects /\ h \in Hashes
    BY <1>0, Facts DEF ShapeOf
  <1>2. ASSUME UNCHANGED metaVars
        PROVE  NothingExpired' /\ UNCHANGED <<objects, refCount>>
    BY <1>1, <1>2, StagedUnchanged
  <1>3. ASSUME NEW l \in RollbackCalls
        PROVE  l # "idle" /\ \A r : r.op = "put" => Remembers(l, r)
    BY <1>3 DEF Remembers, PutCalls, RollbackCalls
  <1>4. /\ "rb_unstage" \in RollbackCalls /\ "rb_restore" \in RollbackCalls /\ "rb_ref" \in RollbackCalls
        /\ "rb_refblob" \in RollbackCalls /\ "rb_blob" \in RollbackCalls
    BY DEF RollbackCalls
  <1>5. ASSUME NEW l \in {"rb_unstage", "rb_restore", "rb_ref"},
               pc[p] \in {"rb_layout", "rb_unstage", "rb_restore"},
               Goto(p, l) \/ Fail(p, l), NothingExpired', UNCHANGED <<objects, refCount>>
        PROVE  ReferencesInv'
    <2>1. \A g : HeldAt(l, req[p], g) => HeldAt(pc[p], req[p], g)
      BY <1>5 DEF HeldAt
    <2> QED
      BY <1>0, <1>1, <1>3, <1>4, <1>5, <2>1, OnGoto
  <1>6. ASSUME Goto(p, "rb_blob") \/ Fail(p, "rb_blob"), NothingExpired', UNCHANGED <<objects, refCount>>
        PROVE  ReferencesInv'
    <2>1. \A g : ~HeldAt("rb_blob", req[p], g)
      BY DEF HeldAt
    <2> QED
      BY <1>0, <1>1, <1>3, <1>4, <1>6, <2>1, OnGoto
  <1>7. CASE RollbackLayout(p)
    BY <1>2, <1>5, <1>7 DEF RollbackLayout
  <1>8. CASE RollbackUnstage(p)
    BY <1>1, <1>2, <1>5, <1>8, UnstageKeeps DEF RollbackUnstage, FailClean, FailCommand
  <1>9. CASE RollbackRestore(p)
    BY <1>2, <1>5, <1>9 DEF RollbackRestore
  <1>10. CASE RollbackRef(p)
    <2>1. CASE UNCHANGED metaVars /\ (Goto(p, "rb_blob") \/ Fail(p, "rb_blob"))
      BY <1>2, <1>6, <2>1
    <2> DEFINE r == [req[p] EXCEPT !.relDir = refPath[h]]
    <2>2. CASE /\ req[p].mut # "unchanged" /\ DecreaseBlobRef(h)
               /\ Enter(p, "rb_refblob", r) \/ Goto(p, "rb_blob")
      <3>1. SameRequest(r, req[p]) /\ r.op = "put"
        BY <1>1 DEF SameRequest, Requests
      <3>2. HeldAt(pc[p], req[p], h)
        BY <1>10, <2>2 DEF RollbackRef, HeldAt
      <3>3. UNCHANGED objects /\ NothingExpired'
        BY <1>1, <2>2 DEF DecreaseBlobRef, NothingExpired
      <3> HIDE DEF r
      <3>4. Frame(p) /\ pc'[p] \in {"rb_refblob", "rb_blob"} /\ req'[p].op = "put"
        BY <1>0, <1>1, <2>2, <3>1, EnterFrame, GotoFrame
      <3>5. \A g : ~HeldAt(pc'[p], req'[p], g)
        BY <3>4 DEF HeldAt
      <3>6. Remembers(pc[p], req[p])'
        BY <3>4 DEF Remembers, PutCalls
      <3> QED
        BY <1>1, <2>2, <3>2, <3>3, <3>4, <3>5, <3>6, GiveBackStep
    <2> QED
      BY <1>10, <2>1, <2>2 DEF RollbackRef, FailCommand
  <1>11. CASE RollbackRefBlob(p)
    BY <1>2, <1>6, <1>11 DEF RollbackRefBlob, FailClean
  <1>12. CASE RollbackBlob(p)
    BY <1>0, <1>2, <1>12, EndStep DEF RollbackBlob
  <1> QED
    BY <1>7, <1>8, <1>9, <1>10, <1>11, <1>12 DEF RollbackStep

(***************************************************************************)
(* DeleteObject, DeleteBucket and GetObject                                 *)
(***************************************************************************)
LEMMA DeleteRefs ==
  ASSUME TypeInv, ReferencesInv, LostReplies = FALSE, NEW p \in Procs, DeleteStep(p)
  PROVE  ReferencesInv'
  <1> DEFINE o == req[p].obj
             h == req[p].rel
  <1>0. pc[p] # "idle" /\ pc[p] \in DeleteCalls \cup BucketCalls
    BY DEF DeleteStep, DeleteLoad, DeleteMeta, DeleteLayout, ReleaseRef, ReleaseBlob, BucketList,
           BucketNextObject, BucketDrop, DeleteCalls, BucketCalls
  <1>1. req[p] \in Requests /\ ShapeOf(pc[p], req[p]) /\ Remembers(pc[p], req[p]) /\ NothingExpired
    BY <1>0, Facts
  <1>a. req[p].op \in {"put", "delete", "bucket"}
    BY <1>0, <1>1 DEF ShapeOf, Remembers, DeleteCalls, BucketCalls
  <1>2. ASSUME UNCHANGED metaVars
        PROVE  NothingExpired' /\ UNCHANGED <<objects, refCount>>
    BY <1>1, <1>2, StagedUnchanged
  <1>3. /\ Remembers("bkt_next", req[p]) /\ Remembers("del_layout", req[p])
        /\ Remembers("rel_ref", req[p]) /\ Remembers("rel_blob", req[p])
    BY <1>1, <1>a DEF Remembers, PutCalls
  <1>4. \A r, g : ~HeldAt("bkt_next", r, g) /\ ~HeldAt("rel_blob", r, g) /\ ~HeldAt("idle", r, g)
                  /\ ~HeldAt("del_load", r, g) /\ ~HeldAt("del_meta", r, g)
    BY DEF HeldAt
  <1>5. AfterRelease(p) \in {"bkt_next", "idle"}
    BY <1>a DEF AfterRelease
  <1>6. CASE DeleteLoad(p)
    <2> DEFINE r == [req[p] EXCEPT !.rel = objects[o], !.layErr = FALSE]
    <2>1. pc[p] = "del_load" /\ UNCHANGED metaVars
      BY <1>6 DEF DeleteLoad, FailClean
    <2>2. /\ SameRequest(r, req[p]) /\ r.rel = objects[o] /\ r.obj = o /\ r.op = req[p].op
          /\ r.bkt = req[p].bkt /\ r.todo = req[p].todo
      BY <1>1 DEF SameRequest, Requests
    <2> HIDE DEF r
    <2>3. Remembers("del_meta", r)
      BY <1>1, <1>a, <2>1, <2>2 DEF Remembers, PutCalls
    <2>4. \/ Goto(p, "bkt_next") \/ Goto(p, "idle") \/ Fail(p, "idle")
          \/ Enter(p, "del_meta", r)
      BY <1>6 DEF DeleteLoad, FailClean, r
    <2> QED
      BY <1>0, <1>2, <1>3, <1>4, <2>1, <2>2, <2>3, <2>4, EndStep, OnGoto, OnStep
  <1>7. CASE DeleteMeta(p)
    <2>1. /\ pc[p] = "del_meta" /\ o \in Objects /\ h \in Hashes /\ objects[o] = h
          /\ req[p].op \in {"delete", "bucket"} /\ (req[p].op = "bucket" => BucketOf[o] = req[p].bkt)
      BY <1>1, <1>7 DEF DeleteMeta, ShapeOf, Remembers
    <2>2. CASE UNCHANGED metaVars /\ Fail(p, "idle")
      BY <1>0, <1>2, <2>2, EndStep
    <2>3. CASE DeleteObjectMeta(o) /\ Goto(p, "del_layout")
      <3>1. Frame(p) /\ pc'[p] = "del_layout" /\ req'[p] = req[p]
        BY <1>0, <2>3, GotoFrame
      <3>2. /\ refCount' = refCount /\ NothingExpired'
            /\ objects'[o] = None /\ \A q \in Objects \ {o} : objects'[q] = objects[q]
        BY <1>1, <2>1, <2>3 DEF DeleteObjectMeta, NothingExpired, TypeInv, MetaOK, MetaType
      <3>3. o \in Touches(p)
        BY <1>0, <2>1, TouchesTouchedAt DEF TouchedAt
      <3>4. Remembers(pc[p], req[p])'
        BY <1>3, <3>1 DEF Remembers, PutCalls
      <3>5. ASSUME NEW g \in Hashes
            PROVE  Cardinality(Claims(g)') <= refCount'[g]
        <4>0. None # g
          BY ObjectsAssumption
        <4>1. /\ Claims(g)' \subseteq (Claims(g) \ {o}) \cup {p}
              /\ ~HeldAt(pc'[p], req'[p], g) => Claims(g)' \subseteq Claims(g)
          BY <2>1, <3>1, <3>2, <4>0, ClaimsIfWritten
        <4>2. CASE g = h
          <5>1. o \in Claims(g)
            BY <2>1, <4>2 DEF Claims
          <5>2. Cardinality(Claims(g)') <= Cardinality(Claims(g))
            BY <4>1, <5>1, ClaimsFinite, CountSwap
          <5> QED
            BY <3>2, <5>2, Covered
        <4>3. CASE g # h
          <5>1. ~HeldAt(pc'[p], req'[p], g)
            BY <3>1, <4>3 DEF HeldAt
          <5>2. Cardinality(Claims(g)') <= Cardinality(Claims(g))
            BY <4>1, <5>1, ClaimsFinite, CountSubset
          <5> QED
            BY <3>2, <5>2, Covered
        <4> QED
          BY <4>2, <4>3
      <3> QED
        BY <3>1, <3>2, <3>3, <3>4, <3>5, CountStep
    <2> QED
      BY <1>7, <2>2, <2>3 DEF DeleteMeta, FailClean, FailCommand
  <1>8. CASE DeleteLayout(p)
    <2>1. \A g : HeldAt("rel_ref", req[p], g) => HeldAt(pc[p], req[p], g)
      BY <1>8 DEF DeleteLayout, HeldAt
    <2>2. UNCHANGED metaVars
      BY <1>8 DEF DeleteLayout
    <2>3. CASE Goto(p, "rel_ref")
      BY <1>0, <1>2, <1>3, <2>1, <2>2, <2>3, OnGoto
    <2>4. CASE ~Goto(p, "rel_ref")
      <3> DEFINE r == [req[p] EXCEPT !.layErr = TRUE]
      <3>1. pc' = [pc EXCEPT ![p] = "rel_ref"] /\ req' = [req EXCEPT ![p] = r]
        BY <1>8, <2>4 DEF DeleteLayout
      <3>2. SameRequest(r, req[p]) /\ r.rel = h /\ r.op = req[p].op /\ r.bkt = req[p].bkt
            /\ r.todo = req[p].todo /\ r.obj = o /\ r.mut = req[p].mut /\ r.hash = req[p].hash
        BY <1>1 DEF SameRequest, Requests
      <3> HIDE DEF r
      <3>3. /\ pc'[p] = "rel_ref" /\ req'[p] = r
            /\ \A q \in Procs \ {p} : pc'[q] = pc[q] /\ req'[q] = req[q]
        BY <3>1 DEF TypeInv, ControlOK, ControlType
      <3>4. Touches(p)' \subseteq Touches(p)
        BY <1>0, <3>2, <3>3, TouchesTouchedAt DEF TouchedAt, SameRequest
      <3>5. Frame(p)
        BY <3>3, <3>4 DEF Frame
      <3>6. Remembers("rel_ref", r)
        BY <1>1, <1>a, <3>2 DEF Remembers, PutCalls
      <3>7. \A g : HeldAt("rel_ref", r, g) => HeldAt("rel_ref", req[p], g)
        BY <3>2 DEF HeldAt
      <3> QED
        BY <1>2, <2>1, <2>2, <3>3, <3>5, <3>6, <3>7, QuietStep
    <2> QED
      BY <2>3, <2>4
  <1>9. CASE ReleaseRef(p)
    <2> DEFINE r == [req[p] EXCEPT !.relDir = refPath[h]]
    <2>1. pc[p] = "rel_ref" /\ h \in Hashes /\ HeldAt(pc[p], req[p], h)
      BY <1>1, <1>9 DEF ReleaseRef, ShapeOf, HeldAt
    <2>2. SameRequest(r, req[p]) /\ r.op = req[p].op /\ r.bkt = req[p].bkt
          /\ r.todo = req[p].todo /\ r.obj = o /\ r.mut = req[p].mut
      BY <1>1 DEF SameRequest, Requests
    <2> HIDE DEF r
    <2>3. CASE UNCHANGED metaVars /\ Fail(p, "idle")
      BY <1>0, <1>2, <2>3, EndStep
    <2>4. CASE DecreaseBlobRef(h) /\ (Enter(p, "rel_blob", r) \/ Goto(p, AfterRelease(p)))
      <3>1. UNCHANGED objects /\ NothingExpired'
        BY <1>1, <2>4 DEF DecreaseBlobRef, NothingExpired
      <3>2. /\ Frame(p) /\ pc'[p] \in {"rel_blob", "bkt_next", "idle"}
            /\ pc'[p] = "rel_blob" => req'[p] = r
            /\ pc'[p] = "bkt_next" => req'[p] = req[p]
        BY <1>0, <1>5, <2>2, <2>4, EnterFrame, GotoFrame
      <3>3. \A g : ~HeldAt(pc'[p], req'[p], g)
        BY <1>4, <3>2
      <3>4. Remembers("rel_blob", r)
        BY <1>1, <1>a, <2>2 DEF Remembers, PutCalls
      <3>5. pc'[p] # "idle" => Remembers(pc[p], req[p])'
        BY <1>3, <3>1, <3>2, <3>4 DEF Remembers
      <3> QED
        BY <2>1, <2>4, <3>1, <3>2, <3>3, <3>5, GiveBackStep
    <2> QED
      BY <1>9, <2>3, <2>4 DEF ReleaseRef, FailClean, FailCommand, r
  <1>10. CASE ReleaseBlob(p)
    <2>1. UNCHANGED metaVars /\ (Goto(p, AfterRelease(p)) \/ Fail(p, "idle"))
      BY <1>10 DEF ReleaseBlob, FailClean
    <2> QED
      BY <1>0, <1>2, <1>3, <1>4, <1>5, <2>1, EndStep, OnGoto
  <1>11. CASE BucketList(p)
    <2> DEFINE t == {q \in Objects : BucketOf[q] = req[p].bkt /\ objects[q] # None}
               r == [req[p] EXCEPT !.todo = t]
    <2>1. UNCHANGED metaVars /\ pc[p] = "bkt_list" /\ req[p].op = "bucket"
      BY <1>1, <1>11 DEF BucketList, FailClean, ShapeOf, BucketCalls
    <2>2. \A q \in t : BucketOf[q] = req[p].bkt
      OBVIOUS
    <2> HIDE DEF t
    <2>3. SameRequest(r, req[p]) /\ r.todo = t /\ r.op = "bucket" /\ r.bkt = req[p].bkt
      BY <1>1, <2>1 DEF SameRequest, Requests
    <2> HIDE DEF r
    <2>4. Remembers("bkt_next", r)
      BY <2>2, <2>3 DEF Remembers, PutCalls
    <2>5. Enter(p, "bkt_next", r) \/ Goto(p, "idle") \/ Fail(p, "idle")
      BY <1>11 DEF BucketList, FailClean, r, t
    <2> QED
      BY <1>0, <1>2, <1>4, <2>1, <2>3, <2>4, <2>5, EndStep, OnStep
  <1>12. CASE BucketNextObject(p)
    <2>1. PICK q \in req[p].todo : Enter(p, "del_load", [req[p] EXCEPT !.obj = q, !.todo = @ \ {q}])
      BY <1>12 DEF BucketNextObject
    <2> DEFINE r == [req[p] EXCEPT !.obj = q, !.todo = @ \ {q}]
    <2>2. UNCHANGED metaVars /\ req[p].op = "bucket" /\ BucketOf[q] = req[p].bkt
      BY <1>1, <1>12 DEF BucketNextObject, ShapeOf, BucketCalls, Remembers
    <2>3. SameRequest(r, req[p]) /\ r.todo = req[p].todo \ {q} /\ r.op = "bucket" /\ r.bkt = req[p].bkt /\ r.obj = q
      BY <1>1, <2>2 DEF SameRequest, Requests
    <2> HIDE DEF r
    <2>4. Remembers("del_load", r)
      BY <1>1, <2>2, <2>3 DEF Remembers, PutCalls
    <2> QED
      BY <1>0, <1>2, <1>4, <2>1, <2>2, <2>3, <2>4, OnStep DEF r
  <1>13. CASE BucketDrop(p)
    <2>1. CASE UNCHANGED metaVars
      BY <1>0, <1>2, <1>13, <2>1, EndStep DEF BucketDrop, FailCommand
    <2>2. CASE DeleteBucketMeta(req[p].bkt) /\ Goto(p, "idle")
      <3>1. Frame(p) /\ pc'[p] = "idle"
        BY <1>0, <2>2, GotoFrame
      <3>2. req[p].op = "bucket"
        BY <1>1, <1>13 DEF BucketDrop, ShapeOf, BucketCalls
      <3>3. \A q \in Objects : objects'[q] = IF BucketOf[q] = req[p].bkt THEN None ELSE objects[q]
        BY <2>2 DEF DeleteBucketMeta
      <3>4. \A q \in Objects \ Touches(p) : objects'[q] = objects[q]
        BY <1>0, <3>2, <3>3, TouchesTouchedAt DEF TouchedAt
      <3>5. NothingExpired' /\ refCount' = refCount
        BY <1>1, <2>2 DEF DeleteBucketMeta, NothingExpired, NoIntent
      <3>6. ASSUME NEW g \in Hashes
            PROVE  Cardinality(Claims(g)') <= refCount'[g]
        <4>0. \A q \in Objects : objects'[q] = g => objects[q] = g
          BY <3>3, ObjectsAssumption
        <4>1. \A q \in Procs : Holds(q, g)' => Holds(q, g)
          BY <1>4, <3>1, HoldsHeldAt DEF Frame
        <4>2. Claims(g)' \subseteq Claims(g)
          BY <4>0, <4>1 DEF Claims
        <4>3. Cardinality(Claims(g)') <= Cardinality(Claims(g))
          BY <4>2, ClaimsFinite, CountSubset
        <4> QED
          BY <3>5, <4>3, Covered
      <3> QED
        BY <3>1, <3>4, <3>5, <3>6, CountStep
    <2> QED
      BY <1>13, <2>1, <2>2 DEF BucketDrop, FailCommand
  <1> QED
    BY <1>6, <1>7, <1>8, <1>9, <1>10, <1>11, <1>12, <1>13 DEF DeleteStep

\* The steps of GetObject keep the reference invariant.
LEMMA GetRefs ==
  ASSUME TypeInv, ReferencesInv, NEW p \in Procs, GetStep(p)
  PROVE  ReferencesInv'
  <1>0. pc[p] # "idle" /\ pc[p] \in GetCalls
    BY DEF GetStep, GetMeta, GetData, GetCacheLayout, GetCalls
  <1>1. req[p] \in Requests /\ req[p].op = "get" /\ NothingExpired
    BY <1>0, Facts DEF ShapeOf
  <1>2. UNCHANGED metaVars
    BY DEF GetStep, GetMeta, GetData, GetCacheLayout, FailClean
  <1>3. NothingExpired' /\ UNCHANGED <<objects, refCount>>
    BY <1>1, <1>2, StagedUnchanged
  <1>4. ASSUME NEW l \in {"idle", "get_data", "get_cache"}, NEW r, r.op = "get", SameRequest(r, req[p]), Enter(p, l, r)
        PROVE  ReferencesInv'
    <2>1. Remembers(l, r) /\ \A h : ~HeldAt(l, r, h) /\ ~HeldAt("idle", NoReq, h)
      BY <1>4 DEF Remembers, HeldAt, PutCalls
    <2>2. Frame(p) /\ pc'[p] = l /\ req'[p] = IF l = "idle" THEN NoReq ELSE r
      BY <1>0, <1>4, EnterFrame
    <2> QED
      BY <1>3, <2>1, <2>2, QuietStep
  <1>5. CASE Goto(p, "idle") \/ Fail(p, "idle")
    BY <1>0, <1>3, <1>5, EndStep
  <1>6. CASE GetMeta(p)
    <2> DEFINE r == [req[p] EXCEPT !.hash = objects[req[p].obj]]
    <2>1. SameRequest(r, req[p]) /\ r.op = "get"
      BY <1>1 DEF SameRequest, Requests
    <2>2. \/ Enter(p, "idle", r) \/ Enter(p, "get_data", r) \/ Fail(p, "idle")
      BY <1>6 DEF GetMeta, FailClean
    <2> HIDE DEF r
    <2> QED
      BY <1>4, <1>5, <2>1, <2>2
  <1>7. CASE GetData(p)
    <2> DEFINE l == GetLayout(req[p].obj)
               r == [req[p] EXCEPT !.dir = l.dir, !.hash = l.hash]
    <2> HIDE DEF l
    <2>1. SameRequest(r, req[p]) /\ r.op = "get"
      BY <1>1 DEF SameRequest, Requests
    <2>2. Goto(p, "idle") \/ Enter(p, "get_cache", r) \/ Fail(p, "idle")
      BY <1>7 DEF GetData, FailClean, l
    <2> HIDE DEF r
    <2> QED
      BY <1>4, <1>5, <2>1, <2>2
  <1>8. CASE GetCacheLayout(p)
    BY <1>5, <1>8 DEF GetCacheLayout
  <1> QED
    BY <1>6, <1>7, <1>8 DEF GetStep

(***************************************************************************)
(* Recover: nothing has expired, so it lists nothing to undo and sweeps     *)
(***************************************************************************)
LEMMA RecoverRefs ==
  ASSUME TypeInv, ReferencesInv, LostReplies = FALSE, NEW p \in Procs, RecoverStep(p)
  PROVE  ReferencesInv'
  <1> DEFINE sweep == {"rec_list", "rec_next", "rec_refs", "rec_staged", "rec_local", "rec_sweep"}
  <1>0. pc[p] # "idle" /\ pc[p] \in RecoverCalls
    BY DEF RecoverStep, RecoverListStaged, RecoverNextPending, RecoverPendingDone, RecoverLayout,
           RecoverCommittedRef, RecoverLink, RecoverUnlink, RecoverCheckRelease, RecoverUnstage,
           RecoverListRefs, RecoverListPending, RecoverListLocal, RecoverSweep, RecoverDone, RecoverCalls
  <1>1. /\ req[p] \in Requests /\ req[p].op \in {"recover", "boot"} /\ NothingExpired
        /\ req[p].todo = {} /\ pc[p] \in sweep
    BY <1>0, Facts DEF ShapeOf, Remembers
  <1>2. \/ RecoverListStaged(p) \/ RecoverPendingDone(p) \/ RecoverListRefs(p)
        \/ RecoverListPending(p) \/ RecoverListLocal(p) \/ RecoverSweep(p) \/ RecoverDone(p)
    BY <1>1 DEF RecoverStep, RecoverNextPending, RecoverLayout, RecoverCommittedRef, RecoverLink,
                RecoverUnlink, RecoverCheckRelease, RecoverUnstage
  <1>3. UNCHANGED metaVars
    BY <1>2 DEF RecoverListStaged, RecoverPendingDone, RecoverListRefs, RecoverListPending,
                RecoverListLocal, RecoverSweep, RecoverDone, FailClean, FailCommand
  <1>4. NothingExpired' /\ UNCHANGED <<objects, refCount>>
    BY <1>1, <1>3, StagedUnchanged
  <1>5. ASSUME NEW l \in sweep, NEW r, r.op = req[p].op, r.bkt = req[p].bkt, r.todo = {}, Enter(p, l, r)
        PROVE  ReferencesInv'
    <2>1. Remembers(l, r) /\ SameRequest(r, req[p]) /\ l # "idle" /\ \A h : ~HeldAt(l, r, h)
      BY <1>1, <1>5 DEF Remembers, HeldAt, SameRequest, PutCalls
    <2> QED
      BY <1>0, <1>4, <1>5, <2>1, OnStep
  <1>6. CASE Goto(p, "idle") \/ Fail(p, "idle")
    BY <1>0, <1>4, <1>6, EndStep
  <1>7. CASE RecoverListStaged(p)
    <2> DEFINE t == {q \in Objects : staged[q].old}
               r == [req[p] EXCEPT !.snap = staged, !.todo = t]
    <2>1. t = {}
      BY <1>1 DEF NothingExpired
    <2> HIDE DEF t
    <2>2. r.op = req[p].op /\ r.bkt = req[p].bkt /\ r.todo = t
      BY <1>1 DEF Requests
    <2> HIDE DEF r
    <2> QED
      BY <1>5, <1>6, <1>7, <2>1, <2>2 DEF RecoverListStaged, FailClean, r, t
  <1>8. CASE RecoverPendingDone(p)
    BY <1>1, <1>5, <1>8 DEF RecoverPendingDone, Goto
  <1>9. ASSUME NEW t, NEW u
        PROVE  /\ [req[p] EXCEPT !.live = t].op = req[p].op
               /\ [req[p] EXCEPT !.live = t].bkt = req[p].bkt
               /\ [req[p] EXCEPT !.live = t].todo = {}
               /\ [req[p] EXCEPT !.sets = t].op = req[p].op
               /\ [req[p] EXCEPT !.sets = t].bkt = req[p].bkt
               /\ [req[p] EXCEPT !.sets = t].todo = {}
               /\ [req[p] EXCEPT !.sets = t, !.live = u].op = req[p].op
               /\ [req[p] EXCEPT !.sets = t, !.live = u].bkt = req[p].bkt
               /\ [req[p] EXCEPT !.sets = t, !.live = u].todo = {}
    BY <1>1 DEF Requests
  <1>10. CASE RecoverListRefs(p)
    <2> DEFINE t == {<<refPath[h], h>> : h \in {g \in Hashes : refCount[g] > 0}}
               r == [req[p] EXCEPT !.live = t]
    <2>1. Enter(p, "rec_staged", r) \/ Fail(p, "idle")
      BY <1>10 DEF RecoverListRefs, FailClean
    <2> HIDE DEF t
    <2>2. r.op = req[p].op /\ r.bkt = req[p].bkt /\ r.todo = {}
      BY <1>9
    <2> HIDE DEF r
    <2> QED
      BY <1>5, <1>6, <2>1, <2>2
  <1>11. CASE RecoverListPending(p)
    <2> DEFINE t == req[p].live \cup PendingShardSets
               r == [req[p] EXCEPT !.live = t]
    <2>1. Enter(p, "rec_local", r) \/ Fail(p, "idle")
      BY <1>11 DEF RecoverListPending, FailClean
    <2> HIDE DEF t
    <2>2. r.op = req[p].op /\ r.bkt = req[p].bkt /\ r.todo = {}
      BY <1>9
    <2> HIDE DEF r
    <2> QED
      BY <1>5, <1>6, <2>1, <2>2
  <1>12. CASE RecoverListLocal(p)
    <2> DEFINE t == {s \in ShardSets : shards[s[1]][s[2]] # "none"} \ req[p].live
               r == [req[p] EXCEPT !.sets = t, !.live = {}]
    <2>1. Enter(p, "rec_sweep", r) \/ Fail(p, "idle")
      BY <1>12 DEF RecoverListLocal, FailClean
    <2> HIDE DEF t
    <2>2. r.op = req[p].op /\ r.bkt = req[p].bkt /\ r.todo = {}
      BY <1>9
    <2> HIDE DEF r
    <2> QED
      BY <1>5, <1>6, <2>1, <2>2
  <1>13. CASE RecoverSweep(p)
    <2>1. CASE Fail(p, "idle")
      BY <1>6, <2>1
    <2>2. ASSUME NEW s, Enter(p, "rec_sweep", [req[p] EXCEPT !.sets = @ \ {s}])
          PROVE  ReferencesInv'
      <3> DEFINE t == req[p].sets \ {s}
                 r == [req[p] EXCEPT !.sets = t]
      <3>1. Enter(p, "rec_sweep", r)
        BY <2>2
      <3> HIDE DEF t
      <3>2. r.op = req[p].op /\ r.bkt = req[p].bkt /\ r.todo = {}
        BY <1>9
      <3> HIDE DEF r
      <3> QED
        BY <1>5, <3>1, <3>2
    <2> QED
      BY <1>13, <2>1, <2>2 DEF RecoverSweep, FailClean
  <1>14. CASE RecoverDone(p)
    BY <1>6, <1>14 DEF RecoverDone
  <1> QED
    BY <1>2, <1>7, <1>8, <1>10, <1>11, <1>12, <1>13, <1>14

(***************************************************************************)
(* Requests begin, and the environment                                      *)
(***************************************************************************)
\* A request that begins on objects nobody else touches.
LEMMA BeginRefs ==
  ASSUME TypeInv, ReferencesInv, Contend = FALSE, NEW p \in Procs, NEW objs, MayStart(p, objs),
         NEW l \in {"put_bucket", "del_load", "get_meta", "bkt_list", "rec_list"}, NEW r, Begin(p, l, r),
         TouchedAt(l, r) \subseteq objs, r.todo = {}, r.mut = "unchanged",
         r.op \in {"recover", "boot"} => l = "rec_list",
         r.op = "bucket" => l = "bkt_list"
  PROVE  ReferencesInv'
  <1>1. /\ pc'[p] = l /\ req'[p] = r
        /\ \A q \in Procs \ {p} : pc'[q] = pc[q] /\ req'[q] = req[q]
        /\ UNCHANGED metaVars
    BY DEF Begin, Enter, TypeInv, ControlOK, ControlType
  <1>2. NothingExpired' /\ UNCHANGED <<objects, refCount>>
    BY <1>1, StagedUnchanged DEF ReferencesInv
  <1>3. TouchDisjoint'
    <2>1. Touches(p)' \subseteq objs /\ \A q \in Procs \ {p} : Touches(q)' = Touches(q)
      BY <1>1, TouchesTouchedAt
    <2>2. \A q \in Procs : Touches(q) \cap objs = {}
      BY DEF MayStart
    <2> QED
      BY <2>1, <2>2 DEF TouchDisjoint, ReferencesInv
  <1>4. Remembers(l, r) /\ \A h : ~HeldAt(l, r, h)
    BY DEF Remembers, HeldAt, PutCalls
  <1>5. \A q \in Procs : pc'[q] # "idle" => Remembers(pc[q], req[q])'
    BY <1>1, <1>2, <1>4 DEF ReferencesInv, Remembers
  <1>6. ASSUME NEW h \in Hashes
        PROVE  Cardinality(Claims(h)') <= refCount'[h]
    <2>1. \A q \in Procs : Holds(q, h)' => Holds(q, h)
      BY <1>1, <1>4, HoldsHeldAt
    <2>2. Claims(h)' \subseteq Claims(h)
      BY <1>2, <2>1 DEF Claims
    <2>3. Cardinality(Claims(h)') <= Cardinality(Claims(h))
      BY <2>2, ClaimsFinite, CountSubset
    <2> QED
      BY <1>2, <2>3, Covered
  <1> QED
    BY <1>2, <1>3, <1>5, <1>6 DEF ReferencesInv, ClaimsCovered

\* A request that begins, touching what no other request touches, keeps the
\* reference invariant.
LEMMA StartRefs ==
  ASSUME TypeInv, ReferencesInv, Contend = FALSE, NEW p \in Procs, StartRequest(p)
  PROVE  ReferencesInv'
  <1>a. NoReq \in Requests /\ NoReq.todo = {} /\ NoReq.mut = "unchanged"
    BY NoReqType DEF NoReq
  <1>1. CASE PutObject(p)
    <2>1. PICK o \in Objects, h \in Hashes :
            /\ MayStart(p, {o})
            /\ Begin(p, "put_bucket", [NoReq EXCEPT !.op = "put", !.obj = o, !.hash = h])
      BY <1>1 DEF PutObject
    <2> DEFINE r == [NoReq EXCEPT !.op = "put", !.obj = o, !.hash = h]
    <2>2. r.op = "put" /\ r.obj = o /\ r.todo = {} /\ r.mut = "unchanged"
      BY DEF NoReq
    <2> HIDE DEF r
    <2>3. TouchedAt("put_bucket", r) \subseteq {o}
      BY <2>2 DEF TouchedAt
    <2> QED
      BY <2>1, <2>2, <2>3, BeginRefs DEF r
  <1>2. CASE DeleteObject(p)
    <2>1. PICK o \in Objects :
            /\ MayStart(p, {o})
            /\ Begin(p, "del_load", [NoReq EXCEPT !.op = "delete", !.obj = o])
      BY <1>2 DEF DeleteObject
    <2> DEFINE r == [NoReq EXCEPT !.op = "delete", !.obj = o]
    <2>2. r.op = "delete" /\ r.obj = o /\ r.todo = {} /\ r.mut = "unchanged"
      BY DEF NoReq
    <2> HIDE DEF r
    <2>3. TouchedAt("del_load", r) \subseteq {o}
      BY <2>2 DEF TouchedAt
    <2> QED
      BY <2>1, <2>2, <2>3, BeginRefs DEF r
  <1>3. CASE GetObject(p)
    <2>1. PICK o \in Objects :
            /\ MayStart(p, {o})
            /\ Begin(p, "get_meta", [NoReq EXCEPT !.op = "get", !.obj = o])
      BY <1>3 DEF GetObject
    <2> DEFINE r == [NoReq EXCEPT !.op = "get", !.obj = o]
    <2>2. r.op = "get" /\ r.obj = o /\ r.todo = {} /\ r.mut = "unchanged"
      BY DEF NoReq
    <2> HIDE DEF r
    <2>3. TouchedAt("get_meta", r) \subseteq {o}
      BY <2>2 DEF TouchedAt
    <2> QED
      BY <2>1, <2>2, <2>3, BeginRefs DEF r
  <1>4. CASE DeleteBucket(p)
    <2>1. PICK b \in Buckets :
            /\ MayStart(p, {o \in Objects : BucketOf[o] = b})
            /\ Begin(p, "bkt_list", [NoReq EXCEPT !.op = "bucket", !.bkt = b])
      BY <1>4 DEF DeleteBucket
    <2> DEFINE r == [NoReq EXCEPT !.op = "bucket", !.bkt = b]
               objs == {o \in Objects : BucketOf[o] = b}
    <2>2. r.op = "bucket" /\ r.bkt = b /\ r.todo = {} /\ r.mut = "unchanged"
      BY DEF NoReq
    <2> HIDE DEF r
    <2>3. TouchedAt("bkt_list", r) \subseteq objs
      BY <2>2 DEF TouchedAt
    <2>4. MayStart(p, objs) /\ Begin(p, "bkt_list", r)
      BY <2>1 DEF r
    <2> HIDE DEF objs
    <2> QED
      BY <2>2, <2>3, <2>4, BeginRefs
  <1>5. CASE Recover(p)
    <2> DEFINE r == [NoReq EXCEPT !.op = "recover"]
    <2>1. MayStart(p, Objects) /\ Begin(p, "rec_list", r)
      BY <1>5 DEF Recover
    <2>2. r.op = "recover" /\ r.todo = {} /\ r.mut = "unchanged"
      BY DEF NoReq
    <2> HIDE DEF r
    <2>3. TouchedAt("rec_list", r) \subseteq Objects
      BY <2>2 DEF TouchedAt
    <2> QED
      BY <2>1, <2>2, <2>3, BeginRefs
  <1> QED
    BY <1>1, <1>2, <1>3, <1>4, <1>5 DEF StartRequest

\* A restart ends every request: references they held leak, none is lost.
LEMMA RestartRefs ==
  ASSUME TypeInv, ReferencesInv, Restart
  PROVE  ReferencesInv'
  <1>1. PICK p \in Procs :
          /\ pc' = [q \in Procs |-> IF q = p THEN "rec_list" ELSE "idle"]
          /\ req' = [q \in Procs |-> IF q = p THEN [NoReq EXCEPT !.op = "boot"] ELSE NoReq]
    BY DEF Restart
  <1> DEFINE r == [NoReq EXCEPT !.op = "boot"]
  <1>2. r.op = "boot" /\ r.todo = {}
    BY DEF NoReq
  <1>3. /\ pc'[p] = "rec_list" /\ req'[p] = r
        /\ \A q \in Procs \ {p} : pc'[q] = "idle"
    BY <1>1
  <1> HIDE DEF r
  <1>4. NothingExpired' /\ UNCHANGED <<objects, refCount>>
    BY StagedUnchanged DEF Restart, ReferencesInv
  <1>5. \A q \in Procs \ {p} : Touches(q)' = {}
    BY <1>3, TouchesTouchedAt DEF TouchedAt
  <1>6. TouchDisjoint'
    BY <1>5 DEF TouchDisjoint
  <1>7. \A q \in Procs : pc'[q] # "idle" => Remembers(pc[q], req[q])'
    BY <1>2, <1>3 DEF Remembers, PutCalls
  <1>8. ASSUME NEW h \in Hashes
        PROVE  Cardinality(Claims(h)') <= refCount'[h]
    <2>1. \A q \in Procs : ~HeldAt(pc'[q], req'[q], h)
      BY <1>3 DEF HeldAt
    <2>2. \A q \in Procs : ~Holds(q, h)'
      BY <2>1, HoldsHeldAt
    <2>3. Claims(h)' \subseteq Claims(h)
      BY <1>4, <2>2 DEF Claims
    <2>4. Cardinality(Claims(h)') <= Cardinality(Claims(h))
      BY <2>3, ClaimsFinite, CountSubset
    <2> QED
      BY <1>4, <2>4, Covered
  <1> QED
    BY <1>4, <1>6, <1>7, <1>8 DEF ReferencesInv, ClaimsCovered

\* A step that changes neither requests nor metadata that is counted.
LEMMA IdleStepRefs ==
  ASSUME TypeInv, ReferencesInv, CreateBucket \/ UNCHANGED vars
  PROVE  ReferencesInv'
  <1>1. UNCHANGED <<objects, staged, refCount, pc, req>>
    BY DEF CreateBucket, vars, metaVars
  <1>2. \A p \in Procs : Touches(p)' = Touches(p)
    BY <1>1 DEF Touches
  <1>3. TouchDisjoint'
    BY <1>2 DEF ReferencesInv, TouchDisjoint
  <1>4. NothingExpired'
    BY <1>1 DEF ReferencesInv, NothingExpired
  <1>5. \A p \in Procs : pc'[p] # "idle" => Remembers(pc[p], req[p])'
    <2>1. \A p \in Procs : Remembers(pc[p], req[p])' <=> Remembers(pc[p], req[p])
      BY <1>1 DEF Remembers
    <2> QED
      BY <1>1, <2>1 DEF ReferencesInv
  <1>6. \A h \in Hashes : Claims(h)' = Claims(h) /\ refCount'[h] = refCount[h]
    BY <1>1 DEF Claims, Holds
  <1>7. ClaimsCovered'
    BY <1>6 DEF ReferencesInv, ClaimsCovered
  <1> QED
    BY <1>3, <1>4, <1>5, <1>7 DEF ReferencesInv

\* No staged write expires when MaxElapses is 0.
LEMMA NoElapse == TypeInv /\ MaxElapses = 0 => ~Elapse
  BY DEF TypeInv, ControlOK, ControlType, Elapse

\* The reference invariant is inductive.
LEMMA NextRefs ==
  ASSUME Contend = FALSE, MaxElapses = 0, LostReplies = FALSE
  PROVE  TypeInv /\ ReferencesInv /\ [Next]_vars => ReferencesInv'
  <1> SUFFICES ASSUME TypeInv, ReferencesInv, [Next]_vars
               PROVE  ReferencesInv'
    OBVIOUS
  <1>1. ASSUME NEW p \in Procs, Work(p)
        PROVE  ReferencesInv'
    <2>1. CASE PutStep(p)
      BY <2>1, PutEarlyRefs, PutLateRefs DEF PutStep
    <2> QED
      BY <1>1, <2>1, RollbackRefs, DeleteRefs, GetRefs, RecoverRefs DEF Work
  <1> QED
    BY <1>1, StartRefs, RestartRefs, IdleStepRefs, NoElapse DEF Next

\* Nothing is referenced at first.
LEMMA InitRefs == Init => ReferencesInv
  <1> SUFFICES ASSUME Init PROVE ReferencesInv
    OBVIOUS
  <1>1. TouchDisjoint /\ NothingExpired
    BY DEF Init, TouchDisjoint, Touches, NothingExpired, NoIntent
  <1>2. \A p \in Procs : pc[p] = "idle"
    BY DEF Init
  <1>3. ASSUME NEW h \in Hashes
        PROVE  Cardinality(Claims(h)) <= refCount[h]
    <2>1. None # h
      BY ObjectsAssumption
    <2>2. Claims(h) = {}
      BY <1>2, <2>1 DEF Init, Claims, Holds
    <2>3. refCount[h] = 0
      BY DEF Init
    <2> QED
      BY <2>2, <2>3, FS_EmptySet
  <1> QED
    BY <1>1, <1>2, <1>3 DEF ReferencesInv, ClaimsCovered

\* Without contention, expiry and lost replies the references of committed
\* objects and of requests on the way are covered by the counts, whatever fails
\* or restarts.
THEOREM ReferencesInvariant ==
  ASSUME Contend = FALSE, MaxElapses = 0, LostReplies = FALSE
  PROVE  Spec => []ReferencesInv
  <1>1. Init => TypeInv /\ ReferencesInv
    BY InitTypeInv, InitRefs
  <1>2. TypeInv /\ ReferencesInv /\ [Next]_vars => (TypeInv /\ ReferencesInv)'
    BY NextType, NextRefs
  <1> QED
    BY <1>1, <1>2, PTL DEF Spec

\* putStagedObject, DeleteObject, DeleteBucket and their rollbacks never leave
\* content with a smaller reference count than it has committed objects, so
\* releaseBlob never deletes shards a committed object needs.
THEOREM ReferencesNeverUndercount ==
  ASSUME Contend = FALSE, MaxElapses = 0, LostReplies = FALSE
  PROVE  Spec => []NoUndercount
  <1>1. TypeInv /\ ReferencesInv => NoUndercount
    <2> SUFFICES ASSUME TypeInv, ReferencesInv, NEW h \in Hashes
                 PROVE  Cardinality({o \in Objects : objects[o] = h}) <= refCount[h]
      BY DEF NoUndercount
    <2> DEFINE S == {o \in Objects : objects[o] = h}
    <2>1. S \subseteq Claims(h)
      BY DEF Claims
    <2>2. IsFiniteSet(S) /\ Cardinality(S) <= Cardinality(Claims(h))
      BY <2>1, ClaimsFinite, FS_Subset
    <2>3. Cardinality(S) \in Nat
      BY <2>2, FS_CardinalityType
    <2> QED
      BY <2>2, <2>3, Covered
  <1> QED
    BY <1>1, TypeInvariant, ReferencesInvariant, PTL

(***************************************************************************)
(* Counts are exact until something fails                                   *)
(***************************************************************************)
\* No call has failed and the process was not killed.
Clean == faults = 0 /\ crashes = 0

Exact == \A h \in Hashes : refCount[h] <= Cardinality(Claims(h))

\* A put that takes a reference of its own replaces other content.  objs are
\* the committed objects: those of a bucket that is being deleted are still
\* on the list of its deletion.
Knows(l, r, objs) ==
    /\ l \in {"put_blob", "put_prepared", "put_link", "put_linked", "put_retain"} /\ ~r.hit => r.ex # r.hash
    /\ l \in {"put_retained", "put_commit"} /\ r.mut # "unchanged" => r.ex # r.hash
    /\ r.op = "bucket" /\ l # "bkt_list" =>
           \A o \in Objects : BucketOf[o] = r.bkt /\ objs[o] # None =>
               o \in r.todo \/ (l \in {"del_load", "del_meta"} /\ o = r.obj)

ExactInv ==
    /\ \A p \in Procs : pc[p] # "idle" => Knows(pc[p], req[p], objects)
    /\ Clean => Exact

\* What another request knows stays true when p writes only what it touches.
LEMMA OthersKnow ==
  ASSUME TypeInv, ReferencesInv, ExactInv, NEW p \in Procs, NEW q \in Procs \ {p}, Frame(p), pc'[q] # "idle",
         \A o \in Objects \ Touches(p) : objects'[o] = objects[o]
  PROVE  Knows(pc'[q], req'[q], objects')
  <1>1. pc'[q] = pc[q] /\ req'[q] = req[q] /\ Knows(pc[q], req[q], objects)
    BY DEF Frame, ExactInv
  <1>2. CASE req[q].op = "bucket"
    <2>1. \A o \in Objects : BucketOf[o] = req[q].bkt => o \in Touches(q)
      BY <1>1, <1>2, TouchesTouchedAt DEF TouchedAt
    <2>2. \A o \in Objects : BucketOf[o] = req[q].bkt => objects'[o] = objects[o]
      BY <2>1 DEF ReferencesInv, TouchDisjoint
    <2> QED
      BY <1>1, <2>2 DEF Knows
  <1>3. CASE req[q].op # "bucket"
    BY <1>1, <1>3 DEF Knows
  <1> QED
    BY <1>2, <1>3

\* A step of one request that leaves the objects of the others alone keeps the
\* counts exact if its own change of count and claims agree.
LEMMA ExactStep ==
  ASSUME TypeInv, ReferencesInv, ExactInv, NEW p \in Procs, Frame(p),
         \A o \in Objects \ Touches(p) : objects'[o] = objects[o],
         pc'[p] # "idle" => Knows(pc'[p], req'[p], objects'),
         Clean' => Clean,
         Clean' /\ Exact => \A h \in Hashes : refCount'[h] <= Cardinality(Claims(h)')
  PROVE  ExactInv'
  <1>1. \A q \in Procs : pc'[q] # "idle" => Knows(pc'[q], req'[q], objects')
    BY OthersKnow
  <1>2. Clean' => Exact'
    BY DEF ExactInv, Exact
  <1> QED
    BY <1>1, <1>2 DEF ExactInv

\* A step of p that drops no claim but p's own.
LEMMA ClaimsStay ==
  ASSUME NEW p \in Procs, Frame(p), NEW h, UNCHANGED objects
  PROVE  /\ Claims(h) \ {p} \subseteq Claims(h)'
         /\ (HeldAt(pc[p], req[p], h) => HeldAt(pc'[p], req'[p], h)) => Claims(h) \subseteq Claims(h)'
         /\ HeldAt(pc'[p], req'[p], h) => p \in Claims(h)'
         /\ p \in Claims(h) <=> HeldAt(pc[p], req[p], h)
  <1>1. \A q \in Procs \ {p} : Holds(q, h) => Holds(q, h)'
    BY HoldsHeldAt DEF Frame
  <1>2. /\ Holds(p, h)' <=> HeldAt(pc'[p], req'[p], h)
        /\ Holds(p, h) <=> HeldAt(pc[p], req[p], h)
    BY HoldsHeldAt
  <1>3. p \notin Objects
    BY FinitenessAssumption
  <1> QED
    BY <1>1, <1>2, <1>3 DEF Claims

\* Claims and counts stay, and the request learns nothing wrong.
LEMMA QuietExact ==
  ASSUME TypeInv, ReferencesInv, ExactInv, NEW p \in Procs, Frame(p), UNCHANGED <<objects, refCount>>,
         pc'[p] # "idle" => Knows(pc'[p], req'[p], objects),
         Clean' => Clean,
         Clean' => \A h \in Hashes : HeldAt(pc[p], req[p], h) => HeldAt(pc'[p], req'[p], h)
  PROVE  ExactInv'
  <1>1. ASSUME Clean', Exact, NEW h \in Hashes
        PROVE  refCount'[h] <= Cardinality(Claims(h)')
    <2>1. Claims(h) \subseteq Claims(h)'
      BY <1>1, ClaimsStay
    <2>2. Cardinality(Claims(h)) <= Cardinality(Claims(h)')
      BY <2>1, ClaimsFinite, CountSubset
    <2>3. refCount[h] <= Cardinality(Claims(h)) /\ refCount[h] \in Nat
      BY <1>1 DEF Exact, TypeInv, MetaOK, MetaType
    <2> QED
      BY <2>2, <2>3, ClaimsFinite
  <1> QED
    BY <1>1, ExactStep

\* A failing call is the end of a clean run.
LEMMA FailDirty ==
  ASSUME TypeInv, NEW p, NEW l, Fail(p, l)
  PROVE  ~Clean'
  BY DEF Fail, Clean, TypeInv, ControlOK, ControlType

\* A call that succeeds leaves a run as clean as it was.
LEMMA EnterClean ==
  ASSUME NEW p, NEW l, NEW r, Enter(p, l, r)
  PROVE  Clean' => Clean
  BY DEF Enter, Clean

\* A call fails, having changed no object and no count.
LEMMA FailExact ==
  ASSUME TypeInv, ReferencesInv, ExactInv, NEW p \in Procs, pc[p] # "idle", NEW l, Fail(p, l),
         UNCHANGED <<objects, refCount>>, l # "idle" => Knows(l, req[p], objects)
  PROVE  ExactInv'
  <1>1. Frame(p) /\ pc'[p] = l /\ (l # "idle" => req'[p] = req[p])
    BY FailFrame
  <1> QED
    BY <1>1, FailDirty, QuietExact

\* The request goes on with other locals and what it held.
LEMMA OnExact ==
  ASSUME TypeInv, ReferencesInv, ExactInv, NEW p \in Procs, pc[p] # "idle", NEW l, l # "idle", NEW r,
         Enter(p, l, r), SameRequest(r, req[p]), UNCHANGED <<objects, refCount>>,
         Knows(l, r, objects), \A h \in Hashes : HeldAt(pc[p], req[p], h) => HeldAt(l, r, h)
  PROVE  ExactInv'
  <1>1. Frame(p) /\ pc'[p] = l /\ req'[p] = r
    BY EnterFrame
  <1> QED
    BY <1>1, EnterClean, QuietExact

\* The request goes on with its locals, or ends, holding nothing it drops.
LEMMA GotoExact ==
  ASSUME TypeInv, ReferencesInv, ExactInv, NEW p \in Procs, pc[p] # "idle", NEW l, Goto(p, l),
         UNCHANGED <<objects, refCount>>, l # "idle" => Knows(l, req[p], objects),
         \A h \in Hashes : HeldAt(pc[p], req[p], h) => HeldAt(l, req[p], h)
  PROVE  ExactInv'
  <1>1. Frame(p) /\ pc'[p] = l /\ req'[p] = IF l = "idle" THEN NoReq ELSE req[p]
    BY GotoFrame
  <1>2. Clean' => Clean
    BY EnterClean DEF Goto
  <1>3. \A h \in Hashes : HeldAt(pc[p], req[p], h) => HeldAt(pc'[p], req'[p], h)
    BY <1>1 DEF HeldAt
  <1> QED
    BY <1>1, <1>2, <1>3, QuietExact

\* The steps of a put that touch neither objects nor counts.
LEMMA PutEarlyExact ==
  ASSUME TypeInv, ReferencesInv, ExactInv, LostReplies = FALSE, NEW p \in Procs,
         \/ PutEnsureBucket(p) \/ PutLoadExisting(p) \/ PutLoadExistingRef(p)
         \/ PutStageMeta(p) \/ PutPrepareBlob(p) \/ PutCreateBlob(p)
         \/ PutIntentPrepared(p) \/ PutLinkLayout(p) \/ PutIntentLinked(p)
         \/ PutIntentRetained(p)
  PROVE  ExactInv'
  <1> DEFINE early == {"put_bucket", "put_load", "put_loadref", "put_stage", "put_prepare", "put_blob",
                       "put_prepared", "put_link", "put_linked", "put_retained"}
             o == req[p].obj
             h == req[p].hash
  <1>1. pc[p] \in early
    BY DEF PutEnsureBucket, PutLoadExisting, PutLoadExistingRef, PutStageMeta, PutPrepareBlob,
           PutCreateBlob, PutIntentPrepared, PutLinkLayout, PutIntentLinked, PutIntentRetained, AdvanceIntent
  <1>2. pc[p] # "idle" /\ pc[p] \in PutCalls
    BY <1>1 DEF PutCalls
  <1>3. /\ req[p] \in Requests /\ Remembers(pc[p], req[p]) /\ req[p].op = "put" /\ o \in Objects /\ h \in Hashes
        /\ Knows(pc[p], req[p], objects)
    BY <1>2, Facts DEF ShapeOf, ExactInv
  <1>4. ASSUME NEW l, l \in {"idle", "rb_layout", "fail_unstage", "fail_blob", "put_load", "put_stage", "put_loadref"}
        PROVE  \A r : r.op = "put" => Knows(l, r, objects)
    BY <1>4 DEF Knows
  <1>5. UNCHANGED metaVars => UNCHANGED <<objects, refCount>>
    BY DEF metaVars
  <1>6. pc[p] # "put_retained" => \A g : ~HeldAt(pc[p], req[p], g)
    BY <1>1 DEF HeldAt
  <1>7. ASSUME NEW l, Fail(p, l), UNCHANGED metaVars, l \in {"idle", "rb_layout", "fail_unstage", "fail_blob"}
        PROVE  ExactInv'
    BY <1>2, <1>3, <1>4, <1>5, <1>7, FailExact
  <1>8. CASE PutEnsureBucket(p)
    <2>1. UNCHANGED metaVars /\ pc[p] = "put_bucket"
      BY <1>8 DEF PutEnsureBucket, FailClean
    <2>2. Goto(p, "put_load") \/ Goto(p, "idle") \/ Fail(p, "idle")
      BY <1>8 DEF PutEnsureBucket, FailClean
    <2> QED
      BY <1>2, <1>3, <1>4, <1>5, <1>6, <1>7, <2>1, <2>2, GotoExact
  <1>9. CASE PutLoadExisting(p)
    <2> DEFINE r == [req[p] EXCEPT !.ex = objects[req[p].obj]]
    <2>1. pc[p] = "put_load" /\ UNCHANGED metaVars
      BY <1>9 DEF PutLoadExisting, FailClean
    <2>2. SameRequest(r, req[p]) /\ r.op = "put"
      BY <1>3 DEF SameRequest, Requests
    <2>3. Enter(p, "put_stage", r) \/ Enter(p, "put_loadref", r) \/ Fail(p, "idle")
      BY <1>9 DEF PutLoadExisting, FailClean
    <2> HIDE DEF r
    <2> QED
      BY <1>2, <1>4, <1>5, <1>6, <1>7, <2>1, <2>2, <2>3, OnExact
  <1>10. CASE PutLoadExistingRef(p)
    <2> DEFINE r == [req[p] EXCEPT !.exDir = refPath[req[p].ex]]
    <2>1. pc[p] = "put_loadref" /\ UNCHANGED metaVars
      BY <1>10 DEF PutLoadExistingRef, FailClean
    <2>2. SameRequest(r, req[p]) /\ r.op = "put"
      BY <1>3 DEF SameRequest, Requests
    <2>3. Enter(p, "put_stage", r) \/ Fail(p, "idle")
      BY <1>10 DEF PutLoadExistingRef, FailClean
    <2> HIDE DEF r
    <2> QED
      BY <1>2, <1>4, <1>5, <1>6, <1>7, <2>1, <2>2, <2>3, OnExact
  <1>11. ASSUME NEW stage, NEW okCall, NEW errCall \in {"idle", "rb_layout"}, NEW call,
                <<call, okCall, errCall>> \in {<<"put_stage", "put_prepare", "idle">>,
                    <<"put_prepared", "put_link", "rb_layout">>, <<"put_linked", "put_retain", "rb_layout">>,
                    <<"put_retained", "put_commit", "rb_layout">>},
                AdvanceIntent(p, call, stage, okCall, errCall)
         PROVE  ExactInv'
    <2>1. pc[p] = call
      BY <1>11 DEF AdvanceIntent
    <2>2. okCall # "idle" /\ Knows(okCall, req[p], objects)
      BY <1>3, <1>11, <2>1 DEF Knows
    <2>3. \A g : HeldAt(pc[p], req[p], g) => HeldAt(okCall, req[p], g) /\ HeldAt("rb_layout", req[p], g)
      BY <1>11, <2>1 DEF HeldAt
    <2>4. CASE StageObjectMeta(o, h, stage) /\ Goto(p, okCall)
      <3>1. UNCHANGED <<objects, refCount>>
        BY <2>4 DEF StageObjectMeta
      <3> QED
        BY <1>2, <2>2, <2>3, <2>4, <3>1, GotoExact
    <2>5. CASE UNCHANGED metaVars /\ Goto(p, errCall)
      <3>1. \A g : HeldAt(pc[p], req[p], g) => HeldAt(errCall, req[p], g)
        BY <1>6, <1>11, <2>1, <2>3
      <3> QED
        BY <1>2, <1>3, <1>4, <1>5, <1>11, <2>5, <3>1, GotoExact
    <2>6. CASE UNCHANGED metaVars /\ Fail(p, errCall)
      BY <1>7, <1>11, <2>6
    <2> QED
      BY <1>11, <2>4, <2>5, <2>6 DEF AdvanceIntent, FailClean, FailCommand
  <1>12. CASE PutStageMeta(p) \/ PutIntentPrepared(p) \/ PutIntentLinked(p) \/ PutIntentRetained(p)
    BY <1>11, <1>12 DEF PutStageMeta, PutIntentPrepared, PutIntentLinked, PutIntentRetained
  <1>13. CASE PutPrepareBlob(p)
    <2> DEFINE r == [req[p] EXCEPT !.hit = TRUE, !.dir = refPath[h]]
    <2>1. pc[p] = "put_prepare" /\ UNCHANGED metaVars
      BY <1>13 DEF PutPrepareBlob, FailClean
    <2>2. SameRequest(r, req[p]) /\ r.op = "put" /\ r.hit = TRUE
      BY <1>3 DEF SameRequest, Requests
    <2>3. \/ Enter(p, "put_prepared", r)
          \/ refCount[h] <= 0 /\ Goto(p, "put_blob")
          \/ Fail(p, "fail_unstage")
      <3>1. refCount[h] > 0 \/ refCount[h] <= 0
        BY <1>3 DEF TypeInv, MetaOK, MetaType
      <3> QED
        BY <1>13, <3>1 DEF PutPrepareBlob, FailClean
    <2> HIDE DEF r
    <2>4. Knows("put_prepared", r, objects)
      BY <2>2 DEF Knows
    <2>5. ASSUME refCount[h] <= 0
          PROVE  Knows("put_blob", req[p], objects)
      <3>1. objects[o] = req[p].ex
        BY <1>3, <2>1 DEF Remembers, PutCalls
      <3>2. ~(o \in Claims(h))
        <4>1. Cardinality(Claims(h)) = 0
          BY <1>3, <2>5, Covered
        <4> QED
          BY <4>1, ClaimsFinite, FS_EmptySet
      <3>3. req[p].ex # h
        BY <1>3, <3>1, <3>2 DEF Claims
      <3> QED
        BY <1>3, <3>3 DEF Knows
    <2>6. CASE Enter(p, "put_prepared", r)
      BY <1>2, <1>5, <1>6, <2>1, <2>2, <2>4, <2>6, OnExact
    <2>7. CASE refCount[h] <= 0 /\ Goto(p, "put_blob")
      BY <1>2, <1>5, <1>6, <2>1, <2>5, <2>7, GotoExact
    <2> QED
      BY <1>7, <2>1, <2>3, <2>6, <2>7
  <1>14. CASE PutCreateBlob(p)
    <2> DEFINE r == [req[p] EXCEPT !.created = TRUE, !.dir = DirOf[req[p].obj]]
    <2>1. pc[p] = "put_blob" /\ UNCHANGED metaVars
      BY <1>14 DEF PutCreateBlob
    <2>2. SameRequest(r, req[p]) /\ r.op = "put" /\ r.hit = req[p].hit /\ r.ex = req[p].ex /\ r.hash = h
      BY <1>3 DEF SameRequest, Requests
    <2>3. Enter(p, "put_prepared", r) \/ Fail(p, "fail_unstage")
      BY <1>14 DEF PutCreateBlob
    <2> HIDE DEF r
    <2>4. Knows("put_prepared", r, objects)
      BY <1>3, <2>1, <2>2 DEF Knows
    <2> QED
      BY <1>2, <1>5, <1>6, <1>7, <2>1, <2>2, <2>3, <2>4, OnExact
  <1>15. CASE PutLinkLayout(p)
    <2>1. pc[p] = "put_link" /\ UNCHANGED metaVars
      BY <1>15 DEF PutLinkLayout, FailClean
    <2>2. Goto(p, "put_linked") \/ Fail(p, "fail_blob") \/ Fail(p, "idle")
      BY <1>15 DEF PutLinkLayout, FailClean
    <2>3. Knows("put_linked", req[p], objects)
      BY <1>3, <2>1 DEF Knows
    <2> QED
      BY <1>2, <1>5, <1>6, <1>7, <2>1, <2>2, <2>3, GotoExact
  <1> QED
    BY <1>8, <1>9, <1>10, <1>12, <1>13, <1>14, <1>15

\* One more reference for content g, which p did not hold.
LEMMA TakeExact ==
  ASSUME TypeInv, ReferencesInv, ExactInv, NEW p \in Procs, Frame(p), UNCHANGED objects,
         NEW g \in Hashes, refCount'[g] = refCount[g] + 1,
         \A h \in Hashes \ {g} : refCount'[h] = refCount[h],
         \A h : ~HeldAt(pc[p], req[p], h), HeldAt(pc'[p], req'[p], g),
         pc'[p] # "idle" => Knows(pc'[p], req'[p], objects),
         Clean' => Clean
  PROVE  ExactInv'
  <1>1. ASSUME Exact, NEW h \in Hashes
        PROVE  refCount'[h] <= Cardinality(Claims(h)')
    <2>0. refCount[h] \in Nat /\ refCount[h] <= Cardinality(Claims(h))
      BY <1>1 DEF Exact, TypeInv, MetaOK, MetaType
    <2>1. Claims(h) \subseteq Claims(h)' /\ p \notin Claims(h)
      BY ClaimsStay
    <2>2. CASE h = g
      <3>1. p \in Claims(h)' /\ Claims(h) \subseteq Claims(h)' \ {p}
        BY <2>1, <2>2, ClaimsStay
      <3>2. Cardinality(Claims(h)) <= Cardinality(Claims(h)') - 1
        BY <3>1, ClaimsFinite, CountRemove
      <3> QED
        BY <2>0, <2>2, <3>2, ClaimsFinite
    <2>3. CASE h # g
      <3>1. Cardinality(Claims(h)) <= Cardinality(Claims(h)')
        BY <2>1, ClaimsFinite, CountSubset
      <3> QED
        BY <2>0, <2>3, <3>1, ClaimsFinite
    <2> QED
      BY <2>2, <2>3
  <1> QED
    BY <1>1, ExactStep

\* The reference p holds is given back.
LEMMA GiveBackExact ==
  ASSUME TypeInv, ReferencesInv, ExactInv, NEW p \in Procs, Frame(p), UNCHANGED objects,
         NEW g \in Hashes, \A h \in Hashes : HeldAt(pc[p], req[p], h) => h = g, DecreaseBlobRef(g),
         pc'[p] # "idle" => Knows(pc'[p], req'[p], objects),
         Clean' => Clean
  PROVE  ExactInv'
  <1>1. ASSUME Exact, NEW h \in Hashes
        PROVE  refCount'[h] <= Cardinality(Claims(h)')
    <2>0. refCount[h] \in Nat /\ refCount[h] <= Cardinality(Claims(h))
      BY <1>1 DEF Exact, TypeInv, MetaOK, MetaType
    <2>1. CASE h = g
      <3>1. Claims(h) \subseteq Claims(h)' \cup {p}
        BY ClaimsStay
      <3>2. Cardinality(Claims(h)) <= Cardinality(Claims(h)') + 1
        BY <3>1, ClaimsFinite, CountAdd
      <3>3. refCount'[h] = IF refCount[h] <= 1 THEN 0 ELSE refCount[h] - 1
        BY <2>1 DEF TypeInv, MetaOK, MetaType, DecreaseBlobRef
      <3> QED
        BY <2>0, <3>2, <3>3, ClaimsFinite
    <2>2. CASE h # g
      <3>1. Claims(h) \subseteq Claims(h)'
        BY <2>2, ClaimsStay
      <3>2. Cardinality(Claims(h)) <= Cardinality(Claims(h)')
        BY <3>1, ClaimsFinite, CountSubset
      <3>3. refCount'[h] = refCount[h]
        BY <2>2 DEF TypeInv, MetaOK, MetaType, DecreaseBlobRef
      <3> QED
        BY <2>0, <3>2, <3>3, ClaimsFinite
    <2> QED
      BY <2>1, <2>2
  <1> QED
    BY <1>1, ExactStep

\* The value that o loses is held by p afterwards, and what p held is in o.
LEMMA SwapExact ==
  ASSUME TypeInv, ReferencesInv, ExactInv, NEW p \in Procs, Frame(p), NEW o \in Objects, NEW v,
         o \in Touches(p), refCount' = refCount,
         objects'[o] = v, \A q \in Objects \ {o} : objects'[q] = objects[q],
         \A h \in Hashes : HeldAt(pc[p], req[p], h) => h = v /\ objects[o] # v,
         objects[o] # v => \A h \in Hashes : h = objects[o] => HeldAt(pc'[p], req'[p], h),
         pc'[p] # "idle" => Knows(pc'[p], req'[p], objects'),
         Clean' => Clean
  PROVE  ExactInv'
  <1>1. ASSUME Exact, NEW h \in Hashes
        PROVE  refCount'[h] <= Cardinality(Claims(h)')
    <2>0. refCount[h] \in Nat /\ refCount[h] <= Cardinality(Claims(h))
      BY <1>1 DEF Exact, TypeInv, MetaOK, MetaType
    <2>1. \A q \in Procs \ {p} : Holds(q, h) => Holds(q, h)'
      BY HoldsHeldAt DEF Frame
    <2>2. /\ Holds(p, h)' <=> HeldAt(pc'[p], req'[p], h)
          /\ Holds(p, h) <=> HeldAt(pc[p], req[p], h)
      BY HoldsHeldAt
    <2>3. p \notin Objects /\ o \notin Procs
      BY FinitenessAssumption
    <2>4. CASE h = v /\ objects[o] # v
      <3>1. Claims(h) \subseteq (Claims(h)' \ {o}) \cup {p}
        BY <2>1, <2>2, <2>3, <2>4 DEF Claims
      <3>2. o \in Claims(h)'
        BY <2>4 DEF Claims
      <3> QED
        BY <2>0, <3>1, <3>2, ClaimsFinite, CountSwap
    <2>5. CASE h = objects[o] /\ objects[o] # v
      <3>1. p \in Claims(h)'
        BY <2>2, <2>5 DEF Claims
      <3>2. Claims(h) \subseteq (Claims(h)' \ {p}) \cup {o}
        BY <2>1, <2>2, <2>3, <2>5 DEF Claims
      <3> QED
        BY <2>0, <3>1, <3>2, ClaimsFinite, CountSwap
    <2>6. CASE ~(h = v /\ objects[o] # v) /\ ~(h = objects[o] /\ objects[o] # v)
      <3>1. Claims(h) \subseteq Claims(h)'
        BY <2>1, <2>2, <2>3, <2>6 DEF Claims
      <3> QED
        BY <2>0, <3>1, ClaimsFinite, CountSubset
    <2> QED
      BY <2>4, <2>5, <2>6
  <1>2. \A q \in Objects \ Touches(p) : objects'[q] = objects[q]
    OBVIOUS
  <1> QED
    BY <1>1, <1>2, ExactStep

\* The steps of a put from retainBlob on.
LEMMA PutLateExact ==
  ASSUME TypeInv, ReferencesInv, ExactInv, LostReplies = FALSE, NEW p \in Procs,
         PutRetainBlob(p) \/ PutCommit(p) \/ PutUnstage(p) \/ FailUnstage(p) \/ FailDropBlob(p)
  PROVE  ExactInv'
  <1> DEFINE o == req[p].obj
             h == req[p].hash
  <1>0. pc[p] # "idle" /\ pc[p] \in PutCalls \cup RollbackCalls
    BY DEF PutRetainBlob, PutCommit, PutUnstage, FailUnstage, FailDropBlob, PutCalls, RollbackCalls
  <1>1. /\ req[p] \in Requests /\ Remembers(pc[p], req[p]) /\ Knows(pc[p], req[p], objects)
        /\ req[p].op = "put" /\ o \in Objects /\ h \in Hashes
        /\ req[p].ex \in Hashes \cup {None} /\ None \notin Hashes
    BY <1>0, Facts, ObjectsAssumption DEF ShapeOf, Requests, ExactInv
  <1>2. UNCHANGED metaVars => UNCHANGED <<objects, refCount>>
    BY DEF metaVars
  <1>3. ASSUME NEW l, l \notin {"put_blob", "put_prepared", "put_link", "put_linked", "put_retain", "put_retained", "put_commit"}
        PROVE  \A r : r.op = "put" => Knows(l, r, objects) /\ Knows(l, r, objects')
    BY <1>3 DEF Knows
  <1>4. CASE PutRetainBlob(p)
    <2>1. pc[p] = "put_retain" /\ \A g : ~HeldAt(pc[p], req[p], g)
      BY <1>4 DEF PutRetainBlob, HeldAt
    <2>2. ASSUME NEW m \in {"unchanged", "increased", "created"},
                 Enter(p, "put_retained", [req[p] EXCEPT !.mut = m]),
                 m # "unchanged" => req[p].ex # h
          PROVE  /\ Frame(p) /\ pc'[p] = "put_retained"
                 /\ m # "unchanged" => HeldAt(pc'[p], req'[p], h)
                 /\ Knows(pc'[p], req'[p], objects)
                 /\ Clean' => Clean
      <3> DEFINE r == [req[p] EXCEPT !.mut = m]
      <3>1. SameRequest(r, req[p]) /\ r.ex = req[p].ex /\ r.mut = m /\ r.op = "put" /\ r.hash = h
        BY <1>1 DEF SameRequest, Requests
      <3>2. Enter(p, "put_retained", r)
        BY <2>2
      <3> HIDE DEF r
      <3>3. Frame(p) /\ pc'[p] = "put_retained" /\ req'[p] = r
        BY <1>0, <3>1, <3>2, EnterFrame
      <3>4. Knows("put_retained", r, objects) /\ (m # "unchanged" => HeldAt("put_retained", r, h))
        BY <2>2, <3>1 DEF Knows, HeldAt
      <3> QED
        BY <3>2, <3>3, <3>4, EnterClean
    <2>3. CASE /\ ~req[p].hit /\ CreateBlobRef(h, req[p].dir)
               /\ Enter(p, "put_retained", [req[p] EXCEPT !.mut = "created"])
      <3>1. /\ UNCHANGED objects /\ req[p].ex # h
            /\ refCount'[h] = refCount[h] + 1 /\ \A g \in Hashes \ {h} : refCount'[g] = refCount[g]
        BY <1>1, <2>1, <2>3 DEF CreateBlobRef, TypeInv, MetaOK, MetaType, Knows
      <3> QED
        BY <1>1, <2>1, <2>2, <2>3, <3>1, TakeExact
    <2>4. CASE /\ req[p].ex # h /\ IncreaseBlobRef(h)
               /\ Enter(p, "put_retained", [req[p] EXCEPT !.mut = "increased"])
      <3>1. /\ UNCHANGED objects
            /\ refCount'[h] = refCount[h] + 1 /\ \A g \in Hashes \ {h} : refCount'[g] = refCount[g]
        BY <1>1, <2>4 DEF IncreaseBlobRef, TypeInv, MetaOK, MetaType
      <3> QED
        BY <1>1, <2>1, <2>2, <2>4, <3>1, TakeExact
    <2>5. CASE UNCHANGED metaVars /\ Enter(p, "put_retained", [req[p] EXCEPT !.mut = "unchanged"])
      <3>1. /\ Frame(p) /\ pc'[p] = "put_retained" /\ Knows(pc'[p], req'[p], objects)
            /\ Clean' => Clean
        BY <2>2, <2>5
      <3> QED
        BY <1>2, <2>1, <2>5, <3>1, QuietExact
    <2>6. CASE UNCHANGED metaVars /\ Goto(p, "rb_layout")
      BY <1>0, <1>1, <1>2, <1>3, <2>1, <2>6, GotoExact
    <2>7. CASE UNCHANGED metaVars /\ Fail(p, "rb_layout")
      BY <1>0, <1>1, <1>2, <1>3, <2>7, FailExact
    <2> QED
      BY <1>4, <2>3, <2>4, <2>5, <2>6, <2>7 DEF PutRetainBlob, FailClean, FailCommand
  <1>5. CASE PutCommit(p)
    <2> DEFINE v == IF req[p].ex = h THEN None ELSE req[p].ex
               r == [req[p] EXCEPT !.rel = v]
    <2>1. pc[p] = "put_commit"
      BY <1>5 DEF PutCommit
    <2>2. objects[o] = req[p].ex /\ (req[p].mut = "unchanged" <=> req[p].ex = h)
      BY <1>1, <2>1 DEF Remembers, PutCalls, Knows
    <2>3. SameRequest(r, req[p]) /\ r.op = "put" /\ r.rel = v
      BY <1>1 DEF SameRequest, Requests
    <2>4. CASE UpsertObjectMeta(o, h) /\ Enter(p, "put_unstage", r)
      <3> HIDE DEF r
      <3>1. /\ refCount' = refCount
            /\ objects'[o] = h /\ \A q \in Objects \ {o} : objects'[q] = objects[q]
        BY <1>1, <2>4 DEF UpsertObjectMeta, TypeInv, MetaOK, MetaType
      <3>2. Frame(p) /\ pc'[p] = "put_unstage" /\ req'[p] = r /\ (Clean' => Clean)
        BY <1>0, <2>3, <2>4, EnterFrame, EnterClean
      <3>3. \A g \in Hashes : HeldAt(pc[p], req[p], g) => g = h /\ objects[o] # h
        BY <2>1, <2>2 DEF HeldAt
      <3>4. objects[o] # h => \A g \in Hashes : g = objects[o] => HeldAt("put_unstage", r, g)
        BY <2>2, <2>3 DEF HeldAt
      <3>5. Knows("put_unstage", r, objects')
        BY <1>3, <2>3
      <3>6. o \in Touches(p)
        BY <1>0, <1>1, TouchesTouchedAt DEF TouchedAt
      <3> QED
        BY <1>1, <3>1, <3>2, <3>3, <3>4, <3>5, <3>6, SwapExact
    <2>5. \A g : HeldAt(pc[p], req[p], g) => HeldAt("rb_layout", req[p], g)
      BY <2>1 DEF HeldAt
    <2>6. CASE UNCHANGED metaVars /\ Goto(p, "rb_layout")
      BY <1>0, <1>1, <1>2, <1>3, <2>5, <2>6, GotoExact
    <2>7. CASE UNCHANGED metaVars /\ Fail(p, "rb_layout")
      BY <1>0, <1>1, <1>2, <1>3, <2>7, FailExact
    <2> QED
      BY <1>5, <2>4, <2>6, <2>7 DEF PutCommit, FailClean, FailCommand
  <1>6. ASSUME DeleteStagedObjectMeta(o)
        PROVE  UNCHANGED <<objects, refCount>>
    BY <1>6 DEF DeleteStagedObjectMeta
  <1>7. ASSUME Fail(p, "idle"), UNCHANGED metaVars
        PROVE  ExactInv'
    BY <1>0, <1>2, <1>7, FailExact
  <1>8. CASE PutUnstage(p)
    <2>1. pc[p] = "put_unstage"
      BY <1>8 DEF PutUnstage
    <2>2. CASE DeleteStagedObjectMeta(o) /\ Goto(p, "rel_ref")
      <3>1. \A g : HeldAt(pc[p], req[p], g) => HeldAt("rel_ref", req[p], g)
        BY <2>1 DEF HeldAt
      <3> QED
        BY <1>0, <1>1, <1>3, <1>6, <2>2, <3>1, GotoExact
    <2>3. CASE DeleteStagedObjectMeta(o) /\ Goto(p, "idle") /\ req[p].rel = None
      <3>1. \A g \in Hashes : ~HeldAt(pc[p], req[p], g)
        BY <1>1, <2>1, <2>3 DEF HeldAt
      <3> QED
        BY <1>0, <1>6, <2>3, <3>1, GotoExact
    <2> QED
      BY <1>7, <1>8, <2>2, <2>3 DEF PutUnstage, FailClean, FailCommand
  <1>9. CASE FailUnstage(p)
    <2>1. \A g : ~HeldAt(pc[p], req[p], g)
      BY <1>9 DEF FailUnstage, HeldAt
    <2> QED
      BY <1>0, <1>6, <1>7, <1>9, <2>1, GotoExact DEF FailUnstage, FailClean, FailCommand
  <1>10. CASE FailDropBlob(p)
    <2>1. \A g : ~HeldAt(pc[p], req[p], g)
      BY <1>10 DEF FailDropBlob, HeldAt
    <2> QED
      BY <1>0, <1>2, <1>7, <1>10, <2>1, GotoExact DEF FailDropBlob, FailClean
  <1> QED
    BY <1>4, <1>5, <1>8, <1>9, <1>10

\* The steps of rollbackPut.
LEMMA RollbackExact ==
  ASSUME TypeInv, ReferencesInv, ExactInv, LostReplies = FALSE, NEW p \in Procs, RollbackStep(p)
  PROVE  ExactInv'
  <1> DEFINE h == req[p].hash
  <1>0. pc[p] # "idle" /\ pc[p] \in RollbackCalls
    BY DEF RollbackStep, RollbackLayout, RollbackUnstage, RollbackRestore, RollbackRef,
           RollbackRefBlob, RollbackBlob, RollbackCalls
  <1>1. req[p] \in Requests /\ req[p].op = "put" /\ h \in Hashes
    BY <1>0, Facts DEF ShapeOf
  <1>2. UNCHANGED metaVars => UNCHANGED <<objects, refCount>>
    BY DEF metaVars
  <1>3. ASSUME NEW l, l \in {"rb_unstage", "rb_restore", "rb_ref", "rb_refblob", "rb_blob", "idle"}
        PROVE  \A r : r.op = "put" => Knows(l, r, objects)
    BY <1>3 DEF Knows
  <1>4. ASSUME NEW l, l \in {"rb_unstage", "rb_restore", "rb_ref", "rb_blob", "idle"}, Fail(p, l),
               UNCHANGED <<objects, refCount>>
        PROVE  ExactInv'
    BY <1>0, <1>1, <1>3, <1>4, FailExact
  <1>5. ASSUME NEW l, l \in {"rb_unstage", "rb_restore", "rb_ref", "rb_blob", "idle"}, Goto(p, l),
               UNCHANGED <<objects, refCount>>,
               \A g \in Hashes : HeldAt(pc[p], req[p], g) => HeldAt(l, req[p], g)
        PROVE  ExactInv'
    BY <1>0, <1>1, <1>3, <1>5, GotoExact
  <1>6. CASE RollbackLayout(p) \/ RollbackUnstage(p) \/ RollbackRestore(p)
    <2>1. \A g : HeldAt(pc[p], req[p], g) => /\ HeldAt("rb_unstage", req[p], g)
                                             /\ HeldAt("rb_restore", req[p], g) /\ HeldAt("rb_ref", req[p], g)
      BY <1>6 DEF RollbackLayout, RollbackUnstage, RollbackRestore, HeldAt
    <2>2. UNCHANGED <<objects, refCount>>
      BY <1>6, <1>2 DEF RollbackLayout, RollbackUnstage, RollbackRestore, DeleteStagedObjectMeta, FailCommand
    <2> QED
      BY <1>4, <1>5, <1>6, <2>1, <2>2 DEF RollbackLayout, RollbackUnstage, RollbackRestore, FailCommand
  <1>7. CASE RollbackRef(p)
    <2>1. pc[p] = "rb_ref"
      BY <1>7 DEF RollbackRef
    <2>2. CASE req[p].mut = "unchanged" /\ Goto(p, "rb_blob") /\ UNCHANGED metaVars
      <3>1. \A g : ~HeldAt(pc[p], req[p], g)
        BY <2>1, <2>2 DEF HeldAt
      <3> QED
        BY <1>2, <1>5, <2>2, <3>1
    <2>3. CASE Fail(p, "rb_blob") /\ UNCHANGED metaVars
      BY <1>2, <1>4, <2>3
    <2> DEFINE r == [req[p] EXCEPT !.relDir = refPath[h]]
    <2>4. CASE DecreaseBlobRef(h) /\ (Enter(p, "rb_refblob", r) \/ Goto(p, "rb_blob"))
      <3>1. SameRequest(r, req[p]) /\ r.op = "put"
        BY <1>1 DEF SameRequest, Requests
      <3>2. \A g \in Hashes : HeldAt(pc[p], req[p], g) => g = h
        BY <2>1 DEF HeldAt
      <3>3. UNCHANGED objects
        BY <2>4 DEF DecreaseBlobRef
      <3> HIDE DEF r
      <3>4. Frame(p) /\ pc'[p] \in {"rb_refblob", "rb_blob"} /\ req'[p].op = "put"
        BY <1>0, <1>1, <2>4, <3>1, EnterFrame, GotoFrame
      <3>5. Knows(pc'[p], req'[p], objects')
        BY <3>4 DEF Knows
      <3>6. Clean' => Clean
        BY <2>4, EnterClean DEF Goto
      <3> QED
        BY <1>1, <2>4, <3>2, <3>3, <3>4, <3>5, <3>6, GiveBackExact
    <2> QED
      BY <1>7, <2>2, <2>3, <2>4 DEF RollbackRef, FailCommand
  <1>8. CASE RollbackRefBlob(p) \/ RollbackBlob(p)
    <2>1. \A g : ~HeldAt(pc[p], req[p], g)
      BY <1>8 DEF RollbackRefBlob, RollbackBlob, HeldAt
    <2>2. UNCHANGED metaVars
      BY <1>8 DEF RollbackRefBlob, RollbackBlob, FailClean
    <2> QED
      BY <1>2, <1>4, <1>5, <1>8, <2>1, <2>2 DEF RollbackRefBlob, RollbackBlob, FailClean
  <1> QED
    BY <1>6, <1>7, <1>8 DEF RollbackStep

\* The steps of DeleteObject, DeleteBucket and releaseBlob.
LEMMA DeleteExact ==
  ASSUME TypeInv, ReferencesInv, ExactInv, LostReplies = FALSE, NEW p \in Procs, DeleteStep(p)
  PROVE  ExactInv'
  <1> DEFINE o == req[p].obj
             h == req[p].rel
  <1>0. pc[p] # "idle" /\ pc[p] \in DeleteCalls \cup BucketCalls
    BY DEF DeleteStep, DeleteLoad, DeleteMeta, DeleteLayout, ReleaseRef, ReleaseBlob, BucketList,
           BucketNextObject, BucketDrop, DeleteCalls, BucketCalls
  <1>1. /\ req[p] \in Requests /\ ShapeOf(pc[p], req[p]) /\ Remembers(pc[p], req[p])
        /\ Knows(pc[p], req[p], objects)
    BY <1>0, Facts DEF ExactInv
  <1>2. req[p].op \in {"put", "delete", "bucket"}
    BY <1>0, <1>1 DEF ShapeOf, Remembers, DeleteCalls, BucketCalls
  <1>3. UNCHANGED metaVars => UNCHANGED <<objects, refCount>>
    BY DEF metaVars
  <1>4. ASSUME Fail(p, "idle"), UNCHANGED metaVars
        PROVE  ExactInv'
    BY <1>0, <1>3, <1>4, FailExact
  <1>5. AfterRelease(p) \in {"bkt_next", "idle"}
    BY <1>2 DEF AfterRelease
  <1>6. CASE DeleteLoad(p)
    <2> DEFINE r == [req[p] EXCEPT !.rel = objects[o], !.layErr = FALSE]
    <2>1. pc[p] = "del_load" /\ UNCHANGED metaVars /\ \A g : ~HeldAt(pc[p], req[p], g)
      BY <1>6 DEF DeleteLoad, FailClean, HeldAt
    <2>2. SameRequest(r, req[p]) /\ r.obj = o /\ r.op = req[p].op /\ r.bkt = req[p].bkt /\ r.todo = req[p].todo
      BY <1>1 DEF SameRequest, Requests
    <2>3. CASE objects[o] = None /\ (Goto(p, "bkt_next") \/ Goto(p, "idle"))
      <3>1. Knows("bkt_next", req[p], objects)
        BY <1>1, <2>1, <2>3 DEF Knows
      <3> QED
        BY <1>0, <1>3, <2>1, <2>3, <3>1, GotoExact
    <2>4. CASE Enter(p, "del_meta", r)
      <3> HIDE DEF r
      <3>1. Knows("del_meta", r, objects)
        BY <1>1, <2>1, <2>2 DEF Knows
      <3> QED
        BY <1>0, <1>3, <2>1, <2>2, <2>4, <3>1, OnExact
    <2> QED
      BY <1>4, <1>6, <2>3, <2>4 DEF DeleteLoad, FailClean
  <1>7. CASE DeleteMeta(p)
    <2>1. pc[p] = "del_meta" /\ o \in Objects /\ h \in Hashes /\ objects[o] = h /\ req[p].op \in {"delete", "bucket"}
      BY <1>1, <1>7 DEF DeleteMeta, ShapeOf, Remembers
    <2>2. CASE DeleteObjectMeta(o) /\ Goto(p, "del_layout")
      <3>1. Frame(p) /\ pc'[p] = "del_layout" /\ req'[p] = req[p] /\ (Clean' => Clean)
        BY <1>0, <2>2, GotoFrame, EnterClean DEF Goto
      <3>2. /\ refCount' = refCount
            /\ objects'[o] = None /\ \A q \in Objects \ {o} : objects'[q] = objects[q]
        BY <2>1, <2>2 DEF DeleteObjectMeta, TypeInv, MetaOK, MetaType
      <3>3. o \in Touches(p)
        <4>1. req[p].op = "bucket" => BucketOf[o] = req[p].bkt
          BY <1>1, <2>1 DEF Remembers
        <4> QED
          BY <1>0, <2>1, <4>1, TouchesTouchedAt DEF TouchedAt
      <3>4. \A g : ~HeldAt(pc[p], req[p], g) /\ HeldAt("del_layout", req[p], h)
        BY <2>1 DEF HeldAt
      <3>5. Knows("del_layout", req[p], objects')
        BY <1>1, <2>1, <3>2 DEF Knows
      <3> QED
        BY <2>1, <3>1, <3>2, <3>3, <3>4, <3>5, SwapExact
    <2> QED
      BY <1>4, <1>7, <2>2 DEF DeleteMeta, FailClean, FailCommand
  <1>8. CASE DeleteLayout(p)
    <2>1. pc[p] = "del_layout" /\ UNCHANGED metaVars
      BY <1>8 DEF DeleteLayout
    <2>2. Knows("rel_ref", req[p], objects) /\ \A g : HeldAt(pc[p], req[p], g) => HeldAt("rel_ref", req[p], g)
      BY <1>1, <2>1 DEF Knows, HeldAt
    <2>3. CASE Goto(p, "rel_ref")
      BY <1>0, <1>3, <2>1, <2>2, <2>3, GotoExact
    <2>4. CASE ~Goto(p, "rel_ref")
      <3> DEFINE r == [req[p] EXCEPT !.layErr = TRUE]
      <3>1. pc' = [pc EXCEPT ![p] = "rel_ref"] /\ req' = [req EXCEPT ![p] = r] /\ faults' = faults + 1
        BY <1>8, <2>4 DEF DeleteLayout
      <3>2. SameRequest(r, req[p]) /\ r.op = req[p].op /\ r.bkt = req[p].bkt /\ r.todo = req[p].todo
        BY <1>1 DEF SameRequest, Requests
      <3> HIDE DEF r
      <3>3. /\ pc'[p] = "rel_ref" /\ req'[p] = r
            /\ \A q \in Procs \ {p} : pc'[q] = pc[q] /\ req'[q] = req[q]
        BY <3>1 DEF TypeInv, ControlOK, ControlType
      <3>4. Touches(p)' \subseteq Touches(p)
        BY <1>0, <3>2, <3>3, TouchesTouchedAt DEF TouchedAt, SameRequest
      <3>5. Frame(p)
        BY <3>3, <3>4 DEF Frame
      <3>6. Knows("rel_ref", r, objects)
        BY <2>2, <3>2 DEF Knows
      <3>7. ~Clean'
        BY <3>1 DEF Clean, TypeInv, ControlOK, ControlType
      <3> QED
        BY <1>3, <2>1, <3>3, <3>5, <3>6, <3>7, QuietExact
    <2> QED
      BY <2>3, <2>4
  <1>9. CASE ReleaseRef(p)
    <2> DEFINE r == [req[p] EXCEPT !.relDir = refPath[h]]
    <2>1. pc[p] = "rel_ref" /\ h \in Hashes /\ \A g \in Hashes : HeldAt(pc[p], req[p], g) => g = h
      BY <1>1, <1>9 DEF ReleaseRef, ShapeOf, HeldAt
    <2>2. SameRequest(r, req[p]) /\ r.op = req[p].op /\ r.bkt = req[p].bkt /\ r.todo = req[p].todo
      BY <1>1 DEF SameRequest, Requests
    <2>3. CASE DecreaseBlobRef(h) /\ (Enter(p, "rel_blob", r) \/ Goto(p, AfterRelease(p)))
      <3> HIDE DEF r
      <3>1. UNCHANGED objects
        BY <2>3 DEF DecreaseBlobRef
      <3>2. /\ Frame(p) /\ pc'[p] \in {"rel_blob", "bkt_next", "idle"}
            /\ pc'[p] = "rel_blob" => req'[p] = r
            /\ pc'[p] = "bkt_next" => req'[p] = req[p]
        BY <1>0, <1>5, <2>2, <2>3, EnterFrame, GotoFrame
      <3>3. Knows("rel_blob", r, objects) /\ Knows("bkt_next", req[p], objects)
        BY <1>1, <2>1, <2>2 DEF Knows
      <3>4. Clean' => Clean
        BY <2>3, EnterClean DEF Goto
      <3>5. pc'[p] # "idle" => Knows(pc'[p], req'[p], objects')
        BY <3>1, <3>2, <3>3
      <3> QED
        BY <2>1, <2>3, <3>1, <3>2, <3>4, <3>5, GiveBackExact
    <2> QED
      BY <1>4, <1>9, <2>3 DEF ReleaseRef, FailClean, FailCommand
  <1>10. CASE ReleaseBlob(p)
    <2>1. pc[p] = "rel_blob" /\ UNCHANGED metaVars /\ (Goto(p, AfterRelease(p)) \/ Fail(p, "idle"))
      BY <1>10 DEF ReleaseBlob, FailClean
    <2>2. Knows("bkt_next", req[p], objects) /\ \A g : ~HeldAt(pc[p], req[p], g)
      BY <1>1, <2>1 DEF Knows, HeldAt
    <2> QED
      BY <1>0, <1>3, <1>4, <1>5, <2>1, <2>2, GotoExact
  <1>11. CASE BucketList(p)
    <2> DEFINE t == {q \in Objects : BucketOf[q] = req[p].bkt /\ objects[q] # None}
               r == [req[p] EXCEPT !.todo = t]
    <2>1. UNCHANGED metaVars /\ pc[p] = "bkt_list" /\ \A g : ~HeldAt(pc[p], req[p], g)
      BY <1>11 DEF BucketList, FailClean, HeldAt
    <2>2. req[p].op = "bucket"
      BY <1>1, <2>1 DEF ShapeOf, BucketCalls
    <2>3. \A q \in Objects : BucketOf[q] = req[p].bkt /\ objects[q] # None => q \in t
      OBVIOUS
    <2>4. Enter(p, "bkt_next", r) \/ Goto(p, "idle") \/ Fail(p, "idle")
      BY <1>11 DEF BucketList, FailClean
    <2> HIDE DEF t
    <2>5. SameRequest(r, req[p]) /\ r.todo = t /\ r.op = "bucket" /\ r.bkt = req[p].bkt
      BY <1>1, <2>2 DEF SameRequest, Requests
    <2> HIDE DEF r
    <2>6. Knows("bkt_next", r, objects)
      BY <2>3, <2>5 DEF Knows
    <2>7. CASE Enter(p, "bkt_next", r)
      BY <1>0, <1>3, <2>1, <2>5, <2>6, <2>7, OnExact
    <2>8. CASE Goto(p, "idle")
      BY <1>0, <1>3, <2>1, <2>8, GotoExact
    <2> QED
      BY <1>4, <2>1, <2>4, <2>7, <2>8
  <1>12. CASE BucketNextObject(p)
    <2>1. PICK q \in req[p].todo : Enter(p, "del_load", [req[p] EXCEPT !.obj = q, !.todo = @ \ {q}])
      BY <1>12 DEF BucketNextObject
    <2> DEFINE r == [req[p] EXCEPT !.obj = q, !.todo = @ \ {q}]
    <2>2. /\ pc[p] = "bkt_next" /\ UNCHANGED metaVars /\ req[p].op = "bucket"
          /\ \A g : ~HeldAt(pc[p], req[p], g)
      BY <1>1, <1>12 DEF BucketNextObject, ShapeOf, BucketCalls, HeldAt
    <2>3. SameRequest(r, req[p]) /\ r.todo = req[p].todo \ {q} /\ r.op = "bucket" /\ r.bkt = req[p].bkt /\ r.obj = q
      BY <1>1, <2>2 DEF SameRequest, Requests
    <2>4. Enter(p, "del_load", r)
      BY <2>1
    <2> HIDE DEF r
    <2>5. Knows("del_load", r, objects)
      BY <1>1, <2>2, <2>3 DEF Knows
    <2> QED
      BY <1>0, <1>3, <2>2, <2>3, <2>4, <2>5, OnExact
  <1>13. CASE BucketDrop(p)
    <2>1. pc[p] = "bkt_next" /\ req[p].todo = {} /\ req[p].op = "bucket" /\ \A g : ~HeldAt(pc[p], req[p], g)
      BY <1>1, <1>13 DEF BucketDrop, ShapeOf, BucketCalls, HeldAt
    <2>2. CASE UNCHANGED metaVars /\ Goto(p, "idle")
      BY <1>0, <1>3, <2>1, <2>2, GotoExact
    <2>3. CASE DeleteBucketMeta(req[p].bkt) /\ Goto(p, "idle")
      <3>1. \A q \in Objects : BucketOf[q] = req[p].bkt => objects[q] = None
        BY <1>1, <2>1 DEF Knows
      <3>2. objects' = [q \in Objects |-> IF BucketOf[q] = req[p].bkt THEN None ELSE objects[q]] /\ refCount' = refCount
        BY <2>3 DEF DeleteBucketMeta
      <3>3. \A q \in Objects : objects'[q] = objects[q]
        BY <3>1, <3>2
      <3>4. objects' = objects
        BY <3>2, <3>3 DEF TypeInv, MetaOK, MetaType
      <3> QED
        BY <1>0, <2>1, <2>3, <3>2, <3>4, GotoExact
    <2> QED
      BY <1>4, <1>13, <2>2, <2>3 DEF BucketDrop, FailCommand
  <1> QED
    BY <1>6, <1>7, <1>8, <1>9, <1>10, <1>11, <1>12, <1>13 DEF DeleteStep

\* A step of one request that neither holds references nor deletes a bucket,
\* before and after: gets, recoveries without expired writes.
LEMMA IdleExact ==
  ASSUME TypeInv, ReferencesInv, ExactInv, NEW p \in Procs, Frame(p), UNCHANGED <<objects, refCount>>,
         pc[p] \in GetCalls \cup RecoverCalls, Clean' => Clean,
         pc'[p] \in GetCalls \cup RecoverCalls \cup {"idle"}, pc'[p] # "idle" => req'[p].op = req[p].op
  PROVE  ExactInv'
  <1>1. pc[p] # "idle" /\ \A g : ~HeldAt(pc[p], req[p], g)
    BY DEF GetCalls, RecoverCalls, HeldAt
  <1>2. req[p].op # "bucket"
    BY <1>1, Facts DEF ShapeOf
  <1>3. pc'[p] # "idle" => Knows(pc'[p], req'[p], objects)
    BY <1>2 DEF Knows, GetCalls, RecoverCalls
  <1> QED
    BY <1>1, <1>3, QuietExact

\* The steps of GetObject and of a recovery that finds nothing expired.
LEMMA ReadExact ==
  ASSUME TypeInv, ReferencesInv, ExactInv, LostReplies = FALSE, NEW p \in Procs, GetStep(p) \/ RecoverStep(p)
  PROVE  ExactInv'
  <1>0. pc[p] # "idle" /\ pc[p] \in GetCalls \cup RecoverCalls
    BY DEF GetStep, GetMeta, GetData, GetCacheLayout, GetCalls,
           RecoverStep, RecoverListStaged, RecoverNextPending, RecoverPendingDone, RecoverLayout,
           RecoverCommittedRef, RecoverLink, RecoverUnlink, RecoverCheckRelease, RecoverUnstage,
           RecoverListRefs, RecoverListPending, RecoverListLocal, RecoverSweep, RecoverDone, RecoverCalls
  <1>1. /\ req[p] \in Requests
        /\ pc[p] \in RecoverCalls => /\ req[p].todo = {}
                                     /\ pc[p] \in {"rec_list", "rec_next", "rec_refs", "rec_staged", "rec_local", "rec_sweep"}
    BY <1>0, Facts DEF ShapeOf, Remembers
  <1>2. pc[p] \in RecoverCalls =>
           \/ RecoverListStaged(p) \/ RecoverPendingDone(p) \/ RecoverListRefs(p)
           \/ RecoverListPending(p) \/ RecoverListLocal(p) \/ RecoverSweep(p) \/ RecoverDone(p)
    BY <1>1 DEF RecoverStep, RecoverNextPending, RecoverLayout, RecoverCommittedRef, RecoverLink,
                RecoverUnlink, RecoverCheckRelease, RecoverUnstage, GetStep, GetMeta, GetData,
                GetCacheLayout, RecoverCalls
  <1>3. pc[p] \notin RecoverCalls => GetStep(p)
    BY DEF RecoverStep, RecoverListStaged, RecoverNextPending, RecoverPendingDone, RecoverLayout,
           RecoverCommittedRef, RecoverLink, RecoverUnlink, RecoverCheckRelease, RecoverUnstage,
           RecoverListRefs, RecoverListPending, RecoverListLocal, RecoverSweep, RecoverDone, RecoverCalls
  <1>4. UNCHANGED metaVars
    BY <1>2, <1>3 DEF RecoverListStaged, RecoverPendingDone, RecoverListRefs, RecoverListPending,
                      RecoverListLocal, RecoverSweep, RecoverDone, GetStep, GetMeta, GetData,
                      GetCacheLayout, FailClean
  <1>5. UNCHANGED <<objects, refCount>>
    BY <1>4 DEF metaVars
  <1>6. CASE Fail(p, "idle")
    BY <1>0, <1>5, <1>6, FailExact
  <1>7. ASSUME NEW l \in GetCalls \cup RecoverCalls \cup {"idle"}, NEW r, Enter(p, l, r),
               r.op = req[p].op, r.obj = req[p].obj, r.bkt = req[p].bkt
        PROVE  ExactInv'
    <2>1. SameRequest(r, req[p])
      BY <1>7 DEF SameRequest
    <2>2. Frame(p) /\ pc'[p] = l /\ (l # "idle" => req'[p] = r) /\ (Clean' => Clean)
      BY <1>0, <1>7, <2>1, EnterFrame, EnterClean
    <2> QED
      BY <1>0, <1>5, <1>7, <2>2, IdleExact
  <1>8. ASSUME NEW l \in GetCalls \cup RecoverCalls \cup {"idle"}, Goto(p, l)
        PROVE  ExactInv'
    BY <1>7, <1>8 DEF Goto
  <1>9. /\ "idle" \in GetCalls \cup RecoverCalls \cup {"idle"}
        /\ {"get_data", "get_cache", "rec_next", "rec_refs", "rec_staged", "rec_local", "rec_sweep"}
             \subseteq GetCalls \cup RecoverCalls
    BY DEF GetCalls, RecoverCalls
  <1>10. ASSUME NEW r, \E t, u : \/ r = [req[p] EXCEPT !.hash = t]
                                 \/ r = [req[p] EXCEPT !.dir = t, !.hash = u]
                                 \/ r = [req[p] EXCEPT !.snap = t, !.todo = u]
                                 \/ r = [req[p] EXCEPT !.live = t]
                                 \/ r = [req[p] EXCEPT !.sets = t, !.live = u]
                                 \/ r = [req[p] EXCEPT !.sets = t]
         PROVE  r.op = req[p].op /\ r.obj = req[p].obj /\ r.bkt = req[p].bkt
    BY <1>1, <1>10 DEF Requests
  <1>11. CASE GetMeta(p)
    <2> DEFINE r == [req[p] EXCEPT !.hash = objects[req[p].obj]]
    <2>1. r.op = req[p].op /\ r.obj = req[p].obj /\ r.bkt = req[p].bkt
      BY <1>10
    <2>2. Enter(p, "idle", r) \/ Enter(p, "get_data", r) \/ Fail(p, "idle")
      BY <1>11 DEF GetMeta, FailClean
    <2> HIDE DEF r
    <2> QED
      BY <1>6, <1>7, <1>9, <2>1, <2>2
  <1>12. CASE GetData(p)
    <2> DEFINE l == GetLayout(req[p].obj)
               r == [req[p] EXCEPT !.dir = l.dir, !.hash = l.hash]
    <2>1. r.op = req[p].op /\ r.obj = req[p].obj /\ r.bkt = req[p].bkt
      BY <1>10
    <2>2. Goto(p, "idle") \/ Enter(p, "get_cache", r) \/ Fail(p, "idle")
      BY <1>12 DEF GetData, FailClean
    <2> HIDE DEF r
    <2> QED
      BY <1>6, <1>7, <1>8, <1>9, <2>1, <2>2
  <1>13. CASE RecoverListStaged(p)
    <2> DEFINE t == {q \in Objects : staged[q].old}
               r == [req[p] EXCEPT !.snap = staged, !.todo = t]
    <2>1. Enter(p, "rec_next", r) \/ Fail(p, "idle")
      BY <1>13 DEF RecoverListStaged, FailClean
    <2> HIDE DEF t
    <2>2. r.op = req[p].op /\ r.obj = req[p].obj /\ r.bkt = req[p].bkt
      BY <1>10
    <2> HIDE DEF r
    <2> QED
      BY <1>6, <1>7, <1>9, <2>1, <2>2
  <1>14. CASE RecoverListRefs(p)
    <2> DEFINE t == {<<refPath[h], h>> : h \in {g \in Hashes : refCount[g] > 0}}
               r == [req[p] EXCEPT !.live = t]
    <2>1. Enter(p, "rec_staged", r) \/ Fail(p, "idle")
      BY <1>14 DEF RecoverListRefs, FailClean
    <2> HIDE DEF t
    <2>2. r.op = req[p].op /\ r.obj = req[p].obj /\ r.bkt = req[p].bkt
      BY <1>10
    <2> HIDE DEF r
    <2> QED
      BY <1>6, <1>7, <1>9, <2>1, <2>2
  <1>15. CASE RecoverListPending(p)
    <2> DEFINE t == req[p].live \cup PendingShardSets
               r == [req[p] EXCEPT !.live = t]
    <2>1. Enter(p, "rec_local", r) \/ Fail(p, "idle")
      BY <1>15 DEF RecoverListPending, FailClean
    <2> HIDE DEF t
    <2>2. r.op = req[p].op /\ r.obj = req[p].obj /\ r.bkt = req[p].bkt
      BY <1>10
    <2> HIDE DEF r
    <2> QED
      BY <1>6, <1>7, <1>9, <2>1, <2>2
  <1>16. CASE RecoverListLocal(p)
    <2> DEFINE t == {s \in ShardSets : shards[s[1]][s[2]] # "none"} \ req[p].live
               r == [req[p] EXCEPT !.sets = t, !.live = {}]
    <2>1. Enter(p, "rec_sweep", r) \/ Fail(p, "idle")
      BY <1>16 DEF RecoverListLocal, FailClean
    <2> HIDE DEF t
    <2>2. r.op = req[p].op /\ r.obj = req[p].obj /\ r.bkt = req[p].bkt
      BY <1>10
    <2> HIDE DEF r
    <2> QED
      BY <1>6, <1>7, <1>9, <2>1, <2>2
  <1>17. CASE RecoverSweep(p)
    <2>1. ASSUME NEW s, Enter(p, "rec_sweep", [req[p] EXCEPT !.sets = @ \ {s}])
          PROVE  ExactInv'
      <3> DEFINE t == req[p].sets \ {s}
                 r == [req[p] EXCEPT !.sets = t]
      <3>1. Enter(p, "rec_sweep", r)
        BY <2>1
      <3> HIDE DEF t
      <3>2. r.op = req[p].op /\ r.obj = req[p].obj /\ r.bkt = req[p].bkt
        BY <1>10
      <3> HIDE DEF r
      <3> QED
        BY <1>7, <1>9, <3>1, <3>2
    <2> QED
      BY <1>6, <1>17, <2>1 DEF RecoverSweep, FailClean
  <1>18. CASE RecoverPendingDone(p) \/ RecoverDone(p) \/ GetCacheLayout(p)
    BY <1>8, <1>9, <1>18 DEF RecoverPendingDone, RecoverDone, GetCacheLayout
  <1> QED
    BY <1>2, <1>3, <1>11, <1>12, <1>13, <1>14, <1>15, <1>16, <1>17, <1>18 DEF GetStep

\* A request that begins knows and holds nothing.
LEMMA StartExact ==
  ASSUME TypeInv, ReferencesInv, ExactInv, NEW p \in Procs, StartRequest(p)
  PROVE  ExactInv'
  <1>1. pc[p] = "idle"
    BY DEF StartRequest, PutObject, DeleteObject, GetObject, DeleteBucket, Recover, MayStart
  <1>2. PICK l, r : /\ l \in {"put_bucket", "del_load", "get_meta", "bkt_list", "rec_list"} /\ Begin(p, l, r)
                    /\ r.op = "bucket" => l = "bkt_list"
    <2>1. /\ \A o, h : [NoReq EXCEPT !.op = "put", !.obj = o, !.hash = h].op = "put"
          /\ \A o : [NoReq EXCEPT !.op = "delete", !.obj = o].op = "delete"
          /\ \A o : [NoReq EXCEPT !.op = "get", !.obj = o].op = "get"
          /\ [NoReq EXCEPT !.op = "recover"].op = "recover"
      BY DEF NoReq
    <2>2. CASE PutObject(p)
      <3>1. PICK o \in Objects, h \in Hashes : Begin(p, "put_bucket", [NoReq EXCEPT !.op = "put", !.obj = o, !.hash = h])
        BY <2>2 DEF PutObject
      <3> QED
        BY <2>1, <3>1
    <2>3. CASE DeleteObject(p)
      <3>1. PICK o \in Objects : Begin(p, "del_load", [NoReq EXCEPT !.op = "delete", !.obj = o])
        BY <2>3 DEF DeleteObject
      <3> QED
        BY <2>1, <3>1
    <2>4. CASE GetObject(p)
      <3>1. PICK o \in Objects : Begin(p, "get_meta", [NoReq EXCEPT !.op = "get", !.obj = o])
        BY <2>4 DEF GetObject
      <3> QED
        BY <2>1, <3>1
    <2>5. CASE DeleteBucket(p)
      BY <2>5 DEF DeleteBucket
    <2>6. CASE Recover(p)
      BY <2>1, <2>6 DEF Recover
    <2> QED
      BY <2>2, <2>3, <2>4, <2>5, <2>6 DEF StartRequest
  <1>3. /\ pc'[p] = l /\ req'[p] = r
        /\ \A q \in Procs \ {p} : pc'[q] = pc[q] /\ req'[q] = req[q]
        /\ UNCHANGED <<objects, refCount>> /\ (Clean' => Clean)
    BY <1>2, EnterClean DEF Begin, Enter, metaVars, TypeInv, ControlOK, ControlType
  <1>4. Knows(l, r, objects)
    BY <1>2 DEF Knows
  <1>5. \A q \in Procs : pc'[q] # "idle" => Knows(pc'[q], req'[q], objects')
    BY <1>3, <1>4 DEF ExactInv
  <1>6. ASSUME Exact, NEW h \in Hashes
        PROVE  refCount'[h] <= Cardinality(Claims(h)')
    <2>1. \A q \in Procs : Holds(q, h) => Holds(q, h)'
      BY <1>1, <1>3, HoldsHeldAt DEF HeldAt
    <2>2. Claims(h) \subseteq Claims(h)'
      BY <1>3, <2>1 DEF Claims
    <2>3. Cardinality(Claims(h)) <= Cardinality(Claims(h)')
      BY <2>2, ClaimsFinite, CountSubset
    <2>4. refCount[h] <= Cardinality(Claims(h)) /\ refCount[h] \in Nat
      BY <1>6 DEF Exact, TypeInv, MetaOK, MetaType
    <2> QED
      BY <1>3, <2>3, <2>4, ClaimsFinite
  <1> QED
    BY <1>3, <1>5, <1>6 DEF ExactInv, Exact

\* After a restart a run is not clean, and only the recovery is under way.
LEMMA RestartExact ==
  ASSUME TypeInv, ExactInv, Restart
  PROVE  ExactInv'
  <1>1. PICK p \in Procs :
          /\ pc' = [q \in Procs |-> IF q = p THEN "rec_list" ELSE "idle"]
          /\ req' = [q \in Procs |-> IF q = p THEN [NoReq EXCEPT !.op = "boot"] ELSE NoReq]
    BY DEF Restart
  <1>2. [NoReq EXCEPT !.op = "boot"].op = "boot"
    BY DEF NoReq
  <1>3. \A q \in Procs : pc'[q] # "idle" => pc'[q] = "rec_list" /\ req'[q].op = "boot"
    BY <1>1, <1>2
  <1>4. ~Clean'
    BY DEF Restart, Clean, TypeInv, ControlOK, ControlType
  <1> QED
    BY <1>3, <1>4 DEF ExactInv, Knows

\* A step that changes neither requests nor what is counted.
LEMMA AroundExact ==
  ASSUME ExactInv, CreateBucket \/ UNCHANGED vars
  PROVE  ExactInv'
  <1>1. UNCHANGED <<objects, refCount, pc, req, faults, crashes>>
    BY DEF CreateBucket, vars, metaVars
  <1>2. \A h : Claims(h)' = Claims(h)
    BY <1>1 DEF Claims, Holds
  <1>3. Exact => Exact'
    BY <1>1, <1>2 DEF Exact
  <1>4. Clean' <=> Clean
    BY <1>1 DEF Clean
  <1> QED
    BY <1>1, <1>3, <1>4 DEF ExactInv

\* ExactInv is inductive given the reference invariant.
LEMMA NextExact ==
  ASSUME MaxElapses = 0, LostReplies = FALSE
  PROVE  TypeInv /\ ReferencesInv /\ ExactInv /\ [Next]_vars => ExactInv'
  <1> SUFFICES ASSUME TypeInv, ReferencesInv, ExactInv, [Next]_vars
               PROVE  ExactInv'
    OBVIOUS
  <1>1. ASSUME NEW p \in Procs, Work(p)
        PROVE  ExactInv'
    <2>1. CASE PutStep(p)
      BY <2>1, PutEarlyExact, PutLateExact DEF PutStep
    <2> QED
      BY <1>1, <2>1, RollbackExact, DeleteExact, ReadExact DEF Work
  <1> QED
    BY <1>1, StartExact, RestartExact, AroundExact, NoElapse DEF Next

\* No reference is counted at first.
LEMMA InitExact == Init => ExactInv
  <1> SUFFICES ASSUME Init PROVE ExactInv
    OBVIOUS
  <1>1. \A p \in Procs : pc[p] = "idle"
    BY DEF Init
  <1>2. \A h \in Hashes : refCount[h] = 0 /\ Cardinality(Claims(h)) \in Nat
    BY ClaimsFinite DEF Init
  <1> QED
    BY <1>1, <1>2 DEF ExactInv, Exact

\* LeakOnlyAfterFailure: until a call fails or the process is killed, every
\* reference count is the number of committed objects and requests that hold
\* the content, whatever puts, overwrites, deletes and bucket deletions on
\* different objects are under way.
THEOREM CountsExactUntilFailure ==
  ASSUME Contend = FALSE, MaxElapses = 0, LostReplies = FALSE
  PROVE  Spec => []LeakOnlyAfterFailure
  <1>1. Init => TypeInv /\ ReferencesInv /\ ExactInv
    BY InitTypeInv, InitRefs, InitExact
  <1>2. TypeInv /\ ReferencesInv /\ ExactInv /\ [Next]_vars => (TypeInv /\ ReferencesInv /\ ExactInv)'
    BY NextType, NextRefs, NextExact
  <1>3. TypeInv /\ ReferencesInv /\ ExactInv => LeakOnlyAfterFailure
    <2> SUFFICES ASSUME TypeInv, ReferencesInv, ExactInv, Clean, NEW h \in Hashes
                 PROVE  refCount[h] = Cardinality(Claims(h))
      BY DEF LeakOnlyAfterFailure, Clean
    <2>1. refCount[h] <= Cardinality(Claims(h))
      BY DEF ExactInv, Exact
    <2> QED
      BY <2>1, Covered
  <1> QED
    BY <1>1, <1>2, <1>3, PTL DEF Spec

(***************************************************************************)
(* One request at a time                                                    *)
(***************************************************************************)
OneAtATime == \A p, q \in Procs : p = q

\* Where a request stands after a call that succeeded.
LEMMA Entered ==
  ASSUME TypeInv, NEW p \in Procs, NEW l, NEW r, Enter(p, l, r)
  PROVE  pc'[p] = l /\ req'[p] = (IF l = "idle" THEN NoReq ELSE r) /\ faults' = faults /\ crashes' = crashes
  BY DEF TypeInv, ControlOK, ControlType, Enter

\* The same when it keeps its locals.
LEMMA Went ==
  ASSUME TypeInv, NEW p \in Procs, NEW l, Goto(p, l)
  PROVE  /\ pc'[p] = l /\ req'[p] = (IF l = "idle" THEN NoReq ELSE req[p])
         /\ faults' = faults /\ crashes' = crashes
  BY Entered DEF Goto

\* Where a request stands after a call that failed.
LEMMA Failed ==
  ASSUME TypeInv, NEW p \in Procs, NEW l, Fail(p, l)
  PROVE  /\ pc'[p] = l /\ req'[p] = (IF l = "idle" THEN NoReq ELSE req[p])
         /\ faults < MaxFaults /\ faults' = faults + 1 /\ crashes' = crashes
  BY DEF TypeInv, ControlOK, ControlType, Fail

\* Where a request stands when it begins.
LEMMA Begun ==
  ASSUME TypeInv, NEW p \in Procs, StartRequest(p)
  PROVE  /\ pc'[p] \in {"put_bucket", "del_load", "get_meta", "bkt_list", "rec_list"}
         /\ pc'[p] = "put_bucket" =>
                ~req'[p].hit /\ ~req'[p].created /\ req'[p].mut = "unchanged" /\ req'[p].exDir = None
         /\ pc[p] = "idle"
         /\ UNCHANGED <<metaVars, engineVars, faults, crashes>>
  <1>1. pc[p] = "idle"
    BY DEF StartRequest, PutObject, DeleteObject, GetObject, DeleteBucket, Recover, MayStart
  <1>2. PICK l, r : /\ l \in {"put_bucket", "del_load", "get_meta", "bkt_list", "rec_list"} /\ Begin(p, l, r)
                    /\ l = "put_bucket" => ~r.hit /\ ~r.created /\ r.mut = "unchanged" /\ r.exDir = None
    <2>1. CASE PutObject(p)
      <3>1. PICK o \in Objects, h \in Hashes : Begin(p, "put_bucket", [NoReq EXCEPT !.op = "put", !.obj = o, !.hash = h])
        BY <2>1 DEF PutObject
      <3> DEFINE r == [NoReq EXCEPT !.op = "put", !.obj = o, !.hash = h]
      <3>2. ~r.hit /\ ~r.created /\ r.mut = "unchanged" /\ r.exDir = None
        BY DEF NoReq
      <3> QED
        BY <3>1, <3>2
    <2>2. CASE DeleteObject(p)
      BY <2>2 DEF DeleteObject
    <2>3. CASE GetObject(p)
      BY <2>3 DEF GetObject
    <2>4. CASE DeleteBucket(p)
      BY <2>4 DEF DeleteBucket
    <2>5. CASE Recover(p)
      BY <2>5 DEF Recover
    <2> QED
      BY <2>1, <2>2, <2>3, <2>4, <2>5 DEF StartRequest
  <1>3. Enter(p, l, r) /\ UNCHANGED <<metaVars, engineVars>>
    BY <1>2 DEF Begin
  <1>4. pc'[p] = l /\ req'[p] = (IF l = "idle" THEN NoReq ELSE r) /\ faults' = faults /\ crashes' = crashes
    BY <1>3, Entered
  <1> QED
    BY <1>1, <1>2, <1>3, <1>4

(***************************************************************************)
(* The sweep of a recovery                                                  *)
(***************************************************************************)
\* The shard sets the blob refs name.
Refs == {<<refPath[h], h>> : h \in {g \in Hashes : refCount[g] > 0}}

\* What a recovery has listed is still so: the live shard sets, then the sets
\* to delete, which no ref names and which are all that nothing accounts for.
SweepAt(l, r) ==
    /\ l = "rec_staged" => r.live = Refs
    /\ l = "rec_local" => r.live = Refs \cup PendingShardSets
    /\ l = "rec_sweep" =>
           /\ r.sets \cap Refs = {}
           /\ \A d \in Dirs, h \in Hashes : shards[d][h] # "none" =>
                  <<d, h>> \in r.sets \cup Refs \cup PendingShardSets

SweepInv == \A p \in Procs : SweepAt(pc[p], req[p])

SweepCalls == {"rec_staged", "rec_local", "rec_sweep"}

\* Only the calls of a sweep lead on to calls of a sweep.
LEMMA SweepEntry ==
  ASSUME TypeInv, NEW p \in Procs, Work(p), pc'[p] \in SweepCalls
  PROVE  \/ RecoverListRefs(p) \/ RecoverListPending(p) \/ RecoverListLocal(p) \/ RecoverSweep(p)
  <1>1. ASSUME NEW l, NEW r, Enter(p, l, r), l \notin SweepCalls
        PROVE  FALSE
    BY <1>1, Entered
  <1>2. ASSUME NEW l, Goto(p, l), l \notin SweepCalls
        PROVE  FALSE
    BY <1>2, Went
  <1>3. ASSUME NEW l, Fail(p, l), l \notin SweepCalls
        PROVE  FALSE
    BY <1>3, Failed
  <1>4. AfterRelease(p) \notin SweepCalls /\ AfterLayoutRollback(p) \notin SweepCalls
    BY DEF AfterRelease, AfterLayoutRollback, SweepCalls
  <1> USE DEF SweepCalls, FailClean, FailCommand
  <1>5. ~(PutEnsureBucket(p) \/ PutLoadExisting(p) \/ PutLoadExistingRef(p) \/ PutPrepareBlob(p)
            \/ PutCreateBlob(p) \/ PutLinkLayout(p))
    BY <1>1, <1>2, <1>3 DEF PutEnsureBucket, PutLoadExisting, PutLoadExistingRef, PutPrepareBlob,
                            PutCreateBlob, PutLinkLayout
  <1>6. ~(PutStageMeta(p) \/ PutIntentPrepared(p) \/ PutIntentLinked(p) \/ PutIntentRetained(p))
    BY <1>2, <1>3 DEF PutStageMeta, PutIntentPrepared, PutIntentLinked, PutIntentRetained, AdvanceIntent
  <1>7. ~(PutRetainBlob(p) \/ PutCommit(p) \/ PutUnstage(p) \/ FailUnstage(p) \/ FailDropBlob(p))
    BY <1>1, <1>2, <1>3 DEF PutRetainBlob, PutCommit, PutUnstage, FailUnstage, FailDropBlob
  <1>8. ~RollbackStep(p)
    BY <1>1, <1>2, <1>3 DEF RollbackStep, RollbackLayout, RollbackUnstage, RollbackRestore, RollbackRef,
                            RollbackRefBlob, RollbackBlob
  <1>9. ~DeleteLayout(p)
    BY <1>2 DEF DeleteLayout, TypeInv, ControlOK, ControlType
  <1>10. ~(DeleteLoad(p) \/ DeleteMeta(p) \/ BucketList(p))
    BY <1>1, <1>2, <1>3 DEF DeleteLoad, DeleteMeta, BucketList
  <1>11. ~BucketDrop(p)
    BY <1>2, <1>3 DEF BucketDrop
  <1>12. ~BucketNextObject(p)
    <2> SUFFICES ASSUME NEW o, Enter(p, "del_load", [req[p] EXCEPT !.obj = o, !.todo = @ \ {o}])
                 PROVE  FALSE
      BY DEF BucketNextObject
    <2> DEFINE r == [req[p] EXCEPT !.obj = o, !.todo = @ \ {o}]
    <2>1. Enter(p, "del_load", r)
      OBVIOUS
    <2> HIDE DEF r
    <2> QED
      BY <1>1, <2>1
  <1>13. ~(ReleaseRef(p) \/ ReleaseBlob(p))
    BY <1>1, <1>2, <1>3, <1>4 DEF ReleaseRef, ReleaseBlob
  <1>14. ~GetStep(p)
    BY <1>1, <1>2, <1>3 DEF GetStep, GetMeta, GetData, GetCacheLayout
  <1>15. ~(RecoverListStaged(p) \/ RecoverPendingDone(p) \/ RecoverLayout(p) \/ RecoverDone(p))
    BY <1>1, <1>2, <1>3 DEF RecoverListStaged, RecoverPendingDone, RecoverLayout, RecoverDone
  <1>16. ~RecoverNextPending(p)
    <2> SUFFICES ASSUME NEW o, RecoverNextPending(p),
                        Enter(p, IF req[p].snap[o].stage \in {"layout_linked", "blob_retained"}
                                 THEN "rec_layout" ELSE "rec_unstage",
                              [req[p] EXCEPT !.obj = o, !.hash = req[p].snap[o].hash])
                 PROVE  FALSE
      BY DEF RecoverNextPending
    <2> DEFINE r == [req[p] EXCEPT !.obj = o, !.hash = req[p].snap[o].hash]
    <2>1. Enter(p, "rec_layout", r) \/ Enter(p, "rec_unstage", r)
      OBVIOUS
    <2> HIDE DEF r
    <2> QED
      BY <1>1, <2>1
  <1>17. ~(RecoverCommittedRef(p) \/ RecoverLink(p) \/ RecoverUnlink(p))
    BY <1>1, <1>2, <1>3, <1>4 DEF RecoverCommittedRef, RecoverLink, RecoverUnlink
  <1>18. ~(RecoverCheckRelease(p) \/ RecoverUnstage(p))
    BY <1>1, <1>2, <1>3 DEF RecoverCheckRelease, RecoverUnstage
  <1> QED
    BY <1>5, <1>6, <1>7, <1>8, <1>9, <1>10, <1>11, <1>12, <1>13, <1>14, <1>15, <1>16, <1>17, <1>18 DEF Work, PutStep, DeleteStep, RecoverStep

\* The sweep's own steps.
LEMMA SweepStep ==
  ASSUME TypeInv, SweepInv, OneAtATime, NEW p \in Procs,
         RecoverListRefs(p) \/ RecoverListPending(p) \/ RecoverListLocal(p) \/ RecoverSweep(p)
  PROVE  SweepInv'
  <1>1. req[p] \in Requests /\ SweepAt(pc[p], req[p])
    BY DEF TypeInv, ControlOK, ControlType, SweepInv
  <1>2. SUFFICES SweepAt(pc[p], req[p])'
    BY DEF SweepInv, OneAtATime
  <1>3. CASE Fail(p, "idle")
    BY <1>3, Failed DEF SweepAt
  <1>4. UNCHANGED metaVars => Refs' = Refs /\ PendingShardSets' = PendingShardSets
    BY DEF Refs, PendingShardSets, metaVars
  <1>5. CASE RecoverListRefs(p) /\ ~Fail(p, "idle")
    <2> DEFINE r == [req[p] EXCEPT !.live = Refs]
    <2>1. Enter(p, "rec_staged", r) /\ UNCHANGED metaVars
      BY <1>5 DEF RecoverListRefs, FailClean, Refs
    <2>2. r.live = Refs
      BY <1>1 DEF Requests
    <2> HIDE DEF r
    <2>3. pc'[p] = "rec_staged" /\ req'[p].live = Refs
      BY <2>1, <2>2, Entered
    <2> QED
      BY <1>4, <2>1, <2>3 DEF SweepAt
  <1>6. CASE RecoverListPending(p) /\ ~Fail(p, "idle")
    <2> DEFINE r == [req[p] EXCEPT !.live = @ \cup PendingShardSets]
    <2>1. Enter(p, "rec_local", r) /\ UNCHANGED metaVars /\ pc[p] = "rec_staged"
      BY <1>6 DEF RecoverListPending, FailClean
    <2>2. r.live = Refs \cup PendingShardSets
      BY <1>1, <2>1 DEF Requests, SweepAt
    <2> HIDE DEF r
    <2>3. pc'[p] = "rec_local" /\ req'[p].live = Refs \cup PendingShardSets
      BY <2>1, <2>2, Entered
    <2> QED
      BY <1>4, <2>1, <2>3 DEF SweepAt
  <1>7. CASE RecoverListLocal(p) /\ ~Fail(p, "idle")
    <2> DEFINE local == {s \in ShardSets : shards[s[1]][s[2]] # "none"}
               r == [req[p] EXCEPT !.sets = local \ req[p].live, !.live = {}]
    <2>1. Enter(p, "rec_sweep", r) /\ UNCHANGED <<metaVars, engineVars>> /\ pc[p] = "rec_local"
      BY <1>7 DEF RecoverListLocal, FailClean
    <2>2. r.sets = local \ (Refs \cup PendingShardSets)
      BY <1>1, <2>1 DEF Requests, SweepAt
    <2>3. \A d \in Dirs, h \in Hashes : shards[d][h] # "none" => <<d, h>> \in local
      BY DEF ShardSets
    <2> HIDE DEF r, local
    <2>4. pc'[p] = "rec_sweep" /\ req'[p].sets = local \ (Refs \cup PendingShardSets)
      BY <2>1, <2>2, Entered
    <2>5. shards' = shards
      BY <2>1 DEF engineVars
    <2> QED
      BY <1>4, <2>1, <2>3, <2>4, <2>5 DEF SweepAt
  <1>8. CASE RecoverSweep(p) /\ ~Fail(p, "idle")
    <2>1. PICK s \in req[p].sets : /\ DeleteBlob(s[1], s[2]) /\ Enter(p, "rec_sweep", [req[p] EXCEPT !.sets = @ \ {s}])
                                   /\ UNCHANGED metaVars /\ pc[p] = "rec_sweep"
      BY <1>8 DEF RecoverSweep, FailClean
    <2> DEFINE r == [req[p] EXCEPT !.sets = @ \ {s}]
    <2>2. r.sets = req[p].sets \ {s} /\ req[p].sets \subseteq ShardSets
      BY <1>1 DEF Requests
    <2>3. s[1] \in Dirs /\ s[2] \in Hashes /\ s = <<s[1], s[2]>>
      BY <2>2 DEF ShardSets
    <2>4. \A d \in Dirs, h \in Hashes : shards'[d][h] = IF d = s[1] /\ h = s[2] THEN "none" ELSE shards[d][h]
      BY <2>1, <2>3 DEF DeleteBlob, SetShards, TypeInv, EngineType
    <2> HIDE DEF r
    <2>5. pc'[p] = "rec_sweep" /\ req'[p].sets = req[p].sets \ {s}
      BY <2>1, <2>2, Entered DEF r
    <2> QED
      BY <1>1, <1>4, <2>1, <2>3, <2>4, <2>5 DEF SweepAt
  <1> QED
    BY <1>3, <1>5, <1>6, <1>7, <1>8

\* The sweep invariant is inductive when requests are served one at a time.
LEMMA NextSweep ==
  ASSUME OneAtATime
  PROVE  TypeInv /\ SweepInv /\ [Next]_vars => SweepInv'
  <1> SUFFICES ASSUME TypeInv, SweepInv, [Next]_vars
               PROVE  SweepInv'
    OBVIOUS
  <1>1. ASSUME NEW p \in Procs, pc'[p] \notin SweepCalls
        PROVE  SweepInv'
    BY <1>1 DEF SweepInv, SweepAt, OneAtATime, SweepCalls
  <1>2. ASSUME NEW p \in Procs, StartRequest(p)
        PROVE  SweepInv'
    BY <1>1, <1>2, Begun DEF SweepCalls
  <1>3. ASSUME NEW p \in Procs, Work(p)
        PROVE  SweepInv'
    BY <1>1, <1>3, SweepEntry, SweepStep
  <1>4. CASE Restart
    BY <1>1, <1>4 DEF Restart, SweepCalls
  <1>5. CASE Elapse
    <2>1. SUFFICES ASSUME NEW p \in Procs, pc[p] \in SweepCalls
                   PROVE  FALSE
      BY <1>1, <1>5 DEF Elapse, SweepInv
    <2>2. req[p].op \in {"recover", "boot"}
      BY <2>1 DEF TypeInv, ControlOK, ShapeOf, RecoverCalls, SweepCalls
    <2>3. Touches(p) = Objects
      BY <2>1, <2>2 DEF Touches, SweepCalls
    <2> QED
      BY <1>5, <2>3 DEF Elapse
  <1>6. CASE CreateBucket \/ UNCHANGED vars
    <2>1. UNCHANGED <<refCount, refPath, staged, shards, pc, req>>
      BY <1>6 DEF CreateBucket, vars, metaVars, engineVars
    <2>2. Refs' = Refs /\ PendingShardSets' = PendingShardSets
      BY <2>1 DEF Refs, PendingShardSets
    <2> QED
      BY <2>1, <2>2 DEF SweepInv, SweepAt
  <1> QED
    BY <1>2, <1>3, <1>4, <1>5, <1>6 DEF Next

\* Nothing is being swept at first.
LEMMA InitSweep == Init => SweepInv
  BY DEF Init, SweepInv, SweepAt

\* SweepComplete: a recovery that ends leaves no shard set behind that neither a
\* blob ref nor a staged write accounts for, whatever calls failed, commands
\* were applied without an answer, kills and expiries came before.
THEOREM SweepsAreComplete ==
  ASSUME OneAtATime
  PROVE  Spec => []SweepComplete
  <1>1. Init => TypeInv /\ SweepInv
    BY InitTypeInv, InitSweep
  <1>2. TypeInv /\ SweepInv /\ [Next]_vars => (TypeInv /\ SweepInv)'
    BY NextType, NextSweep
  <1>3. TypeInv /\ SweepInv => SweepComplete
    <2> SUFFICES ASSUME SweepInv, NEW p \in Procs, pc[p] = "rec_sweep", req[p].sets = {},
                        NEW d \in Dirs, NEW h \in Hashes, shards[d][h] # "none"
                 PROVE  (refCount[h] > 0 /\ refPath[h] = d) \/ <<d, h>> \in PendingShardSets
      BY DEF SweepComplete
    <2>1. <<d, h>> \in Refs \cup PendingShardSets
      BY DEF SweepInv, SweepAt
    <2>2. <<d, h>> \in Refs => refCount[h] > 0 /\ refPath[h] = d
      BY DEF Refs
    <2> QED
      BY <2>1, <2>2
  <1> QED
    BY <1>1, <1>2, <1>3, PTL DEF Spec

(***************************************************************************)
(* Every blob ref is backed by shards                                       *)
(***************************************************************************)
\* What a request has prepared or is about to delete.  A put that found a ref
\* uses its path; one that did not has written the shards itself, and nobody
\* counts the content before retainBlob.  Shards are only deleted when no ref
\* is left: in a rollback, which cannot fail again, that is so after the
\* reference taken has been given back.
BackedAt(l, r) ==
    /\ l \in PutCalls \ {"put_bucket"} => BucketOf[r.obj] \in buckets
    /\ l \in {"put_bucket", "put_load", "put_loadref", "put_stage", "put_prepare", "put_blob"} =>
           ~r.hit /\ ~r.created /\ r.mut = "unchanged"
    /\ l = "put_blob" => refCount[r.hash] = 0
    /\ l \in PreparedCalls =>
           /\ r.mut = "unchanged"
           /\ r.created <=> ~r.hit
           /\ r.hit => refCount[r.hash] > 0 /\ refPath[r.hash] = r.dir
           /\ r.created => refCount[r.hash] = 0 /\ shards[r.dir][r.hash] = "full"
    /\ l \in {"put_retained", "put_commit"} =>
           /\ refCount[r.hash] > 0 /\ refPath[r.hash] = r.dir
           /\ r.created => refCount[r.hash] = 1 /\ r.mut = "created"
    /\ l \in RollbackCalls \ {"fail_unstage", "fail_blob"} => faults >= MaxFaults
    /\ l \in {"rb_layout", "rb_unstage", "rb_restore", "rb_ref"} /\ r.created =>
           refCount[r.hash] = IF r.mut = "unchanged" THEN 0 ELSE 1
    /\ l \in {"fail_blob", "rb_refblob"} => refCount[r.hash] = 0
    /\ l = "rb_blob" /\ r.created => refCount[r.hash] = 0
    /\ l = "rel_blob" => refCount[r.rel] = 0

BackedInv == RefBacked /\ \A p \in Procs : BackedAt(pc[p], req[p])

GuardedCalls == PutCalls \cup RollbackCalls \cup {"rel_blob"}

\* A step that neither counts nor writes shards, and prepares nothing.
LEMMA CalmStep ==
  ASSUME BackedInv, OneAtATime, NEW p \in Procs, UNCHANGED <<refCount, refPath, shards>>,
         pc'[p] \notin GuardedCalls
  PROVE  BackedInv'
  <1>1. RefBacked'
    BY DEF BackedInv, RefBacked
  <1>2. BackedAt(pc[p], req[p])'
    BY DEF BackedAt, GuardedCalls, PreparedCalls, PutCalls, RollbackCalls
  <1> QED
    BY <1>1, <1>2 DEF BackedInv, OneAtATime

\* A step of a put that leaves refs and shards alone.
LEMMA CalmPut ==
  ASSUME BackedInv, OneAtATime, NEW p \in Procs, UNCHANGED <<refCount, refPath, shards>>,
         BackedAt(pc[p], req[p])'
  PROVE  BackedInv'
  BY DEF BackedInv, OneAtATime, RefBacked

\* Shards are written, or deleted where no ref names them.
LEMMA BackedShards ==
  ASSUME TypeInv, RefBacked, NEW d, NEW h, NEW s, SetShards(d, h, s), UNCHANGED metaVars,
         s = "full" \/ ~(refCount[h] > 0 /\ refPath[h] = d)
  PROVE  RefBacked'
  <1> SUFFICES ASSUME NEW g \in Hashes, refCount[g] > 0
               PROVE  shards'[refPath[g]][g] = "full"
    BY DEF RefBacked, metaVars
  <1>1. shards[refPath[g]][g] = "full" /\ refPath[g] \in Dirs
    BY DEF RefBacked, TypeInv, MetaOK, RefsOK
  <1>2. CASE g = h /\ refPath[g] = d
    BY <1>1, <1>2 DEF SetShards, TypeInv, EngineType
  <1>3. CASE ~(g = h /\ refPath[g] = d)
    BY <1>1, <1>3 DEF SetShards, TypeInv, EngineType
  <1> QED
    BY <1>2, <1>3

\* What a command does to the refs: the others are left alone, and a ref that
\* was there and still is keeps its path.
LEMMA RefEffects ==
  ASSUME TypeInv, NEW h \in Hashes, NEW d \in Dirs
  PROVE  /\ CreateBlobRef(h, d) =>
              /\ refCount'[h] = refCount[h] + 1
              /\ refPath'[h] = IF refCount[h] = 0 THEN d ELSE refPath[h]
              /\ \A g \in Hashes \ {h} : refCount'[g] = refCount[g] /\ refPath'[g] = refPath[g]
         /\ IncreaseBlobRef(h) =>
              /\ refCount[h] > 0 /\ refCount'[h] = refCount[h] + 1 /\ refPath'[h] = refPath[h]
              /\ \A g \in Hashes \ {h} : refCount'[g] = refCount[g] /\ refPath'[g] = refPath[g]
         /\ DecreaseBlobRef(h) =>
              /\ refCount'[h] = IF refCount[h] <= 1 THEN 0 ELSE refCount[h] - 1
              /\ refCount[h] > 1 => refPath'[h] = refPath[h]
              /\ \A g \in Hashes \ {h} : refCount'[g] = refCount[g] /\ refPath'[g] = refPath[g]
  BY DEF TypeInv, MetaOK, MetaType, CreateBlobRef, IncreaseBlobRef, DecreaseBlobRef

\* A command on the refs keeps them backed; a new ref needs its shards.
LEMMA BackedRefs ==
  ASSUME TypeInv, RefBacked, UNCHANGED shards, NEW h \in Hashes,
         \/ \E d \in Dirs : CreateBlobRef(h, d) /\ (refCount[h] = 0 => shards[d][h] = "full")
         \/ IncreaseBlobRef(h)
         \/ DecreaseBlobRef(h)
  PROVE  RefBacked'
  <1>0. refCount \in [Hashes -> Nat]
    BY DEF TypeInv, MetaOK, MetaType
  <1>1. CASE IncreaseBlobRef(h) \/ DecreaseBlobRef(h)
    <2>1. DirOf \in [Objects -> Dirs]
      BY ObjectsAssumption
    <2>2. CASE IncreaseBlobRef(h)
      BY <1>0, <2>2 DEF RefBacked, IncreaseBlobRef
    <2>3. CASE DecreaseBlobRef(h)
      BY <1>0, <2>3 DEF RefBacked, DecreaseBlobRef, TypeInv, MetaOK, MetaType
    <2> QED
      BY <1>1, <2>2, <2>3
  <1>2. CASE \E d \in Dirs : CreateBlobRef(h, d) /\ (refCount[h] = 0 => shards[d][h] = "full")
    <2>1. PICK d \in Dirs : CreateBlobRef(h, d) /\ (refCount[h] = 0 => shards[d][h] = "full")
      BY <1>2
    <2>2. /\ refPath'[h] = IF refCount[h] = 0 THEN d ELSE refPath[h]
          /\ \A g \in Hashes \ {h} : refCount'[g] = refCount[g] /\ refPath'[g] = refPath[g]
      BY <2>1, RefEffects
    <2> QED
      BY <1>0, <2>1, <2>2 DEF RefBacked
  <1> QED
    BY <1>1, <1>2

(***************************************************************************)
(* PutObject                                                                *)
(***************************************************************************)
\* What a put in flight knows.
LEMMA PutFacts ==
  ASSUME TypeInv, BackedInv, NEW p \in Procs, pc[p] \in PutCalls \cup RollbackCalls
  PROVE  /\ req[p] \in Requests /\ BackedAt(pc[p], req[p]) /\ RefBacked
         /\ req[p].obj \in Objects /\ req[p].hash \in Hashes /\ req[p].op = "put"
         /\ refCount[req[p].hash] \in Nat
         /\ pc[p] \in PreparedCalls => req[p].dir \in Dirs
  BY DEF TypeInv, ControlOK, ControlType, ShapeOf, BackedInv, MetaOK, MetaType

\* The steps of a put up to the blob.
LEMMA PutEarlyBacked ==
  ASSUME TypeInv, BackedInv, OneAtATime, LostReplies = FALSE, NEW p \in Procs,
         \/ PutEnsureBucket(p) \/ PutLoadExisting(p) \/ PutLoadExistingRef(p)
         \/ PutStageMeta(p) \/ PutPrepareBlob(p)
  PROVE  BackedInv'
  <1> DEFINE h == req[p].hash
  <1>1. pc[p] \in {"put_bucket", "put_load", "put_loadref", "put_stage", "put_prepare"}
    BY DEF PutEnsureBucket, PutLoadExisting, PutLoadExistingRef, PutStageMeta, PutPrepareBlob, AdvanceIntent
  <1>2. /\ req[p] \in Requests /\ req[p].obj \in Objects /\ h \in Hashes
        /\ ~req[p].hit /\ ~req[p].created /\ req[p].mut = "unchanged"
        /\ pc[p] # "put_bucket" => BucketOf[req[p].obj] \in buckets
        /\ refCount[h] \in Nat
    BY <1>1, PutFacts DEF BackedAt, PutCalls
  <1>3. UNCHANGED <<refCount, refPath, shards, buckets>>
    BY DEF PutEnsureBucket, PutLoadExisting, PutLoadExistingRef, PutStageMeta, PutPrepareBlob, AdvanceIntent,
           FailClean, FailCommand, StageObjectMeta, metaVars, engineVars
  <1>4. ASSUME pc'[p] \in {"idle", "fail_unstage"}
        PROVE  BackedInv'
    <2>1. BackedAt(pc[p], req[p])'
      BY <1>4 DEF BackedAt, PutCalls, RollbackCalls, PreparedCalls
    <2> QED
      BY <1>3, <2>1, CalmPut
  <1>5. ASSUME NEW r, req'[p] = r, r.obj = req[p].obj, r.hit = req[p].hit, r.created = req[p].created,
               r.mut = req[p].mut, r.hash = h, BucketOf[req[p].obj] \in buckets,
               pc'[p] \in {"put_load", "put_loadref", "put_stage", "put_prepare", "put_blob"},
               pc'[p] = "put_blob" => refCount[h] = 0
        PROVE  BackedInv'
    <2>1. BackedAt(pc[p], req[p])'
      BY <1>2, <1>3, <1>5 DEF BackedAt, PutCalls, RollbackCalls, PreparedCalls
    <2> QED
      BY <1>3, <2>1, CalmPut
  <1>6. ASSUME NEW l, Fail(p, l), l \in {"idle", "fail_unstage"}
        PROVE  BackedInv'
    BY <1>4, <1>6, Failed
  <1>7. ASSUME NEW l, Goto(p, l), l \in {"put_load", "put_loadref", "put_stage", "put_prepare", "put_blob"},
               BucketOf[req[p].obj] \in buckets, l = "put_blob" => refCount[h] = 0
        PROVE  BackedInv'
    BY <1>5, <1>7, Went
  <1>8. CASE PutEnsureBucket(p)
    BY <1>4, <1>6, <1>7, <1>8, Went DEF PutEnsureBucket, FailClean
  <1>9. CASE PutLoadExisting(p)
    <2> DEFINE r == [req[p] EXCEPT !.ex = objects[req[p].obj]]
    <2>1. r.obj = req[p].obj /\ r.hit = req[p].hit /\ r.created = req[p].created /\ r.mut = req[p].mut /\ r.hash = h
      BY <1>2 DEF Requests
    <2>2. Enter(p, "put_stage", r) \/ Enter(p, "put_loadref", r) \/ Fail(p, "idle")
      BY <1>9 DEF PutLoadExisting, FailClean
    <2>3. pc[p] = "put_load"
      BY <1>9 DEF PutLoadExisting
    <2> HIDE DEF r
    <2> QED
      BY <1>2, <1>5, <1>6, <2>1, <2>2, <2>3, Entered
  <1>10. CASE PutLoadExistingRef(p)
    <2> DEFINE r == [req[p] EXCEPT !.exDir = refPath[req[p].ex]]
    <2>1. r.obj = req[p].obj /\ r.hit = req[p].hit /\ r.created = req[p].created /\ r.mut = req[p].mut /\ r.hash = h
      BY <1>2 DEF Requests
    <2>2. (Enter(p, "put_stage", r) \/ Fail(p, "idle")) /\ pc[p] = "put_loadref"
      BY <1>10 DEF PutLoadExistingRef, FailClean
    <2> HIDE DEF r
    <2> QED
      BY <1>2, <1>5, <1>6, <2>1, <2>2, Entered
  <1>11. CASE PutStageMeta(p)
    <2>1. pc[p] = "put_stage" /\ (Goto(p, "put_prepare") \/ Goto(p, "idle") \/ Fail(p, "idle"))
      BY <1>11 DEF PutStageMeta, AdvanceIntent, FailCommand
    <2> QED
      BY <1>2, <1>4, <1>6, <1>7, <2>1, Went
  <1>12. CASE PutPrepareBlob(p)
    <2> DEFINE r == [req[p] EXCEPT !.hit = TRUE, !.dir = refPath[req[p].hash]]
    <2>1. r.obj = req[p].obj /\ r.hit /\ r.created = req[p].created /\ r.mut = req[p].mut /\ r.hash = h
          /\ r.dir = refPath[h]
      BY <1>2 DEF Requests
    <2>2. \/ Enter(p, "put_prepared", r) /\ refCount[h] > 0
          \/ Goto(p, "put_blob") /\ ~(refCount[h] > 0)
          \/ Fail(p, "fail_unstage")
      BY <1>12 DEF PutPrepareBlob, FailClean
    <2>3. pc[p] = "put_prepare"
      BY <1>12 DEF PutPrepareBlob
    <2> HIDE DEF r
    <2>4. CASE Enter(p, "put_prepared", r) /\ refCount[h] > 0
      <3>1. pc'[p] = "put_prepared" /\ req'[p] = r
        BY <2>4, Entered
      <3>2. BackedAt(pc[p], req[p])'
        BY <1>2, <1>3, <2>1, <2>3, <2>4, <3>1 DEF BackedAt, PutCalls, RollbackCalls, PreparedCalls
      <3> QED
        BY <1>3, <3>2, CalmPut
    <2> QED
      BY <1>2, <1>6, <1>7, <2>2, <2>3, <2>4
  <1> QED
    BY <1>8, <1>9, <1>10, <1>11, <1>12

\* Writing the blob, and the steps up to retainBlob.
LEMMA PutMiddleBacked ==
  ASSUME TypeInv, BackedInv, OneAtATime, LostReplies = FALSE, MaxFaults <= 1, NEW p \in Procs,
         \/ PutCreateBlob(p) \/ PutIntentPrepared(p) \/ PutLinkLayout(p) \/ PutIntentLinked(p)
  PROVE  BackedInv'
  <1> DEFINE h == req[p].hash
  <1>1. pc[p] \in {"put_blob", "put_prepared", "put_link", "put_linked"}
    BY DEF PutCreateBlob, PutIntentPrepared, PutLinkLayout, PutIntentLinked, AdvanceIntent
  <1>2. /\ req[p] \in Requests /\ req[p].obj \in Objects /\ h \in Hashes /\ BackedAt(pc[p], req[p]) /\ RefBacked
        /\ req[p].mut = "unchanged" /\ BucketOf[req[p].obj] \in buckets /\ refCount[h] \in Nat
        /\ req[p].created \in BOOLEAN /\ req[p].hit \in BOOLEAN
    BY <1>1, PutFacts DEF BackedAt, PutCalls, PreparedCalls, Requests
  <1>3. MaxFaults \in Nat /\ faults \in Nat
    BY BoundsAssumption DEF TypeInv, ControlOK, ControlType
  <1>4. CASE PutCreateBlob(p)
    <2> DEFINE d == DirOf[req[p].obj]
               r == [req[p] EXCEPT !.created = TRUE, !.dir = d]
    <2>1. /\ pc[p] = "put_blob" /\ UNCHANGED metaVars /\ d \in Dirs
          /\ \/ PutBlob(d, h) /\ Enter(p, "put_prepared", r)
             \/ PutBlobFails(d, h) /\ Fail(p, "fail_unstage")
      BY <1>2, <1>4, ObjectsAssumption DEF PutCreateBlob
    <2>2. r.obj = req[p].obj /\ r.hit = req[p].hit /\ r.created /\ r.mut = req[p].mut /\ r.hash = h /\ r.dir = d
      BY <1>2 DEF Requests
    <2>3. refCount[h] = 0 /\ ~req[p].hit
      BY <1>2, <2>1 DEF BackedAt
    <2> HIDE DEF r, d
    <2>4. CASE PutBlob(d, h) /\ Enter(p, "put_prepared", r)
      <3>1. pc'[p] = "put_prepared" /\ req'[p] = r
        BY <2>4, Entered
      <3>2. shards'[d][h] = "full" /\ RefBacked'
        BY <1>2, <2>1, <2>4, BackedShards DEF PutBlob, SetShards, TypeInv, EngineType
      <3>3. BackedAt(pc[p], req[p])'
        BY <1>2, <2>1, <2>2, <2>3, <3>1, <3>2 DEF BackedAt, PutCalls, RollbackCalls, PreparedCalls, metaVars
      <3> QED
        BY <3>2, <3>3 DEF BackedInv, OneAtATime
    <2>5. CASE PutBlobFails(d, h) /\ Fail(p, "fail_unstage")
      <3>1. pc'[p] = "fail_unstage"
        BY <2>5, Failed
      <3>2. RefBacked'
        <4>1. CASE UNCHANGED engineVars
          BY <1>2, <2>1, <4>1 DEF RefBacked, metaVars, engineVars
        <4>2. CASE SetShards(d, h, "partial")
          BY <1>2, <2>1, <2>3, <4>2, BackedShards
        <4> QED
          BY <2>5, <4>1, <4>2 DEF PutBlobFails
      <3>3. BackedAt(pc[p], req[p])'
        BY <3>1 DEF BackedAt, PutCalls, RollbackCalls, PreparedCalls
      <3> QED
        BY <3>2, <3>3 DEF BackedInv, OneAtATime
    <2> QED
      BY <2>1, <2>4, <2>5
  <1>5. ASSUME ~PutCreateBlob(p)
        PROVE  /\ UNCHANGED <<refCount, refPath, shards, buckets>>
               /\ pc[p] \in PreparedCalls /\ pc[p] \in {"put_prepared", "put_link", "put_linked"}
    BY <1>5 DEF PutIntentPrepared, PutLinkLayout, PutIntentLinked, AdvanceIntent, PreparedCalls,
                FailClean, FailCommand, StageObjectMeta, LinkObject, metaVars, engineVars
  <1>6. ASSUME ~PutCreateBlob(p), NEW l, Goto(p, l), l \in PreparedCalls
        PROVE  BackedInv'
    <2>1. pc'[p] = l /\ req'[p] = req[p]
      BY <1>6, Went DEF PreparedCalls
    <2>2. BackedAt(pc[p], req[p])'
      BY <1>2, <1>5, <1>6, <2>1 DEF BackedAt, PutCalls, RollbackCalls, PreparedCalls
    <2> QED
      BY <1>5, <1>6, <2>2, CalmPut
  <1>7. ASSUME ~PutCreateBlob(p), NEW l, Fail(p, l),
               l \in {"rb_layout", "idle"} \/ (l = "fail_blob" /\ req[p].created)
        PROVE  BackedInv'
    <2>1. pc'[p] = l /\ (l # "idle" => req'[p] = req[p]) /\ faults' >= MaxFaults
      BY <1>3, <1>7, Failed
    <2>2. req[p].created => refCount[h] = 0
      BY <1>2, <1>5, <1>7 DEF BackedAt
    <2>3. BackedAt(pc[p], req[p])'
      BY <1>2, <1>5, <1>7, <2>1, <2>2 DEF BackedAt, PutCalls, RollbackCalls, PreparedCalls
    <2> QED
      BY <1>5, <1>7, <2>3, CalmPut
  <1>8. CASE ~PutCreateBlob(p) /\ (PutIntentPrepared(p) \/ PutIntentLinked(p))
    <2>1. Goto(p, "put_link") \/ Goto(p, "put_retain") \/ Fail(p, "rb_layout")
      BY <1>2, <1>8 DEF PutIntentPrepared, PutIntentLinked, AdvanceIntent, FailCommand
    <2> QED
      BY <1>6, <1>7, <1>8, <2>1 DEF PreparedCalls
  <1>9. CASE ~PutCreateBlob(p) /\ PutLinkLayout(p)
    <2>1. Goto(p, "put_linked") \/ (Fail(p, "fail_blob") /\ req[p].created) \/ Fail(p, "idle")
      BY <1>9 DEF PutLinkLayout, FailClean
    <2> QED
      BY <1>6, <1>7, <1>9, <2>1 DEF PreparedCalls
  <1> QED
    BY <1>4, <1>8, <1>9

\* retainBlob.
LEMMA PutRetainBacked ==
  ASSUME TypeInv, BackedInv, OneAtATime, LostReplies = FALSE, MaxFaults <= 1, NEW p \in Procs, PutRetainBlob(p)
  PROVE  BackedInv'
  <1> DEFINE h == req[p].hash
  <1>1. pc[p] = "put_retain"
    BY DEF PutRetainBlob
  <1>2. /\ req[p] \in Requests /\ req[p].obj \in Objects /\ h \in Hashes /\ RefBacked
        /\ req[p].mut = "unchanged" /\ BucketOf[req[p].obj] \in buckets /\ refCount[h] \in Nat
        /\ req[p].created <=> ~req[p].hit
        /\ req[p].hit => refCount[h] > 0 /\ refPath[h] = req[p].dir
        /\ req[p].created => refCount[h] = 0 /\ shards[req[p].dir][h] = "full"
        /\ req[p].dir \in Dirs
    <2>1. pc[p] \in PutCalls /\ pc[p] \in PreparedCalls /\ pc[p] # "put_bucket"
      BY <1>1 DEF PutCalls, PreparedCalls
    <2>2. /\ req[p] \in Requests /\ BackedAt(pc[p], req[p]) /\ RefBacked
          /\ req[p].obj \in Objects /\ req[p].hash \in Hashes
          /\ refCount[req[p].hash] \in Nat /\ req[p].dir \in Dirs
      BY <2>1, PutFacts
    <2> QED
      BY <2>1, <2>2 DEF BackedAt
  <1>3. MaxFaults \in Nat /\ faults \in Nat
    BY BoundsAssumption DEF TypeInv, ControlOK, ControlType
  <1>4. ASSUME NEW m, Enter(p, "put_retained", [req[p] EXCEPT !.mut = m]), RefBacked', buckets' = buckets,
               refCount'[h] > 0, refPath'[h] = req[p].dir,
               req[p].created => refCount'[h] = 1 /\ m = "created"
        PROVE  BackedInv'
    <2> DEFINE r == [req[p] EXCEPT !.mut = m]
    <2>1. r.obj = req[p].obj /\ r.created = req[p].created /\ r.mut = m /\ r.hash = h /\ r.dir = req[p].dir
      BY <1>2 DEF Requests
    <2>2. Enter(p, "put_retained", r)
      BY <1>4
    <2> HIDE DEF r
    <2>3. pc'[p] = "put_retained" /\ req'[p] = r
      BY <2>2, Entered
    <2>4. BackedAt(pc[p], req[p])'
      BY <1>2, <1>4, <2>1, <2>3 DEF BackedAt, PutCalls, RollbackCalls, PreparedCalls
    <2> QED
      BY <1>4, <2>4 DEF BackedInv, OneAtATime
  <1>5. CASE ~req[p].hit /\ CreateBlobRef(h, req[p].dir) /\ UNCHANGED engineVars
             /\ Enter(p, "put_retained", [req[p] EXCEPT !.mut = "created"])
    <2>1. UNCHANGED <<shards, buckets>>
      BY <1>5 DEF CreateBlobRef, engineVars
    <2>2. RefBacked'
      BY <1>2, <1>5, <2>1, BackedRefs
    <2>3. refCount'[h] = 1 /\ refPath'[h] = req[p].dir
      BY <1>2, <1>5, RefEffects
    <2> QED
      BY <1>4, <1>5, <2>1, <2>2, <2>3
  <1>6. CASE req[p].hit /\ UNCHANGED <<metaVars, engineVars>>
             /\ Enter(p, "put_retained", [req[p] EXCEPT !.mut = "unchanged"])
    <2>1. UNCHANGED <<refCount, refPath, shards, buckets>>
      BY <1>6 DEF metaVars, engineVars
    <2>2. RefBacked'
      BY <1>2, <2>1 DEF RefBacked
    <2> QED
      BY <1>2, <1>4, <1>6, <2>1, <2>2
  <1>7. CASE req[p].hit /\ IncreaseBlobRef(h) /\ UNCHANGED engineVars
             /\ Enter(p, "put_retained", [req[p] EXCEPT !.mut = "increased"])
    <2>1. UNCHANGED <<shards, buckets>>
      BY <1>7 DEF IncreaseBlobRef, engineVars
    <2>2. RefBacked'
      BY <1>2, <1>7, <2>1, BackedRefs
    <2>3. refCount'[h] > 0 /\ refPath'[h] = req[p].dir
      BY <1>2, <1>7, RefEffects
    <2> QED
      BY <1>2, <1>4, <1>7, <2>1, <2>2, <2>3
  <1>8. CASE Fail(p, "rb_layout") /\ UNCHANGED <<metaVars, engineVars>>
    <2>1. pc'[p] = "rb_layout" /\ req'[p] = req[p] /\ faults' >= MaxFaults
      BY <1>3, <1>8, Failed
    <2>2. UNCHANGED <<refCount, refPath, shards>>
      BY <1>8 DEF metaVars, engineVars
    <2>3. BackedAt(pc[p], req[p])'
      BY <1>2, <2>1, <2>2 DEF BackedAt, PutCalls, RollbackCalls, PreparedCalls
    <2> QED
      BY <2>2, <2>3, CalmPut
  <1> QED
    BY <1>2, <1>5, <1>6, <1>7, <1>8 DEF PutRetainBlob, FailCommand

\* The intent of a retained blob, the commit, and the end of a put.
LEMMA PutLateBacked ==
  ASSUME TypeInv, BackedInv, OneAtATime, LostReplies = FALSE, MaxFaults <= 1, NEW p \in Procs,
         PutIntentRetained(p) \/ PutCommit(p) \/ PutUnstage(p) \/ FailUnstage(p) \/ FailDropBlob(p)
  PROVE  BackedInv'
  <1> DEFINE h == req[p].hash
  <1>0. pc[p] \in {"put_retained", "put_commit", "put_unstage", "fail_unstage", "fail_blob"}
    BY DEF PutIntentRetained, PutCommit, PutUnstage, FailUnstage, FailDropBlob, AdvanceIntent
  <1>1. /\ req[p] \in Requests /\ BackedAt(pc[p], req[p]) /\ RefBacked
        /\ req[p].obj \in Objects /\ h \in Hashes /\ req[p].op = "put" /\ refCount[h] \in Nat
    BY <1>0, PutFacts DEF PutCalls, RollbackCalls
  <1>2. MaxFaults \in Nat /\ faults \in Nat
    BY BoundsAssumption DEF TypeInv, ControlOK, ControlType
  <1>3. ASSUME UNCHANGED <<refCount, refPath, shards>>, NEW l, Goto(p, l) \/ Fail(p, l), l \in {"idle", "rel_ref"}
        PROVE  BackedInv'
    <2>1. pc'[p] \notin GuardedCalls
      BY <1>3, Went, Failed DEF GuardedCalls, PutCalls, RollbackCalls
    <2> QED
      BY <1>3, <2>1, CalmStep
  <1>4. CASE PutIntentRetained(p) \/ PutCommit(p)
    <2>1. /\ UNCHANGED <<refCount, refPath, shards, buckets>>
          /\ pc[p] \in {"put_retained", "put_commit"}
      BY <1>4 DEF PutIntentRetained, PutCommit, AdvanceIntent, FailCommand, StageObjectMeta, UpsertObjectMeta,
                  metaVars, engineVars
    <2>2. /\ refCount[h] > 0 /\ refPath[h] = req[p].dir /\ BucketOf[req[p].obj] \in buckets
          /\ req[p].created => refCount[h] = 1 /\ req[p].mut = "created"
      BY <1>1, <2>1 DEF BackedAt, PutCalls
    <2>3. CASE Fail(p, "rb_layout")
      <3>1. pc'[p] = "rb_layout" /\ req'[p] = req[p] /\ faults' >= MaxFaults
        BY <1>2, <2>3, Failed
      <3>2. BackedAt(pc[p], req[p])'
        BY <1>1, <2>1, <2>2, <3>1 DEF BackedAt, PutCalls, RollbackCalls, PreparedCalls
      <3> QED
        BY <2>1, <3>2, CalmPut
    <2>4. CASE Goto(p, "put_commit")
      <3>1. pc'[p] = "put_commit" /\ req'[p] = req[p]
        BY <2>4, Went
      <3>2. BackedAt(pc[p], req[p])'
        BY <1>1, <2>1, <2>2, <3>1 DEF BackedAt, PutCalls, RollbackCalls, PreparedCalls
      <3> QED
        BY <2>1, <3>2, CalmPut
    <2>5. ASSUME NEW x, Enter(p, "put_unstage", [req[p] EXCEPT !.rel = x])
          PROVE  BackedInv'
      <3> DEFINE r == [req[p] EXCEPT !.rel = x]
      <3>1. Enter(p, "put_unstage", r) /\ r.obj = req[p].obj
        BY <1>1, <2>5 DEF Requests
      <3> HIDE DEF r
      <3>2. pc'[p] = "put_unstage" /\ req'[p].obj = req[p].obj
        BY <3>1, Entered
      <3>3. BackedAt(pc[p], req[p])'
        BY <2>1, <2>2, <3>2 DEF BackedAt, PutCalls, RollbackCalls, PreparedCalls
      <3> QED
        BY <2>1, <3>3, CalmPut
    <2>6. CASE PutIntentRetained(p)
      BY <2>2, <2>3, <2>4, <2>6 DEF PutIntentRetained, AdvanceIntent, FailCommand
    <2>7. CASE PutCommit(p)
      BY <2>2, <2>3, <2>5, <2>7 DEF PutCommit, FailCommand
    <2> QED
      BY <1>4, <2>6, <2>7
  <1>5. CASE PutUnstage(p) \/ FailUnstage(p)
    <2>1. UNCHANGED <<refCount, refPath, shards>>
      BY <1>5 DEF PutUnstage, FailUnstage, FailCommand, DeleteStagedObjectMeta, metaVars, engineVars
    <2>2. \E l \in {"idle", "rel_ref"} : Goto(p, l) \/ Fail(p, l)
      BY <1>5 DEF PutUnstage, FailUnstage, FailCommand
    <2> QED
      BY <1>3, <2>1, <2>2
  <1>6. CASE FailDropBlob(p)
    <2>1. refCount[h] = 0
      BY <1>1, <1>6 DEF BackedAt, FailDropBlob
    <2>2. CASE Fail(p, "idle") /\ UNCHANGED <<metaVars, engineVars>>
      BY <1>3, <2>2 DEF metaVars, engineVars
    <2>3. CASE DeleteBlob(req[p].dir, h) /\ Goto(p, "idle") /\ UNCHANGED metaVars
      <3>1. RefBacked'
        BY <1>1, <2>1, <2>3, BackedShards DEF DeleteBlob
      <3>2. pc'[p] = "idle"
        BY <2>3, Went
      <3>3. BackedAt(pc[p], req[p])'
        BY <3>2 DEF BackedAt, PutCalls, RollbackCalls, PreparedCalls
      <3> QED
        BY <3>1, <3>3 DEF BackedInv, OneAtATime
    <2> QED
      BY <1>6, <2>2, <2>3 DEF FailDropBlob, FailClean
  <1> QED
    BY <1>4, <1>5, <1>6

(***************************************************************************)
(* Rollback                                                                 *)
(***************************************************************************)
\* rollbackPut gives the reference back before it deletes the blob.
LEMMA RollbackBacked ==
  ASSUME TypeInv, BackedInv, OneAtATime, NEW p \in Procs, RollbackStep(p)
  PROVE  BackedInv'
  <1> DEFINE h == req[p].hash
             undo == {"rb_layout", "rb_unstage", "rb_restore", "rb_ref"}
  <1>0. pc[p] \in undo \cup {"rb_refblob", "rb_blob"}
    BY DEF RollbackStep, RollbackLayout, RollbackUnstage, RollbackRestore, RollbackRef, RollbackRefBlob, RollbackBlob
  <1>1. /\ req[p] \in Requests /\ BackedAt(pc[p], req[p]) /\ RefBacked
        /\ req[p].obj \in Objects /\ h \in Hashes /\ req[p].op = "put" /\ refCount[h] \in Nat
    BY <1>0, PutFacts DEF PutCalls, RollbackCalls
  <1>2. faults >= MaxFaults /\ MaxFaults \in Nat /\ faults \in Nat
    BY <1>0, <1>1, BoundsAssumption DEF BackedAt, RollbackCalls, TypeInv, ControlOK, ControlType
  <1>3. \A l : ~Fail(p, l)
    BY <1>2 DEF Fail
  <1>4. CASE RollbackLayout(p) \/ RollbackUnstage(p) \/ RollbackRestore(p)
    <2>1. UNCHANGED <<refCount, refPath, shards>>
      BY <1>3, <1>4 DEF RollbackLayout, RollbackUnstage, RollbackRestore, FailCommand, LinkObject,
                        DeleteObjectLayout, DeleteStagedObjectMeta, metaVars, engineVars
    <2>2. pc[p] \in {"rb_layout", "rb_unstage", "rb_restore"} /\ \E l \in undo : Goto(p, l)
      BY <1>3, <1>4 DEF RollbackLayout, RollbackUnstage, RollbackRestore, FailCommand
    <2>3. pc'[p] \in undo /\ req'[p] = req[p] /\ faults' = faults
      BY <2>2, Went
    <2>4. BackedAt(pc[p], req[p])'
      BY <1>1, <1>2, <2>1, <2>2, <2>3 DEF BackedAt, PutCalls, RollbackCalls, PreparedCalls
    <2> QED
      BY <2>1, <2>4, CalmPut
  <1>5. CASE RollbackRef(p)
    <2>1. pc[p] = "rb_ref" /\ UNCHANGED engineVars /\ UNCHANGED shards
      BY <1>5 DEF RollbackRef, engineVars
    <2>2. CASE req[p].mut = "unchanged" /\ Goto(p, "rb_blob") /\ UNCHANGED metaVars
      <3>1. pc'[p] = "rb_blob" /\ req'[p] = req[p] /\ faults' = faults /\ UNCHANGED <<refCount, refPath>>
        BY <2>2, Went DEF metaVars
      <3>2. BackedAt(pc[p], req[p])'
        BY <1>1, <1>2, <2>1, <2>2, <3>1 DEF BackedAt, PutCalls, RollbackCalls, PreparedCalls
      <3> QED
        BY <2>1, <3>1, <3>2, CalmPut
    <2>3. CASE /\ req[p].mut # "unchanged" /\ DecreaseBlobRef(h)
               /\ IF refCount[h] = 1 THEN Enter(p, "rb_refblob", [req[p] EXCEPT !.relDir = refPath[h]])
                                     ELSE Goto(p, "rb_blob")
      <3>1. RefBacked'
        BY <1>1, <2>1, <2>3, BackedRefs
      <3>2. refCount'[h] = IF refCount[h] <= 1 THEN 0 ELSE refCount[h] - 1
        BY <1>1, <2>3, RefEffects, ObjectsAssumption DEF DecreaseBlobRef, TypeInv, MetaOK, MetaType
      <3>3. req[p].created => refCount[h] = 1
        BY <1>1, <2>1, <2>3 DEF BackedAt
      <3>4. CASE refCount[h] = 1
        <4> DEFINE r == [req[p] EXCEPT !.relDir = refPath[h]]
        <4>1. Enter(p, "rb_refblob", r) /\ r.hash = h
          BY <1>1, <2>3, <3>4 DEF Requests
        <4> HIDE DEF r
        <4>2. pc'[p] = "rb_refblob" /\ req'[p].hash = h /\ faults' = faults
          BY <4>1, Entered
        <4>3. BackedAt(pc[p], req[p])'
          BY <1>2, <3>2, <3>4, <4>2 DEF BackedAt, PutCalls, RollbackCalls, PreparedCalls
        <4> QED
          BY <3>1, <4>3 DEF BackedInv, OneAtATime
      <3>5. CASE refCount[h] # 1
        <4>1. pc'[p] = "rb_blob" /\ req'[p] = req[p] /\ faults' = faults
          BY <2>3, <3>5, Went
        <4>2. BackedAt(pc[p], req[p])'
          BY <1>2, <3>3, <3>5, <4>1 DEF BackedAt, PutCalls, RollbackCalls, PreparedCalls
        <4> QED
          BY <3>1, <4>2 DEF BackedInv, OneAtATime
      <3> QED
        BY <3>4, <3>5
    <2> QED
      BY <1>3, <1>5, <2>2, <2>3 DEF RollbackRef, FailCommand
  <1>6. CASE RollbackRefBlob(p)
    <2>1. refCount[h] = 0
      BY <1>1, <1>6 DEF BackedAt, RollbackRefBlob
    <2>2. DeleteBlob(req[p].relDir, h) /\ Goto(p, "rb_blob") /\ UNCHANGED metaVars
      BY <1>3, <1>6 DEF RollbackRefBlob, FailClean
    <2>3. RefBacked'
      BY <1>1, <2>1, <2>2, BackedShards DEF DeleteBlob
    <2>4. pc'[p] = "rb_blob" /\ req'[p] = req[p] /\ faults' = faults /\ refCount' = refCount
      BY <2>2, Went DEF metaVars
    <2>5. BackedAt(pc[p], req[p])'
      BY <1>2, <2>1, <2>4 DEF BackedAt, PutCalls, RollbackCalls, PreparedCalls
    <2> QED
      BY <2>3, <2>5 DEF BackedInv, OneAtATime
  <1>7. CASE RollbackBlob(p)
    <2>1. pc'[p] = "idle"
      BY <1>3, <1>7, Went DEF RollbackBlob
    <2>2. BackedAt(pc[p], req[p])'
      BY <2>1 DEF BackedAt, PutCalls, RollbackCalls, PreparedCalls
    <2>3. RefBacked'
      <3>1. CASE req[p].created /\ DeleteBlob(req[p].dir, h) /\ UNCHANGED metaVars
        <4>1. refCount[h] = 0
          BY <1>1, <1>7, <3>1 DEF BackedAt, RollbackBlob
        <4> QED
          BY <1>1, <3>1, <4>1, BackedShards DEF DeleteBlob
      <3>2. CASE UNCHANGED <<metaVars, engineVars>>
        BY <1>1, <3>2 DEF RefBacked, metaVars, engineVars
      <3> QED
        BY <1>3, <1>7, <3>1, <3>2 DEF RollbackBlob
    <2> QED
      BY <2>2, <2>3 DEF BackedInv, OneAtATime
  <1> QED
    BY <1>4, <1>5, <1>6, <1>7 DEF RollbackStep

(***************************************************************************)
(* Everything else                                                          *)
(***************************************************************************)
\* releaseBlob deletes shards only after the last reference has gone.
LEMMA ReleaseBacked ==
  ASSUME TypeInv, BackedInv, OneAtATime, LostReplies = FALSE, NEW p \in Procs, ReleaseRef(p) \/ ReleaseBlob(p)
  PROVE  BackedInv'
  <1> DEFINE h == req[p].rel
  <1>1. pc[p] \in {"rel_ref", "rel_blob"}
    BY DEF ReleaseRef, ReleaseBlob
  <1>2. /\ req[p] \in Requests /\ h \in Hashes /\ BackedAt(pc[p], req[p]) /\ RefBacked /\ refCount[h] \in Nat
        /\ refCount \in [Hashes -> Nat]
    BY <1>1 DEF TypeInv, ControlOK, ControlType, ShapeOf, BackedInv, MetaOK, MetaType
  <1>3. AfterRelease(p) \notin GuardedCalls
    BY DEF AfterRelease, GuardedCalls, PutCalls, RollbackCalls
  <1>4. ASSUME pc'[p] \notin GuardedCalls, RefBacked'
        PROVE  BackedInv'
    <2>1. BackedAt(pc[p], req[p])'
      BY <1>4 DEF BackedAt, GuardedCalls, PutCalls, RollbackCalls, PreparedCalls
    <2> QED
      BY <1>4, <2>1 DEF BackedInv, OneAtATime
  <1>5. CASE Fail(p, "idle") /\ UNCHANGED <<metaVars, engineVars>>
    <2>1. RefBacked'
      BY <1>2, <1>5 DEF RefBacked, metaVars, engineVars
    <2>2. pc'[p] \notin GuardedCalls
      BY <1>5, Failed DEF GuardedCalls, PutCalls, RollbackCalls
    <2> QED
      BY <1>4, <2>1, <2>2
  <1>6. CASE /\ DecreaseBlobRef(h)
             /\ IF refCount[h] = 1 THEN Enter(p, "rel_blob", [req[p] EXCEPT !.relDir = refPath[h]])
                                   ELSE Goto(p, AfterRelease(p))
             /\ UNCHANGED engineVars
    <2>1. RefBacked'
      BY <1>2, <1>6, BackedRefs DEF engineVars
    <2>2. CASE refCount[h] = 1
      <3> DEFINE r == [req[p] EXCEPT !.relDir = refPath[h]]
      <3>1. Enter(p, "rel_blob", r) /\ r.rel = h
        BY <1>2, <1>6, <2>2 DEF Requests
      <3> HIDE DEF r
      <3>2. pc'[p] = "rel_blob" /\ req'[p].rel = h
        BY <3>1, Entered
      <3>3. refCount'[h] = 0
        BY <1>2, <1>6, <2>2 DEF DecreaseBlobRef
      <3>4. BackedAt(pc[p], req[p])'
        BY <3>2, <3>3 DEF BackedAt, PutCalls, RollbackCalls, PreparedCalls
      <3> QED
        BY <2>1, <3>4 DEF BackedInv, OneAtATime
    <2>3. CASE refCount[h] # 1
      BY <1>3, <1>4, <1>6, <2>1, <2>3, Went
    <2> QED
      BY <2>2, <2>3
  <1>7. CASE ReleaseBlob(p) /\ DeleteBlob(req[p].relDir, h) /\ Goto(p, AfterRelease(p)) /\ UNCHANGED metaVars
    <2>1. refCount[h] = 0
      BY <1>2, <1>7 DEF BackedAt, ReleaseBlob
    <2>2. RefBacked'
      BY <1>2, <1>7, <2>1, BackedShards DEF DeleteBlob
    <2> QED
      BY <1>3, <1>4, <1>7, <2>2, Went
  <1> QED
    BY <1>5, <1>6, <1>7 DEF ReleaseRef, ReleaseBlob, FailCommand, FailClean

\* What neither is a put, nor a rollback, nor deletes shards, is calm.
LEMMA CalmWork ==
  ASSUME TypeInv, LostReplies = FALSE, NEW p \in Procs,
         DeleteStep(p) \/ GetStep(p) \/ RecoverStep(p),
         ~ReleaseRef(p), ~ReleaseBlob(p), ~RecoverSweep(p)
  PROVE  UNCHANGED <<refCount, refPath, shards>> /\ pc'[p] \notin GuardedCalls
  <1> DEFINE calm == pc'[p] \notin GuardedCalls
  <1>1. ASSUME NEW l, NEW r, Enter(p, l, r), l \notin GuardedCalls
        PROVE  calm
    BY <1>1, Entered
  <1>2. ASSUME NEW l, Goto(p, l), l \notin GuardedCalls
        PROVE  calm
    BY <1>2, Went
  <1>3. ASSUME NEW l, Fail(p, l), l \notin GuardedCalls
        PROVE  calm
    BY <1>3, Failed
  <1>4. AfterLayoutRollback(p) \notin GuardedCalls
    BY DEF AfterLayoutRollback, GuardedCalls, PutCalls, RollbackCalls
  <1>5. {"idle", "get_data", "get_cache", "bkt_next", "del_load", "del_meta", "del_layout", "rel_ref",
         "rec_next", "rec_layout", "rec_ref", "rec_link", "rec_unlink", "rec_check", "rec_unstage",
         "rec_refs", "rec_staged", "rec_local", "rec_sweep"} \cap GuardedCalls = {}
    BY DEF GuardedCalls, PutCalls, RollbackCalls
  <1> HIDE DEF calm
  <1> USE DEF FailClean, FailCommand, metaVars, engineVars
  <1>6. CASE DeleteLoad(p) \/ BucketList(p)
    <2>1. calm
      BY <1>1, <1>2, <1>3, <1>5, <1>6 DEF DeleteLoad, BucketList
    <2> QED
      BY <1>6, <2>1 DEF DeleteLoad, BucketList, calm
  <1>7. CASE DeleteMeta(p) \/ BucketDrop(p)
    <2>1. calm
      BY <1>2, <1>3, <1>5, <1>7 DEF DeleteMeta, BucketDrop
    <2> QED
      BY <1>7, <2>1 DEF DeleteMeta, BucketDrop, DeleteObjectMeta, DeleteBucketMeta, calm
  <1>8. CASE DeleteLayout(p)
    <2>1. UNCHANGED <<refCount, refPath, shards>>
      BY <1>8 DEF DeleteLayout, DeleteObjectLayout, DeleteObjectLayoutFails
    <2>2. pc'[p] = "rel_ref"
      BY <1>8, Went DEF DeleteLayout, TypeInv, ControlOK, ControlType
    <2> QED
      BY <1>5, <2>1, <2>2
  <1>9. CASE BucketNextObject(p)
    <2>1. PICK o : Enter(p, "del_load", [req[p] EXCEPT !.obj = o, !.todo = @ \ {o}])
      BY <1>9 DEF BucketNextObject
    <2> DEFINE r == [req[p] EXCEPT !.obj = o, !.todo = @ \ {o}]
    <2>2. Enter(p, "del_load", r)
      BY <2>1
    <2> HIDE DEF r
    <2>3. calm
      BY <1>1, <1>5, <2>2
    <2> QED
      BY <1>9, <2>3 DEF BucketNextObject, calm
  <1>10. CASE GetStep(p)
    <2>1. calm
      BY <1>1, <1>2, <1>3, <1>5, <1>10 DEF GetStep, GetMeta, GetData, GetCacheLayout
    <2> QED
      BY <1>10, <2>1 DEF GetStep, GetMeta, GetData, GetCacheLayout, calm
  <1>11. CASE RecoverNextPending(p)
    <2>1. PICK o : Enter(p, IF req[p].snap[o].stage \in {"layout_linked", "blob_retained"}
                            THEN "rec_layout" ELSE "rec_unstage",
                         [req[p] EXCEPT !.obj = o, !.hash = req[p].snap[o].hash])
      BY <1>11 DEF RecoverNextPending
    <2> DEFINE r == [req[p] EXCEPT !.obj = o, !.hash = req[p].snap[o].hash]
    <2>2. Enter(p, "rec_layout", r) \/ Enter(p, "rec_unstage", r)
      BY <2>1
    <2> HIDE DEF r
    <2>3. calm
      BY <1>1, <1>5, <2>2
    <2> QED
      BY <1>11, <2>3 DEF RecoverNextPending, calm
  <1>12. CASE RecoverListStaged(p) \/ RecoverPendingDone(p) \/ RecoverLayout(p) \/ RecoverCommittedRef(p)
    <2>1. calm
      BY <1>1, <1>2, <1>3, <1>5, <1>12 DEF RecoverListStaged, RecoverPendingDone, RecoverLayout, RecoverCommittedRef
    <2> QED
      BY <1>12, <2>1 DEF RecoverListStaged, RecoverPendingDone, RecoverLayout, RecoverCommittedRef, calm
  <1>13. CASE RecoverLink(p) \/ RecoverUnlink(p)
    <2>1. calm
      BY <1>2, <1>3, <1>4, <1>5, <1>13 DEF RecoverLink, RecoverUnlink
    <2> QED
      BY <1>13, <2>1 DEF RecoverLink, RecoverUnlink, LinkObject, DeleteObjectLayout, DeleteObjectLayoutFails, calm
  <1>14. CASE RecoverCheckRelease(p) \/ RecoverUnstage(p)
    <2>1. calm
      BY <1>1, <1>2, <1>3, <1>5, <1>14 DEF RecoverCheckRelease, RecoverUnstage
    <2> QED
      BY <1>14, <2>1 DEF RecoverCheckRelease, RecoverUnstage, DeleteStagedObjectMeta, calm
  <1>15. CASE RecoverListRefs(p) \/ RecoverListPending(p) \/ RecoverListLocal(p) \/ RecoverDone(p)
    <2>1. calm
      BY <1>1, <1>2, <1>3, <1>5, <1>15 DEF RecoverListRefs, RecoverListPending, RecoverListLocal, RecoverDone
    <2> QED
      BY <1>15, <2>1 DEF RecoverListRefs, RecoverListPending, RecoverListLocal, RecoverDone, calm
  <1> QED
    BY <1>6, <1>7, <1>8, <1>9, <1>10, <1>11, <1>12, <1>13, <1>14, <1>15 DEF DeleteStep, RecoverStep

\* The sweep deletes shard sets no ref names.
LEMMA SweepBacked ==
  ASSUME TypeInv, SweepInv, BackedInv, OneAtATime, NEW p \in Procs, RecoverSweep(p)
  PROVE  BackedInv'
  <1>0. "idle" \notin GuardedCalls /\ "rec_sweep" \notin GuardedCalls
    BY DEF GuardedCalls, PutCalls, RollbackCalls
  <1>1. CASE Fail(p, "idle") /\ UNCHANGED <<metaVars, engineVars>>
    BY <1>0, <1>1, Failed, CalmStep DEF metaVars, engineVars
  <1>2. CASE \E s \in req[p].sets : /\ DeleteBlob(s[1], s[2]) /\ Enter(p, "rec_sweep", [req[p] EXCEPT !.sets = @ \ {s}])
                                    /\ UNCHANGED metaVars
    <2>1. PICK s \in req[p].sets : /\ DeleteBlob(s[1], s[2]) /\ Enter(p, "rec_sweep", [req[p] EXCEPT !.sets = @ \ {s}])
                                   /\ UNCHANGED metaVars
      BY <1>2
    <2>2. pc[p] = "rec_sweep" /\ req[p] \in Requests /\ req[p].sets \cap Refs = {}
      BY DEF RecoverSweep, TypeInv, ControlOK, ControlType, SweepInv, SweepAt
    <2>3. s[2] \in Hashes /\ s = <<s[1], s[2]>>
      BY <2>2 DEF Requests, ShardSets
    <2>4. ~(refCount[s[2]] > 0 /\ refPath[s[2]] = s[1])
      BY <2>2, <2>3 DEF Refs
    <2>5. RefBacked'
      BY <2>1, <2>4, BackedShards DEF DeleteBlob, BackedInv
    <2> DEFINE r == [req[p] EXCEPT !.sets = @ \ {s}]
    <2>6. Enter(p, "rec_sweep", r)
      BY <2>1
    <2> HIDE DEF r
    <2>7. pc'[p] = "rec_sweep"
      BY <2>6, Entered
    <2>8. BackedAt(pc[p], req[p])'
      BY <2>7 DEF BackedAt, PutCalls, RollbackCalls, PreparedCalls
    <2> QED
      BY <2>5, <2>8 DEF BackedInv, OneAtATime
  <1> QED
    BY <1>1, <1>2 DEF RecoverSweep, FailClean

\* Refs stay backed.
LEMMA NextBacked ==
  ASSUME OneAtATime, LostReplies = FALSE, MaxFaults <= 1
  PROVE  TypeInv /\ SweepInv /\ BackedInv /\ [Next]_vars => BackedInv'
  <1> SUFFICES ASSUME TypeInv, SweepInv, BackedInv, [Next]_vars
               PROVE  BackedInv'
    OBVIOUS
  <1>1. ASSUME NEW p \in Procs, StartRequest(p)
        PROVE  BackedInv'
    <2>1. /\ pc'[p] \in {"put_bucket", "del_load", "get_meta", "bkt_list", "rec_list"}
          /\ pc'[p] = "put_bucket" => ~req'[p].hit /\ ~req'[p].created /\ req'[p].mut = "unchanged"
          /\ UNCHANGED <<metaVars, engineVars>>
      BY <1>1, Begun
    <2>2. BackedAt(pc[p], req[p])'
      BY <2>1 DEF BackedAt, PutCalls, RollbackCalls, PreparedCalls
    <2> QED
      BY <2>1, <2>2, CalmPut DEF metaVars, engineVars
  <1>2. ASSUME NEW p \in Procs, PutStep(p)
        PROVE  BackedInv'
    <2>1. CASE PutEnsureBucket(p) \/ PutLoadExisting(p) \/ PutLoadExistingRef(p) \/ PutStageMeta(p) \/ PutPrepareBlob(p)
      BY <2>1, PutEarlyBacked
    <2>2. CASE PutCreateBlob(p) \/ PutIntentPrepared(p) \/ PutLinkLayout(p) \/ PutIntentLinked(p)
      BY <2>2, PutMiddleBacked
    <2>3. CASE PutRetainBlob(p)
      BY <2>3, PutRetainBacked
    <2>4. CASE PutIntentRetained(p) \/ PutCommit(p) \/ PutUnstage(p) \/ FailUnstage(p) \/ FailDropBlob(p)
      BY <2>4, PutLateBacked
    <2> QED
      BY <1>2, <2>1, <2>2, <2>3, <2>4 DEF PutStep
  <1>3. ASSUME NEW p \in Procs, DeleteStep(p) \/ GetStep(p) \/ RecoverStep(p)
        PROVE  BackedInv'
    <2>1. CASE ReleaseRef(p) \/ ReleaseBlob(p)
      BY <2>1, ReleaseBacked
    <2>2. CASE RecoverSweep(p)
      BY <2>2, SweepBacked
    <2>3. CASE ~ReleaseRef(p) /\ ~ReleaseBlob(p) /\ ~RecoverSweep(p)
      BY <1>3, <2>3, CalmWork, CalmStep
    <2> QED
      BY <2>1, <2>2, <2>3
  <1>4. CASE Restart
    <2>1. UNCHANGED <<refCount, refPath, shards>> /\ \A p \in Procs : pc'[p] \notin GuardedCalls
      BY <1>4 DEF Restart, metaVars, GuardedCalls, PutCalls, RollbackCalls
    <2>2. RefBacked'
      BY <2>1 DEF BackedInv, RefBacked
    <2>3. \A p \in Procs : BackedAt(pc[p], req[p])'
      BY <2>1 DEF BackedAt, GuardedCalls, PutCalls, RollbackCalls, PreparedCalls
    <2> QED
      BY <2>2, <2>3 DEF BackedInv
  <1>5. CASE CreateBucket \/ Elapse \/ UNCHANGED vars
    <2>1. UNCHANGED <<refCount, refPath, shards, pc, req, faults>> /\ buckets \subseteq buckets'
      BY <1>5 DEF CreateBucket, Elapse, vars, metaVars, engineVars
    <2> QED
      BY <2>1 DEF BackedInv, RefBacked, BackedAt
  <1> QED
    BY <1>1, <1>2, <1>3, <1>4, <1>5, RollbackBacked DEF Next, Work

\* No ref is there at first.
LEMMA InitBacked == Init => BackedInv
  BY DEF Init, BackedInv, RefBacked, BackedAt, PutCalls, RollbackCalls, PreparedCalls

\* RefBacked: the content of every blob ref is complete where the ref says it
\* is, when requests are served one at a time, commands are answered and at
\* most one call fails, whatever kills, expiries and recoveries come between:
\* a put that finds a ref may deduplicate onto it without reading the shards.
\* With a second failure it does not hold: a rollback that could not give its
\* reference back deletes the shards it wrote all the same.
THEOREM RefsAreBacked ==
  ASSUME OneAtATime, LostReplies = FALSE, MaxFaults <= 1
  PROVE  Spec => []RefBacked
  <1>1. Init => TypeInv /\ SweepInv /\ BackedInv
    BY InitTypeInv, InitSweep, InitBacked
  <1>2. TypeInv /\ SweepInv /\ BackedInv /\ [Next]_vars => (TypeInv /\ SweepInv /\ BackedInv)'
    BY NextType, NextSweep, NextBacked
  <1>3. TypeInv /\ SweepInv /\ BackedInv => RefBacked
    BY DEF BackedInv
  <1> QED
    BY <1>1, <1>2, <1>3, PTL DEF Spec

(***************************************************************************)
(* Committed objects stay readable                                          *)
(***************************************************************************)
\* Until the process restarts, the cached layout of a committed object that no
\* put is working on names its content, where the content's ref says it is.
Rest(o) == objects[o] # None => cache[o] = [dir |-> refPath[objects[o]], hash |-> objects[o]]

\* The calls between the new layout and the commit, and those that undo it.
LinkedCalls == {"put_linked", "put_retain", "put_retained", "put_commit"}
UndoCalls == {"rb_layout", "rb_unstage", "rb_restore"}

\* The calls of a put that knows the committed object and its layout.
LoadedCalls == (PutCalls \ {"put_bucket", "put_load", "put_loadref", "put_unstage"}) \cup UndoCalls

\* What a put loaded is still so, hence what it would restore is the layout the
\* object had; a get finds the layout in the cache.
CachedAt(l, r) ==
    /\ l \in {"put_bucket", "put_load"} => r.exDir = None
    /\ l \in LoadedCalls =>
           /\ objects[r.obj] = r.ex
           /\ r.exDir = IF r.ex = None THEN None ELSE refPath[r.ex]
    /\ l \in LinkedCalls => cache[r.obj] = [dir |-> r.dir, hash |-> r.hash]
    /\ l = "get_data" => objects[r.obj] # None
    /\ l = "del_layout" => objects[r.obj] = None
    /\ l # "get_cache"

\* A put has replaced the layout of o, or is about to put it back.
Busy(l, r, o) == l \in LinkedCalls \cup UndoCalls /\ r.obj = o

CachedInv ==
    crashes = 0 =>
        /\ \A p \in Procs : CachedAt(pc[p], req[p])
        /\ \A o \in Objects : Rest(o) \/ \E p \in Procs : Busy(pc[p], req[p], o)

\* The calls of which CachedAt says something.
CachedCalls == {"put_bucket", "put_load", "get_data", "get_cache", "del_layout"} \cup LoadedCalls

\* How these sets of calls are contained in one another.
LEMMA CachedCallsFacts ==
  /\ LinkedCalls \subseteq LoadedCalls /\ UndoCalls \subseteq LoadedCalls /\ LoadedCalls \subseteq CachedCalls
  /\ LoadedCalls = {"put_stage", "put_prepare", "put_blob", "put_prepared", "put_link"} \cup LinkedCalls \cup UndoCalls
  BY DEF LinkedCalls, UndoCalls, LoadedCalls, PutCalls, CachedCalls

\* The ref of a committed object's content keeps its path in a step that counts
\* it before and after.
LEMMA CommittedPath ==
  ASSUME TypeInv, ReferencesInv, ReferencesInv', TypeInv',
         \A h \in Hashes : refCount[h] > 0 /\ refCount'[h] > 0 => refPath'[h] = refPath[h],
         NEW o \in Objects, objects[o] # None, objects'[o] = objects[o]
  PROVE  refPath'[objects[o]] = refPath[objects[o]] /\ refPath[objects[o]] \in Dirs
  <1> DEFINE h == objects[o]
  <1>1. h \in Hashes /\ refCount[h] \in Nat /\ refCount'[h] \in Nat
    BY DEF TypeInv, MetaOK, MetaType
  <1>2. o \in Claims(h) /\ o \in Claims(h)'
    BY DEF Claims
  <1>3. Cardinality(Claims(h)) > 0 /\ Cardinality(Claims(h)') > 0
    BY <1>2, ClaimsFinite, FS_EmptySet
  <1>4. Cardinality(Claims(h)) <= refCount[h] /\ Cardinality(Claims(h)') <= refCount'[h]
    BY <1>1 DEF ReferencesInv, ClaimsCovered
  <1>5. refCount[h] > 0 /\ refCount'[h] > 0
    BY <1>1, <1>3, <1>4, ClaimsFinite
  <1> QED
    BY <1>1, <1>5 DEF TypeInv, MetaOK, RefsOK

\* The only calls that count, or stop counting, a content.
LEMMA RefWriters ==
  ASSUME TypeInv, LostReplies = FALSE, [Next]_vars,
         \A p \in Procs : ~PutRetainBlob(p) /\ ~RollbackRef(p) /\ ~ReleaseRef(p)
  PROVE  UNCHANGED <<refCount, refPath>>
  <1> USE DEF metaVars, FailClean, FailCommand
  <1>1. ASSUME NEW p \in Procs, PutEnsureBucket(p) \/ PutLoadExisting(p) \/ PutLoadExistingRef(p)
                                \/ PutPrepareBlob(p) \/ PutCreateBlob(p) \/ PutLinkLayout(p) \/ FailDropBlob(p)
        PROVE  UNCHANGED <<refCount, refPath>>
    BY <1>1 DEF PutEnsureBucket, PutLoadExisting, PutLoadExistingRef, PutPrepareBlob, PutCreateBlob, PutLinkLayout, FailDropBlob
  <1>2. ASSUME NEW p \in Procs, PutStageMeta(p) \/ PutIntentPrepared(p) \/ PutIntentLinked(p) \/ PutIntentRetained(p)
        PROVE  UNCHANGED <<refCount, refPath>>
    BY <1>2 DEF PutStageMeta, PutIntentPrepared, PutIntentLinked, PutIntentRetained, AdvanceIntent, StageObjectMeta
  <1>3. ASSUME NEW p \in Procs, PutCommit(p) \/ PutUnstage(p) \/ FailUnstage(p)
        PROVE  UNCHANGED <<refCount, refPath>>
    BY <1>3 DEF PutCommit, PutUnstage, FailUnstage, UpsertObjectMeta, DeleteStagedObjectMeta
  <1>4. ASSUME NEW p \in Procs, RollbackStep(p), ~RollbackRef(p)
        PROVE  UNCHANGED <<refCount, refPath>>
    BY <1>4 DEF RollbackStep, RollbackLayout, RollbackUnstage, RollbackRestore, RollbackRefBlob, RollbackBlob,
                DeleteStagedObjectMeta
  <1>5. ASSUME NEW p \in Procs, DeleteStep(p) \/ GetStep(p) \/ RecoverStep(p)
        PROVE  UNCHANGED <<refCount, refPath>>
    <2>1. CASE ReleaseBlob(p) \/ RecoverSweep(p)
      BY <2>1 DEF ReleaseBlob, RecoverSweep
    <2> QED
      BY <1>5, <2>1, CalmWork
  <1>6. ASSUME NEW p \in Procs, StartRequest(p)
        PROVE  UNCHANGED <<refCount, refPath>>
    BY <1>6, Begun
  <1>7. CASE CreateBucket \/ Restart \/ Elapse \/ UNCHANGED vars
    BY <1>7 DEF CreateBucket, Restart, Elapse, vars
  <1> QED
    BY <1>1, <1>2, <1>3, <1>4, <1>5, <1>6, <1>7 DEF Next, Work, PutStep

\* A ref that is there before and after a step keeps its path.
LEMMA PathsStay ==
  ASSUME TypeInv, LostReplies = FALSE, [Next]_vars
  PROVE  \A h \in Hashes : refCount[h] > 0 /\ refCount'[h] > 0 => refPath'[h] = refPath[h]
  <1>1. ASSUME NEW p \in Procs, PutRetainBlob(p)
        PROVE  \A h \in Hashes : refCount[h] > 0 /\ refCount'[h] > 0 => refPath'[h] = refPath[h]
    <2>1. req[p].hash \in Hashes /\ req[p].dir \in Dirs
      BY <1>1 DEF PutRetainBlob, TypeInv, ControlOK, ShapeOf, PutCalls, PreparedCalls
    <2>2. \/ CreateBlobRef(req[p].hash, req[p].dir) \/ IncreaseBlobRef(req[p].hash)
          \/ UNCHANGED metaVars
      BY <1>1 DEF PutRetainBlob, FailCommand
    <2> QED
      BY <2>1, <2>2, RefEffects DEF metaVars
  <1>2. ASSUME NEW p \in Procs, NEW h \in Hashes, DecreaseBlobRef(h) \/ UNCHANGED metaVars
        PROVE  \A g \in Hashes : refCount[g] > 0 /\ refCount'[g] > 0 => refPath'[g] = refPath[g]
    <2>1. refCount \in [Hashes -> Nat]
      BY DEF TypeInv, MetaOK, MetaType
    <2>2. CASE UNCHANGED metaVars
      BY <2>2 DEF metaVars
    <2>3. CASE DecreaseBlobRef(h)
      BY <2>1, <2>3 DEF DecreaseBlobRef, TypeInv, MetaOK, MetaType
    <2> QED
      BY <1>2, <2>2, <2>3
  <1>3. ASSUME NEW p \in Procs, RollbackRef(p)
        PROVE  \A h \in Hashes : refCount[h] > 0 /\ refCount'[h] > 0 => refPath'[h] = refPath[h]
    <2>1. req[p].hash \in Hashes
      BY <1>3 DEF RollbackRef, TypeInv, ControlOK, ShapeOf, RollbackCalls
    <2>2. DecreaseBlobRef(req[p].hash) \/ UNCHANGED metaVars
      BY <1>3 DEF RollbackRef, FailCommand
    <2> QED
      BY <1>2, <2>1, <2>2
  <1>4. ASSUME NEW p \in Procs, ReleaseRef(p)
        PROVE  \A h \in Hashes : refCount[h] > 0 /\ refCount'[h] > 0 => refPath'[h] = refPath[h]
    <2>1. req[p].rel \in Hashes
      BY <1>4 DEF ReleaseRef, TypeInv, ControlOK, ShapeOf
    <2>2. DecreaseBlobRef(req[p].rel) \/ UNCHANGED metaVars
      BY <1>4 DEF ReleaseRef, FailCommand
    <2> QED
      BY <1>2, <2>1, <2>2
  <1> QED
    BY <1>1, <1>3, <1>4, RefWriters

\* What the steps below start from: all invariants, and committed contents whose
\* refs keep their paths.
Grounded ==
    /\ TypeInv /\ BackedInv /\ CachedInv /\ crashes = 0
    /\ \A p \in Procs : pc[p] # "idle" => Remembers(pc[p], req[p])
    /\ \A o \in Objects : objects[o] # None /\ objects'[o] = objects[o] =>
           refPath[objects[o]] \in Dirs /\ refPath'[objects[o]] = refPath[objects[o]]

\* What no step writes stays as it should be.
LEMMA RestStays ==
  ASSUME Grounded, NEW o \in Objects, Rest(o), objects'[o] = objects[o], cache'[o] = cache[o]
  PROVE  Rest(o)'
  BY DEF Grounded, Rest

\* A step of the request: each object is left as it was and was at rest, or is
\* now at rest, or is the request's own.
LEMMA CachedMove ==
  ASSUME Grounded, OneAtATime, NEW p \in Procs, CachedAt(pc[p], req[p])',
         \A o \in Objects :
             \/ Rest(o)'
             \/ Busy(pc[p], req[p], o)'
             \/ objects'[o] = objects[o] /\ cache'[o] = cache[o] /\ ~Busy(pc[p], req[p], o)
  PROVE  CachedInv'
  <1>1. ASSUME NEW o \in Objects
        PROVE  Rest(o)' \/ Busy(pc[p], req[p], o)'
    <2>1. CASE objects'[o] = objects[o] /\ cache'[o] = cache[o] /\ ~Busy(pc[p], req[p], o)
      <3>1. Rest(o)
        BY <2>1 DEF Grounded, CachedInv, OneAtATime
      <3> QED
        BY <2>1, <3>1, RestStays
    <2> QED
      BY <2>1
  <1> QED
    BY <1>1 DEF CachedInv, OneAtATime

\* A step of a request that works on no layout, on to such a call.
LEMMA CachedQuiet ==
  ASSUME Grounded, OneAtATime, NEW p \in Procs, pc'[p] \notin CachedCalls,
         pc[p] \notin LinkedCalls \cup UndoCalls,
         \A o \in Objects : objects'[o] = None \/ (objects'[o] = objects[o] /\ cache'[o] = cache[o])
  PROVE  CachedInv'
  <1>1. CachedAt(pc[p], req[p])'
    BY CachedCallsFacts DEF CachedAt, CachedCalls
  <1>2. \A o \in Objects : objects'[o] = None => Rest(o)'
    BY DEF Rest
  <1> QED
    BY <1>1, <1>2, CachedMove DEF Busy

\* What a put in flight knows of the object it overwrites.
LEMMA LoadedFacts ==
  ASSUME Grounded, NEW p \in Procs, pc[p] \in LoadedCalls
  PROVE  /\ req[p] \in Requests /\ req[p].obj \in Objects /\ req[p].hash \in Hashes
         /\ objects[req[p].obj] = req[p].ex
         /\ req[p].exDir = IF req[p].ex = None THEN None ELSE refPath[req[p].ex]
         /\ pc[p] \in LinkedCalls => cache[req[p].obj] = [dir |-> req[p].dir, hash |-> req[p].hash]
  <1>1. pc[p] \in PutCalls \cup RollbackCalls
    BY DEF LoadedCalls, UndoCalls, RollbackCalls
  <1>2. req[p] \in Requests /\ req[p].obj \in Objects /\ req[p].hash \in Hashes
    BY <1>1, PutFacts DEF Grounded
  <1> QED
    BY <1>2 DEF Grounded, CachedInv, CachedAt

\* A put that goes on with the object it loaded.
LEMMA LoadedMove ==
  ASSUME Grounded, OneAtATime, NEW p \in Procs, pc[p] \in LoadedCalls,
         pc'[p] \in LoadedCalls, objects' = objects,
         req'[p].obj = req[p].obj, req'[p].ex = req[p].ex, req'[p].exDir = req[p].exDir,
         pc[p] \in LinkedCalls \cup UndoCalls => pc'[p] \in LinkedCalls \cup UndoCalls,
         pc'[p] \in LinkedCalls =>
             cache'[req[p].obj] = [dir |-> req'[p].dir, hash |-> req'[p].hash],
         cache' = cache \/ (/\ pc'[p] \in LinkedCalls \cup UndoCalls
                            /\ \A o \in Objects \ {req[p].obj} : cache'[o] = cache[o])
  PROVE  CachedInv'
  <1>1. /\ req[p].obj \in Objects /\ objects[req[p].obj] = req[p].ex
        /\ req[p].exDir = IF req[p].ex = None THEN None ELSE refPath[req[p].ex]
    BY LoadedFacts
  <1>2. objects'[req[p].obj] = req[p].ex /\ req'[p].exDir = IF req'[p].ex = None THEN None ELSE refPath'[req'[p].ex]
    BY <1>1 DEF Grounded
  <1>3. CachedAt(pc[p], req[p])'
    BY <1>1, <1>2 DEF CachedAt, LoadedCalls, UndoCalls, PutCalls
  <1>4. ASSUME NEW o \in Objects
        PROVE  \/ Busy(pc[p], req[p], o)'
               \/ objects'[o] = objects[o] /\ cache'[o] = cache[o] /\ ~Busy(pc[p], req[p], o)
    BY DEF Busy
  <1> QED
    BY <1>3, <1>4, CachedMove

(***************************************************************************)
(* PutObject                                                                *)
(***************************************************************************)
\* What a put loads is what is committed.
LEMMA PutLoadCached ==
  ASSUME Grounded, OneAtATime, LostReplies = FALSE, NEW p \in Procs,
         PutEnsureBucket(p) \/ PutLoadExisting(p) \/ PutLoadExistingRef(p)
  PROVE  CachedInv'
  <1>1. pc[p] \in {"put_bucket", "put_load", "put_loadref"}
    BY DEF PutEnsureBucket, PutLoadExisting, PutLoadExistingRef
  <1>2. /\ req[p] \in Requests /\ req[p].obj \in Objects /\ TypeInv /\ CachedAt(pc[p], req[p])
        /\ Remembers(pc[p], req[p]) /\ (pc[p] = "put_loadref" => req[p].ex \in Hashes)
    BY <1>1 DEF Grounded, CachedInv, TypeInv, ControlOK, ControlType, ShapeOf, PutCalls
  <1>3. UNCHANGED <<objects, cache, refPath>>
    BY DEF PutEnsureBucket, PutLoadExisting, PutLoadExistingRef, FailClean, metaVars, engineVars
  <1>4. pc[p] \notin LinkedCalls \cup UndoCalls
    BY <1>1 DEF LinkedCalls, UndoCalls
  <1>5. ASSUME pc'[p] = "idle"
        PROVE  CachedInv'
    BY <1>3, <1>4, <1>5, CachedQuiet DEF CachedCalls, LoadedCalls, UndoCalls, PutCalls
  <1>6. ASSUME CachedAt(pc[p], req[p])'
        PROVE  CachedInv'
    BY <1>3, <1>4, <1>6, CachedMove DEF Busy
  <1>7. CASE PutEnsureBucket(p)
    <2>1. CASE pc'[p] = "idle"
      BY <1>5, <2>1
    <2>2. CASE pc'[p] = "put_load" /\ req'[p] = req[p]
      <3>1. pc[p] = "put_bucket"
        BY <1>7 DEF PutEnsureBucket
      <3>2. CachedAt(pc[p], req[p])'
        BY <1>2, <2>2, <3>1 DEF CachedAt, LoadedCalls, LinkedCalls, UndoCalls, PutCalls
      <3> QED
        BY <1>6, <3>2
    <2> QED
      BY <1>2, <1>7, <2>1, <2>2, Went, Failed DEF PutEnsureBucket, FailClean
  <1>8. CASE PutLoadExisting(p)
    <2> DEFINE ex == objects[req[p].obj]
               r == [req[p] EXCEPT !.ex = ex]
    <2>1. r.obj = req[p].obj /\ r.ex = ex /\ r.exDir = None
      BY <1>2, <1>8 DEF Requests, CachedAt, PutLoadExisting
    <2>2. \/ ex = None /\ Enter(p, "put_stage", r)
          \/ ex # None /\ Enter(p, "put_loadref", r)
          \/ Fail(p, "idle")
      BY <1>8 DEF PutLoadExisting, FailClean
    <2> HIDE DEF r
    <2>3. CASE Fail(p, "idle")
      BY <1>2, <1>5, <2>3, Failed
    <2>4. CASE ex = None /\ Enter(p, "put_stage", r)
      <3>1. pc'[p] = "put_stage" /\ req'[p] = r
        BY <1>2, <2>4, Entered
      <3>2. CachedAt(pc[p], req[p])'
        BY <1>3, <2>1, <2>4, <3>1 DEF CachedAt, LinkedCalls
      <3> QED
        BY <1>6, <3>2
    <2>5. CASE ex # None /\ Enter(p, "put_loadref", r)
      <3>1. pc'[p] = "put_loadref" /\ req'[p] = r
        BY <1>2, <2>5, Entered
      <3>2. CachedAt(pc[p], req[p])'
        BY <3>1 DEF CachedAt, LoadedCalls, LinkedCalls, UndoCalls
      <3> QED
        BY <1>6, <3>2
    <2> QED
      BY <2>2, <2>3, <2>4, <2>5
  <1>9. CASE PutLoadExistingRef(p)
    <2> DEFINE r == [req[p] EXCEPT !.exDir = refPath[req[p].ex]]
    <2>1. r.obj = req[p].obj /\ r.ex = req[p].ex /\ r.exDir = refPath[req[p].ex]
      BY <1>2 DEF Requests
    <2>2. pc[p] = "put_loadref" /\ (Enter(p, "put_stage", r) \/ Fail(p, "idle"))
      BY <1>9 DEF PutLoadExistingRef, FailClean
    <2>3. objects[req[p].obj] = req[p].ex /\ req[p].ex # None
      BY <1>2, <2>2, ObjectsAssumption DEF Remembers, PutCalls
    <2> HIDE DEF r
    <2>4. CASE Fail(p, "idle")
      BY <1>2, <1>5, <2>4, Failed
    <2>5. CASE Enter(p, "put_stage", r)
      <3>1. pc'[p] = "put_stage" /\ req'[p] = r
        BY <1>2, <2>5, Entered
      <3>2. CachedAt(pc[p], req[p])'
        BY <1>3, <2>1, <2>3, <3>1 DEF CachedAt, LinkedCalls
      <3> QED
        BY <1>6, <3>2
    <2> QED
      BY <2>2, <2>4, <2>5
  <1> QED
    BY <1>7, <1>8, <1>9

\* The steps up to the new layout.
LEMMA PutLinkCached ==
  ASSUME Grounded, OneAtATime, LostReplies = FALSE, NEW p \in Procs,
         \/ PutStageMeta(p) \/ PutPrepareBlob(p) \/ PutCreateBlob(p)
         \/ PutIntentPrepared(p) \/ PutLinkLayout(p)
  PROVE  CachedInv'
  <1>1. pc[p] \in {"put_stage", "put_prepare", "put_blob", "put_prepared", "put_link"}
    BY DEF PutStageMeta, PutPrepareBlob, PutCreateBlob, PutIntentPrepared, PutLinkLayout, AdvanceIntent
  <1>2. /\ pc[p] \in LoadedCalls /\ pc[p] \notin LinkedCalls \cup UndoCalls /\ TypeInv
        /\ req[p] \in Requests /\ req[p].obj \in Objects /\ req[p].hash \in Hashes
    BY <1>1, CachedCallsFacts, LoadedFacts DEF LinkedCalls, UndoCalls, Grounded
  <1>3. objects' = objects
    BY DEF PutStageMeta, PutPrepareBlob, PutCreateBlob, PutIntentPrepared, PutLinkLayout, AdvanceIntent,
           FailClean, FailCommand, StageObjectMeta, metaVars
  <1>4. ASSUME pc'[p] \in {"idle", "fail_blob"}, cache' = cache
        PROVE  CachedInv'
    BY <1>2, <1>3, <1>4, CachedQuiet DEF CachedCalls, LoadedCalls, UndoCalls, PutCalls
  <1>5. ASSUME pc'[p] = "fail_unstage", cache' = cache
        PROVE  CachedInv'
    BY <1>2, <1>3, <1>5, CachedQuiet DEF CachedCalls, LoadedCalls, UndoCalls, PutCalls
  <1>6. ASSUME pc'[p] \in LoadedCalls, pc'[p] \notin LinkedCalls, cache' = cache,
               req'[p].obj = req[p].obj, req'[p].ex = req[p].ex, req'[p].exDir = req[p].exDir
        PROVE  CachedInv'
    BY <1>2, <1>3, <1>6, LoadedMove
  <1>7. ASSUME NEW l, Goto(p, l) \/ Fail(p, l), cache' = cache,
               l \in {"idle", "fail_unstage", "fail_blob", "put_prepare", "put_blob", "put_link", "rb_layout"}
        PROVE  CachedInv'
    <2>1. pc'[p] = l /\ (l # "idle" => req'[p] = req[p])
      BY <1>2, <1>7, Went, Failed
    <2> QED
      BY <1>4, <1>5, <1>6, <1>7, <2>1, CachedCallsFacts DEF LinkedCalls, UndoCalls
  <1>8. CASE PutStageMeta(p) \/ PutIntentPrepared(p)
    <2>1. cache' = cache
      BY <1>8 DEF PutStageMeta, PutIntentPrepared, AdvanceIntent, FailCommand, engineVars
    <2> QED
      BY <1>7, <1>8, <2>1 DEF PutStageMeta, PutIntentPrepared, AdvanceIntent, FailCommand
  <1>9. CASE PutPrepareBlob(p) \/ PutCreateBlob(p)
    <2>1. cache' = cache
      BY <1>9 DEF PutPrepareBlob, PutCreateBlob, FailClean, PutBlob, PutBlobFails, SetShards, engineVars
    <2>2. ASSUME NEW r, Enter(p, "put_prepared", r), r.obj = req[p].obj, r.ex = req[p].ex, r.exDir = req[p].exDir
          PROVE  CachedInv'
      BY <1>2, <1>6, <2>1, <2>2, Entered, CachedCallsFacts DEF LinkedCalls
    <2>3. CASE PutPrepareBlob(p)
      <3> DEFINE r == [req[p] EXCEPT !.hit = TRUE, !.dir = refPath[req[p].hash]]
      <3>1. r.obj = req[p].obj /\ r.ex = req[p].ex /\ r.exDir = req[p].exDir
        BY <1>2 DEF Requests
      <3>2. Enter(p, "put_prepared", r) \/ Goto(p, "put_blob") \/ Fail(p, "fail_unstage")
        BY <2>3 DEF PutPrepareBlob, FailClean
      <3> HIDE DEF r
      <3> QED
        BY <1>7, <2>1, <2>2, <3>1, <3>2
    <2>4. CASE PutCreateBlob(p)
      <3> DEFINE r == [req[p] EXCEPT !.created = TRUE, !.dir = DirOf[req[p].obj]]
      <3>1. r.obj = req[p].obj /\ r.ex = req[p].ex /\ r.exDir = req[p].exDir
        BY <1>2 DEF Requests
      <3>2. Enter(p, "put_prepared", r) \/ Fail(p, "fail_unstage")
        BY <2>4 DEF PutCreateBlob
      <3> HIDE DEF r
      <3> QED
        BY <1>7, <2>1, <2>2, <3>1, <3>2
    <2> QED
      BY <1>9, <2>3, <2>4
  <1>10. CASE PutLinkLayout(p)
    <2>1. CASE FailClean(p, IF req[p].created THEN "fail_blob" ELSE "idle")
      <3>1. cache' = cache /\ (Fail(p, "fail_blob") \/ Fail(p, "idle"))
        BY <2>1 DEF FailClean, engineVars
      <3> QED
        BY <1>7, <3>1
    <2>2. CASE LinkObject(req[p].obj, req[p].dir, req[p].hash) /\ Goto(p, "put_linked")
      <3>1. pc'[p] = "put_linked" /\ req'[p] = req[p]
        BY <1>2, <2>2, Went
      <3>2. /\ cache'[req[p].obj] = [dir |-> req[p].dir, hash |-> req[p].hash]
            /\ \A o \in Objects \ {req[p].obj} : cache'[o] = cache[o]
        BY <1>2, <2>2 DEF LinkObject, TypeInv, EngineType
      <3>3. pc'[p] \in LinkedCalls /\ pc'[p] \in LoadedCalls
        BY <3>1, CachedCallsFacts DEF LinkedCalls
      <3> QED
        BY <1>2, <1>3, <3>1, <3>2, <3>3, LoadedMove
    <2> QED
      BY <1>10, <2>1, <2>2 DEF PutLinkLayout
  <1> QED
    BY <1>8, <1>9, <1>10

\* From the new layout to the commit.
LEMMA PutCommitCached ==
  ASSUME Grounded, OneAtATime, LostReplies = FALSE, NEW p \in Procs,
         PutIntentLinked(p) \/ PutRetainBlob(p) \/ PutIntentRetained(p) \/ PutCommit(p)
  PROVE  CachedInv'
  <1> DEFINE o == req[p].obj
             h == req[p].hash
  <1>1. pc[p] \in LinkedCalls /\ pc[p] \in LoadedCalls
    BY CachedCallsFacts
       DEF PutIntentLinked, PutRetainBlob, PutIntentRetained, PutCommit, AdvanceIntent, LinkedCalls
  <1>2. /\ TypeInv /\ req[p] \in Requests /\ o \in Objects /\ h \in Hashes
        /\ cache[o] = [dir |-> req[p].dir, hash |-> h]
    BY <1>1, LoadedFacts DEF Grounded
  <1>3. cache' = cache
    BY DEF PutIntentLinked, PutRetainBlob, PutIntentRetained, PutCommit, AdvanceIntent, FailCommand, engineVars
  <1>4. ASSUME NEW l \in LinkedCalls \cup UndoCalls, pc'[p] = l, objects' = objects,
               req'[p].obj = o, req'[p].ex = req[p].ex, req'[p].exDir = req[p].exDir,
               req'[p].dir = req[p].dir, req'[p].hash = h
        PROVE  CachedInv'
    BY <1>1, <1>2, <1>3, <1>4, CachedCallsFacts, LoadedMove
  <1>5. ASSUME NEW l, l \in {"put_retain", "put_commit", "rb_layout"}, Goto(p, l) \/ Fail(p, l), objects' = objects
        PROVE  CachedInv'
    BY <1>2, <1>4, <1>5, Went, Failed DEF LinkedCalls, UndoCalls
  <1>6. CASE PutIntentLinked(p) \/ PutIntentRetained(p)
    <2>1. objects' = objects
      BY <1>6 DEF PutIntentLinked, PutIntentRetained, AdvanceIntent, FailCommand, StageObjectMeta, metaVars
    <2> QED
      BY <1>5, <1>6, <2>1 DEF PutIntentLinked, PutIntentRetained, AdvanceIntent, FailCommand
  <1>7. CASE PutRetainBlob(p)
    <2>1. objects' = objects
      BY <1>7 DEF PutRetainBlob, FailCommand, CreateBlobRef, IncreaseBlobRef, metaVars
    <2>2. ASSUME NEW m, Enter(p, "put_retained", [req[p] EXCEPT !.mut = m])
          PROVE  CachedInv'
      <3> DEFINE r == [req[p] EXCEPT !.mut = m]
      <3>1. /\ r.obj = o /\ r.ex = req[p].ex /\ r.exDir = req[p].exDir
            /\ r.dir = req[p].dir /\ r.hash = h
        BY <1>2 DEF Requests
      <3>2. Enter(p, "put_retained", r)
        BY <2>2
      <3> HIDE DEF r
      <3>3. pc'[p] = "put_retained" /\ req'[p] = r
        BY <1>2, <3>2, Entered
      <3> QED
        BY <1>4, <2>1, <3>1, <3>3 DEF LinkedCalls
    <2>3. \/ \E m \in {"created", "unchanged", "increased"} : Enter(p, "put_retained", [req[p] EXCEPT !.mut = m])
          \/ Goto(p, "rb_layout") \/ Fail(p, "rb_layout")
      BY <1>7 DEF PutRetainBlob, FailCommand
    <2> QED
      BY <1>5, <2>1, <2>2, <2>3
  <1>8. CASE PutCommit(p)
    <2>1. CASE Goto(p, "rb_layout") /\ UNCHANGED metaVars
      BY <1>5, <2>1 DEF metaVars
    <2>2. CASE FailCommand(p, "rb_layout", UpsertObjectMeta(o, h))
      BY <1>5, <2>2 DEF FailCommand, metaVars
    <2>3. ASSUME NEW x, UpsertObjectMeta(o, h), Enter(p, "put_unstage", [req[p] EXCEPT !.rel = x])
          PROVE  CachedInv'
      <3> DEFINE r == [req[p] EXCEPT !.rel = x]
      <3>1. Enter(p, "put_unstage", r)
        BY <2>3
      <3> HIDE DEF r
      <3>2. pc'[p] = "put_unstage"
        BY <1>2, <3>1, Entered
      <3>3. CachedAt(pc[p], req[p])'
        BY <3>2 DEF CachedAt, LoadedCalls, LinkedCalls, UndoCalls
      <3>4. refPath'[h] = req[p].dir
        BY <1>8, <2>3 DEF Grounded, BackedInv, BackedAt, PutCommit, UpsertObjectMeta
      <3>5. objects'[o] = h /\ \A q \in Objects \ {o} : objects'[q] = objects[q]
        BY <1>2, <2>3 DEF UpsertObjectMeta, TypeInv, MetaOK, MetaType
      <3>6. \A q \in Objects : q = o => Rest(q)'
        BY <1>2, <1>3, <3>4, <3>5 DEF Rest
      <3>7. \A q \in Objects : Busy(pc[p], req[p], q) => q = o
        BY DEF Busy
      <3> QED
        BY <1>3, <3>3, <3>5, <3>6, <3>7, CachedMove
    <2> QED
      BY <1>8, <2>1, <2>2, <2>3 DEF PutCommit
  <1> QED
    BY <1>6, <1>7, <1>8

\* After the commit, and the cleanup of a put that wrote no layout.
LEMMA PutEndCached ==
  ASSUME Grounded, OneAtATime, LostReplies = FALSE, NEW p \in Procs,
         PutUnstage(p) \/ FailUnstage(p) \/ FailDropBlob(p)
  PROVE  CachedInv'
  <1>1. pc[p] \notin LinkedCalls \cup UndoCalls
    BY DEF PutUnstage, FailUnstage, FailDropBlob, LinkedCalls, UndoCalls
  <1>2. UNCHANGED <<objects, cache>>
    BY DEF PutUnstage, FailUnstage, FailDropBlob, FailCommand, FailClean, DeleteStagedObjectMeta,
           DeleteBlob, SetShards, metaVars, engineVars
  <1>3. \E l \in {"idle", "rel_ref"} : Goto(p, l) \/ Fail(p, l)
    BY DEF PutUnstage, FailUnstage, FailDropBlob, FailCommand, FailClean
  <1>4. pc'[p] \in {"idle", "rel_ref"}
    BY <1>3, Went, Failed DEF Grounded
  <1> QED
    BY <1>1, <1>2, <1>4, CachedQuiet DEF CachedCalls, LoadedCalls, UndoCalls, PutCalls

(***************************************************************************)
(* Rollback                                                                 *)
(***************************************************************************)
\* rollbackPut drops the new layout and puts the old one back.
LEMMA RollbackCached ==
  ASSUME Grounded, OneAtATime, LostReplies = FALSE, NEW p \in Procs, RollbackStep(p)
  PROVE  CachedInv'
  <1> DEFINE o == req[p].obj
  <1>0. TypeInv /\ BackedInv
    BY DEF Grounded
  <1>1. pc[p] \in {"rb_layout", "rb_unstage", "rb_restore", "rb_ref", "rb_refblob", "rb_blob"}
    BY DEF RollbackStep, RollbackLayout, RollbackUnstage, RollbackRestore, RollbackRef, RollbackRefBlob, RollbackBlob
  <1>2. \A l : ~Fail(p, l)
    <2>1. faults >= MaxFaults
      BY <1>0, <1>1 DEF BackedInv, BackedAt, RollbackCalls
    <2> QED
      BY <1>0, <2>1, BoundsAssumption DEF Fail, TypeInv, ControlOK, ControlType
  <1>3. objects' = objects
    BY <1>2 DEF RollbackStep, RollbackLayout, RollbackUnstage, RollbackRestore, RollbackRef, RollbackRefBlob,
                RollbackBlob, FailCommand, FailClean, DeleteStagedObjectMeta, DecreaseBlobRef, metaVars
  <1>4. CASE RollbackLayout(p) \/ RollbackUnstage(p)
    <2>1. pc[p] \in UndoCalls /\ pc[p] \in LoadedCalls
      BY <1>4 DEF RollbackLayout, RollbackUnstage, LoadedCalls, UndoCalls
    <2>2. /\ o \in Objects /\ req[p] \in Requests
      BY <2>1, LoadedFacts
    <2>3. \A q \in Objects \ {o} : cache'[q] = cache[q]
      BY <1>0, <1>2, <1>4, <2>2 DEF RollbackLayout, RollbackUnstage, FailCommand, DeleteObjectLayout, TypeInv, EngineType, engineVars
    <2>4. Goto(p, "rb_unstage") \/ Goto(p, "rb_restore")
      BY <1>2, <1>4 DEF RollbackLayout, RollbackUnstage, FailCommand
    <2>5. pc'[p] \in {"rb_unstage", "rb_restore"} /\ req'[p] = req[p]
      BY <1>0, <2>4, Went
    <2>6. pc'[p] \in UndoCalls /\ pc'[p] \notin LinkedCalls /\ pc'[p] \in LoadedCalls
      BY <2>5 DEF UndoCalls, LinkedCalls, LoadedCalls
    <2> QED
      BY <1>3, <2>1, <2>3, <2>5, <2>6, LoadedMove
  <1>5. CASE RollbackRestore(p)
    <2>1. pc[p] = "rb_restore" /\ pc[p] \in LoadedCalls
      BY <1>5 DEF RollbackRestore, LoadedCalls, UndoCalls
    <2>2. /\ o \in Objects /\ objects[o] = req[p].ex
          /\ req[p].exDir = IF req[p].ex = None THEN None ELSE refPath[req[p].ex]
      BY <2>1, LoadedFacts
    <2>3. UNCHANGED metaVars /\ Goto(p, "rb_ref")
      BY <1>2, <1>5 DEF RollbackRestore
    <2>4. pc'[p] = "rb_ref"
      BY <1>0, <2>3, Went
    <2>5. CachedAt(pc[p], req[p])'
      BY <2>4 DEF CachedAt, LoadedCalls, LinkedCalls, UndoCalls, PutCalls
    <2>6. \A q \in Objects \ {o} : cache'[q] = cache[q] /\ ~Busy(pc[p], req[p], q)
      BY <1>0, <1>2, <1>5, <2>2 DEF RollbackRestore, LinkObject, TypeInv, EngineType, engineVars, Busy
    <2>7. \A q \in Objects : q = o => Rest(q)'
      <3>1. CASE req[p].exDir # None
        <4>1. req[p].ex # None /\ req[p].exDir = refPath[req[p].ex]
          BY <2>2, <3>1
        <4>2. cache'[o] = [dir |-> req[p].exDir, hash |-> req[p].ex]
          BY <1>0, <1>2, <1>5, <2>2, <3>1 DEF RollbackRestore, LinkObject, TypeInv, EngineType
        <4> QED
          BY <1>3, <2>2, <2>3, <4>1, <4>2 DEF Rest, metaVars
      <3>2. CASE req[p].exDir = None
        <4>1. req[p].ex = None
          BY <1>3, <2>2, <3>2, ObjectsAssumption DEF Grounded
        <4> QED
          BY <1>3, <2>2, <4>1 DEF Rest
      <3> QED
        BY <3>1, <3>2
    <2> QED
      BY <1>3, <2>5, <2>6, <2>7, CachedMove
  <1>6. CASE RollbackRef(p) \/ RollbackRefBlob(p) \/ RollbackBlob(p)
    <2>1. pc[p] \notin LinkedCalls \cup UndoCalls
      BY <1>6 DEF RollbackRef, RollbackRefBlob, RollbackBlob, LinkedCalls, UndoCalls
    <2>2. cache' = cache
      BY <1>2, <1>6 DEF RollbackRef, RollbackRefBlob, RollbackBlob, FailClean, DeleteBlob, SetShards, engineVars
    <2>3. pc'[p] \in {"rb_blob", "rb_refblob", "idle"}
      <3>1. CASE RollbackRef(p)
        BY <1>0, <1>2, <3>1, Went, Entered DEF RollbackRef, FailCommand
      <3>2. CASE RollbackRefBlob(p) \/ RollbackBlob(p)
        BY <1>0, <1>2, <3>2, Went DEF RollbackRefBlob, RollbackBlob, FailClean
      <3> QED
        BY <1>6, <3>1, <3>2
    <2> QED
      BY <1>3, <2>1, <2>2, <2>3, CachedQuiet DEF CachedCalls, LoadedCalls, UndoCalls, PutCalls
  <1> QED
    BY <1>4, <1>5, <1>6 DEF RollbackStep

(***************************************************************************)
(* Everything else                                                          *)
(***************************************************************************)
\* DeleteObject and DeleteBucket touch the layout of an object that is gone.
LEMMA DeleteCached ==
  ASSUME Grounded, OneAtATime, LostReplies = FALSE, NEW p \in Procs, DeleteStep(p)
  PROVE  CachedInv'
  <1>1. TypeInv
    BY DEF Grounded
  <1>2. pc[p] \in DeleteCalls \cup BucketCalls
    BY DEF DeleteStep, DeleteLoad, DeleteMeta, DeleteLayout, ReleaseRef, ReleaseBlob, BucketList, BucketNextObject,
           BucketDrop, DeleteCalls, BucketCalls
  <1>3. pc[p] \notin LinkedCalls \cup UndoCalls
    BY <1>2 DEF DeleteCalls, BucketCalls, LinkedCalls, UndoCalls
  <1>4. ASSUME \A o \in Objects : objects'[o] = None \/ (objects'[o] = objects[o] /\ cache'[o] = cache[o]),
               pc'[p] \in {"idle", "bkt_next", "del_load", "del_meta", "rel_ref", "rel_blob", "rec_unstage"}
        PROVE  CachedInv'
    <2>1. pc'[p] \notin CachedCalls
      BY <1>4 DEF CachedCalls, LoadedCalls, UndoCalls, PutCalls
    <2> QED
      BY <1>3, <1>4, <2>1, CachedQuiet
  <1>5. CASE DeleteLoad(p) \/ BucketList(p)
    <2>1. UNCHANGED <<objects, cache>>
      BY <1>5 DEF DeleteLoad, BucketList, FailClean, metaVars, engineVars
    <2>2. pc'[p] \in {"idle", "bkt_next", "del_meta"}
      BY <1>1, <1>5, Entered, Went, Failed DEF DeleteLoad, BucketList, FailClean
    <2> QED
      BY <1>4, <2>1, <2>2
  <1>6. CASE DeleteMeta(p)
    <2>1. pc[p] = "del_meta" /\ req[p].obj \in Objects
      BY <1>1, <1>6 DEF DeleteMeta, TypeInv, ControlOK, ShapeOf
    <2>2. CASE Fail(p, "idle") /\ UNCHANGED <<metaVars, engineVars>>
      BY <1>1, <1>4, <2>2, Failed DEF metaVars, engineVars
    <2>3. CASE DeleteObjectMeta(req[p].obj) /\ Goto(p, "del_layout") /\ UNCHANGED engineVars
      <3>1. pc'[p] = "del_layout" /\ req'[p] = req[p]
        BY <1>1, <2>3, Went
      <3>2. /\ objects'[req[p].obj] = None
            /\ \A o \in Objects \ {req[p].obj} : objects'[o] = objects[o]
        BY <1>1, <2>1, <2>3 DEF DeleteObjectMeta, TypeInv, MetaOK, MetaType
      <3>3. CachedAt(pc[p], req[p])'
        BY <3>1, <3>2 DEF CachedAt, LoadedCalls, LinkedCalls, UndoCalls, PutCalls
      <3>4. \A o \in Objects : o = req[p].obj => Rest(o)'
        BY <3>2 DEF Rest
      <3> QED
        BY <1>3, <2>3, <3>2, <3>3, <3>4, CachedMove DEF engineVars, Busy
    <2> QED
      BY <1>6, <2>2, <2>3 DEF DeleteMeta, FailCommand
  <1>7. CASE DeleteLayout(p)
    <2>1. req[p].obj \in Objects /\ objects[req[p].obj] = None
      BY <1>1, <1>7 DEF DeleteLayout, Grounded, CachedInv, CachedAt, TypeInv, ControlOK, ShapeOf
    <2>2. objects' = objects /\ \A o \in Objects \ {req[p].obj} : cache'[o] = cache[o]
      BY <1>1, <1>7, <2>1 DEF DeleteLayout, DeleteObjectLayout, DeleteObjectLayoutFails, TypeInv, EngineType,
                              metaVars, engineVars
    <2>3. pc'[p] = "rel_ref"
      BY <1>1, <1>7, Went DEF DeleteLayout, TypeInv, ControlOK, ControlType
    <2> QED
      BY <1>4, <2>1, <2>2, <2>3
  <1>8. CASE ReleaseRef(p) \/ ReleaseBlob(p)
    <2>1. UNCHANGED <<objects, cache>>
      BY <1>8 DEF ReleaseRef, ReleaseBlob, FailClean, FailCommand, DecreaseBlobRef, DeleteBlob, SetShards,
                  metaVars, engineVars
    <2>2. AfterRelease(p) \in {"idle", "bkt_next", "rec_unstage"}
      BY DEF AfterRelease
    <2>3. pc'[p] \in {"idle", "bkt_next", "rec_unstage", "rel_blob"}
      BY <1>1, <1>8, <2>2, Entered, Went, Failed DEF ReleaseRef, ReleaseBlob, FailClean, FailCommand
    <2> QED
      BY <1>4, <2>1, <2>3
  <1>9. CASE BucketNextObject(p)
    <2>1. PICK o : Enter(p, "del_load", [req[p] EXCEPT !.obj = o, !.todo = @ \ {o}])
      BY <1>9 DEF BucketNextObject
    <2> DEFINE r == [req[p] EXCEPT !.obj = o, !.todo = @ \ {o}]
    <2>2. Enter(p, "del_load", r)
      BY <2>1
    <2> HIDE DEF r
    <2>3. pc'[p] = "del_load"
      BY <1>1, <2>2, Entered
    <2> QED
      BY <1>4, <1>9, <2>3 DEF BucketNextObject, metaVars, engineVars
  <1>10. CASE BucketDrop(p)
    <2>1. \A o \in Objects : objects'[o] = None \/ objects'[o] = objects[o]
      BY <1>10 DEF BucketDrop, DeleteBucketMeta, FailCommand, metaVars
    <2>2. pc'[p] = "idle" /\ cache' = cache
      BY <1>1, <1>10, Went, Failed DEF BucketDrop, FailCommand, engineVars
    <2> QED
      BY <1>4, <2>1, <2>2
  <1> QED
    BY <1>5, <1>6, <1>7, <1>8, <1>9, <1>10 DEF DeleteStep

\* A get finds the layout of a committed object in the cache.
LEMMA GetCached ==
  ASSUME Grounded, OneAtATime, NEW p \in Procs, GetStep(p)
  PROVE  CachedInv'
  <1>1. TypeInv /\ CachedAt(pc[p], req[p])
    BY DEF Grounded, CachedInv
  <1>2. pc[p] \in {"get_meta", "get_data"} /\ req[p] \in Requests /\ req[p].obj \in Objects
    BY <1>1 DEF GetStep, GetMeta, GetData, GetCacheLayout, CachedAt, TypeInv, ControlOK, ControlType, ShapeOf, GetCalls
  <1>3. pc[p] \notin LinkedCalls \cup UndoCalls
    BY <1>2 DEF LinkedCalls, UndoCalls
  <1>4. UNCHANGED <<objects, cache>>
    BY <1>2 DEF GetStep, GetMeta, GetData, GetCacheLayout, FailClean, metaVars, engineVars
  <1>5. ASSUME pc'[p] = "idle"
        PROVE  CachedInv'
    BY <1>3, <1>4, <1>5, CachedQuiet DEF CachedCalls, LoadedCalls, UndoCalls, PutCalls
  <1>6. CASE GetMeta(p)
    <2> DEFINE h == objects[req[p].obj]
               r == [req[p] EXCEPT !.hash = h]
    <2>1. r.obj = req[p].obj
      BY <1>2 DEF Requests
    <2>2. Enter(p, "idle", r) \/ Fail(p, "idle") \/ (h # None /\ Enter(p, "get_data", r))
      BY <1>6 DEF GetMeta, FailClean
    <2> HIDE DEF r
    <2>3. CASE h # None /\ Enter(p, "get_data", r)
      <3>1. pc'[p] = "get_data" /\ req'[p].obj = req[p].obj
        BY <1>1, <2>1, <2>3, Entered
      <3>2. CachedAt(pc[p], req[p])'
        BY <1>4, <2>3, <3>1 DEF CachedAt, LoadedCalls, LinkedCalls, UndoCalls, PutCalls
      <3> QED
        BY <1>3, <1>4, <3>2, CachedMove DEF Busy
    <2> QED
      BY <1>1, <1>5, <2>2, <2>3, Entered, Failed
  <1>7. CASE GetData(p)
    <2>1. objects[req[p].obj] # None /\ Rest(req[p].obj)
      BY <1>1, <1>2, <1>3, <1>7 DEF GetData, CachedAt, Grounded, CachedInv, OneAtATime, Busy
    <2>2. cache[req[p].obj] # NoLayout
      BY <2>1 DEF Rest, NoLayout
    <2>3. Goto(p, "idle") \/ Fail(p, "idle")
      BY <1>7, <2>2 DEF GetData, FailClean
    <2> QED
      BY <1>1, <1>5, <2>3, Went, Failed
  <1> QED
    BY <1>2, <1>6, <1>7 DEF GetStep, GetCacheLayout

\* A recovery finds no expired write to undo, and its sweep writes no layout.
LEMMA RecoverCached ==
  ASSUME Grounded, OneAtATime, NEW p \in Procs, RecoverStep(p)
  PROVE  CachedInv'
  <1>1. TypeInv
    BY DEF Grounded
  <1>2. pc[p] \in RecoverCalls
    BY DEF RecoverStep, RecoverListStaged, RecoverNextPending, RecoverPendingDone, RecoverLayout, RecoverCommittedRef,
           RecoverLink, RecoverUnlink, RecoverCheckRelease, RecoverUnstage, RecoverListRefs, RecoverListPending,
           RecoverListLocal, RecoverSweep, RecoverDone, RecoverCalls
  <1>3. /\ req[p].todo = {}
        /\ pc[p] \in {"rec_list", "rec_next", "rec_refs", "rec_staged", "rec_local", "rec_sweep"}
    <2>1. req[p].op \in {"recover", "boot"} /\ pc[p] # "idle"
      BY <1>1, <1>2 DEF TypeInv, ControlOK, ShapeOf, RecoverCalls
    <2> QED
      BY <2>1 DEF Grounded, Remembers
  <1>4. \/ RecoverListStaged(p) \/ RecoverPendingDone(p) \/ RecoverListRefs(p)
        \/ RecoverListPending(p) \/ RecoverListLocal(p) \/ RecoverSweep(p) \/ RecoverDone(p)
    BY <1>3 DEF RecoverStep, RecoverNextPending, RecoverLayout, RecoverCommittedRef,
                RecoverLink, RecoverUnlink, RecoverCheckRelease, RecoverUnstage
  <1>5. UNCHANGED <<objects, cache>>
    BY <1>4 DEF RecoverListStaged, RecoverPendingDone, RecoverListRefs, RecoverListPending, RecoverListLocal,
                RecoverSweep, RecoverDone, FailClean, DeleteBlob, SetShards, metaVars, engineVars
  <1>6. pc'[p] \in RecoverCalls \cup {"idle"}
    <2>1. ASSUME NEW l \in RecoverCalls, NEW r, Enter(p, l, r)
          PROVE  pc'[p] \in RecoverCalls
      BY <1>1, <2>1, Entered
    <2>2. ASSUME NEW l \in RecoverCalls \cup {"idle"}, Goto(p, l) \/ Fail(p, l)
          PROVE  pc'[p] \in RecoverCalls \cup {"idle"}
      BY <1>1, <2>2, Went, Failed
    <2>3. CASE RecoverListStaged(p) \/ RecoverPendingDone(p) \/ RecoverDone(p)
      BY <2>1, <2>2, <2>3 DEF RecoverListStaged, RecoverPendingDone, RecoverDone, FailClean, RecoverCalls
    <2>4. CASE RecoverListRefs(p) \/ RecoverListPending(p) \/ RecoverListLocal(p)
      BY <2>1, <2>2, <2>4 DEF RecoverListRefs, RecoverListPending, RecoverListLocal, FailClean, RecoverCalls
    <2>5. CASE RecoverSweep(p)
      <3>1. ASSUME NEW s, Enter(p, "rec_sweep", [req[p] EXCEPT !.sets = @ \ {s}])
            PROVE  pc'[p] \in RecoverCalls
        <4> DEFINE r == [req[p] EXCEPT !.sets = @ \ {s}]
        <4>1. Enter(p, "rec_sweep", r)
          BY <3>1
        <4> HIDE DEF r
        <4> QED
          BY <2>1, <4>1 DEF RecoverCalls
      <3> QED
        BY <2>2, <2>5, <3>1 DEF RecoverSweep, FailClean
    <2> QED
      BY <1>4, <2>3, <2>4, <2>5
  <1>7. pc'[p] \notin CachedCalls /\ pc[p] \notin LinkedCalls \cup UndoCalls
    BY <1>2, <1>6 DEF RecoverCalls, CachedCalls, LoadedCalls, LinkedCalls, UndoCalls, PutCalls
  <1> QED
    BY <1>5, <1>7, CachedQuiet

\* Only Restart counts restarts.
LEMMA CrashesStay ==
  ASSUME [Next]_vars, ~Restart
  PROVE  crashes' = crashes
  <1>1. ASSUME NEW p, NEW l, NEW r, Enter(p, l, r)
        PROVE  crashes' = crashes
    BY <1>1 DEF Enter
  <1>2. ASSUME NEW p, NEW l, Goto(p, l) \/ Fail(p, l)
        PROVE  crashes' = crashes
    BY <1>2 DEF Goto, Enter, Fail
  <1> USE DEF FailClean, FailCommand
  <1>3. ASSUME NEW p \in Procs, PutEnsureBucket(p) \/ PutLoadExisting(p) \/ PutLoadExistingRef(p)
                                \/ PutPrepareBlob(p) \/ PutCreateBlob(p) \/ PutLinkLayout(p) \/ FailDropBlob(p)
        PROVE  crashes' = crashes
    BY <1>1, <1>2, <1>3 DEF PutEnsureBucket, PutLoadExisting, PutLoadExistingRef, PutPrepareBlob, PutCreateBlob,
                            PutLinkLayout, FailDropBlob
  <1>4. ASSUME NEW p \in Procs, PutStageMeta(p) \/ PutIntentPrepared(p) \/ PutIntentLinked(p) \/ PutIntentRetained(p)
        PROVE  crashes' = crashes
    BY <1>2, <1>4 DEF PutStageMeta, PutIntentPrepared, PutIntentLinked, PutIntentRetained, AdvanceIntent
  <1>5. ASSUME NEW p \in Procs, PutRetainBlob(p) \/ PutCommit(p) \/ PutUnstage(p) \/ FailUnstage(p)
        PROVE  crashes' = crashes
    BY <1>1, <1>2, <1>5 DEF PutRetainBlob, PutCommit, PutUnstage, FailUnstage
  <1>6. ASSUME NEW p \in Procs, RollbackStep(p)
        PROVE  crashes' = crashes
    BY <1>1, <1>2, <1>6 DEF RollbackStep, RollbackLayout, RollbackUnstage, RollbackRestore, RollbackRef,
                            RollbackRefBlob, RollbackBlob
  <1>7. ASSUME NEW p \in Procs, DeleteStep(p)
        PROVE  crashes' = crashes
    BY <1>1, <1>2, <1>7 DEF DeleteStep, DeleteLoad, DeleteMeta, DeleteLayout, ReleaseRef, ReleaseBlob, BucketList,
                            BucketNextObject, BucketDrop
  <1>8. ASSUME NEW p \in Procs, GetStep(p)
        PROVE  crashes' = crashes
    BY <1>1, <1>2, <1>8 DEF GetStep, GetMeta, GetData, GetCacheLayout
  <1>9. ASSUME NEW p \in Procs, RecoverListStaged(p) \/ RecoverNextPending(p) \/ RecoverPendingDone(p)
                                \/ RecoverLayout(p) \/ RecoverCommittedRef(p) \/ RecoverLink(p) \/ RecoverUnlink(p)
        PROVE  crashes' = crashes
    BY <1>1, <1>2, <1>9 DEF RecoverListStaged, RecoverNextPending, RecoverPendingDone, RecoverLayout,
                            RecoverCommittedRef, RecoverLink, RecoverUnlink
  <1>10. ASSUME NEW p \in Procs, RecoverCheckRelease(p) \/ RecoverUnstage(p) \/ RecoverListRefs(p)
                                 \/ RecoverListPending(p) \/ RecoverListLocal(p) \/ RecoverSweep(p) \/ RecoverDone(p)
        PROVE  crashes' = crashes
    BY <1>1, <1>2, <1>10 DEF RecoverCheckRelease, RecoverUnstage, RecoverListRefs, RecoverListPending,
                             RecoverListLocal, RecoverSweep, RecoverDone
  <1>11. ASSUME NEW p \in Procs, StartRequest(p)
         PROVE  crashes' = crashes
    BY <1>1, <1>11 DEF StartRequest, PutObject, DeleteObject, GetObject, DeleteBucket, Recover, Begin
  <1>12. CASE CreateBucket \/ Elapse \/ UNCHANGED vars
    BY <1>12 DEF CreateBucket, Elapse, vars
  <1> QED
    BY <1>3, <1>4, <1>5, <1>6, <1>7, <1>8, <1>9, <1>10, <1>11, <1>12 DEF Next, Work, PutStep, RecoverStep

\* Layouts are kept until the process restarts.
LEMMA NextCached ==
  ASSUME OneAtATime, Contend = FALSE, MaxElapses = 0, LostReplies = FALSE
  PROVE  TypeInv /\ ReferencesInv /\ BackedInv /\ CachedInv /\ [Next]_vars => CachedInv'
  <1> SUFFICES ASSUME TypeInv, ReferencesInv, BackedInv, CachedInv, [Next]_vars, crashes' = 0
               PROVE  CachedInv'
    BY DEF CachedInv
  <1>1. CASE Restart
    BY <1>1 DEF Restart, TypeInv, ControlOK, ControlType
  <1>2. CASE ~Restart
    <2>1. TypeInv' /\ ReferencesInv' /\ crashes = 0
      BY <1>2, NextType, NextRefs, CrashesStay
    <2>2. Grounded
      <3>1. \A h \in Hashes : refCount[h] > 0 /\ refCount'[h] > 0 => refPath'[h] = refPath[h]
        BY PathsStay
      <3> QED
        BY <2>1, <3>1, CommittedPath DEF Grounded, ReferencesInv
    <2>3. ASSUME NEW p \in Procs, Work(p)
          PROVE  CachedInv'
      <3>1. CASE PutStep(p)
        BY <2>2, <3>1, PutLoadCached, PutLinkCached, PutCommitCached, PutEndCached DEF PutStep
      <3> QED
        BY <2>2, <2>3, <3>1, RollbackCached, DeleteCached, GetCached, RecoverCached DEF Work
    <2>4. ASSUME NEW p \in Procs, StartRequest(p)
          PROVE  CachedInv'
      <3>1. /\ pc'[p] \in {"put_bucket", "del_load", "get_meta", "bkt_list", "rec_list"}
            /\ pc'[p] = "put_bucket" => req'[p].exDir = None
            /\ pc[p] = "idle" /\ UNCHANGED <<objects, cache>>
        BY <2>4, Begun DEF metaVars, engineVars
      <3>2. CachedAt(pc[p], req[p])'
        BY <3>1 DEF CachedAt, LoadedCalls, LinkedCalls, UndoCalls, PutCalls
      <3>3. \A o \in Objects : ~Busy(pc[p], req[p], o)
        BY <3>1 DEF Busy, LinkedCalls, UndoCalls
      <3> QED
        BY <2>2, <3>1, <3>2, <3>3, CachedMove
    <2>5. CASE CreateBucket \/ UNCHANGED vars
      <3>1. UNCHANGED <<objects, cache, refPath, pc, req>>
        BY <2>5 DEF CreateBucket, vars, metaVars, engineVars
      <3> QED
        BY <2>1, <3>1 DEF CachedInv, CachedAt, Rest, Busy
    <2> QED
      BY <1>2, <2>3, <2>4, <2>5, NoElapse DEF Next
  <1> QED
    BY <1>1, <1>2

\* No layout is there at first.
LEMMA InitCached == Init => CachedInv
  BY DEF Init, CachedInv, CachedAt, Rest, LoadedCalls, LinkedCalls, UndoCalls, PutCalls

\* CommittedReadable: a committed object that no request is writing is
\* readable, when requests are served one at a time, commands are answered and
\* at most one call fails: whatever puts, overwrites, deduplications, deletes,
\* recoveries and rollbacks came before, the layout names the committed content
\* and all its shards are there.
THEOREM CommittedObjectsReadable ==
  ASSUME OneAtATime, Contend = FALSE, MaxElapses = 0, LostReplies = FALSE, MaxFaults <= 1
  PROVE  Spec => []CommittedReadable
  <1> DEFINE Inv == TypeInv /\ SweepInv /\ BackedInv /\ ReferencesInv /\ CachedInv
  <1>1. Init => Inv
    BY InitTypeInv, InitSweep, InitBacked, InitRefs, InitCached
  <1>2. Inv /\ [Next]_vars => Inv'
    BY NextType, NextSweep, NextBacked, NextRefs, NextCached
  <1>3. Inv => CommittedReadable
    <2> SUFFICES ASSUME Inv, crashes = 0, NEW o \in Objects, objects[o] # None, ~Writing(o)
                 PROVE  Readable(o)
      BY DEF CommittedReadable
    <2> DEFINE h == objects[o]
    <2>1. h \in Hashes /\ refCount[h] \in Nat
      BY DEF TypeInv, MetaOK, MetaType
    <2>2. refCount[h] > 0
      <3>1. o \in Claims(h)
        BY DEF Claims
      <3>2. Cardinality(Claims(h)) > 0 /\ Cardinality(Claims(h)) <= refCount[h]
        BY <2>1, <3>1, ClaimsFinite, FS_EmptySet DEF ReferencesInv, ClaimsCovered
      <3> QED
        BY <2>1, <3>2, ClaimsFinite
    <2>3. ASSUME NEW p \in Procs, Busy(pc[p], req[p], o)
          PROVE  FALSE
      <3>1. pc[p] \in PutCalls \cup RollbackCalls /\ pc[p] # "idle" /\ req[p].obj = o
        BY <2>3 DEF Busy, LinkedCalls, UndoCalls, PutCalls, RollbackCalls
      <3>2. req[p].op = "put"
        BY <3>1 DEF TypeInv, ControlOK, ShapeOf
      <3> QED
        BY <3>1, <3>2 DEF Writing, Touches
    <2>4. cache[o] = [dir |-> refPath[h], hash |-> h]
      BY <2>3 DEF CachedInv, Rest
    <2>5. GetLayout(o) = [dir |-> refPath[h], hash |-> h]
      BY <2>4 DEF GetLayout, NoLayout
    <2>6. shards[refPath[h]][h] = "full"
      BY <2>1, <2>2 DEF BackedInv, RefBacked
    <2> QED
      BY <2>5, <2>6 DEF Readable
  <1> QED
    BY <1>1, <1>2, <1>3, PTL DEF Spec
=============================================================================
