------------------------------- MODULE Dedupe -------------------------------
(***************************************************************************)
(* Dedupe (internal/store/dedupe*.go) composed with the object store: a    *)
(* scanner, started by the scheduler or over HTTP, lists the committed     *)
(* objects, reads their layouts, lists the blob refs, and then corrects    *)
(* missing refs, wrong counts, orphan refs and diverging layouts from      *)
(* these listings, in up to MaxFixes commands.  Nothing excludes requests, *)
(* or another scanner, in between.                                         *)
(*                                                                         *)
(* As in ObjectStore an action is one metadata or engine call; dpc[s]      *)
(* names the next call of scanner s and dd[s] holds its locals.  A layout  *)
(* mismatch is a different directory, or different content (the checksums  *)
(* differ); shard placements are not told apart.                           *)
(***************************************************************************)
EXTENDS ObjectStore

CONSTANTS
    Scanners,     \* the runs of Dedupe that can overlap
    MaxFixes,     \* DedupeMaxFixes: normalize makes it positive
    Ops,          \* the kinds of requests considered next to scanners
    MaxOverlaps   \* steps of others during a run, and requests it starts among

ASSUME DedupeAssumption ==
    /\ IsFiniteSet(Scanners)
    /\ MaxFixes \in Nat \ {0}
    /\ MaxOverlaps \in Nat

VARIABLES dpc, dd

dedupeVars == <<dpc, dd>>

ScanCalls ==
    {"idle", "dd_buckets", "dd_objects", "dd_stat", "dd_refs", "dd_missing",
     "dd_increase", "dd_existing", "dd_decrease", "dd_orphan", "dd_blob",
     "dd_layouts", "dd_link", "dd_upsert", "dd_end"}

\* bkts, objs and hashes are what the loops have left; snap, info, refs and
\* path what was listed; cur and left the ref being corrected and by how much;
\* back the loop to return to; obj the object being canonicalized; overlaps the
\* requests and scanners in flight when the run began and their steps since.
NoScan ==
    [bkts |-> {}, objs |-> {}, hashes |-> {}, snap |-> [o \in Objects |-> None],
     info |-> [o \in Objects |-> NoLayout], refs |-> [h \in Hashes |-> 0],
     path |-> [h \in Hashes |-> None], cur |-> None, left |-> 0, back |-> "idle",
     obj |-> None, fixes |-> 0, limited |-> FALSE, overlaps |-> 0]

DedupeInit ==
    /\ Init
    /\ dpc = [s \in Scanners |-> "idle"]
    /\ dd = [s \in Scanners |-> NoScan]

(***************************************************************************)
(* Control                                                                 *)
(***************************************************************************)
Active(s) == dpc[s] # "idle"

\* The step of somebody else is counted as an overlap.
Overlapped(s) == IF Active(s) THEN [dd[s] EXCEPT !.overlaps = @ + 1] ELSE dd[s]

\* Bounds: at most MaxOverlaps steps of others during a run; a call of a request
\* fails only between runs, and the runs after that are alone.
MostOverlaps == IF faults = 0 THEN MaxOverlaps ELSE 0
MayOverlap(s) == Active(s) => dd[s].overlaps < MostOverlaps /\ faults' = faults

Step(s, l, r) ==
    /\ dpc' = [dpc EXCEPT ![s] = l]
    /\ dd' = [t \in Scanners |->
                 IF t = s THEN IF l = "idle" THEN NoScan ELSE r
                 ELSE Overlapped(t)]
    /\ \A t \in Scanners \ {s} : MayOverlap(t)
    /\ UNCHANGED <<pc, req, faults, crashes, elapses>>

Quietly(s, l, r) == Step(s, l, r) /\ UNCHANGED <<metaVars, engineVars>>

\* A call fails, and with it the run; this may happen any number of times.
Abort(s) == Quietly(s, "idle", NoScan)

\* A command that fails may have been applied when only its reply was lost.
AbortCommand(s, Command) ==
    /\ Step(s, "idle", NoScan)
    /\ UNCHANGED engineVars
    /\ UNCHANGED metaVars \/ (LostReplies /\ Command)

(***************************************************************************)
(* Collecting                                                              *)
(***************************************************************************)
DedupeStart(s) ==
    /\ dpc[s] = "idle"
    /\ \A p \in Procs : req[p].op # "boot"
    /\ LET others == {p \in Procs : pc[p] # "idle"} \cup {t \in Scanners : Active(t)} IN
       /\ Cardinality(others) <= MostOverlaps
       /\ Quietly(s, "dd_buckets", [NoScan EXCEPT !.overlaps = Cardinality(others)])

\* collectDedupeObjects: the buckets, then each bucket's objects, each with
\* the layout StatObject finds, which it also puts in the cache.
ListBucketsForDedupe(s) ==
    /\ dpc[s] = "dd_buckets"
    /\ \/ Quietly(s, "dd_objects", [dd[s] EXCEPT !.bkts = buckets])
       \/ Abort(s)

ListObjectsForDedupe(s) ==
    /\ dpc[s] = "dd_objects"
    /\ \/ \E b \in dd[s].bkts :
             LET listed == {o \in Objects : BucketOf[o] = b /\ objects[o] # None} IN
             Quietly(s, "dd_stat",
                     [dd[s] EXCEPT !.bkts = @ \ {b}, !.objs = listed,
                        !.snap = [o \in Objects |-> IF o \in listed THEN objects[o] ELSE @[o]]])
       \/ dd[s].bkts = {} /\ Quietly(s, "dd_refs", dd[s])
       \/ dd[s].bkts # {} /\ Abort(s)

loadDedupeObject(s) ==
    /\ dpc[s] = "dd_stat"
    /\ \/ \E o \in dd[s].objs :
             \/ /\ Step(s, "dd_stat", [dd[s] EXCEPT !.objs = @ \ {o}, !.info[o] = GetLayout(o)])
                /\ cache' = [cache EXCEPT ![o] = GetLayout(o)]
                /\ UNCHANGED <<metaVars, disk, shards>>
             \/ Quietly(s, "dd_stat", [dd[s] EXCEPT !.objs = @ \ {o}])
       \/ dd[s].objs = {} /\ Quietly(s, "dd_objects", dd[s])

\* recordDedupeHashStat: how many of the listed objects have the content.
Expected(r, h) == Cardinality({o \in Objects : r.snap[o] = h})

ListBlobRefs(s) ==
    /\ dpc[s] = "dd_refs"
    /\ \/ Quietly(s, "dd_missing",
                  [dd[s] EXCEPT !.refs = refCount, !.path = refPath,
                     !.hashes = {h \in Hashes : Expected(dd[s], h) > 0 /\ refCount[h] = 0}])
       \/ Abort(s)

(***************************************************************************)
(* Correcting references                                                   *)
(***************************************************************************)
\* Mutant: one fix too many.
reachedLimitLate(r) == r.fixes > MaxFixes

reachedLimit(r) == r.fixes >= MaxFixes

\* The loop or the item ends for want of fixes.
Limited(s, l, r) == reachedLimit(r) /\ Quietly(s, l, [r EXCEPT !.limited = TRUE])

\* The refs of the listing whose count is not the expected one.
Drifted(r) == {h \in Hashes : r.refs[h] > 0 /\ r.refs[h] # Expected(r, h)}

\* fixMissingBlobRef: a ref from the first listed object's layout, if it could
\* be read; more references follow one by one.
fixMissingBlobRef(s) ==
    LET r == dd[s] IN
    /\ dpc[s] = "dd_missing"
    /\ \/ \E h \in r.hashes, first \in Objects :
             LET rest == [r EXCEPT !.hashes = @ \ {h}]
                 d == r.info[first].dir IN
             /\ r.snap[first] = h
             /\ \/ /\ r.info[first] = NoLayout
                   /\ Quietly(s, "dd_missing", rest)
                \/ /\ r.info[first] # NoLayout
                   /\ Limited(s, "dd_missing", rest)
                \/ /\ r.info[first] # NoLayout
                   /\ ~reachedLimit(r)
                   /\ \/ /\ CreateBlobRef(h, d)
                         /\ Step(s, "dd_increase",
                                 [rest EXCEPT !.path[h] = d, !.fixes = @ + 1, !.cur = h,
                                    !.left = Expected(r, h) - 1, !.back = "dd_missing"])
                         /\ UNCHANGED engineVars
                      \/ AbortCommand(s, CreateBlobRef(h, d))
       \/ /\ r.hashes = {}
          /\ Quietly(s, "dd_existing", [r EXCEPT !.hashes = Drifted(r)])

\* increaseBlobRef: an error when the ref has gone meanwhile.
increaseBlobRef(s) ==
    LET r == dd[s] IN
    /\ dpc[s] = "dd_increase"
    /\ \/ r.left = 0 /\ Quietly(s, r.back, r)
       \/ r.left > 0 /\ Limited(s, r.back, r)
       \/ /\ r.left > 0 /\ ~reachedLimit(r)
          /\ \/ /\ IncreaseBlobRef(r.cur)
                /\ Step(s, "dd_increase", [r EXCEPT !.left = @ - 1, !.fixes = @ + 1])
                /\ UNCHANGED engineVars
             \/ refCount[r.cur] = 0 /\ Quietly(s, "idle", NoScan)
             \/ AbortCommand(s, IncreaseBlobRef(r.cur))

\* Mutant: a surplus is only corrected when no object is left.
fixBlobRefCountKeepsSurplus(s) ==
    LET r == dd[s] IN
    /\ dpc[s] = "dd_existing"
    /\ \/ \E h \in r.hashes :
             LET e == Expected(r, h)
                 fix == [r EXCEPT !.hashes = @ \ {h}, !.cur = h, !.back = "dd_existing"] IN
             \/ e = 0 /\ Quietly(s, "dd_orphan", fix)
             \/ /\ e > 0
                /\ Quietly(s, "dd_increase",
                           [fix EXCEPT !.left = IF e > r.refs[h] THEN e - r.refs[h] ELSE 0])
       \/ /\ r.hashes = {}
          /\ Quietly(s, "dd_layouts",
                     [r EXCEPT !.objs = {o \in Objects : r.snap[o] # None}])

\* fixBlobRefCount: from the counts of the listing.
fixBlobRefCount(s) ==
    LET r == dd[s] IN
    /\ dpc[s] = "dd_existing"
    /\ \/ \E h \in r.hashes :
             LET e == Expected(r, h)
                 fix == [r EXCEPT !.hashes = @ \ {h}, !.cur = h, !.back = "dd_existing"] IN
             \/ e = 0 /\ Quietly(s, "dd_orphan", fix)
             \/ /\ e > r.refs[h]
                /\ Quietly(s, "dd_increase", [fix EXCEPT !.left = e - r.refs[h]])
             \/ /\ 0 < e /\ e < r.refs[h]
                /\ Quietly(s, "dd_decrease", [fix EXCEPT !.left = r.refs[h] - e])
       \/ /\ r.hashes = {}
          /\ Quietly(s, "dd_layouts",
                     [r EXCEPT !.objs = {o \in Objects : r.snap[o] # None}])

\* Mutant: the loop runs as long as the count is not below the expected one.
decreaseBlobRefBelowExpected(s) ==
    LET r == dd[s] IN
    /\ dpc[s] = "dd_decrease"
    /\ ~reachedLimit(r)
    /\ DecreaseBlobRef(r.cur)
    /\ IF r.left = 0
         THEN Step(s, "dd_existing", [r EXCEPT !.fixes = @ + 1])
         ELSE Step(s, "dd_decrease", [r EXCEPT !.left = @ - 1, !.fixes = @ + 1])
    /\ UNCHANGED engineVars

\* decreaseBlobRefToExpected: nobody looks whether the ref was removed.
decreaseBlobRefToExpected(s) ==
    LET r == dd[s] IN
    /\ dpc[s] = "dd_decrease"
    /\ \/ r.left = 0 /\ Quietly(s, "dd_existing", r)
       \/ r.left > 0 /\ Limited(s, "dd_existing", r)
       \/ /\ r.left > 0 /\ ~reachedLimit(r)
          /\ \/ /\ DecreaseBlobRef(r.cur)
                /\ Step(s, "dd_decrease", [r EXCEPT !.left = @ - 1, !.fixes = @ + 1])
                /\ UNCHANGED engineVars
             \/ AbortCommand(s, DecreaseBlobRef(r.cur))

\* Mutant: only the decrease that removes the ref counts as a fix.
removeOrphanBlobRefUncounted(s) ==
    LET r == dd[s] IN
    /\ dpc[s] = "dd_orphan"
    /\ \/ Limited(s, "dd_existing", r)
       \/ /\ ~reachedLimit(r)
          /\ DecreaseBlobRef(r.cur)
          /\ IF refCount[r.cur] = 1
               THEN Step(s, "dd_blob",
                         [r EXCEPT !.fixes = @ + 1, !.path[r.cur] = refPath[r.cur]])
               ELSE Step(s, "dd_orphan", r)
          /\ UNCHANGED engineVars

\* removeOrphanBlobRef: until a decrease removes the ref.  One that has gone
\* meanwhile is never "removed", and only the limit ends the loop.
removeOrphanBlobRef(s) ==
    LET r == dd[s] IN
    /\ dpc[s] = "dd_orphan"
    /\ \/ Limited(s, "dd_existing", r)
       \/ /\ ~reachedLimit(r)
          /\ \/ /\ DecreaseBlobRef(r.cur)
                /\ IF refCount[r.cur] = 1
                     THEN Step(s, "dd_blob",
                               [r EXCEPT !.fixes = @ + 1, !.path[r.cur] = refPath[r.cur]])
                     ELSE Step(s, "dd_orphan", [r EXCEPT !.fixes = @ + 1])
                /\ UNCHANGED engineVars
             \/ AbortCommand(s, DecreaseBlobRef(r.cur))

deleteRemovedOrphanBlob(s) ==
    LET r == dd[s] IN
    /\ dpc[s] = "dd_blob"
    /\ \/ /\ DeleteBlob(r.path[r.cur], r.cur)
          /\ Step(s, "dd_existing", r)
          /\ UNCHANGED metaVars
       \/ Abort(s)

(***************************************************************************)
(* Correcting layouts                                                      *)
(***************************************************************************)
\* Mutant: the listed ref is compared by its content alone.
dedupeLayoutMismatchHash(r, o) ==
    /\ r.path[r.snap[o]] # None
    /\ r.info[o] # NoLayout
    /\ r.info[o].hash # r.snap[o]

dedupeLayoutMismatch(r, o) ==
    /\ r.path[r.snap[o]] # None
    /\ r.info[o] # NoLayout
    /\ r.info[o] # [dir |-> r.path[r.snap[o]], hash |-> r.snap[o]]

canonicalizeDedupeLayouts(s) ==
    LET r == dd[s] IN
    /\ dpc[s] = "dd_layouts"
    /\ \/ \E o \in r.objs :
             LET rest == [r EXCEPT !.objs = @ \ {o}] IN
             \/ ~dedupeLayoutMismatch(r, o) /\ Quietly(s, "dd_layouts", rest)
             \/ dedupeLayoutMismatch(r, o) /\ Limited(s, "dd_layouts", rest)
             \/ /\ dedupeLayoutMismatch(r, o) /\ ~reachedLimit(r)
                /\ Quietly(s, "dd_link", [rest EXCEPT !.obj = o])
       \/ r.objs = {} /\ Quietly(s, "dd_end", r)

\* canonicalizeDedupeLayout: the layout, then the metadata as it was listed.
LinkCanonical(s) ==
    LET r == dd[s]
        h == r.snap[r.obj] IN
    /\ dpc[s] = "dd_link"
    /\ \/ /\ LinkObject(r.obj, r.path[h], h)
          /\ Step(s, "dd_upsert", r)
          /\ UNCHANGED metaVars
       \/ Abort(s)

UpsertCanonical(s) ==
    LET r == dd[s]
        h == r.snap[r.obj] IN
    /\ dpc[s] = "dd_upsert"
    /\ UNCHANGED engineVars
    /\ \/ /\ UpsertObjectMeta(r.obj, h)
          /\ Step(s, "dd_layouts", [r EXCEPT !.fixes = @ + 1])
       \/ /\ BucketOf[r.obj] \notin buckets
          /\ Step(s, "idle", NoScan)
          /\ UNCHANGED metaVars
       \/ AbortCommand(s, UpsertObjectMeta(r.obj, h))

DedupeEnd(s) == dpc[s] = "dd_end" /\ Quietly(s, "idle", NoScan)

ScanWork(s) ==
    \/ ListBucketsForDedupe(s) \/ ListObjectsForDedupe(s) \/ loadDedupeObject(s)
    \/ ListBlobRefs(s) \/ fixMissingBlobRef(s) \/ increaseBlobRef(s)
    \/ fixBlobRefCount(s) \/ decreaseBlobRefToExpected(s) \/ removeOrphanBlobRef(s)
    \/ deleteRemovedOrphanBlob(s) \/ canonicalizeDedupeLayouts(s)
    \/ LinkCanonical(s) \/ UpsertCanonical(s) \/ DedupeEnd(s)

\* A step A of the store, next to the scanners; a restart ends them.
Beside(A) ==
    /\ A
    /\ \A p \in Procs : req'[p].op \in Ops \cup {"none", "boot"}
    /\ IF crashes' # crashes
         THEN /\ dpc' = [s \in Scanners |-> "idle"]
              /\ dd' = [s \in Scanners |-> NoScan]
         ELSE /\ \A s \in Scanners : MayOverlap(s)
              /\ dd' = [s \in Scanners |-> Overlapped(s)]
              /\ UNCHANGED dpc

DedupeNext ==
    \/ Beside(Next)
    \/ \E s \in Scanners : DedupeStart(s) \/ ScanWork(s)

DedupeSpec == DedupeInit /\ [][DedupeNext]_<<vars, dedupeVars>>

\* Every call returns, so requests and scanners go on.
DedupeFairSpec ==
    /\ DedupeSpec
    /\ \A p \in Procs : WF_<<vars, dedupeVars>>(Beside(Work(p)))
    /\ \A s \in Scanners : WF_<<vars, dedupeVars>>(ScanWork(s))

(***************************************************************************)
(* Properties                                                              *)
(***************************************************************************)
\* Type invariant of the store and of the locals of the runs; no run makes more
\* than MaxFixes fixes, whichever of its loops counts them (reachedLimit).
DedupeTypeOK ==
    /\ TypeOK
    /\ dpc \in [Scanners -> ScanCalls]
    /\ \A s \in Scanners :
           /\ dd[s].fixes \in 0 .. MaxFixes
           /\ dd[s].left \in Nat
           /\ dd[s].snap \in [Objects -> Hashes \cup {None}]
           /\ dd[s].info \in [Objects -> Layouts]
           /\ dd[s].path \in [Hashes -> Dirs \cup {None}]

Users(h) == {o \in Objects : objects[o] = h}

\* A run that was alone and had fixes left, at its end.
Reconciled(s) == dpc[s] = "dd_end" /\ dd[s].overlaps = 0 /\ ~dd[s].limited

\* The layouts of all objects with the content could be read.
Legible(s, h) == \A o \in Users(h) : dd[s].info[o] # NoLayout

\* QuietRunExact: whatever failed puts, deletes, crashes and overlapping runs
\* left behind, a run that is alone and within its limit ends with every blob
\* ref counting exactly the committed objects with its content.
QuietRunExact ==
    \A s \in Scanners : Reconciled(s) =>
        \A h \in Hashes : Legible(s, h) => refCount[h] = Cardinality(Users(h))

\* QuietRunCanonical: and with the layout of every object where its ref says.
QuietRunCanonical ==
    \A s \in Scanners : Reconciled(s) =>
        \A o \in Objects :
            objects[o] # None /\ Legible(s, objects[o]) =>
                GetLayout(o) = [dir |-> refPath[objects[o]], hash |-> objects[o]]

Drift(h) ==
    LET n == Cardinality(Users(h)) IN
    IF refCount[h] > n THEN refCount[h] - n ELSE n - refCount[h]

\* QuietRunKeeps: no step of a run that is alone widens the distance between a
\* count and the objects it counts, so limited runs get there together, or
\* takes a readable object's content away while the refs are backed by shards.
QuietRunKeeps ==
    [][\A s \in Scanners : Active(s) /\ dd[s].overlaps = 0 /\ UNCHANGED pc =>
          /\ \A h \in Hashes : Drift(h)' <= Drift(h)
          /\ \A o \in Objects :
                RefBacked /\ objects[o] # None /\ Readable(o) => Readable(o)'
      ]_<<vars, dedupeVars>>

\* DedupeEnds: every run ends, also one whose orphan ref was removed by others.
DedupeEnds ==
    \A s \in Scanners : Active(s) ~> ~Active(s)
=============================================================================
