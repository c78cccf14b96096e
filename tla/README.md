# MaxIO: TLA+ models, model checks and proofs

MaxIO is an S3-like object store in Go: objects are erasure-coded into shards on
storage nodes, metadata lives in a Raft-replicated state machine, content is
deduplicated by hash with reference counts, and a write goes through a staged
entry (the *write intent*) that recovery uses after a crash. This directory
holds TLA+ modules translated from that code, TLC configurations that check them
on small instances, and TLAPS proofs that hold for every instance. All source
paths below are under `src/`.

## Inventory

| Component | State | Operations | Hard behaviour | What makes it correct |
|---|---|---|---|---|
| Metadata state machine `internal/raft/state_machine*.go` | buckets, committed objects, staged objects, blob refs (count, path, placements) | create/delete bucket, upsert/stage/delete object, create/increase/decrease ref, snapshots | commands of many requests interleave; a proposal can time out and still be applied | counts cover objects, no object outside a bucket |
| Metadata store `internal/metadata` | none of its own (Raft), maps (in-memory double) | one call per command or query | as above | forwards faithfully |
| Object store `internal/store` put, get, delete | locals of each request goroutine | PutObject, GetObject, DeleteObject, CreateBucket, DeleteBucket, rollback | up to twelve calls per put, each can fail, no lock between calls | committed objects stay readable; nothing leaks without a failure |
| Store recovery `internal/store/recovery*.go`, `gc.go` | recovery status | roll back expired writes, sweep orphan shard sets | runs at startup after a crash at any point, and on demand beside requests | undoes exactly what was done, deletes only what nobody needs |
| Store dedupe, rebalance | none | recount refs, canonical layouts, move shards | races every writer; several writes, each can fail | counts exact, records of placements agree |
| Engine: layouts and blobs `internal/engine` | layout cache, meta.json files, shard files | LinkObject, DeleteObjectLayout, PutBlob, DeleteBlob, lookup, sweep | cache lost on restart, several meta.json per key | the layout found is the committed one |
| Engine: shards on nodes | node registry, drained nodes, shard placements, checksums | placement, read with reconstruction, repair, scrub, rebalance, drain | missing, corrupt, unreachable shards; partial moves | data survives as long as enough shards do |
| Repair service, scheduler, dedupe worker | running flag, status, history, issues, retry and rate limiter | run once, scheduled runs, retries | overlapping triggers, cancellation, a batch limit and objects that stay broken | one run at a time; what can be repaired is repaired |
| Raft membership `internal/raft` | member set, removed ids, config change index | bootstrap, join, add, remove, sync | operations that fail or lose their answer; changes by other servers | no member removed that a plan kept; a refused change changes nothing |
| Cluster handlers `internal/handler/cluster*.go` | none | join, drain, rebalance, replace, decommission, reconcile, node registry | check then act over several calls | no node removed while it owns shards; reconcile reaches what it promised |
| Discovery `internal/discovery` | the gossip view of each server | start, stop, list nodes | views that differ, lag or split | what reconcile may conclude from it |
| Object service, indexer, index | event queue, retry timers, bleve documents, map in memory | put/delete with events, indexing worker, rebuild and prune | events reordered, dropped at a full queue, rebuild racing deletes | index converges to the store |
| S3 multipart | upload directories and part files | create, upload part, complete, abort, list | complete racing abort and upload | completed object holds the listed parts |
| S3 listing, byte ranges, copy, batch delete | none | pages of objects, uploads and parts; ranged reads; multi-step requests | boundaries; the bucket changes between the calls of one session | pages partition the listing, ranges get their bytes |
| Auth, HTTP, admin, metrics, config, s3bench | wiring | rendering, parsing, load generation | | not modelled |

Interaction: a handler calls the object service, which calls the store; the
store makes metadata calls (each one Raft command or linearizable read) and
engine calls (files and storage nodes). Startup runs recovery before the HTTP
server listens; the repair service and dedupe worker run beside requests.

## Modules

* `ObjectStore`: store, metadata commands, layouts and blobs, recovery.
  `pc[p]` is the next metadata or engine call of request goroutine `p`, `req[p]`
  its locals. One action is one call plus the computation up to the next; each
  call can fail (`Fail`, bounded by `MaxFaults`) and the error path of the Go
  code follows. `Restart` kills the process anywhere; `Elapse` lets the pending
  TTL pass for staged writes no request is working on.
* `Shards`: single shards on storage nodes, placement, repair, rebalance, Raft
  membership and the cluster handlers that combine them, seen from one server.
* `Dedupe` (extends `ObjectStore`): the dedupe run composed with the store.
* `Reconcile`: membership, gossip views and the reconcile, bootstrap and join
  handlers on several servers, with addresses and lost answers.
* `Repair`: the repair service and its scheduler.
* `Indexing`: object events, their queue and worker, retries, and the rebuild.
* `UploadContract`: what multipart uploads promise, without files or requests;
  `Multipart`: the upload directories, the mutex and the handlers, shown to
  implement it.
* `S3Requests`: listings page by page, ranged reads, copies, batch deletes.
* `ObjectStoreProofs`, `ShardsProofs`, `DedupeProofs`, `MultipartProofs`,
  `IndexingProofs`, `RepairProofs`, `ReconcileProofs`, `S3RequestsProofs`: proofs
  about the module with that name. `DedupeProofs` uses those about `ObjectStore`.
* `MC...`: instances for TLC of the module with the name after `MC`.

`ObjectStore` and `Shards` look at the same put and delete at two depths.
`ObjectStore` has every metadata call, its failure and its rollback, and one value
per shard set; `Shards` has every shard and its node, and leaves staging and
failing metadata calls of a put to `ObjectStore`. `Multipart`, `Indexing` and
`S3Requests` take a put, delete or listing of the object service as one step: what
they are about happens around these calls. `Reconcile` and `Shards` look at
membership from two sides: addresses, targets, several servers and gossip in the
first, the shards of the members in the second.

### How ObjectStore corresponds to the code

| Model | Code |
|---|---|
| `objects`, `staged`, `buckets` | maps of `raftStateMachine`; an object is a bucket/key pair, its metadata the content hash |
| `refCount`, `refPath` | `blobRefs[hash].RefCount` and `.Path` |
| `cache` | `Engine.layoutCache` |
| `disk[o][d]` | `meta.json` of object `o` in shard directory `d` |
| `shards[d][h]` | chunk files: `none`, `partial` (PutBlob stopped at a shard), `full` |
| `put_*` calls | `PutObject`, `putStagedObject`, `completePreparedPut` (put.go) |
| `rb_*` calls | `rollbackPut` (blob.go): every step runs, errors are joined |
| `rel_*` calls | `releaseBlob` |
| `del_*`, `bkt_*`, `get_*` | `DeleteObject`, `DeleteBucket`, `GetObject` (store.go) |
| `rec_*` calls | `Recover`, `cleanupPendingObjects`, `cleanupOrphanShardSets` |
| `FailCommand` | a Raft proposal that failed; with `LostReplies` it may have been applied |

Abstractions: a content is its hash; sizes, ETags, checksums and user metadata
are dropped; a directory's shards of one content are one value (single shards
are in `Shards`); lists of objects, staged writes and shard sets
are visited in any order (the code sorts them by name or takes directory order),
which only adds behaviours; the recovery status and dry runs are reports and left
out; `stageObject` (a temporary file) has no effect on shared state.

### How Shards corresponds to the code

| Model | Code |
|---|---|
| `members`, `removed` | dragonboat's shard membership, `Nodes` and `Removed` (`membership.go`) |
| `reg`, `drained` | `Engine.nodes`, `Engine.drainedNodes` (`storage_nodes.go`) |
| `files[c][n][i]` | chunk file `i` of content `c` on node `n`: `none`, `good`, `bad` (checksum) |
| `refs`, `meta` | blob refs and committed objects with their `ShardPlacements` |
| `cache`, `disk` | `Engine.layoutCache` and `meta.json` |
| `ReadShard` = `"error"` | node not registered or its storage API not answering |
| `put_*`, `del_*`, `rel_*` | `PutObject`, `DeleteObject`, `releaseBlob` |
| `fix_*` | `RepairObject` (`engine/repair.go`) |
| `join_get`, `dec_get`, `repl_get`, `mem_get`, `reb_get` | the first `GetMembership` of the join, decommission, replace, delete and rebalance handlers |
| `add`, `check`, `remove`, `drain`, `sync_*` | `AddReplica`, `ensureClusterMemberDecommissionable`, `RemoveReplica`, `DrainStorageNode`, `syncStorageNodes` |
| `all_*` | `SyncReplicas`, for member sync, bootstrap and reconcile |
| `reb_*` | `RebalanceNode`, `RebalanceObjectFromNode` |

Abstractions: requests arrive at one server, `Local`; the other nodes only store
shards. All contents share one shard directory. The read and the write of one moved shard are
one action. Layouts are shared by pointer in the code, so a request that holds a
layout sees a rebalance of it (`Held`). Raft and HTTP addresses are left out, and
with them the refusal of a member with another address. Placement statistics are
reports, except for the ownership check. Erasure coding is "any `Data` of `Total`
shards rebuild the content". A repair of an object removes nothing and ends at the
first shard it cannot write. Member ids stand for storage node ids `raft-<id>`,
whose lexical order is the numeric one below ten.

`Contend = FALSE` keeps cluster operations apart from requests on the objects and
from each other; drain, resume, outages and shard losses interleave with
everything. With contention `SafeRemoval` and `CopiesAgree` are false (a put
commits between the ownership check and the removal; a put links shards a delete
is releasing), which `PROJECT.json` lists as hazards.

### How the other modules correspond to the code

| Model | Code |
|---|---|
| `Dedupe`: `dpc`, `dd` | the call a run of `Dedupe` (`store/dedupe*.go`) makes next and its listings |
| `Dedupe!Beside` | any step of the store while runs are under way; counted in `overlaps` |
| `Reconcile`: `nodes`, `removed` | dragonboat's `Membership` |
| `view[s]`, `table[s]` | memberlist's members on server `s`; the storage nodes of its engine |
| `Before`, `Add`, `Mid`, `Remove`, `After`, `SetStorage` | the reads and operations of `SyncReplicas` and the handler after it, one at a time |
| `clusterNodeIssues`, `clusterNodeStatus` | the registry of `GET /cluster/nodes` |
| `Repair`: `running`, `lastRun`, `progress`, `history`, `issues` | fields of `repair.Runtime` |
| `scan[r]` | the summary and loops of one run; `health` what the engine's checks would find |
| `Indexing`: `queue`, `worker`, `retry` | `indexCh`, the worker goroutine, `time.AfterFunc` timers |
| `doc`, `item` | bleve documents and `SearchEngine.items`, two writes per event |
| `Multipart`: `dir`, `meta`, `file`, `mu` | upload directory, `metadata.json`, part files, `multipartStore.mu` |
| `S3Requests`: `s` | one paging session or request with its token, page and answer |
| `addObject`, `paginateMultipartUploads`, `paginateMultipartParts`, `Parse`, `Slice` | the page, marker and range computations |

Abstractions. `Dedupe`: shard placements inside a layout are not told apart.
`Reconcile`: request decoding and the plan report are left out; a Raft operation
takes effect at once or not at all, while in reality one whose caller gave up may
also be applied later. `Repair`: an issue is the object it is about; the rate limiter is a wait that
cancellation ends; an object's damage is one value; what a run has yet to visit is
a set of positions (bucket, object), visited in order (`FirstOf`, `Current`,
`Others`). `Indexing`: a document is the
version it describes. `Multipart`: a content stands for its digest; fiber reads a
request body before the handler runs, so holding the mutex while a part is written
does not wait for a client. `S3Requests`: keys, prefixes and ids are numbers in
lexical order, a content is its size, headers are parsed numbers.

History variables (`acked`, `ended`, `origin`, `torn`, `excused`, `quiet`,
`disturbed`, `stable`, `ever`) are written by actions and read by properties only.

### Bounds

`MaxFaults`, `MaxCrashes`, `MaxElapses` and `MaxRefs` bound failing calls,
restarts, expiries and references per content. Two objects, two contents and two
directories are enough for the cases that matter: deduplication onto another
object's directory, overwrite, release of the last reference and of a shared one,
two directories with the same content. Two requests give every pairwise race.

`Shards` bounds requests (`MaxRequests`) and, separately and together
(`MaxTroubles`), lost or rotten shards, outages, failed writes and restarts. Two
members of three possible nodes with three shards give a node with two shards of an
object, a node with none, a replacement that gets a fresh id and a removed id; four
requests are enough to put, change the nodes twice and put or repair again. A
shard is lost only while a committed object names it, since another file is never
read.

`dedupe` has one run at a time beside one request, two objects with home
directories of their own and one content, so that a layout can diverge from the
ref's directory. At most two steps of a request fall into a run (`MaxOverlaps`):
a request that is under way when the run starts and its next step, which may be any
of its calls. A call of a request fails only between runs; a run may fail at any
of its calls, any number of times. Two runs at once are in the model, not in the
instance.

`reconcile` has three replicas, the admin API of two of them, two requests, two
changes of a gossip view and one failing or unanswered operation; one replica may
come back with another address. `repair` has a batch of one attempt and an
unrepairable object between two others, so a run can be limited and an object
starved, and a history and issue list of one entry. `indexing` has a queue of two
tasks and three changes of two keys by two clients: the queue is full with an
event outstanding, and a put, a delete and a put of one key overtake one another.
`multipart` has one upload with two parts, two contents of which one is below the
minimum size, and lists of up to two parts, so every completion races an upload of
a part, an abort or another completion. `s3_requests` starts from every bucket,
every set of uploads and every set of parts over four keys, with pages of every
size up to the default and one change, or failing delete, by others per session.

## Runs

| Run | Instance | Checks |
|---|---|---|
| `store_sequential` | one request, two directories, one failing call | `TypeOK`, `CommittedReadable`, `RequestsFinish` |
| `store_recovery` | one request, two directories, a restart and an expiry | `RefBacked`, `SweepComplete` |
| `store_concurrent` | two requests on different objects, two failing calls | `NoUndercount`, `LeakOnlyAfterFailure` |
| `store_contended` | two requests on one object, a lost reply | `NoObjectOutsideBuckets` |
| `store_restart_layout` | two directories, restart | `SettledReadable` violated |
| `shards` | two objects with a content each, two requests, two troubles | `TypeOK`, `LostOnlyByLoss`, `CopiesAgree`, `SafeRemoval` |
| `dedupe` | one run beside one request, a failed call | `DedupeTypeOK`, `QuietRunExact`, `QuietRunCanonical`, `QuietRunKeeps`, `DedupeEnds` |
| `reconcile` | two servers, three replicas, two requests, one failing operation | `ReconcileTypeOK`, `QuietReconcile`, `RefusedWhole`, `RemovalsPlanned` |
| `repair` | job, initial and manual run, three objects, one unrepairable | `RepairTypeOK`, `SingleFlight`, `DamageRepaired` |
| `indexing` | two clients, two keys, a queue of two, a rebuild, a fault | `IndexingTypeOK`, `IndexAgrees`, `QuietRebuildReconciles`, `QueueDrains` |
| `multipart` | two clients, one upload of two parts, a fault | `MultipartTypeOK`, `CommittedAsListed`, `AckedPartKept`, `NothingLeftBehind`, `ImplementsContract`, `RequestsAnswered` |
| `s3_requests` | one session over any bucket of four keys, one change by others | `S3TypeOK`, `ListedOnce`, `ListingComplete`, `RangeAnswered`, `DeleteTold`, `SessionEnds` |

`store_restart_layout` is a disagreement between the code and `ROADMAP.md`,
described in `PROJECT.json` under `findings`.

What the properties say is in the comment above each. Some of them name the cases
they do not claim, because the code does not provide them:

* `IndexAgrees` excuses a key whose event was dropped at a full queue, given up
  after the last retry, lost in a restart or overtaken by the event of an older
  delete, and one that changed during a rebuild or went with its bucket;
  `QuietRebuildReconciles` says the rebuild clears all of these.
* `QuietRunExact`, `QuietRunCanonical` and `QuietRunKeeps` are about dedupe runs
  that are alone. A run beside requests corrects counts from listings that are out
  of date and can make them wrong; a later run that is alone puts them right.
* `QuietReconcile` and `RefusedWhole` are about requests nothing interfered with;
  `RemovalsPlanned` is about all of them.
* `DamageRepaired` excuses objects behind `RepairMaxBatch` damaged ones that cannot
  be repaired: every run starts from the first bucket and these use up its batch.
* `CommittedAsListed` and `AckedPartKept` excuse a part whose file was renamed
  into place by an upload that then failed, or crashed, before the metadata was
  saved: its bytes are those of the later upload under the tag of the earlier.

Refinement: `Multipart!ImplementsContract` is `UploadContract!Spec` under the
mapping in `Multipart!Contract`. The files of an upload become its tags and bytes,
a part under replacement keeps its former bytes until the metadata is saved, and a
completion between its two critical sections is a staged value. A put of a part is
one atomic `Store` of the contract, and a completion stages bytes its parts had
together at one moment at which the upload was open.

### Statements that do not hold

Met while modelling and reproduced with TLC on instances that are not among the
runs; `PROJECT.json` lists the hazards behind them.

* `SettledReadable` with one directory, a kill and an expiry: killed between
  `LinkObject` and the intent that records it, an overwrite leaves a
  `blob_prepared` entry; recovery only deletes the entry, leaves the layout of the
  replacement in place and sweeps the shards it points at
  (`store/recovery_pending.go:135`; `ROADMAP.md:44` says the layout is restored).
* `NoUndercount` with a kill and an expiry: a put of content the object already has
  takes no reference, yet its intent becomes `blob_retained`, and recovery releases
  a reference it never took (`store/recovery_pending.go:93`).
* `InFlightBlobKept` with `Contend = TRUE` and two requests: the sweep lists refs
  and staged writes before the local shards and deletes those of a put that began in
  between (`store/recovery.go:150`; `ROADMAP.md:42` says it cannot).
* `LostOnlyByLoss` with two objects of one content (`PutsShared`): rebalancing one
  object deletes shards the layout of the other still names
  (`engine/rebalance.go:112`).
* `ReadableFromEnough` with a node that does not answer: its error fails the whole
  read although enough other shards are there (`engine/object_lookup.go:203`).
* The trigger of a repair run: `repair/module.go:173` records every run as manual,
  the scheduled ones too, while `repair/status_test.go:109` expects `scheduled`.
* An `add_only` reconcile removes a replica that joined after its plan was made:
  the extras are taken from a membership read later (`raft/membership.go:133`).

`LostOnlyByLoss` and `CopiesAgree` are claimed as long as no write of a rebalance
failed (`faults = 0`): after a failed `UpdateBlobRefPlacements` the ref keeps the
old nodes for good, and TLC shows a later put of that content linked to deleted
shards. `SafeRemoval` is claimed with such failures too. It is about the handlers
that check ownership; setting the members outright (`SyncMembers`) does not check
and may remove a node that owns shards.

Fairness: `FairSpec` asks weak fairness of each request's next call. Every Raft
call has a five second timeout and every engine call is file or HTTP I/O that
returns, so a goroutine always gets its answer or an error. No fairness is asked
of new requests, restarts or the clock. The same holds of `Dedupe`, whose fairness
is over `Beside(Work(p))` and `ScanWork`, of the worker, timers, handlers and
rebuild of `Indexing`, of the run of a started repair, and of the client that reads
on in `S3Requests`. `Multipart` asks strong fairness of a handler's steps because
they wait for a `sync.Mutex`, whose starvation mode hands it to the waiter that has
waited longest. In `Repair` the scheduler fires the job again and again, on the leader only:
strong fairness of the scheduled start, and the property assumes `[]<>leader`.
`Shards` has no liveness property: the
client of the storage API sets no timeout of its own, so the code does not
guarantee that a request to a hanging node returns.

## Proofs

Every invariant below was first checked by TLC as an invariant of the instance
its run uses, then proved for every value of the constants.

* `ObjectStoreProofs!TypeCorrectness`: `Spec => []TypeOK`. `TypeOK` is not
  inductive: a call reads locals that only earlier calls of the same handler set
  (a release needs a hash, a link needs a directory). `TypeInv` adds, per call, the
  shape of the locals (`ShapeOf`), and that counted refs have a path and staged
  writes a content.
* `ObjectStoreProofs!ObjectsStayInBuckets`: `Spec => []NoObjectOutsideBuckets`
  without any restriction: requests may race on one object and its bucket, fail,
  lose replies and be killed. With `TypeInv` it is inductive, because each command
  of the state machine checks the bucket itself and `DeleteBucketMeta` takes the
  objects along; no check made earlier in a handler is needed.
* `ObjectStoreProofs!ReferencesNeverUndercount`: `Spec => []NoUndercount` for any
  number of requests, objects and contents, any failing calls and any restarts,
  assuming requests in flight work on different objects (`Contend = FALSE`),
  nothing expires (`MaxElapses = 0`) and a failed command was not applied
  (`LostReplies = FALSE`). Each assumption is needed: TLC refutes the formula
  without it. The inductive invariant
  `ReferencesInv` counts committed objects *and* requests that hold a reference on
  the way (`Claims`), says that requests touch different objects and that each
  still finds the object it loaded (`Remembers`). Each action moves a claim between
  an object and a request, or changes the count and one claim together.
* `ObjectStoreProofs!CountsExactUntilFailure`: `Spec => []LeakOnlyAfterFailure`, under
  the same three assumptions: as long as no call has failed and nothing was killed,
  a count never exceeds the claims either, so with `ReferencesInv` it equals them.
  `ExactInv` adds what the handlers rely on for that: a put that takes a reference
  of its own replaces an object with other content, and every object of a bucket
  being deleted is still on the list the deletion works through, so that dropping
  the bucket drops no committed object whose count was not given back (`Knows`).
* `ObjectStoreProofs!SweepsAreComplete`: `Spec => []SweepComplete` when requests are
  served one at a time (`OneAtATime`), with any failing calls, lost replies, kills
  and expiries before. `SweepInv` says what a recovery has listed at each of its
  calls: first the shard sets of the refs, then those of the staged writes too, and
  while it deletes, that every shard set on disk is accounted for or still on its
  list. Beside another request these listings are out of date when they are used
  (see the hazard at `store/recovery.go:150`).
* `ObjectStoreProofs!RefsAreBacked`: `Spec => []RefBacked`, assuming `OneAtATime`,
  answered commands (`LostReplies = FALSE`) and at most one failing call
  (`MaxFaults <= 1`); kills, expiries and recoveries are not restricted. Each is
  needed. With a second failing call the rollback of a put deletes the shards it
  wrote although the decrease of their ref has just failed
  (`store/blob.go:136`), and a command that was applied without an answer is
  a failure of the same kind; TLC shows both. `BackedInv` says where each request
  stands: a put that found a ref uses its path, one that did not has all the shards
  on disk and nobody counts them, a rollback under way cannot fail again, and shards
  are only deleted when the count is 0. With `SweepInv`, a sweep deletes no shards
  of a ref either.
* `ObjectStoreProofs!CommittedObjectsReadable`: `Spec => []CommittedReadable`. It
  builds on `ReferencesInv` (an object's content is counted, so its ref exists) and on
  `BackedInv` (the ref is backed), and so takes the assumptions of both. `CachedInv`
  adds, until a restart empties the cache, that the layout of an object at rest is
  where the ref of its content says (`Rest`), that a put still has in its locals what
  it would restore, and that a put past its link has the new layout in the cache.
  A restart ends the claim because a copy of `meta.json` in the home directory wins
  over the one that was linked last: `store_restart_layout`.
* `DedupeProofs`: `DedupeTypes`, `QuietRunsExact`, `QuietRunsCanonical`,
  `QuietRunsKeep` and `ScansKeepBuckets`, for any number of scanners next to any
  number of requests, contending or not, with failures, lost replies, restarts
  and expiries (calls of requests fail only between runs, as in the instance; see
  Bounds). What requests have left behind may therefore be in any disorder, and
  `DedupeInv` says of the store only what stays true then (`StoreInv`: types, buckets,
  layouts name directories). Of a run that has met no other step so far it says
  (`QuietInv`) that no other goroutine is under way, and by its next call what it knows
  (`SoundAt`): the objects listed up to now are the committed ones (`SnapAt`) and the
  layouts read are still the ones to be found (`InfoAt`); the counts on its two lists
  are as it listed them (`HashesAt`), the count it is correcting is off by
  exactly what is left to do (`CurAt`), and every other count is exact, unless the
  limit or an unreadable layout made it pass one by (`CountsAt`); objects behind the
  one whose layout it corrects are canonical (`LayoutsAt`). `QuietRunExact` and
  `QuietRunCanonical` are what is left of that when the lists are empty.
  `QuietRunsKeep` is an action property: a count moves towards what is expected by one
  at a time, the blob that is deleted belongs to no object, and a layout is linked to a
  path that a counted ref has (`PathsCounted`).
* `ShardsProofs!ShardTypes`: `Spec => []TypeOK`, contending requests included.
  `TypeInv` adds the locals each call has (`Shape`): a rebalance moves an object
  whose listed layout exists, a release has a hash. Choosing the k-th of a set of
  nodes is only a node because the nodes are finitely many and ordered
  (`PlacesFill`, by counting the predecessors).
* `ShardsProofs!RemovalsAreSafe`: `Spec => SafeRemoval`, assuming requests in flight
  touch different objects (`Contend = FALSE`): the check and the removal are two
  calls, and a put between them may place an object on the node. `RemovalInv` adds
  that requests keep apart (`Apart`) and that what a request about to remove a
  member has checked still holds (`CheckHolds`). Failing writes, losses, outages and
  restarts are included.
* `ShardsProofs!RecordsAgree` (`CopiesAgree`) and `ShardsProofs!ShardsSurvive`
  (`LostOnlyByLoss`), assuming `Contend = FALSE` and that no two objects have a
  content in common (`Unshared`; the shared case is refuted above). `CopiesInv` says
  of every object, until a write of a rebalance has failed, that it is at rest
  (`Rest`: the layout on disk and in the cache is the committed one, its content is
  counted once and the ref names its nodes, and it misses no more shards than disks
  have lost) or that it is as the request that touches it has left it
  (`During`, by call). For a rebalance that is: which shards are copied
  (`MovedOff`), that the old layout is whole until the old shards are deleted, and
  that the new one is from then on; a shard copied empty was missing before
  (`MovedShardKept`). One lemma per action shows that a step changes only the
  records of its own object and leaves that object as the next call expects it.
* `MultipartProofs`: `MultipartTypes`, `CompletedAsListed`, `PartsKept`,
  `NothingLeft` and `UploadsImplementContract`, for any clients, uploads, parts,
  contents and faults. `MultipartInv` says who holds the mutex (`MutexHeld`), what
  each request has read and written at its step (`LocalsOK`, `LoadedOK`), how the
  files of an upload agree with its metadata (`TagsOK`: the file has the bytes of
  the tag, unless it is torn or under replacement), and that nothing is on disk of
  an upload that has ended (`EndedOK`) or was not yet given out (`FreshOK`).
  The refinement is a step simulation: under `MultipartInv` the initial states of
  `Multipart` map to initial states of `UploadContract` and every step maps to one
  of its steps or to a stutter, one lemma per action.
* `IndexingProofs`: `IndexTypes`, `IndexConverges` (`IndexAgrees`) and
  `QuietRebuild` (`QuietRebuildReconciles`), for any keys, clients, queue size,
  retries and faults. `IndexInv` says of each key that is not excused which event is
  still to come wherever the index is not yet right, and that no delete event comes
  last for an object that exists (`KeysOK`); of a quiet rebuild it says which
  objects it has reached and which entries it has left to prune (`QuietOK`).
* `RepairProofs`: `RepairTypes` and `OneRunAtATime` (`SingleFlight`), for any
  layout, triggers, batch, retries and history limit. `RepairInv` says that the run
  that has started is the only one, that the status tells of it, and that its id is
  not in the history, so the record it adds at its end is new.
* `ReconcileProofs`: `ReconcileTypes`, `RemovalsArePlanned`, `RefusalsAreWhole` and
  `ReconcileReaches` (`QuietReconcile`), for any replicas, servers and requests.
  `ReconcileInv` says how far a request that nothing has interfered with has
  brought the membership at each of its steps (`StepsOK`): everything it keeps is
  there and everything it has passed is at its address. `RemovalsPlanned`, an
  action property, needs only the locals of a request and so holds with
  interference.
* `S3RequestsProofs`: `S3Types`, `ListedOnceAlways`, `ListingCompleteAlways`,
  `RangeAnsweredAlways` and `DeleteToldAlways`, for any keys, uploads, page sizes,
  sizes, headers and changes by others. Two families of lemmas carry them. For
  ranges, that parsing and slicing give the bytes a header asks for (`RangeRight`),
  by cases on the header. For pages, that a page lists the next entries after the
  cursor in order and that its token stands right behind them (`PageGood`).
  `PageAfter` is a recursive function over positions of the sorted keys; what it
  adds up is proved by taking a least position at which it would be wrong. `S3Inv`
  then says that what lies before the cursor and was always there has been listed,
  and nothing behind the cursor has.

Assumptions of the proofs are the named `ASSUME`s of the modules, which TLC
evaluates in each run:

* `ObjectStore`: objects have a bucket and a directory, directories are numbered in
  lexical order, requests and objects are finite sets, bounds are numbers.
* `Dedupe`: finitely many scanners, at least one fix (`normalize` replaces a limit
  that is not positive).
* `Shards`: the nodes are finitely many positive numbers, the server is one of the
  first members, `None` is no node, object or content, and at least one and at most
  `Total` shards rebuild a content.
* `Multipart`: part numbers are those S3 allows, `None` is no client, upload,
  target, content, metadata or assembled object (`NoneAssumption`).
* `Indexing`: keys are finitely many numbers in the order of their names, the queue
  has room for an event (`indexQueueSize` replaces a size that is not positive).
* `Repair`: the layout is a sequence of buckets of objects; the limits are positive,
  as the configuration makes them.
* `Reconcile`: replica ids are positive and finitely many, servers are replicas and
  there is at least one, each wish names at least one member.
* `S3Requests`: keys and uploads are finitely many and numbered in lexical order,
  and the keys of one common prefix follow one another in it.

Only model-checked:

* `store_restart_layout` is a counterexample and needs TLC only.
* Liveness, which the prover does not handle: `RequestsFinish`,
  `RequestsAnswered`, `QueueDrains`, `DamageRepaired`, `DedupeEnds`, `SessionEnds`.

## Not modelled

* Authentication, configuration, metrics, wiring and `s3bench`: no state of the
  system, or text and arithmetic only. XML, header text, MD5 and the Reed-Solomon
  arithmetic likewise.
* `InMemoryMetadata` (`metadata/kv.go`): a double for tests.
* Raft itself (dragonboat), memberlist, bleve, gocron and fiber are external: an
  atomic log whose answers can be lost, a view that changes on its own, documents
  written one at a time, a job that fires again, bodies read in advance. Snapshots
  of the state machine are never requested (`SnapshotEntries` is not set), so
  saving and restoring them is left out.
* Several servers with layouts and caches of their own: `Shards` has the requests
  of one server, `Reconcile` several servers without shards.

## Plan

Modelling and proofs are complete along the first plan: every safety property a
passing run checks is proved. Worth doing next:

1. `ObjectStore`: `CommittedReadable` and `RefBacked` for several requests on
   different contents, where the races of `DeleteBlob` and of the sweep cannot occur.
2. `Shards`: `LostOnlyByLoss` for contents shared by objects, once a rebalance
   updates the layouts of all of them.
3. Several servers with caches of their own, composed from `ObjectStore` and
   `Reconcile`.
