------------------------------- MODULE Indexing -------------------------------
(***************************************************************************)
(* The search index of one server: object.Service publishes an event after *)
(* each committed change, a bounded channel and a single worker apply the  *)
(* events to the index (object/indexer.go), and an operator may rebuild    *)
(* the index from the committed objects meanwhile                          *)
(* (object/index_rebuild.go, internal/index).                              *)
(*                                                                         *)
(* The index is two structures written one after the other: the persistent *)
(* bleve documents (doc) and the metadata map in memory (item).  Both are  *)
(* functions from keys to the version of the object they describe, 0 for   *)
(* none.  The objects themselves are the function store; PutObject and     *)
(* DeleteObject are atomic here, their steps are those of ObjectStore.     *)
(***************************************************************************)
EXTENDS Integers, Sequences, FiniteSets

CONSTANTS
    Keys,             \* object keys, ordered as ListObjects orders them
    Clients,          \* request handlers
    QueueSize,        \* capacity of indexCh
    IndexMaxRetries,
    MaxCommits,       \* puts and deletes in a behaviour
    MaxFaults,        \* failing reads and index writes, and restarts
    MaxRebuilds

ASSUME IndexingAssumption ==
    /\ Keys \subseteq Nat /\ IsFiniteSet(Keys)
    /\ QueueSize \in Nat \ {0}
    /\ IndexMaxRetries \in Nat
    /\ {MaxCommits, MaxFaults, MaxRebuilds} \subseteq Nat

VARIABLES
    store,      \* committed version of each key, 0 if there is none
    commits,    \* commits so far, the source of versions
    pending,    \* the event a client has yet to publish, or NoTask
    queue,      \* indexCh
    worker,     \* the task the worker has, its step and the version it read
    retry,      \* retry timers that run, per key and attempt
    doc,        \* bleve documents
    item,       \* SearchEngine.items
    rebuild,    \* the rebuild under way: step, listings, current object
    faults, rebuilds,
    \* history, never read by an action's guard:
    excused,    \* keys for which an event was lost or overtaken
    quiet       \* nothing was outstanding when the rebuild began, and since
                \* then nothing was committed and no index write has failed

vars == <<store, commits, pending, queue, worker, retry, doc, item, rebuild,
          faults, rebuilds, excused, quiet>>
bounds == <<faults, rebuilds>>

Task == [event : {"object.updated", "object.deleted"}, key : Keys,
         attempt : 0 .. IndexMaxRetries]
NoTask == [event |-> "none", key |-> 0, attempt |-> 0]
Idle == [task |-> NoTask, at |-> "idle", ver |-> 0]
NoRebuild == [at |-> "idle", todo |-> {}, valid |-> {}, key |-> 0, ver |-> 0,
              failed |-> 0]

Init ==
    /\ store = [k \in Keys |-> 0]
    /\ commits = 0
    /\ pending = [c \in Clients |-> NoTask]
    /\ queue = <<>>
    /\ worker = Idle
    /\ retry = [k \in Keys |-> [a \in 1 .. IndexMaxRetries |-> 0]]
    /\ doc = [k \in Keys |-> 0]
    /\ item = [k \in Keys |-> 0]
    /\ rebuild = NoRebuild
    /\ faults = 0
    /\ rebuilds = 0
    /\ excused = {}
    /\ quiet = FALSE

Fault == faults < MaxFaults /\ faults' = faults + 1

(* A change of k makes its event outstanding, which repairs whatever was   *)
(* lost before, unless a rebuild is reading k meanwhile.                   *)
Excuse(k) == IF rebuild.at = "idle" THEN excused \ {k} ELSE excused \cup {k}

(***************************************************************************)
(* PutObject and DeleteObject commit, then publish their event.            *)
(***************************************************************************)
Commit(c, k, version, event) ==
    /\ pending[c] = NoTask
    /\ commits < MaxCommits
    /\ commits' = commits + 1
    /\ store' = [store EXCEPT ![k] = version]
    /\ pending' = [pending EXCEPT ![c] = event]
    /\ quiet' = FALSE
    /\ UNCHANGED <<queue, worker, retry, doc, item, rebuild, bounds>>

PutObject(c, k) ==
    /\ Commit(c, k, commits + 1,
              [event |-> "object.updated", key |-> k, attempt |-> 0])
    /\ excused' = Excuse(k)

\* Mutant: the delete is not announced.
DeleteObjectQuietly(c, k) ==
    /\ store[k] # 0
    /\ Commit(c, k, 0, NoTask)
    /\ excused' = Excuse(k)

DeleteObject(c, k) ==
    /\ store[k] # 0
    /\ Commit(c, k, 0,
              [event |-> "object.deleted", key |-> k, attempt |-> 0])
    /\ excused' = Excuse(k)

(* DeleteBucket deletes its objects through the store, below the service:  *)
(* no event is published, and the documents stay until a rebuild.          *)
DeleteBucketObject(c, k) ==
    /\ store[k] # 0
    /\ Commit(c, k, 0, NoTask)
    /\ excused' = excused \cup {k}

(* publishObjectEvent and enqueueIndexEvent: a full queue drops the event. *)
(* A delete event published after a later put's event overtakes it.        *)
Overtakes(c) ==
    LET t == pending[c] IN
    /\ t.event = "object.deleted"
    /\ store[t.key] # 0
    /\ \A d \in Clients \ {c} : pending[d].event = "object.updated" =>
                                pending[d].key # t.key

\* Mutant: one task more than the channel holds.
PublishOverfull(c) ==
    LET t == pending[c] IN
    /\ t # NoTask
    /\ pending' = [pending EXCEPT ![c] = NoTask]
    /\ IF Len(queue) <= QueueSize
         THEN /\ queue' = Append(queue, t)
              /\ excused' = IF Overtakes(c) THEN excused \cup {t.key} ELSE excused
         ELSE /\ UNCHANGED queue
              /\ excused' = excused \cup {t.key}
    /\ UNCHANGED <<store, commits, worker, retry, doc, item, rebuild, bounds, quiet>>

Publish(c) ==
    LET t == pending[c] IN
    /\ t # NoTask
    /\ pending' = [pending EXCEPT ![c] = NoTask]
    /\ IF Len(queue) < QueueSize
         THEN /\ queue' = Append(queue, t)
              /\ excused' = IF Overtakes(c) THEN excused \cup {t.key} ELSE excused
         ELSE /\ UNCHANGED queue
              /\ excused' = excused \cup {t.key}
    /\ UNCHANGED <<store, commits, worker, retry, doc, item, rebuild, bounds, quiet>>

(***************************************************************************)
(* runIndexWorker and handleIndexTask.                                     *)
(***************************************************************************)
WorkerTake ==
    /\ worker = Idle
    /\ queue # <<>>
    /\ queue' = Tail(queue)
    /\ worker' = [task |-> Head(queue), ver |-> 0,
                  at |-> IF Head(queue).event = "object.updated"
                         THEN "load" ELSE "remove"]
    /\ UNCHANGED <<store, commits, pending, retry, doc, item, rebuild, bounds,
                   excused, quiet>>

(* retryIndexTask, or recordIndexFailure once the attempts are used up. *)
\* Mutant: the attempt is not counted.
RetryForever ==
    /\ worker' = Idle
    /\ retry' = [retry EXCEPT ![worker.task.key][1] = @ + 1]
    /\ UNCHANGED excused

RetryOrFail ==
    LET t == worker.task IN
    /\ worker' = Idle
    /\ IF t.attempt < IndexMaxRetries
         THEN /\ retry' = [retry EXCEPT ![t.key][t.attempt + 1] = @ + 1]
              /\ UNCHANGED excused
         ELSE /\ UNCHANGED retry
              /\ excused' = IF store[t.key] = 0 THEN excused
                            ELSE excused \cup {t.key}

(* indexObject reads the object, which may be gone by now, ... *)
WorkerLoad ==
    LET k == worker.task.key IN
    /\ worker.at = "load"
    /\ \/ /\ store[k] # 0
          /\ worker' = [worker EXCEPT !.at = "doc", !.ver = store[k]]
          /\ UNCHANGED <<retry, excused, faults>>
       \/ /\ store[k] = 0
          /\ RetryOrFail
          /\ UNCHANGED faults
       \/ Fault /\ RetryOrFail                     \* read failed or timed out
    /\ UNCHANGED <<store, commits, pending, queue, doc, item, rebuild,
                   rebuilds, quiet>>

(* ... UpsertDocument writes the document (a failure is only logged), ... *)
WorkerDoc ==
    LET k == worker.task.key IN
    /\ worker.at = "doc"
    /\ worker' = [worker EXCEPT !.at = "item"]
    /\ \/ /\ doc' = [doc EXCEPT ![k] = worker.ver]
          /\ UNCHANGED <<excused, faults>>
       \/ /\ Fault
          /\ UNCHANGED doc
          /\ excused' = excused \cup {k}
    /\ UNCHANGED <<store, commits, pending, queue, retry, item, rebuild,
                   rebuilds, quiet>>

(* ... then the map; the task fails after that if the text could not be    *)
(* extracted.                                                              *)
WorkerItem ==
    /\ worker.at = "item"
    /\ item' = [item EXCEPT ![worker.task.key] = worker.ver]
    /\ \/ /\ worker' = Idle
          /\ UNCHANGED <<retry, excused, faults>>
       \/ Fault /\ RetryOrFail
    /\ UNCHANGED <<store, commits, pending, queue, doc, rebuild,
                   rebuilds, quiet>>

(* object.deleted: Remove, the document first, whatever is committed now.  *)
WorkerRemoveDoc ==
    LET k == worker.task.key IN
    /\ worker.at = "remove"
    /\ worker' = [worker EXCEPT !.at = "forget"]
    /\ \/ /\ doc' = [doc EXCEPT ![k] = 0]
          /\ UNCHANGED <<excused, faults>>
       \/ /\ Fault
          /\ UNCHANGED doc
          /\ excused' = excused \cup {k}
    /\ UNCHANGED <<store, commits, pending, queue, retry, item, rebuild,
                   rebuilds, quiet>>

WorkerRemoveItem ==
    /\ worker.at = "forget"
    /\ item' = [item EXCEPT ![worker.task.key] = 0]
    /\ worker' = Idle
    /\ UNCHANGED <<store, commits, pending, queue, retry, doc, rebuild, bounds,
                   excused, quiet>>

(* A retry timer fires: the task goes back to the queue, or is dropped and *)
(* counted as failed when the queue is full.                               *)
RetryFires(k, a) ==
    /\ retry[k][a] > 0
    /\ retry' = [retry EXCEPT ![k][a] = @ - 1]
    /\ IF Len(queue) < QueueSize
         THEN /\ queue' = Append(queue, [event |-> "object.updated", key |-> k,
                                         attempt |-> a])
              /\ UNCHANGED excused
         ELSE /\ UNCHANGED queue
              /\ excused' = excused \cup {k}
    /\ UNCHANGED <<store, commits, pending, worker, doc, item, rebuild, bounds,
                   quiet>>

WorkerStep ==
    \/ WorkerTake
    \/ WorkerLoad
    \/ WorkerDoc
    \/ WorkerItem
    \/ WorkerRemoveDoc
    \/ WorkerRemoveItem

(***************************************************************************)
(* RebuildIndex: one at a time, list, index every object listed, prune.    *)
(***************************************************************************)
Outstanding ==
    \/ \E c \in Clients : pending[c] # NoTask
    \/ queue # <<>>
    \/ worker # Idle
    \/ \E k \in Keys, a \in 1 .. IndexMaxRetries : retry[k][a] > 0

RebuildBegin ==
    /\ rebuild.at = "idle"
    /\ rebuilds < MaxRebuilds
    /\ rebuilds' = rebuilds + 1
    /\ rebuild' = [NoRebuild EXCEPT !.at = "list"]
    /\ quiet' = ~Outstanding
    /\ UNCHANGED <<store, commits, pending, queue, worker, retry, doc, item,
                   faults, excused>>

(* ListBuckets and ListObjects; validObjects keeps the listing. *)
RebuildList ==
    LET listed == {k \in Keys : store[k] # 0} IN
    /\ rebuild.at = "list"
    /\ \/ /\ rebuild' = [rebuild EXCEPT !.at = "load", !.todo = listed,
                                        !.valid = listed]
          /\ UNCHANGED faults
       \/ Fault /\ rebuild' = NoRebuild
    /\ UNCHANGED <<store, commits, pending, queue, worker, retry, doc, item,
                   rebuilds, excused, quiet>>

(* indexObject for the next listed object; a failure is counted. *)
RebuildLoad ==
    LET k == CHOOSE x \in rebuild.todo : \A y \in rebuild.todo : x <= y IN
    /\ rebuild.at = "load"
    /\ rebuild.todo # {}
    /\ \/ /\ store[k] # 0
          /\ rebuild' = [rebuild EXCEPT !.at = "doc", !.key = k, !.ver = store[k],
                                        !.todo = @ \ {k}]
          /\ UNCHANGED faults
       \/ /\ IF store[k] = 0 THEN UNCHANGED faults ELSE Fault
          /\ rebuild' = [rebuild EXCEPT !.failed = 1, !.todo = @ \ {k}]
    /\ UNCHANGED <<store, commits, pending, queue, worker, retry, doc, item,
                   rebuilds, excused, quiet>>

RebuildDoc ==
    /\ rebuild.at = "doc"
    /\ rebuild' = [rebuild EXCEPT !.at = "item"]
    /\ \/ /\ doc' = [doc EXCEPT ![rebuild.key] = rebuild.ver]
          /\ UNCHANGED <<excused, faults, quiet>>
       \/ /\ Fault                          \* logged, and counted as a success
          /\ UNCHANGED doc
          /\ excused' = excused \cup {rebuild.key}
          /\ quiet' = FALSE
    /\ UNCHANGED <<store, commits, pending, queue, worker, retry, item,
                   rebuilds>>

RebuildItem ==
    /\ rebuild.at = "item"
    /\ item' = [item EXCEPT ![rebuild.key] = rebuild.ver]
    /\ rebuild' = [rebuild EXCEPT !.at = "load", !.key = 0, !.ver = 0]
    /\ UNCHANGED <<store, commits, pending, queue, worker, retry, doc, bounds,
                   excused, quiet>>

(* PruneExcept: every indexed id not listed goes, from bleve one by one,   *)
(* and from the map at the end.  A failing delete ends the rebuild before  *)
(* the map is touched.                                                     *)
IndexedIDs == {k \in Keys : doc[k] # 0 \/ item[k] # 0}

\* Mutant: only the ids the map knows are looked at.
PruneListMemoryOnly ==
    /\ rebuild.at = "load"
    /\ rebuild.todo = {}
    /\ rebuild' = [rebuild EXCEPT !.at = "prune",
                      !.todo = {k \in Keys : item[k] # 0} \ rebuild.valid,
                      !.valid = {k \in Keys : item[k] # 0} \ rebuild.valid]
    /\ UNCHANGED <<store, commits, pending, queue, worker, retry, doc, item,
                   bounds, excused, quiet>>

PruneList ==
    /\ rebuild.at = "load"
    /\ rebuild.todo = {}
    /\ rebuild' = [rebuild EXCEPT !.at = "prune",
                                  !.todo = IndexedIDs \ rebuild.valid,
                                  !.valid = IndexedIDs \ rebuild.valid]
    /\ UNCHANGED <<store, commits, pending, queue, worker, retry, doc, item,
                   bounds, excused, quiet>>

PruneDoc(k) ==
    /\ rebuild.at = "prune"
    /\ k \in rebuild.todo
    /\ \/ /\ doc' = [doc EXCEPT ![k] = 0]
          /\ rebuild' = [rebuild EXCEPT !.todo = @ \ {k}]
          /\ UNCHANGED faults
       \/ /\ Fault
          /\ UNCHANGED doc
          /\ rebuild' = NoRebuild
    /\ UNCHANGED <<store, commits, pending, queue, worker, retry, item,
                   rebuilds, excused, quiet>>

(* removeMemoryDocuments and finishIndexRebuild. *)
RebuildFinish ==
    /\ rebuild.at = "prune"
    /\ rebuild.todo = {}
    /\ item' = [k \in Keys |-> IF k \in rebuild.valid THEN 0 ELSE item[k]]
    /\ rebuild' = NoRebuild
    /\ excused' = IF quiet /\ rebuild.failed = 0 THEN {} ELSE excused
    /\ UNCHANGED <<store, commits, pending, queue, worker, retry, doc, bounds,
                   quiet>>

RebuildStep ==
    \/ RebuildList
    \/ RebuildLoad
    \/ RebuildDoc
    \/ RebuildItem
    \/ PruneList
    \/ \E k \in Keys : PruneDoc(k)
    \/ RebuildFinish

(***************************************************************************)
(* The server restarts: the queue, the timers and the map are gone, the    *)
(* bleve documents are not.                                                *)
(***************************************************************************)
LostKeys ==
    {pending[c].key : c \in Clients}
    \cup {queue[i].key : i \in DOMAIN queue}
    \cup {worker.task.key}
    \cup {k \in Keys : \E a \in 1 .. IndexMaxRetries : retry[k][a] > 0}

Crash ==
    /\ Fault
    /\ excused' = excused \cup (LostKeys \cap Keys)
    /\ pending' = [c \in Clients |-> NoTask]
    /\ queue' = <<>>
    /\ worker' = Idle
    /\ retry' = [k \in Keys |-> [a \in 1 .. IndexMaxRetries |-> 0]]
    /\ item' = [k \in Keys |-> 0]
    /\ rebuild' = NoRebuild
    /\ UNCHANGED <<store, commits, doc, rebuilds, quiet>>

Next ==
    \/ \E c \in Clients, k \in Keys :
          PutObject(c, k) \/ DeleteObject(c, k) \/ DeleteBucketObject(c, k)
    \/ \E c \in Clients : Publish(c)
    \/ WorkerStep
    \/ \E k \in Keys, a \in 1 .. IndexMaxRetries : RetryFires(k, a)
    \/ RebuildBegin
    \/ RebuildStep
    \/ Crash

(* The worker goroutine runs, timers fire, and handlers finish.  Nothing   *)
(* makes a client act, an operator rebuild or the server crash.            *)
Fairness ==
    /\ \A c \in Clients : WF_vars(Publish(c))
    /\ WF_vars(WorkerStep)
    /\ \A k \in Keys, a \in 1 .. IndexMaxRetries : WF_vars(RetryFires(k, a))
    /\ WF_vars(RebuildStep)

Spec == Init /\ [][Next]_vars /\ Fairness

-----------------------------------------------------------------------------
Versions == 0 .. MaxCommits

(* Type correctness of the queue, the worker, the index and the rebuild.   *)
IndexingTypeOK ==
    /\ store \in [Keys -> Versions]
    /\ commits \in 0 .. MaxCommits
    /\ pending \in [Clients -> Task \cup {NoTask}]
    /\ queue \in Seq(Task) /\ Len(queue) <= QueueSize
    /\ worker \in [task : Task \cup {NoTask}, ver : Versions,
                   at : {"idle", "load", "doc", "item", "remove", "forget"}]
    /\ retry \in [Keys -> [1 .. IndexMaxRetries -> Nat]]
    /\ doc \in [Keys -> Versions]
    /\ item \in [Keys -> Versions]
    /\ rebuild \in [at : {"idle", "list", "load", "doc", "item", "prune"},
                    todo : SUBSET Keys, valid : SUBSET Keys,
                    key : Keys \cup {0}, ver : Versions, failed : 0 .. 1]
    /\ faults \in 0 .. MaxFaults
    /\ rebuilds \in 0 .. MaxRebuilds
    /\ excused \subseteq Keys
    /\ quiet \in BOOLEAN

(* IndexAgrees: once nothing is outstanding, the index describes exactly   *)
(* the committed version of every key, in bleve and, where it has an       *)
(* entry, in the map.  The only keys excused are those for which an event  *)
(* was dropped, given up or lost in a restart, was overtaken by an older   *)
(* delete's event, or which changed during a rebuild or with their bucket. *)
IndexAgrees ==
    ~Outstanding /\ rebuild.at = "idle" =>
       \A k \in Keys \ excused :
          /\ doc[k] = store[k]
          /\ item[k] \in {0, store[k]}

(* QuietRebuildReconciles: a rebuild without concurrent changes, failing   *)
(* index writes or counted failures leaves a document for every committed  *)
(* object and no other, whatever events had been missed before.            *)
QuietRebuildReconciles ==
    [][RebuildFinish /\ quiet /\ rebuild.failed = 0 =>
          \A k \in Keys : doc'[k] = store[k] /\ item'[k] = store[k]]_vars

(* QueueDrains: the events of finitely many changes are all dealt with in  *)
(* the end; no task is retried for ever.                                   *)
QueueDrains == <>[](~Outstanding /\ rebuild.at = "idle")
=============================================================================
