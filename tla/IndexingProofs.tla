---------------------------- MODULE IndexingProofs ----------------------------
(***************************************************************************)
(* The search index for any set of keys, clients, queue, retries, faults   *)
(* and rebuilds: types, IndexAgrees and QuietRebuildReconciles.  They rest *)
(* on IndexInv, which says of every key that is not excused which of its   *)
(* events is still to come whenever the index is not yet right, that no    *)
(* delete event comes last for an object that exists, and what a rebuild   *)
(* holds of it; and how far a quiet rebuild has got.                       *)
(***************************************************************************)
EXTENDS Indexing, FiniteSetTheorems, TLAPS

IsUpdate(t, k) == t.event = "object.updated" /\ t.key = k
IsDelete(t, k) == t.event = "object.deleted" /\ t.key = k

UpdatePending(k) == \E c \in Clients : IsUpdate(pending[c], k)
DeletePending(k) == \E c \in Clients : IsDelete(pending[c], k)
UpdateQueued(k) == \E i \in DOMAIN queue : IsUpdate(queue[i], k)
DeleteQueued(k) == \E i \in DOMAIN queue : IsDelete(queue[i], k)
UpdateTimed(k) == \E a \in 1 .. IndexMaxRetries : retry[k][a] > 0

(* An event of k that the worker has not taken. *)
UpdateComes(k) == UpdatePending(k) \/ UpdateQueued(k) \/ UpdateTimed(k)
DeleteComes(k) == DeletePending(k) \/ DeleteQueued(k)

WorkerOn(k, steps) == worker.task.key = k /\ worker.at \in steps

(* Every queued delete of k is followed by an update of k. *)
Followed(k) ==
    \A i \in DOMAIN queue : IsDelete(queue[i], k) =>
       \E j \in DOMAIN queue : j > i /\ IsUpdate(queue[j], k)

(* An object that exists: no delete event comes last, and what the index   *)
(* does not yet say of it an update will.                                  *)
LiveOK(k) ==
    /\ UpdatePending(k) \/ Followed(k)
    /\ WorkerOn(k, {"remove", "forget"}) => UpdatePending(k) \/ UpdateQueued(k)
    /\ WorkerOn(k, {"doc", "item"}) => worker.ver = store[k] \/ UpdateComes(k)
    /\ doc[k] = store[k] \/ UpdateComes(k) \/ WorkerOn(k, {"load", "doc"})
    /\ item[k] \in {0, store[k]} \/ UpdateComes(k) \/ WorkerOn(k, {"load", "doc", "item"})

(* An object that is gone: what the index still says of it, or the worker  *)
(* is about to write, a delete event will take away.                       *)
GoneOK(k) ==
    /\ WorkerOn(k, {"doc", "item"}) => DeleteComes(k)
    /\ doc[k] = 0 \/ DeleteComes(k) \/ WorkerOn(k, {"remove"})
    /\ item[k] = 0 \/ DeleteComes(k) \/ WorkerOn(k, {"remove", "forget"})

(* A rebuild works on what is committed of k. *)
RebuildOK(k) ==
    /\ rebuild.at \in {"load", "doc", "item"} => (k \in rebuild.valid <=> store[k] # 0)
    /\ rebuild.at \in {"doc", "item"} /\ rebuild.key = k => rebuild.ver = store[k]
    /\ rebuild.at = "prune" /\ k \in rebuild.valid => store[k] = 0

KeyOK(k) ==
    /\ store[k] # 0 => LiveOK(k)
    /\ store[k] = 0 => GoneOK(k)
    /\ RebuildOK(k)

KeysOK == \A k \in Keys \ excused : KeyOK(k)

WorkerShape ==
    /\ worker.at = "idle" => worker = Idle
    /\ worker.at \in {"load", "doc", "item"} =>
          worker.task \in Task /\ worker.task.event = "object.updated"
    /\ worker.at \in {"remove", "forget"} =>
          worker.task \in Task /\ worker.task.event = "object.deleted"

RebuildShape ==
    /\ rebuild.todo \subseteq rebuild.valid
    /\ rebuild.at \in {"doc", "item"} =>
          /\ rebuild.key \in rebuild.valid \ rebuild.todo
          /\ rebuild.ver # 0

(* What a quiet rebuild without failures has reached. *)
Reached(k) == doc[k] = store[k] /\ item[k] = store[k]

QuietLoading ==
    rebuild.at \in {"load", "doc", "item"} =>
       /\ \A k \in Keys : k \in rebuild.valid <=> store[k] # 0
       /\ \A k \in rebuild.valid \ rebuild.todo :
             Reached(k) \/ (rebuild.at \in {"doc", "item"} /\ rebuild.key = k)
       /\ rebuild.at \in {"doc", "item"} => rebuild.ver = store[rebuild.key]
       /\ rebuild.at = "item" => doc[rebuild.key] = rebuild.ver

QuietPruning ==
    rebuild.at = "prune" =>
       \A k \in Keys :
          IF store[k] # 0 THEN Reached(k) /\ k \notin rebuild.valid
          ELSE /\ doc[k] = 0 \/ k \in rebuild.todo
               /\ item[k] = 0 \/ k \in rebuild.valid

QuietOK ==
    quiet => /\ ~Outstanding
             /\ rebuild.failed = 0 => QuietLoading /\ QuietPruning

Shapes == IndexingTypeOK /\ WorkerShape /\ RebuildShape

IndexInv ==
    /\ Shapes
    /\ KeysOK
    /\ QuietOK

(***************************************************************************)
(* Helpers                                                                 *)
(***************************************************************************)
\* A finite set of numbers that is not empty has a least member: the rebuild's
\* next object exists.
LEMMA LeastMember ==
  ASSUME NEW T, T \subseteq Nat, IsFiniteSet(T), T # {}
  PROVE  (CHOOSE x \in T : \A y \in T : x <= y) \in T
  <1> DEFINE upTo(x) == {y \in T : y <= x}
             family == {upTo(x) : x \in T}
  <1>1. IsWellFoundedOn(StrictSubsetOrdering(T), SUBSET T)
    <2>1. FiniteSubsetsOf(T) = SUBSET T
      BY FS_FiniteSubsetsOfFinite
    <2>2. IsWellFoundedOn(StrictSubsetOrdering(T), FiniteSubsetsOf(T))
      BY FS_StrictSubsetOrderingWellFounded
    <2> QED
      BY <2>1, <2>2
  <1>2. family \subseteq SUBSET T /\ family # {}
    OBVIOUS
  <1>3. PICK s \in family : \A t \in family : ~(<<t, s>> \in StrictSubsetOrdering(T))
    BY <1>1, <1>2, WFMin
  <1>4. PICK x \in T : s = upTo(x)
    OBVIOUS
  <1>5. ASSUME NEW y \in T, y < x
        PROVE  FALSE
    <2>1. upTo(y) \in family
      OBVIOUS
    <2> x \in Int /\ y \in Int /\ \A z \in T : z \in Int
      OBVIOUS
    <2>2. upTo(y) \subseteq upTo(x) /\ x \in upTo(x) /\ x \notin upTo(y)
      <3>1. \A z \in T : z <= y => z <= x
        BY <1>5
      <3>2. x <= x /\ ~(x <= y)
        BY <1>5
      <3> QED
        BY <3>1, <3>2
    <2>3. <<upTo(y), upTo(x)>> \in StrictSubsetOrdering(T)
      BY <2>2 DEF StrictSubsetOrdering
    <2> QED
      BY <1>3, <1>4, <2>1, <2>3
  <1>6. \A y \in T : x <= y
    BY <1>5
  <1> QED
    BY <1>6

\* The limits are numbers.
LEMMA Limits ==
  /\ QueueSize \in Nat /\ QueueSize > 0
  /\ IndexMaxRetries \in Nat
  /\ MaxCommits \in Nat /\ MaxFaults \in Nat /\ MaxRebuilds \in Nat
  /\ Keys \subseteq Nat /\ IsFiniteSet(Keys)
  <1>1. QueueSize \in Nat \ {0}
    BY IndexingAssumption
  <1> QED
    BY <1>1, IndexingAssumption

(***************************************************************************)
(* Shapes: the types, and what the worker's and the rebuild's step say of  *)
(* their locals.                                                           *)
(***************************************************************************)
StoreType == store \in [Keys -> Versions] /\ commits \in 0 .. MaxCommits
EventsType ==
    /\ pending \in [Clients -> Task \cup {NoTask}]
    /\ queue \in Seq(Task) /\ Len(queue) <= QueueSize
WorkerType ==
    /\ worker \in [task : Task \cup {NoTask}, ver : Versions,
                   at : {"idle", "load", "doc", "item", "remove", "forget"}]
    /\ WorkerShape
RetryType == retry \in [Keys -> [1 .. IndexMaxRetries -> Nat]]
IndexType == doc \in [Keys -> Versions] /\ item \in [Keys -> Versions]
RebuildType ==
    /\ rebuild \in [at : {"idle", "list", "load", "doc", "item", "prune"},
                    todo : SUBSET Keys, valid : SUBSET Keys,
                    key : Keys \cup {0}, ver : Versions, failed : 0 .. 1]
    /\ RebuildShape
MarksType ==
    /\ faults \in 0 .. MaxFaults
    /\ rebuilds \in 0 .. MaxRebuilds
    /\ excused \subseteq Keys
    /\ quiet \in BOOLEAN

\* Shapes is the conjunction of its parts.
LEMMA ShapesParts ==
  /\ Shapes <=> StoreType /\ EventsType /\ WorkerType /\ RetryType /\ IndexType
                /\ RebuildType /\ MarksType
  /\ Shapes' <=> StoreType' /\ EventsType' /\ WorkerType' /\ RetryType' /\ IndexType'
                 /\ RebuildType' /\ MarksType'
  BY DEF Shapes, IndexingTypeOK, StoreType, EventsType, WorkerType, RetryType, IndexType,
         RebuildType, MarksType

\* A part whose variables do not change stays.
LEMMA PartsKept ==
  /\ StoreType /\ UNCHANGED <<store, commits>> => StoreType'
  /\ EventsType /\ UNCHANGED <<pending, queue>> => EventsType'
  /\ WorkerType /\ UNCHANGED worker => WorkerType'
  /\ RetryType /\ UNCHANGED retry => RetryType'
  /\ IndexType /\ UNCHANGED <<doc, item>> => IndexType'
  /\ RebuildType /\ UNCHANGED rebuild => RebuildType'
  /\ MarksType /\ UNCHANGED <<faults, rebuilds, excused, quiet>> => MarksType'
  BY DEF StoreType, EventsType, WorkerType, RetryType, IndexType, RebuildType, MarksType,
         WorkerShape, RebuildShape

\* The worker without a task and the rebuild that is not under way.
LEMMA IdleShapes ==
  /\ worker' = Idle => WorkerType'
  /\ rebuild' = NoRebuild => RebuildType'
  <1>1. 0 \in Versions
    BY Limits DEF Versions
  <1> QED
    BY <1>1 DEF WorkerType, WorkerShape, Idle, RebuildType, RebuildShape, NoRebuild

\* No task and no retry timer at the start or after a restart.
LEMMA NothingOutstanding ==
  /\ 0 \in Versions
  /\ <<>> \in Seq(Task) /\ Len(<<>>) <= QueueSize
  /\ [c \in Clients |-> NoTask] \in [Clients -> Task \cup {NoTask}]
  /\ [k \in Keys |-> [a \in 1 .. IndexMaxRetries |-> 0]]
        \in [Keys -> [1 .. IndexMaxRetries -> Nat]]
  /\ [k \in Keys |-> 0] \in [Keys -> Versions]
  BY Limits DEF Versions

\* An index write or a read that fails is counted.
LEMMA FaultType == MarksType /\ Fault => faults' \in 0 .. MaxFaults
  BY Limits DEF MarksType, Fault

LEMMA InitShapes == Init => Shapes
  <1> SUFFICES ASSUME Init PROVE Shapes
    OBVIOUS
  <1>1. WorkerType
    BY NothingOutstanding DEF Init, WorkerType, WorkerShape, Idle
  <1>2. RebuildType
    BY NothingOutstanding DEF Init, RebuildType, RebuildShape, NoRebuild
  <1>3. EventsType /\ RetryType
    BY NothingOutstanding DEF Init, EventsType, RetryType
  <1>4. StoreType /\ IndexType
    BY NothingOutstanding, Limits DEF Init, StoreType, IndexType
  <1>5. MarksType
    <2>1. faults = 0 /\ rebuilds = 0 /\ excused = {}
      BY Zenon DEF Init
    <2>2. quiet \in BOOLEAN
      BY Zenon DEF Init
    <2> QED
      BY <2>1, <2>2, Limits DEF MarksType
  <1> QED
    BY <1>1, <1>2, <1>3, <1>4, <1>5, ShapesParts

\* A committed change: the version is fresh, and its event the client's to publish.
LEMMA CommitShapes ==
  ASSUME Shapes, NEW c \in Clients, NEW k \in Keys, NEW v \in {0, commits + 1},
         NEW t \in Task \cup {NoTask}, Commit(c, k, v, t), excused' \subseteq Keys
  PROVE  Shapes'
  <1>1. v \in Versions /\ commits' \in 0 .. MaxCommits
    BY Limits, ShapesParts DEF Commit, StoreType, Versions
  <1>2. StoreType'
    BY <1>1, ShapesParts DEF Commit, StoreType
  <1>3. EventsType'
    BY ShapesParts DEF Commit, EventsType
  <1>4. MarksType'
    BY ShapesParts DEF Commit, MarksType, bounds
  <1> QED
    BY <1>2, <1>3, <1>4, ShapesParts, PartsKept DEF Commit

LEMMA PutObjectShapes ==
  ASSUME Shapes, NEW c \in Clients, NEW k \in Keys, PutObject(c, k)
  PROVE  Shapes'
  <1> DEFINE t == [event |-> "object.updated", key |-> k, attempt |-> 0]
  <1>1. t \in Task
    BY Limits DEF Task
  <1>2. Commit(c, k, commits + 1, t) /\ excused' = Excuse(k)
    BY DEF PutObject
  <1>3. excused' \subseteq Keys
    BY <1>2, ShapesParts DEF Excuse, MarksType
  <1> QED
    BY <1>1, <1>2, <1>3, CommitShapes

LEMMA DeleteObjectShapes ==
  ASSUME Shapes, NEW c \in Clients, NEW k \in Keys, DeleteObject(c, k)
  PROVE  Shapes'
  <1> DEFINE t == [event |-> "object.deleted", key |-> k, attempt |-> 0]
  <1>1. t \in Task
    BY Limits DEF Task
  <1>2. Commit(c, k, 0, t) /\ excused' = Excuse(k)
    BY DEF DeleteObject
  <1>3. excused' \subseteq Keys
    BY <1>2, ShapesParts DEF Excuse, MarksType
  <1> QED
    BY <1>1, <1>2, <1>3, CommitShapes

LEMMA DeleteBucketObjectShapes ==
  ASSUME Shapes, NEW c \in Clients, NEW k \in Keys, DeleteBucketObject(c, k)
  PROVE  Shapes'
  <1>1. Commit(c, k, 0, NoTask) /\ excused' = excused \cup {k}
    BY DEF DeleteBucketObject
  <1>2. excused' \subseteq Keys
    BY <1>1, ShapesParts DEF MarksType
  <1> QED
    BY <1>1, <1>2, CommitShapes

\* A task is no longer than the channel, and the channel holds at most its size.
LEMMA AppendType ==
  ASSUME EventsType, NEW t \in Task,
         IF Len(queue) < QueueSize THEN queue' = Append(queue, t) ELSE UNCHANGED queue
  PROVE  queue' \in Seq(Task) /\ Len(queue') <= QueueSize
  BY Limits DEF EventsType

LEMMA PublishShapes ==
  ASSUME Shapes, NEW c \in Clients, Publish(c)
  PROVE  Shapes'
  <1>1. pending[c] \in Task /\ pending' = [pending EXCEPT ![c] = NoTask]
    BY ShapesParts DEF Publish, EventsType
  <1>2. excused' \subseteq Keys
    <2>1. pending[c].key \in Keys
      BY <1>1 DEF Task
    <2> QED
      BY <2>1, ShapesParts DEF Publish, MarksType
  <1>3. queue' \in Seq(Task) /\ Len(queue') <= QueueSize
    BY <1>1, ShapesParts, AppendType DEF Publish
  <1>4. EventsType'
    BY <1>1, <1>3, ShapesParts DEF EventsType
  <1>5. MarksType'
    BY <1>2, ShapesParts DEF Publish, MarksType, bounds
  <1> QED
    BY <1>4, <1>5, ShapesParts, PartsKept DEF Publish

LEMMA WorkerTakeShapes ==
  ASSUME Shapes, WorkerTake
  PROVE  Shapes'
  <1>1. queue \in Seq(Task) /\ Len(queue) <= QueueSize /\ queue # <<>> /\ queue' = Tail(queue)
    BY ShapesParts DEF WorkerTake, EventsType
  <1>2. Head(queue) \in Task /\ queue' \in Seq(Task) /\ Len(queue') <= QueueSize
    BY <1>1, Limits
  <1>3. EventsType'
    BY <1>2, ShapesParts DEF WorkerTake, EventsType
  <1>4. Head(queue).event \in {"object.updated", "object.deleted"}
    BY <1>2 DEF Task
  <1>5. WorkerType'
    BY <1>2, <1>4, NothingOutstanding DEF WorkerTake, WorkerType, WorkerShape
  <1> QED
    BY <1>3, <1>5, ShapesParts, PartsKept DEF WorkerTake, bounds

\* One timer more.
LEMMA CountUp ==
  ASSUME NEW S, NEW f \in [S -> Nat], NEW i \in S
  PROVE  /\ [f EXCEPT ![i] = @ + 1] \in [S -> Nat]
         /\ [f EXCEPT ![i] = @ + 1][i] > 0
         /\ \A j \in S : f[j] > 0 => [f EXCEPT ![i] = @ + 1][j] > 0
  OBVIOUS

\* What retryIndexTask does with a task: the worker is free, the timer's count is
\* typed and only keys are excused.
LEMMA RetryOrFailShapes ==
  ASSUME Shapes, RetryOrFail, worker.task \in Task
  PROVE  WorkerType' /\ RetryType' /\ excused' \subseteq Keys
  <1> DEFINE t == worker.task
  <1>1. t.key \in Keys /\ t.attempt \in 0 .. IndexMaxRetries
    BY DEF Task
  <1>2. retry \in [Keys -> [1 .. IndexMaxRetries -> Nat]] /\ excused \subseteq Keys
    BY ShapesParts DEF RetryType, MarksType
  <1>3. CASE t.attempt < IndexMaxRetries
    <2>1. t.attempt + 1 \in 1 .. IndexMaxRetries
      BY <1>1, <1>3, Limits
    <2>2. retry' \in [Keys -> [1 .. IndexMaxRetries -> Nat]]
      <3>1. retry' = [retry EXCEPT ![t.key][t.attempt + 1] = @ + 1]
        BY <1>3 DEF RetryOrFail
      <3>2. retry' = [retry EXCEPT ![t.key] = [retry[t.key] EXCEPT ![t.attempt + 1] = @ + 1]]
        BY <3>1
      <3>3. [retry[t.key] EXCEPT ![t.attempt + 1] = @ + 1] \in [1 .. IndexMaxRetries -> Nat]
        <4>1. retry[t.key] \in [1 .. IndexMaxRetries -> Nat]
          BY <1>1, <1>2
        <4> HIDE DEF t
        <4> QED
          BY <4>1, <2>1, CountUp
      <3> QED
        BY <1>1, <1>2, <3>2, <3>3
    <2> QED
      BY <1>2, <1>3, <2>2, IdleShapes DEF RetryOrFail, RetryType
  <1>4. CASE ~(t.attempt < IndexMaxRetries)
    BY <1>1, <1>2, <1>4, IdleShapes DEF RetryOrFail, RetryType
  <1> QED
    BY <1>3, <1>4

LEMMA WorkerLoadShapes ==
  ASSUME Shapes, WorkerLoad
  PROVE  Shapes'
  <1>1. worker.at = "load" /\ worker.task \in Task /\ worker.task.event = "object.updated"
    BY ShapesParts DEF WorkerLoad, WorkerType, WorkerShape
  <1>2. worker.task.key \in Keys
    BY <1>1 DEF Task
  <1>3. faults' \in 0 .. MaxFaults
    BY ShapesParts, FaultType DEF WorkerLoad, MarksType
  <1>4. WorkerType' /\ RetryType' /\ excused' \subseteq Keys
    <2>1. CASE RetryOrFail
      BY <1>1, <2>1, RetryOrFailShapes
    <2>2. CASE /\ worker' = [worker EXCEPT !.at = "doc", !.ver = store[worker.task.key]]
               /\ UNCHANGED <<retry, excused>>
      <3>1. store[worker.task.key] \in Versions
        BY <1>2, ShapesParts DEF StoreType
      <3>2. WorkerType'
        BY <1>1, <2>2, <3>1, ShapesParts DEF WorkerType, WorkerShape
      <3> QED
        BY <2>2, <3>2, ShapesParts, PartsKept DEF MarksType
    <2> QED
      BY <2>1, <2>2 DEF WorkerLoad
  <1>5. MarksType'
    BY <1>3, <1>4, ShapesParts DEF WorkerLoad, MarksType
  <1> QED
    BY <1>4, <1>5, ShapesParts, PartsKept DEF WorkerLoad

LEMMA WorkerDocShapes ==
  ASSUME Shapes, WorkerDoc
  PROVE  Shapes'
  <1>1. worker.at = "doc" /\ worker.task \in Task /\ worker.task.event = "object.updated"
    BY ShapesParts DEF WorkerDoc, WorkerType, WorkerShape
  <1>2. worker.task.key \in Keys
    BY <1>1 DEF Task
  <1>3. faults' \in 0 .. MaxFaults
    BY ShapesParts, FaultType DEF WorkerDoc, MarksType
  <1>4. WorkerType'
    <2>1. worker' = [worker EXCEPT !.at = "item"]
      BY DEF WorkerDoc
    <2> QED
      BY <1>1, <2>1, ShapesParts DEF WorkerType, WorkerShape
  <1>5. IndexType'
    <2>1. worker.ver \in Versions
      BY ShapesParts DEF WorkerType
    <2> QED
      BY <1>2, <2>1, ShapesParts DEF WorkerDoc, IndexType
  <1>6. MarksType'
    <2>1. excused' \subseteq Keys
      BY <1>2, ShapesParts DEF WorkerDoc, MarksType
    <2> QED
      BY <1>3, <2>1, ShapesParts DEF WorkerDoc, MarksType
  <1> QED
    BY <1>4, <1>5, <1>6, ShapesParts, PartsKept DEF WorkerDoc

LEMMA WorkerItemShapes ==
  ASSUME Shapes, WorkerItem
  PROVE  Shapes'
  <1>1. worker.at = "item" /\ worker.task \in Task
    BY ShapesParts DEF WorkerItem, WorkerType, WorkerShape
  <1>2. worker.task.key \in Keys
    BY <1>1 DEF Task
  <1>3. faults' \in 0 .. MaxFaults
    BY ShapesParts, FaultType DEF WorkerItem, MarksType
  <1>4. WorkerType' /\ RetryType' /\ excused' \subseteq Keys
    <2>1. CASE RetryOrFail
      BY <1>1, <2>1, RetryOrFailShapes
    <2>2. CASE worker' = Idle /\ UNCHANGED <<retry, excused>>
      BY <2>2, IdleShapes, ShapesParts, PartsKept DEF MarksType
    <2> QED
      BY <2>1, <2>2 DEF WorkerItem
  <1>5. IndexType'
    <2>1. worker.ver \in Versions
      BY ShapesParts DEF WorkerType
    <2> QED
      BY <1>2, <2>1, ShapesParts DEF WorkerItem, IndexType
  <1>6. MarksType'
    BY <1>3, <1>4, ShapesParts DEF WorkerItem, MarksType
  <1> QED
    BY <1>4, <1>5, <1>6, ShapesParts, PartsKept DEF WorkerItem

LEMMA WorkerRemoveDocShapes ==
  ASSUME Shapes, WorkerRemoveDoc
  PROVE  Shapes'
  <1>1. worker.at = "remove" /\ worker.task \in Task /\ worker.task.event = "object.deleted"
    BY ShapesParts DEF WorkerRemoveDoc, WorkerType, WorkerShape
  <1>2. worker.task.key \in Keys
    BY <1>1 DEF Task
  <1>3. faults' \in 0 .. MaxFaults
    BY ShapesParts, FaultType DEF WorkerRemoveDoc, MarksType
  <1>4. WorkerType'
    <2>1. worker' = [worker EXCEPT !.at = "forget"]
      BY DEF WorkerRemoveDoc
    <2> QED
      BY <1>1, <2>1, ShapesParts DEF WorkerType, WorkerShape
  <1>5. IndexType'
    BY <1>2, NothingOutstanding, ShapesParts DEF WorkerRemoveDoc, IndexType
  <1>6. MarksType'
    <2>1. excused' \subseteq Keys
      BY <1>2, ShapesParts DEF WorkerRemoveDoc, MarksType
    <2> QED
      BY <1>3, <2>1, ShapesParts DEF WorkerRemoveDoc, MarksType
  <1> QED
    BY <1>4, <1>5, <1>6, ShapesParts, PartsKept DEF WorkerRemoveDoc

LEMMA WorkerRemoveItemShapes ==
  ASSUME Shapes, WorkerRemoveItem
  PROVE  Shapes'
  <1>1. worker.task.key \in Keys
    BY ShapesParts DEF WorkerRemoveItem, WorkerType, WorkerShape, Task
  <1>2. IndexType'
    BY <1>1, NothingOutstanding, ShapesParts DEF WorkerRemoveItem, IndexType
  <1>3. WorkerType'
    BY IdleShapes DEF WorkerRemoveItem
  <1> QED
    BY <1>2, <1>3, ShapesParts, PartsKept DEF WorkerRemoveItem, bounds

\* One timer less.
LEMMA CountDown ==
  ASSUME NEW S, NEW f \in [S -> Nat], NEW i \in S, f[i] > 0
  PROVE  [f EXCEPT ![i] = @ - 1] \in [S -> Nat]
  OBVIOUS

LEMMA RetryFiresShapes ==
  ASSUME Shapes, NEW k \in Keys, NEW a \in 1 .. IndexMaxRetries, RetryFires(k, a)
  PROVE  Shapes'
  <1> DEFINE t == [event |-> "object.updated", key |-> k, attempt |-> a]
  <1>1. t \in Task
    BY Limits DEF Task
  <1>2. queue' \in Seq(Task) /\ Len(queue') <= QueueSize
    BY <1>1, ShapesParts, AppendType DEF RetryFires
  <1>3. EventsType'
    BY <1>2, ShapesParts DEF RetryFires, EventsType
  <1>4. RetryType'
    <2>1. retry \in [Keys -> [1 .. IndexMaxRetries -> Nat]]
      BY ShapesParts DEF RetryType
    <2>2. retry' = [retry EXCEPT ![k] = [retry[k] EXCEPT ![a] = @ - 1]] /\ retry[k][a] > 0
      BY DEF RetryFires
    <2>3. [retry[k] EXCEPT ![a] = @ - 1] \in [1 .. IndexMaxRetries -> Nat]
      BY <2>1, <2>2, CountDown
    <2> QED
      BY <2>1, <2>2, <2>3 DEF RetryType
  <1>5. MarksType'
    <2>1. excused' \subseteq Keys
      BY ShapesParts DEF RetryFires, MarksType
    <2> QED
      BY <2>1, ShapesParts DEF RetryFires, MarksType, bounds
  <1> QED
    BY <1>3, <1>4, <1>5, ShapesParts, PartsKept DEF RetryFires

(***************************************************************************)
(* The rebuild's steps.                                                    *)
(***************************************************************************)
LEMMA RebuildBeginShapes ==
  ASSUME Shapes, RebuildBegin
  PROVE  Shapes'
  <1>1. RebuildType'
    BY NothingOutstanding DEF RebuildBegin, RebuildType, RebuildShape, NoRebuild
  <1>2. MarksType'
    <2>1. rebuilds' \in 0 .. MaxRebuilds
      BY Limits, ShapesParts DEF RebuildBegin, MarksType
    <2>2. quiet' \in BOOLEAN
      BY Zenon DEF RebuildBegin
    <2> QED
      BY <2>1, <2>2, ShapesParts DEF RebuildBegin, MarksType
  <1> QED
    BY <1>1, <1>2, ShapesParts, PartsKept DEF RebuildBegin

LEMMA RebuildListShapes ==
  ASSUME Shapes, RebuildList
  PROVE  Shapes'
  <1>1. RebuildType'
    <2>1. CASE rebuild' = NoRebuild
      BY <2>1, IdleShapes
    <2>2. CASE rebuild' # NoRebuild
      <3> DEFINE listed == {k \in Keys : store[k] # 0}
      <3>1. rebuild' = [rebuild EXCEPT !.at = "load", !.todo = listed, !.valid = listed]
        BY <2>2 DEF RebuildList
      <3>2. listed \subseteq Keys
        OBVIOUS
      <3> HIDE DEF listed
      <3> QED
        BY <3>1, <3>2, ShapesParts DEF RebuildType, RebuildShape
    <2> QED
      BY <2>1, <2>2
  <1>2. MarksType'
    BY ShapesParts, FaultType DEF RebuildList, MarksType
  <1> QED
    BY <1>1, <1>2, ShapesParts, PartsKept DEF RebuildList

\* The next object of a rebuild is one of those listed.
LEMMA NextObject ==
  ASSUME Shapes, rebuild.todo # {}
  PROVE  (CHOOSE x \in rebuild.todo : \A y \in rebuild.todo : x <= y) \in rebuild.todo
  <1>1. rebuild.todo \subseteq Keys
    BY ShapesParts DEF RebuildType
  <1>2. rebuild.todo \subseteq Nat /\ IsFiniteSet(rebuild.todo)
    BY <1>1, Limits, FS_Subset
  <1> QED
    BY <1>2, LeastMember

LEMMA RebuildLoadShapes ==
  ASSUME Shapes, RebuildLoad
  PROVE  Shapes'
  <1> DEFINE k == CHOOSE x \in rebuild.todo : \A y \in rebuild.todo : x <= y
  <1>1. k \in rebuild.todo
    BY NextObject DEF RebuildLoad
  <1>2. \/ /\ store[k] # 0
           /\ rebuild' = [rebuild EXCEPT !.at = "doc", !.key = k, !.ver = store[k],
                                         !.todo = @ \ {k}]
        \/ rebuild' = [rebuild EXCEPT !.failed = 1, !.todo = @ \ {k}]
    BY DEF RebuildLoad
  <1>3. rebuild.at = "load"
    BY DEF RebuildLoad
  <1> HIDE DEF k
  <1>4. k \in Keys /\ store[k] \in Versions
    BY <1>1, ShapesParts DEF RebuildType, StoreType
  <1>5. RebuildType'
    <2>1. CASE /\ store[k] # 0
               /\ rebuild' = [rebuild EXCEPT !.at = "doc", !.key = k, !.ver = store[k],
                                             !.todo = @ \ {k}]
      <3>1. k \in rebuild.valid
        BY <1>1, ShapesParts DEF RebuildType, RebuildShape
      <3> QED
        BY <1>4, <2>1, <3>1, ShapesParts DEF RebuildType, RebuildShape
    <2>2. CASE rebuild' = [rebuild EXCEPT !.failed = 1, !.todo = @ \ {k}]
      <3>1. /\ rebuild'.at = "load" /\ rebuild'.todo \subseteq rebuild.todo
            /\ rebuild'.valid = rebuild.valid
        BY <1>3, <2>2, ShapesParts DEF RebuildType
      <3>2. RebuildShape'
        BY <3>1, ShapesParts DEF RebuildType, RebuildShape
      <3>3. rebuild.todo \ {k} \in SUBSET Keys /\ 1 \in 0 .. 1
        BY ShapesParts DEF RebuildType
      <3>4. rebuild' \in [at : {"idle", "list", "load", "doc", "item", "prune"},
                          todo : SUBSET Keys, valid : SUBSET Keys,
                          key : Keys \cup {0}, ver : Versions, failed : 0 .. 1]
        BY <2>2, <3>3, ShapesParts DEF RebuildType
      <3> QED
        BY <3>2, <3>4 DEF RebuildType
    <2> QED
      BY <1>2, <2>1, <2>2
  <1>6. MarksType'
    BY ShapesParts, FaultType DEF RebuildLoad, MarksType
  <1> QED
    BY <1>5, <1>6, ShapesParts, PartsKept DEF RebuildLoad

LEMMA RebuildDocShapes ==
  ASSUME Shapes, RebuildDoc
  PROVE  Shapes'
  <1>1. rebuild.key \in Keys /\ rebuild.ver \in Versions
    BY ShapesParts DEF RebuildDoc, RebuildType, RebuildShape
  <1>2. RebuildType'
    BY ShapesParts DEF RebuildDoc, RebuildType, RebuildShape
  <1>3. IndexType'
    BY <1>1, ShapesParts DEF RebuildDoc, IndexType
  <1>4. MarksType'
    <2>1. excused' \subseteq Keys
      BY <1>1, ShapesParts DEF RebuildDoc, MarksType
    <2>2. quiet' \in BOOLEAN
      <3>1. quiet \in BOOLEAN
        BY ShapesParts, Zenon DEF MarksType
      <3> QED
        BY <3>1, Zenon DEF RebuildDoc
    <2> QED
      BY <2>1, <2>2, ShapesParts, FaultType DEF RebuildDoc, MarksType
  <1> QED
    BY <1>2, <1>3, <1>4, ShapesParts, PartsKept DEF RebuildDoc

LEMMA RebuildItemShapes ==
  ASSUME Shapes, RebuildItem
  PROVE  Shapes'
  <1>1. rebuild.key \in Keys /\ rebuild.ver \in Versions
    BY ShapesParts DEF RebuildItem, RebuildType, RebuildShape
  <1>2. RebuildType'
    BY ShapesParts, NothingOutstanding DEF RebuildItem, RebuildType, RebuildShape
  <1>3. IndexType'
    BY <1>1, ShapesParts DEF RebuildItem, IndexType
  <1> QED
    BY <1>2, <1>3, ShapesParts, PartsKept DEF RebuildItem, bounds

LEMMA PruneListShapes ==
  ASSUME Shapes, PruneList
  PROVE  Shapes'
  <1>1. RebuildType'
    <2> DEFINE gone == IndexedIDs \ rebuild.valid
    <2>1. gone \subseteq Keys
      BY DEF IndexedIDs
    <2>2. rebuild' = [rebuild EXCEPT !.at = "prune", !.todo = gone, !.valid = gone]
      BY DEF PruneList
    <2> HIDE DEF gone
    <2> QED
      BY <2>1, <2>2, ShapesParts DEF RebuildType, RebuildShape
  <1> QED
    BY <1>1, ShapesParts, PartsKept DEF PruneList, bounds

LEMMA PruneDocShapes ==
  ASSUME Shapes, NEW k \in Keys, PruneDoc(k)
  PROVE  Shapes'
  <1>1. RebuildType'
    <2>1. CASE rebuild' = NoRebuild
      BY <2>1, IdleShapes
    <2>2. CASE rebuild' = [rebuild EXCEPT !.todo = @ \ {k}]
      BY <2>2, ShapesParts DEF PruneDoc, RebuildType, RebuildShape
    <2> QED
      BY <2>1, <2>2 DEF PruneDoc
  <1>2. IndexType'
    BY ShapesParts, NothingOutstanding DEF PruneDoc, IndexType
  <1>3. MarksType'
    BY ShapesParts, FaultType DEF PruneDoc, MarksType
  <1> QED
    BY <1>1, <1>2, <1>3, ShapesParts, PartsKept DEF PruneDoc

LEMMA RebuildFinishShapes ==
  ASSUME Shapes, RebuildFinish
  PROVE  Shapes'
  <1>1. RebuildType'
    BY IdleShapes DEF RebuildFinish
  <1>2. IndexType'
    BY ShapesParts, NothingOutstanding DEF RebuildFinish, IndexType
  <1>3. MarksType'
    <2>1. excused' \subseteq Keys
      BY ShapesParts DEF RebuildFinish, MarksType
    <2> QED
      BY <2>1, ShapesParts DEF RebuildFinish, MarksType, bounds
  <1> QED
    BY <1>1, <1>2, <1>3, ShapesParts, PartsKept DEF RebuildFinish

LEMMA CrashShapes ==
  ASSUME Shapes, Crash
  PROVE  Shapes'
  <1>1. EventsType' /\ RetryType'
    BY NothingOutstanding DEF Crash, EventsType, RetryType
  <1>2. IndexType'
    BY ShapesParts, NothingOutstanding DEF Crash, IndexType
  <1>3. RebuildType' /\ WorkerType'
    BY IdleShapes DEF Crash
  <1>4. MarksType'
    <2>1. excused' \subseteq Keys
      BY ShapesParts DEF Crash, MarksType
    <2> QED
      BY <2>1, ShapesParts, FaultType DEF Crash, MarksType
  <1> QED
    BY <1>1, <1>2, <1>3, <1>4, ShapesParts, PartsKept DEF Crash

(***************************************************************************)
(* What an action does to the events of one key.                           *)
(***************************************************************************)
PendingKept(k) == /\ UpdatePending(k)' <=> UpdatePending(k)
                  /\ DeletePending(k)' <=> DeletePending(k)
QueueKept(k) == /\ UpdateQueued(k)' <=> UpdateQueued(k)
                /\ DeleteQueued(k)' <=> DeleteQueued(k)
                /\ Followed(k) => Followed(k)'
TimedKept(k) == UpdateTimed(k)' <=> UpdateTimed(k)

\* What does not change keeps the events of every key.
LEMMA EventsKept ==
  ASSUME NEW k
  PROVE  /\ UNCHANGED pending => PendingKept(k)
         /\ UNCHANGED queue => QueueKept(k)
         /\ UNCHANGED retry => TimedKept(k)
  BY DEF PendingKept, UpdatePending, DeletePending, QueueKept, UpdateQueued, DeleteQueued,
         Followed, TimedKept, UpdateTimed

\* A client's event replaced by another: the events of the other clients stay.
LEMMA PendingReplaced ==
  ASSUME EventsType, NEW c \in Clients, NEW t, pending' = [pending EXCEPT ![c] = t], NEW k
  PROVE  /\ UpdatePending(k)' <=> \/ IsUpdate(t, k)
                                  \/ \E d \in Clients \ {c} : IsUpdate(pending[d], k)
         /\ DeletePending(k)' <=> \/ IsDelete(t, k)
                                  \/ \E d \in Clients \ {c} : IsDelete(pending[d], k)
         /\ UpdatePending(k) <=> \/ IsUpdate(pending[c], k)
                                 \/ \E d \in Clients \ {c} : IsUpdate(pending[d], k)
         /\ DeletePending(k) <=> \/ IsDelete(pending[c], k)
                                 \/ \E d \in Clients \ {c} : IsDelete(pending[d], k)
  <1>1. /\ pending'[c] = t
        /\ \A d \in Clients \ {c} : pending'[d] = pending[d]
    BY DEF EventsType
  <1> QED
    BY <1>1 DEF UpdatePending, DeletePending, IsUpdate, IsDelete

\* What the queue's elements are after an append.
LEMMA AppendElements ==
  ASSUME NEW S, NEW q \in Seq(S), NEW t \in S
  PROVE  /\ DOMAIN Append(q, t) = 1 .. Len(q) + 1
         /\ DOMAIN q = 1 .. Len(q)
         /\ Len(q) \in Nat
         /\ Append(q, t)[Len(q) + 1] = t
         /\ \A i \in 1 .. Len(q) : Append(q, t)[i] = q[i]
  OBVIOUS

\* What the queue's elements are after the first is taken.
LEMMA TailElements ==
  ASSUME NEW S, NEW q \in Seq(S), q # <<>>
  PROVE  /\ DOMAIN Tail(q) = 1 .. Len(q) - 1
         /\ DOMAIN q = 1 .. Len(q)
         /\ Len(q) \in Nat /\ Len(q) > 0
         /\ q[1] = Head(q)
         /\ \A i \in 1 .. Len(q) - 1 : Tail(q)[i] = q[i + 1]
  OBVIOUS

\* An event appended to the channel comes after all that are in it.
LEMMA QueueAppended ==
  ASSUME EventsType, NEW t \in Task, queue' = Append(queue, t), NEW k
  PROVE  /\ UpdateQueued(k)' <=> UpdateQueued(k) \/ IsUpdate(t, k)
         /\ DeleteQueued(k)' <=> DeleteQueued(k) \/ IsDelete(t, k)
         /\ Followed(k) /\ ~IsDelete(t, k) => Followed(k)'
         /\ IsUpdate(t, k) => Followed(k)'
  <1> DEFINE n == Len(queue)
  <1>1. /\ DOMAIN queue' = 1 .. n + 1 /\ DOMAIN queue = 1 .. n /\ n \in Nat
        /\ queue'[n + 1] = t
        /\ \A i \in 1 .. n : queue'[i] = queue[i]
    BY AppendElements DEF EventsType
  <1> HIDE DEF n
  <1>2. UpdateQueued(k)' <=> UpdateQueued(k) \/ IsUpdate(t, k)
    BY <1>1 DEF UpdateQueued, IsUpdate
  <1>3. DeleteQueued(k)' <=> DeleteQueued(k) \/ IsDelete(t, k)
    BY <1>1 DEF DeleteQueued, IsDelete
  <1>4. IsUpdate(t, k) => ~IsDelete(t, k)
    BY DEF IsUpdate, IsDelete
  <1>5. IsUpdate(t, k) => Followed(k)'
    <2> SUFFICES ASSUME IsUpdate(t, k), NEW i \in DOMAIN queue', IsDelete(queue'[i], k)
                 PROVE  \E j \in DOMAIN queue' : j > i /\ IsUpdate(queue'[j], k)
      BY DEF Followed, IsUpdate, IsDelete
    <2>1. i # n + 1
      BY <1>1, <1>4
    <2>2. n + 1 \in DOMAIN queue' /\ n + 1 > i /\ IsUpdate(queue'[n + 1], k)
      BY <1>1, <2>1
    <2> QED
      BY <2>2
  <1>6. Followed(k) /\ ~IsDelete(t, k) => Followed(k)'
    <2> SUFFICES ASSUME Followed(k), ~IsDelete(t, k),
                        NEW i \in DOMAIN queue', IsDelete(queue'[i], k)
                 PROVE  \E j \in DOMAIN queue' : j > i /\ IsUpdate(queue'[j], k)
      BY DEF Followed, IsUpdate, IsDelete
    <2>1. i \in DOMAIN queue /\ IsDelete(queue[i], k)
      BY <1>1
    <2>2. PICK j \in DOMAIN queue : j > i /\ IsUpdate(queue[j], k)
      BY <2>1 DEF Followed
    <2>3. j \in DOMAIN queue' /\ IsUpdate(queue'[j], k)
      BY <1>1, <2>2
    <2> QED
      BY <2>2, <2>3
  <1> QED
    BY <1>2, <1>3, <1>5, <1>6

\* The worker takes the oldest event; if it is a delete that is followed, an
\* update is still queued.
LEMMA QueueTaken ==
  ASSUME EventsType, queue # <<>>, queue' = Tail(queue), NEW k
  PROVE  /\ UpdateQueued(k) <=> UpdateQueued(k)' \/ IsUpdate(Head(queue), k)
         /\ DeleteQueued(k) <=> DeleteQueued(k)' \/ IsDelete(Head(queue), k)
         /\ Followed(k) => Followed(k)'
         /\ Followed(k) /\ IsDelete(Head(queue), k) => UpdateQueued(k)'
  <1> DEFINE n == Len(queue)
             h == Head(queue)
  <1>1. /\ DOMAIN queue' = 1 .. n - 1 /\ DOMAIN queue = 1 .. n /\ n \in Nat /\ n > 0
        /\ queue[1] = h
        /\ \A i \in 1 .. n - 1 : queue'[i] = queue[i + 1]
    BY TailElements DEF EventsType
  <1> HIDE DEF n, h
  <1>2. \A i \in 1 .. n : i = 1 \/ (i - 1 \in 1 .. n - 1 /\ queue'[i - 1] = queue[i])
    <2> TAKE i \in 1 .. n
    <2> SUFFICES ASSUME i # 1 PROVE i - 1 \in 1 .. n - 1 /\ queue'[i - 1] = queue[i]
      OBVIOUS
    <2>1. i - 1 \in 1 .. n - 1 /\ (i - 1) + 1 = i
      BY <1>1
    <2> QED
      BY <1>1, <2>1
  <1>3. UpdateQueued(k) <=> UpdateQueued(k)' \/ IsUpdate(h, k)
    <2>1. ASSUME NEW i \in DOMAIN queue, IsUpdate(queue[i], k)
          PROVE  UpdateQueued(k)' \/ IsUpdate(h, k)
      <3>1. i = 1 \/ (i - 1 \in DOMAIN queue' /\ queue'[i - 1] = queue[i])
        BY <1>1, <1>2
      <3> QED
        BY <1>1, <2>1, <3>1 DEF UpdateQueued, IsUpdate
    <2>2. ASSUME NEW i \in DOMAIN queue', IsUpdate(queue'[i], k)
          PROVE  UpdateQueued(k)
      <3>1. i + 1 \in DOMAIN queue /\ queue[i + 1] = queue'[i]
        BY <1>1
      <3> QED
        BY <2>2, <3>1 DEF UpdateQueued
    <2>3. IsUpdate(h, k) => UpdateQueued(k)
      <3>1. 1 \in DOMAIN queue
        BY <1>1
      <3> QED
        BY <1>1, <3>1 DEF UpdateQueued
    <2> QED
      BY <2>1, <2>2, <2>3 DEF UpdateQueued, IsUpdate
  <1>4. DeleteQueued(k) <=> DeleteQueued(k)' \/ IsDelete(h, k)
    <2>1. ASSUME NEW i \in DOMAIN queue, IsDelete(queue[i], k)
          PROVE  DeleteQueued(k)' \/ IsDelete(h, k)
      <3>1. i = 1 \/ (i - 1 \in DOMAIN queue' /\ queue'[i - 1] = queue[i])
        BY <1>1, <1>2
      <3> QED
        BY <1>1, <2>1, <3>1 DEF DeleteQueued, IsDelete
    <2>2. ASSUME NEW i \in DOMAIN queue', IsDelete(queue'[i], k)
          PROVE  DeleteQueued(k)
      <3>1. i + 1 \in DOMAIN queue /\ queue[i + 1] = queue'[i]
        BY <1>1
      <3> QED
        BY <2>2, <3>1 DEF DeleteQueued
    <2>3. IsDelete(h, k) => DeleteQueued(k)
      <3>1. 1 \in DOMAIN queue
        BY <1>1
      <3> QED
        BY <1>1, <3>1 DEF DeleteQueued
    <2> QED
      BY <2>1, <2>2, <2>3 DEF DeleteQueued, IsDelete
  <1>5. Followed(k) => Followed(k)'
    <2> SUFFICES ASSUME Followed(k), NEW i \in DOMAIN queue', IsDelete(queue'[i], k)
                 PROVE  \E j \in DOMAIN queue' : j > i /\ IsUpdate(queue'[j], k)
      BY DEF Followed, IsUpdate, IsDelete
    <2>1. i + 1 \in DOMAIN queue /\ IsDelete(queue[i + 1], k) /\ i \in 1 .. n - 1
      BY <1>1
    <2>2. PICK j \in DOMAIN queue : j > i + 1 /\ IsUpdate(queue[j], k)
      BY <2>1 DEF Followed
    <2>3. j \in 1 .. n /\ j # 1
      BY <1>1, <2>1, <2>2
    <2>4. j - 1 \in DOMAIN queue' /\ queue'[j - 1] = queue[j] /\ j - 1 > i
      BY <1>1, <1>2, <2>1, <2>2, <2>3
    <2> QED
      BY <2>2, <2>4
  <1>6. ASSUME Followed(k), IsDelete(h, k) PROVE UpdateQueued(k)'
    <2>1. 1 \in DOMAIN queue /\ IsDelete(queue[1], k)
      BY <1>1, <1>6
    <2>2. PICK j \in DOMAIN queue : j > 1 /\ IsUpdate(queue[j], k)
      BY <1>6, <2>1 DEF Followed
    <2>3. j - 1 \in DOMAIN queue' /\ IsUpdate(queue'[j - 1], k)
      BY <1>1, <1>2, <2>2
    <2> QED
      BY <2>3 DEF UpdateQueued, IsUpdate
  <1> QED
    BY <1>3, <1>4, <1>5, <1>6 DEF h

(***************************************************************************)
(* KeysOK: what each action does to a key that is not excused after it.    *)
(***************************************************************************)
WorkerOff(k) == worker.at = "idle" \/ worker.task.key # k
WorkerApart(k) == UNCHANGED worker \/ (WorkerOff(k) /\ WorkerOff(k)')
IndexKept(k) == doc'[k] = doc[k] /\ item'[k] = item[k]

\* A rebuild that goes on as it was holds what it held of an object that did not change.
LEMMA RebuildKept ==
  ASSUME NEW k, RebuildOK(k), UNCHANGED rebuild, store'[k] = store[k] \/ rebuild.at = "idle"
  PROVE  RebuildOK(k)'
  BY DEF RebuildOK

\* An action that is about another key.
LEMMA OtherKey ==
  ASSUME NEW k, KeyOK(k), PendingKept(k), QueueKept(k), TimedKept(k), WorkerApart(k),
         IndexKept(k), store'[k] = store[k], RebuildOK(k)'
  PROVE  KeyOK(k)'
  <1>1. CASE UNCHANGED worker
    BY <1>1 DEF KeyOK, LiveOK, GoneOK, WorkerOn, UpdateComes, DeleteComes, PendingKept,
                QueueKept, TimedKept, IndexKept
  <1>2. CASE WorkerOff(k) /\ WorkerOff(k)'
    BY <1>2 DEF KeyOK, LiveOK, GoneOK, WorkerOn, WorkerOff, UpdateComes, DeleteComes,
                PendingKept, QueueKept, TimedKept, IndexKept
  <1> QED
    BY <1>1, <1>2 DEF WorkerApart

\* What the invariant says of a key.
LEMMA KeyFacts ==
  ASSUME IndexInv, NEW k \in Keys \ excused
  PROVE  KeyOK(k) /\ RebuildOK(k)
  BY DEF IndexInv, KeysOK, KeyOK

\* A change of k0 leaves the other keys as they were.
LEMMA CommitOthers ==
  ASSUME IndexInv, NEW c \in Clients, NEW k0 \in Keys, NEW v, NEW t,
         Commit(c, k0, v, t), t = NoTask \/ t.key = k0, NEW k \in Keys \ excused, k # k0
  PROVE  KeyOK(k)'
  <1>1. EventsType /\ StoreType
    BY ShapesParts DEF IndexInv
  <1>2. PendingKept(k)
    <2>1. ~IsUpdate(t, k) /\ ~IsDelete(t, k) /\ ~IsUpdate(NoTask, k) /\ ~IsDelete(NoTask, k)
      BY DEF IsUpdate, IsDelete, NoTask
    <2>2. pending' = [pending EXCEPT ![c] = t] /\ pending[c] = NoTask
      BY DEF Commit
    <2> QED
      BY <1>1, <2>1, <2>2, PendingReplaced DEF PendingKept
  <1>3. store'[k] = store[k]
    BY <1>1 DEF Commit, StoreType
  <1>4. QueueKept(k) /\ TimedKept(k) /\ WorkerApart(k) /\ IndexKept(k)
    BY EventsKept DEF Commit, WorkerApart, IndexKept
  <1>5. RebuildOK(k)'
    BY <1>3, KeyFacts, RebuildKept DEF Commit
  <1> QED
    BY <1>2, <1>3, <1>4, <1>5, KeyFacts, OtherKey

LEMMA PutObjectKey ==
  ASSUME IndexInv, NEW c \in Clients, NEW k0 \in Keys, PutObject(c, k0),
         NEW k \in Keys \ excused'
  PROVE  KeyOK(k)'
  <1> DEFINE t == [event |-> "object.updated", key |-> k0, attempt |-> 0]
  <1>1. Commit(c, k0, commits + 1, t) /\ excused' = Excuse(k0)
    BY DEF PutObject
  <1>2. t.key = k0 /\ IsUpdate(t, k0)
    BY DEF IsUpdate
  <1> HIDE DEF t
  <1>3. CASE k # k0
    <2>1. k \notin excused
      BY <1>1, <1>3 DEF Excuse
    <2> QED
      BY <1>1, <1>2, <1>3, <2>1, CommitOthers
  <1>4. CASE k = k0
    <2>1. rebuild'.at = "idle"
      BY <1>1, <1>4 DEF Excuse, Commit
    <2>2. store'[k] # 0
      BY <1>1, <1>4, ShapesParts DEF Commit, StoreType, IndexInv
    <2>3. UpdatePending(k)'
      BY <1>1, <1>2, <1>4, ShapesParts, PendingReplaced DEF Commit, IndexInv
    <2>4. RebuildOK(k)'
      BY <2>1 DEF RebuildOK
    <2> QED
      BY <2>2, <2>3, <2>4 DEF KeyOK, LiveOK, UpdateComes
  <1> QED
    BY <1>3, <1>4

LEMMA DeleteObjectKey ==
  ASSUME IndexInv, NEW c \in Clients, NEW k0 \in Keys, DeleteObject(c, k0),
         NEW k \in Keys \ excused'
  PROVE  KeyOK(k)'
  <1> DEFINE t == [event |-> "object.deleted", key |-> k0, attempt |-> 0]
  <1>1. Commit(c, k0, 0, t) /\ excused' = Excuse(k0)
    BY DEF DeleteObject
  <1>2. t.key = k0 /\ IsDelete(t, k0)
    BY DEF IsDelete
  <1> HIDE DEF t
  <1>3. CASE k # k0
    <2>1. k \notin excused
      BY <1>1, <1>3 DEF Excuse
    <2> QED
      BY <1>1, <1>2, <1>3, <2>1, CommitOthers
  <1>4. CASE k = k0
    <2>1. rebuild'.at = "idle"
      BY <1>1, <1>4 DEF Excuse, Commit
    <2>2. store'[k] = 0
      BY <1>1, <1>4, ShapesParts DEF Commit, StoreType, IndexInv
    <2>3. DeletePending(k)'
      BY <1>1, <1>2, <1>4, ShapesParts, PendingReplaced DEF Commit, IndexInv
    <2>4. RebuildOK(k)'
      BY <2>1 DEF RebuildOK
    <2> QED
      BY <2>2, <2>3, <2>4 DEF KeyOK, GoneOK, DeleteComes
  <1> QED
    BY <1>3, <1>4

LEMMA DeleteBucketObjectKey ==
  ASSUME IndexInv, NEW c \in Clients, NEW k0 \in Keys, DeleteBucketObject(c, k0),
         NEW k \in Keys \ excused'
  PROVE  KeyOK(k)'
  BY CommitOthers DEF DeleteBucketObject

\* A published event is in the channel, unless that is full and its key excused.
LEMMA PublishKey ==
  ASSUME IndexInv, NEW c \in Clients, Publish(c), NEW k \in Keys \ excused'
  PROVE  KeyOK(k)'
  <1> DEFINE t == pending[c]
  <1>1. /\ t # NoTask /\ pending' = [pending EXCEPT ![c] = NoTask]
        /\ UNCHANGED <<store, worker, retry, doc, item, rebuild>>
        /\ excused \subseteq excused'
    BY DEF Publish
  <1>2. EventsType /\ t \in Task /\ k \notin excused
    BY <1>1, ShapesParts DEF IndexInv, EventsType
  <1>3. ~IsUpdate(NoTask, k) /\ ~IsDelete(NoTask, k)
    BY DEF IsUpdate, IsDelete, NoTask
  <1>4. /\ UpdatePending(k)' <=> \E d \in Clients \ {c} : IsUpdate(pending[d], k)
        /\ DeletePending(k)' <=> \E d \in Clients \ {c} : IsDelete(pending[d], k)
        /\ UpdatePending(k) <=> IsUpdate(t, k) \/ UpdatePending(k)'
        /\ DeletePending(k) <=> IsDelete(t, k) \/ DeletePending(k)'
    BY <1>1, <1>2, <1>3, PendingReplaced
  <1>5. TimedKept(k) /\ WorkerApart(k) /\ IndexKept(k) /\ RebuildOK(k)' /\ KeyOK(k)
    BY <1>1, <1>2, EventsKept, KeyFacts, RebuildKept DEF WorkerApart, IndexKept
  <1>6. CASE t.key # k
    <2>1. ~IsUpdate(t, k) /\ ~IsDelete(t, k)
      BY <1>6 DEF IsUpdate, IsDelete
    <2>2. QueueKept(k)
      <3>1. CASE UNCHANGED queue
        BY <3>1, EventsKept
      <3>2. CASE queue' = Append(queue, t)
        BY <1>2, <2>1, <3>2, QueueAppended DEF QueueKept
      <3> QED
        BY <3>1, <3>2 DEF Publish
    <2>3. PendingKept(k)
      BY <1>4, <2>1 DEF PendingKept
    <2> QED
      BY <1>1, <1>5, <2>2, <2>3, OtherKey
  <1>7. CASE t.key = k
    <2>1. queue' = Append(queue, t) /\ ~Overtakes(c)
      BY <1>7 DEF Publish
    <2>2. IsUpdate(t, k) \/ IsDelete(t, k)
      BY <1>2, <1>7 DEF IsUpdate, IsDelete, Task
    <2>3. CASE IsUpdate(t, k)
      <3>1. UpdateQueued(k)' /\ Followed(k)' /\ (DeleteQueued(k) => DeleteQueued(k)')
        BY <1>2, <2>1, <2>3, QueueAppended
      <3>2. DeleteComes(k) => DeleteComes(k)'
        <4>1. ~IsDelete(t, k)
          BY <2>3 DEF IsUpdate, IsDelete
        <4> QED
          BY <1>4, <3>1, <4>1 DEF DeleteComes
      <3> QED
        BY <1>1, <1>5, <3>1, <3>2 DEF KeyOK, LiveOK, GoneOK, UpdateComes, WorkerOn
    <2>4. CASE IsDelete(t, k)
      <3>1. DeleteComes(k)'
        BY <1>2, <2>1, <2>4, QueueAppended DEF DeleteComes
      <3>2. store[k] # 0 => UpdatePending(k)'
        BY <1>4, <1>7, <2>1, <2>4 DEF Overtakes, IsUpdate, IsDelete
      <3> QED
        BY <1>1, <1>5, <3>1, <3>2 DEF KeyOK, LiveOK, GoneOK, UpdateComes
    <2> QED
      BY <2>2, <2>3, <2>4
  <1> QED
    BY <1>6, <1>7

\* The worker has taken the oldest event: what was still to come of its key is to
\* come or in the worker's hands.
LEMMA WorkerTakeKey ==
  ASSUME IndexInv, WorkerTake, NEW k \in Keys \ excused'
  PROVE  KeyOK(k)'
  <1> DEFINE h == Head(queue)
  <1>1. /\ worker = Idle /\ queue # <<>> /\ queue' = Tail(queue)
        /\ worker'.task = h
        /\ worker'.at = IF h.event = "object.updated" THEN "load" ELSE "remove"
        /\ UNCHANGED <<store, pending, retry, doc, item, rebuild, excused>>
    BY DEF WorkerTake
  <1>2. EventsType /\ h \in Task /\ k \notin excused
    <2>1. EventsType
      BY ShapesParts DEF IndexInv
    <2>2. h \in Task
      BY <1>1, <2>1 DEF EventsType
    <2> QED
      BY <1>1, <2>1, <2>2
  <1>3. /\ UpdateQueued(k) <=> UpdateQueued(k)' \/ IsUpdate(h, k)
        /\ DeleteQueued(k) <=> DeleteQueued(k)' \/ IsDelete(h, k)
        /\ Followed(k) => Followed(k)'
        /\ Followed(k) /\ IsDelete(h, k) => UpdateQueued(k)'
    BY <1>1, <1>2, QueueTaken
  <1> HIDE DEF h
  <1>4. PendingKept(k) /\ TimedKept(k) /\ IndexKept(k) /\ RebuildOK(k)' /\ KeyOK(k)
    BY <1>1, <1>2, EventsKept, KeyFacts, RebuildKept DEF IndexKept
  <1>5. worker.at = "idle"
    BY <1>1 DEF Idle
  <1>6. CASE h.key # k
    <2>1. QueueKept(k)
      BY <1>3, <1>6 DEF QueueKept, IsUpdate, IsDelete
    <2>2. WorkerApart(k)
      BY <1>1, <1>5, <1>6 DEF WorkerApart, WorkerOff
    <2> QED
      BY <1>1, <1>4, <2>1, <2>2, OtherKey
  <1>7. CASE h.key = k /\ h.event = "object.updated"
    <2>1. ~IsDelete(h, k) /\ worker'.at = "load" /\ worker'.task.key = k
      BY <1>1, <1>7 DEF IsDelete
    <2>2. /\ store'[k] # 0 => LiveOK(k)'
          /\ store'[k] = 0 => GoneOK(k)'
      BY <1>1, <1>3, <1>4, <1>5, <2>1
         DEF KeyOK, LiveOK, GoneOK, UpdateComes, DeleteComes, WorkerOn, PendingKept, TimedKept,
             IndexKept
    <2> QED
      BY <1>4, <2>2 DEF KeyOK
  <1>8. CASE h.key = k /\ h.event = "object.deleted"
    <2>1. ~IsUpdate(h, k) /\ IsDelete(h, k) /\ worker'.at = "remove" /\ worker'.task.key = k
      BY <1>1, <1>8 DEF IsDelete, IsUpdate
    <2>2. /\ store'[k] # 0 => LiveOK(k)'
          /\ store'[k] = 0 => GoneOK(k)'
      BY <1>1, <1>3, <1>4, <1>5, <2>1
         DEF KeyOK, LiveOK, GoneOK, UpdateComes, DeleteComes, WorkerOn, PendingKept, TimedKept,
             IndexKept
    <2> QED
      BY <1>4, <2>2 DEF KeyOK
  <1> QED
    BY <1>2, <1>6, <1>7, <1>8 DEF Task

\* retryIndexTask of an update: a timer will bring it back, or it is given up and,
\* if the object exists, excused.
LEMMA RetryOrFailKey ==
  ASSUME Shapes, RetryOrFail, worker.task \in Task, NEW k \in Keys \ excused'
  PROVE  /\ k \notin excused
         /\ worker'.at = "idle"
         /\ worker.task.key # k => TimedKept(k)
         /\ UpdateTimed(k) => UpdateTimed(k)'
         /\ worker.task.key = k => UpdateTimed(k)' \/ store[k] = 0
  <1> DEFINE t == worker.task
  <1>1. t.key \in Keys /\ t.attempt \in 0 .. IndexMaxRetries
    BY DEF Task
  <1>2. retry \in [Keys -> [1 .. IndexMaxRetries -> Nat]]
    BY ShapesParts DEF RetryType
  <1>3. worker'.at = "idle"
    BY DEF RetryOrFail, Idle
  <1>4. CASE t.attempt < IndexMaxRetries
    <2>1. PICK x \in Keys, a \in 1 .. IndexMaxRetries : x = t.key /\ a = t.attempt + 1
      <3>1. t.attempt + 1 \in 1 .. IndexMaxRetries
        BY <1>1, <1>4, Limits
      <3> QED
        BY <1>1, <3>1
    <2>2. retry' = [retry EXCEPT ![x][a] = @ + 1] /\ UNCHANGED excused
      <3>1. retry' = [retry EXCEPT ![t.key][t.attempt + 1] = @ + 1] /\ UNCHANGED excused
        BY <1>4 DEF RetryOrFail
      <3> HIDE DEF t
      <3> QED
        BY <2>1, <3>1
    <2> DEFINE row == [retry[x] EXCEPT ![a] = @ + 1]
    <2>3. retry' = [retry EXCEPT ![x] = row]
      BY <2>2
    <2>4. retry[x] \in [1 .. IndexMaxRetries -> Nat]
      BY <1>2
    <2>5. row[a] > 0 /\ \A b \in 1 .. IndexMaxRetries : retry[x][b] > 0 => row[b] > 0
      BY <2>4, CountUp
    <2> HIDE DEF row
    <2>6. retry'[x] = row /\ \A y \in Keys : y # x => retry'[y] = retry[y]
      BY <1>2, <2>3
    <2>7. UpdateTimed(x)'
      BY <2>5, <2>6 DEF UpdateTimed
    <2>8. x # k => TimedKept(k)
      BY <2>6 DEF TimedKept, UpdateTimed
    <2>9. x = k => (UpdateTimed(k) => UpdateTimed(k)')
      BY <2>7
    <2> QED
      BY <1>3, <2>1, <2>2, <2>7, <2>8, <2>9 DEF TimedKept
  <1>5. CASE ~(t.attempt < IndexMaxRetries)
    <2>1. UNCHANGED retry /\ excused' = IF store[t.key] = 0 THEN excused
                                        ELSE excused \cup {t.key}
      BY <1>5 DEF RetryOrFail
    <2> QED
      BY <1>3, <2>1, EventsKept DEF TimedKept
  <1> QED
    BY <1>4, <1>5

\* The worker's own key after a step that leaves the events as they are.
WorkerEvents(k) == /\ UNCHANGED <<store, pending, queue>>
                   /\ KeyOK(k) /\ RebuildOK(k)'
                   /\ PendingKept(k) /\ QueueKept(k)

\* What the worker's steps on its task share.
LEMMA WorkerStepEvents ==
  ASSUME IndexInv, UNCHANGED <<store, pending, queue, rebuild>>, NEW k \in Keys \ excused
  PROVE  WorkerEvents(k)
  BY KeyFacts, RebuildKept, EventsKept DEF WorkerEvents

LEMMA WorkerLoadKey ==
  ASSUME IndexInv, WorkerLoad, NEW k \in Keys \ excused'
  PROVE  KeyOK(k)'
  <1>1. worker.at = "load" /\ worker.task \in Task
    BY ShapesParts DEF WorkerLoad, WorkerType, WorkerShape, IndexInv
  <1>2. UNCHANGED <<store, pending, queue, doc, item, rebuild>>
    BY DEF WorkerLoad
  <1>3. CASE RetryOrFail
    <2>1. /\ k \notin excused
          /\ worker'.at = "idle"
          /\ worker.task.key # k => TimedKept(k)
          /\ UpdateTimed(k) => UpdateTimed(k)'
          /\ worker.task.key = k => UpdateTimed(k)' \/ store[k] = 0
      BY <1>1, <1>3, RetryOrFailKey DEF IndexInv
    <2>2. WorkerEvents(k) /\ IndexKept(k)
      BY <1>2, <2>1, WorkerStepEvents DEF IndexKept
    <2>3. CASE worker.task.key # k
      BY <1>2, <2>1, <2>2, <2>3, OtherKey DEF WorkerApart, WorkerOff, WorkerEvents
    <2>4. CASE worker.task.key = k
      BY <1>1, <1>2, <2>1, <2>2, <2>4
         DEF KeyOK, LiveOK, GoneOK, UpdateComes, DeleteComes, WorkerOn, PendingKept, QueueKept,
             IndexKept, WorkerEvents
    <2> QED
      BY <2>3, <2>4
  <1>4. CASE /\ worker' = [worker EXCEPT !.at = "doc", !.ver = store[worker.task.key]]
             /\ UNCHANGED <<retry, excused>> /\ store[worker.task.key] # 0
    <2>1. worker'.at = "doc" /\ worker'.task = worker.task /\ worker'.ver = store[worker.task.key]
      BY <1>4, ShapesParts DEF WorkerType, IndexInv
    <2>2. WorkerEvents(k) /\ IndexKept(k) /\ TimedKept(k)
      BY <1>2, <1>4, WorkerStepEvents, EventsKept DEF IndexKept
    <2>3. CASE worker.task.key # k
      BY <1>2, <2>1, <2>2, <2>3, OtherKey DEF WorkerApart, WorkerOff, WorkerEvents
    <2>4. CASE worker.task.key = k
      BY <1>1, <1>2, <1>4, <2>1, <2>2, <2>4
         DEF KeyOK, LiveOK, UpdateComes, WorkerOn, PendingKept, QueueKept, TimedKept,
             IndexKept, WorkerEvents
    <2> QED
      BY <2>3, <2>4
  <1> QED
    BY <1>3, <1>4 DEF WorkerLoad

LEMMA WorkerDocKey ==
  ASSUME IndexInv, WorkerDoc, NEW k \in Keys \ excused'
  PROVE  KeyOK(k)'
  <1>1. worker.at = "doc" /\ worker.task.key \in Keys
    BY ShapesParts DEF WorkerDoc, WorkerType, WorkerShape, IndexInv, Task
  <1>2. /\ UNCHANGED <<store, pending, queue, retry, item, rebuild>>
        /\ excused \subseteq excused'
        /\ worker' = [worker EXCEPT !.at = "item"]
        /\ \/ doc' = [doc EXCEPT ![worker.task.key] = worker.ver]
           \/ UNCHANGED doc /\ worker.task.key \in excused'
    BY DEF WorkerDoc
  <1>3. worker'.at = "item" /\ worker'.task = worker.task /\ worker'.ver = worker.ver
    BY <1>2, ShapesParts DEF WorkerType, IndexInv
  <1>4. WorkerEvents(k) /\ TimedKept(k)
    BY <1>2, WorkerStepEvents, EventsKept
  <1>5. doc \in [Keys -> Versions]
    BY ShapesParts DEF IndexType, IndexInv
  <1>6. CASE worker.task.key # k
    <2>1. IndexKept(k)
      BY <1>1, <1>2, <1>5, <1>6 DEF IndexKept
    <2> QED
      BY <1>2, <1>3, <1>4, <1>6, <2>1, OtherKey DEF WorkerApart, WorkerOff, WorkerEvents
  <1>7. CASE worker.task.key = k
    <2>1. doc'[k] = worker.ver /\ item'[k] = item[k]
      BY <1>1, <1>2, <1>5, <1>7
    <2> QED
      BY <1>1, <1>2, <1>3, <1>4, <1>7, <2>1
         DEF KeyOK, LiveOK, GoneOK, UpdateComes, DeleteComes, WorkerOn, PendingKept, QueueKept,
             TimedKept, WorkerEvents
  <1> QED
    BY <1>6, <1>7

LEMMA WorkerItemKey ==
  ASSUME IndexInv, WorkerItem, NEW k \in Keys \ excused'
  PROVE  KeyOK(k)'
  <1>1. worker.at = "item" /\ worker.task \in Task /\ worker.task.key \in Keys
    BY ShapesParts DEF WorkerItem, WorkerType, WorkerShape, IndexInv, Task
  <1>2. /\ UNCHANGED <<store, pending, queue, doc, rebuild>>
        /\ item' = [item EXCEPT ![worker.task.key] = worker.ver]
        /\ \/ worker' = Idle /\ UNCHANGED <<retry, excused>>
           \/ RetryOrFail
    BY DEF WorkerItem
  <1>3. /\ k \notin excused
        /\ worker'.at = "idle"
        /\ worker.task.key # k => TimedKept(k)
        /\ UpdateTimed(k) => UpdateTimed(k)'
    <2>1. CASE RetryOrFail
      BY <1>1, <2>1, RetryOrFailKey DEF IndexInv
    <2>2. CASE worker' = Idle /\ UNCHANGED <<retry, excused>>
      BY <2>2, EventsKept DEF Idle, TimedKept
    <2> QED
      BY <1>2, <2>1, <2>2
  <1>4. WorkerEvents(k)
    BY <1>2, <1>3, WorkerStepEvents
  <1>5. item \in [Keys -> Versions]
    BY ShapesParts DEF IndexType, IndexInv
  <1>6. CASE worker.task.key # k
    <2>1. IndexKept(k)
      BY <1>1, <1>2, <1>5, <1>6 DEF IndexKept
    <2> QED
      BY <1>2, <1>3, <1>4, <1>6, <2>1, OtherKey DEF WorkerApart, WorkerOff, WorkerEvents
  <1>7. CASE worker.task.key = k
    <2>1. item'[k] = worker.ver /\ doc'[k] = doc[k]
      BY <1>1, <1>2, <1>5, <1>7
    <2> QED
      BY <1>1, <1>2, <1>3, <1>4, <1>7, <2>1
         DEF KeyOK, LiveOK, GoneOK, UpdateComes, DeleteComes, WorkerOn, PendingKept, QueueKept,
             WorkerEvents
  <1> QED
    BY <1>6, <1>7

LEMMA WorkerRemoveDocKey ==
  ASSUME IndexInv, WorkerRemoveDoc, NEW k \in Keys \ excused'
  PROVE  KeyOK(k)'
  <1>1. worker.at = "remove" /\ worker.task.key \in Keys
    BY ShapesParts DEF WorkerRemoveDoc, WorkerType, WorkerShape, IndexInv, Task
  <1>2. /\ UNCHANGED <<store, pending, queue, retry, item, rebuild>>
        /\ excused \subseteq excused'
        /\ worker' = [worker EXCEPT !.at = "forget"]
        /\ \/ doc' = [doc EXCEPT ![worker.task.key] = 0]
           \/ UNCHANGED doc /\ worker.task.key \in excused'
    BY DEF WorkerRemoveDoc
  <1>3. worker'.at = "forget" /\ worker'.task = worker.task
    BY <1>2, ShapesParts DEF WorkerType, IndexInv
  <1>4. WorkerEvents(k) /\ TimedKept(k)
    BY <1>2, WorkerStepEvents, EventsKept
  <1>5. doc \in [Keys -> Versions]
    BY ShapesParts DEF IndexType, IndexInv
  <1>6. CASE worker.task.key # k
    <2>1. IndexKept(k)
      BY <1>1, <1>2, <1>5, <1>6 DEF IndexKept
    <2> QED
      BY <1>2, <1>3, <1>4, <1>6, <2>1, OtherKey DEF WorkerApart, WorkerOff, WorkerEvents
  <1>7. CASE worker.task.key = k
    <2>1. doc'[k] = 0 /\ item'[k] = item[k]
      BY <1>1, <1>2, <1>5, <1>7
    <2> QED
      BY <1>1, <1>2, <1>3, <1>4, <1>7, <2>1
         DEF KeyOK, LiveOK, GoneOK, UpdateComes, DeleteComes, WorkerOn, PendingKept, QueueKept,
             TimedKept, WorkerEvents
  <1> QED
    BY <1>6, <1>7

LEMMA WorkerRemoveItemKey ==
  ASSUME IndexInv, WorkerRemoveItem, NEW k \in Keys \ excused'
  PROVE  KeyOK(k)'
  <1>1. worker.at = "forget" /\ worker.task.key \in Keys
    BY ShapesParts DEF WorkerRemoveItem, WorkerType, WorkerShape, IndexInv, Task
  <1>2. /\ UNCHANGED <<store, pending, queue, retry, doc, rebuild, excused>>
        /\ worker' = Idle
        /\ item' = [item EXCEPT ![worker.task.key] = 0]
    BY DEF WorkerRemoveItem
  <1>3. worker'.at = "idle"
    BY <1>2 DEF Idle
  <1>4. WorkerEvents(k) /\ TimedKept(k)
    BY <1>2, WorkerStepEvents, EventsKept
  <1>5. item \in [Keys -> Versions]
    BY ShapesParts DEF IndexType, IndexInv
  <1>6. CASE worker.task.key # k
    <2>1. IndexKept(k)
      BY <1>1, <1>2, <1>5, <1>6 DEF IndexKept
    <2> QED
      BY <1>2, <1>3, <1>4, <1>6, <2>1, OtherKey DEF WorkerApart, WorkerOff, WorkerEvents
  <1>7. CASE worker.task.key = k
    <2>1. item'[k] = 0 /\ doc'[k] = doc[k]
      BY <1>1, <1>2, <1>5, <1>7
    <2> QED
      BY <1>1, <1>2, <1>3, <1>4, <1>7, <2>1
         DEF KeyOK, LiveOK, GoneOK, UpdateComes, DeleteComes, WorkerOn, PendingKept, QueueKept,
             TimedKept, WorkerEvents
  <1> QED
    BY <1>6, <1>7

\* A timer that fires puts its update back, or drops it and excuses the key.
LEMMA RetryFiresKey ==
  ASSUME IndexInv, NEW k0 \in Keys, NEW a \in 1 .. IndexMaxRetries, RetryFires(k0, a),
         NEW k \in Keys \ excused'
  PROVE  KeyOK(k)'
  <1> DEFINE t == [event |-> "object.updated", key |-> k0, attempt |-> a]
  <1>1. /\ retry' = [retry EXCEPT ![k0][a] = @ - 1]
        /\ queue' = Append(queue, t) \/ (UNCHANGED queue /\ k0 \in excused')
        /\ UNCHANGED <<store, pending, worker, doc, item, rebuild>>
        /\ excused \subseteq excused'
    BY DEF RetryFires
  <1>2. t \in Task /\ IsUpdate(t, k0) /\ \A x : ~IsDelete(t, x)
    BY Limits DEF Task, IsUpdate, IsDelete
  <1>3. t.key = k0
    OBVIOUS
  <1> HIDE DEF t
  <1>4. EventsType /\ retry \in [Keys -> [1 .. IndexMaxRetries -> Nat]] /\ k \notin excused
    BY <1>1, ShapesParts DEF IndexInv, RetryType
  <1>5. PendingKept(k) /\ IndexKept(k) /\ WorkerApart(k) /\ RebuildOK(k)' /\ KeyOK(k)
    BY <1>1, <1>4, EventsKept, KeyFacts, RebuildKept DEF IndexKept, WorkerApart
  <1>6. CASE k # k0
    <2>1. TimedKept(k)
      <3>1. retry'[k] = retry[k]
        BY <1>1, <1>4, <1>6
      <3> QED
        BY <3>1 DEF TimedKept, UpdateTimed
    <2>2. QueueKept(k)
      <3>1. CASE UNCHANGED queue
        BY <3>1, EventsKept
      <3>2. CASE queue' = Append(queue, t)
        <4>1. ~IsUpdate(t, k)
          BY <1>3, <1>6 DEF IsUpdate
        <4> QED
          BY <1>2, <1>4, <3>2, <4>1, QueueAppended DEF QueueKept
      <3> QED
        BY <1>1, <3>1, <3>2
    <2> QED
      BY <1>1, <1>5, <2>1, <2>2, OtherKey
  <1>7. CASE k = k0
    <2>1. queue' = Append(queue, t)
      BY <1>1, <1>7
    <2>2. UpdateQueued(k)' /\ Followed(k)' /\ (DeleteQueued(k) => DeleteQueued(k)')
      BY <1>2, <1>4, <1>7, <2>1, QueueAppended
    <2> QED
      BY <1>1, <1>5, <2>2
         DEF KeyOK, LiveOK, GoneOK, UpdateComes, DeleteComes, WorkerOn, PendingKept, IndexKept
  <1> QED
    BY <1>6, <1>7

(***************************************************************************)
(* A rebuild's step leaves the events alone.                               *)
(***************************************************************************)
RebuildMoves == UNCHANGED <<store, pending, queue, worker, retry>>

\* A key whose documents a rebuild's step leaves, or sets to what is committed.
LEMMA RebuildStepKey ==
  ASSUME NEW k, KeyOK(k), RebuildMoves, RebuildOK(k)',
         doc'[k] \in {doc[k], store[k]}, item'[k] \in {item[k], 0, store[k]}
  PROVE  KeyOK(k)'
  <1>1. PendingKept(k) /\ QueueKept(k) /\ TimedKept(k)
    BY EventsKept DEF RebuildMoves
  <1> QED
    BY <1>1 DEF RebuildMoves, KeyOK, LiveOK, GoneOK, WorkerOn, UpdateComes, DeleteComes,
                PendingKept, QueueKept, TimedKept

LEMMA RebuildBeginKey ==
  ASSUME IndexInv, RebuildBegin, NEW k \in Keys \ excused'
  PROVE  KeyOK(k)'
  <1>1. k \notin excused /\ RebuildMoves /\ UNCHANGED <<doc, item>> /\ rebuild'.at = "list"
    BY DEF RebuildBegin, RebuildMoves, NoRebuild
  <1>2. RebuildOK(k)'
    BY <1>1 DEF RebuildOK
  <1> QED
    BY <1>1, <1>2, KeyFacts, RebuildStepKey

\* Nothing is claimed of a rebuild that ended.
LEMMA NoRebuildOK == ASSUME NEW k, rebuild' = NoRebuild PROVE RebuildOK(k)'
  BY DEF RebuildOK, NoRebuild

LEMMA RebuildListKey ==
  ASSUME IndexInv, RebuildList, NEW k \in Keys \ excused'
  PROVE  KeyOK(k)'
  <1>1. k \notin excused /\ RebuildMoves /\ UNCHANGED <<doc, item>>
    BY DEF RebuildList, RebuildMoves
  <1>2. RebuildOK(k)'
    <2>1. CASE rebuild' = NoRebuild
      BY <2>1, NoRebuildOK
    <2>2. CASE rebuild' # NoRebuild
      <3> DEFINE listed == {x \in Keys : store[x] # 0}
      <3>1. rebuild' = [rebuild EXCEPT !.at = "load", !.todo = listed, !.valid = listed]
        BY <2>2 DEF RebuildList
      <3>2. rebuild'.at = "load" /\ rebuild'.valid = listed
        BY <3>1, ShapesParts DEF RebuildType, IndexInv
      <3> QED
        BY <1>1, <3>2 DEF RebuildOK, RebuildMoves
    <2> QED
      BY <2>1, <2>2
  <1> QED
    BY <1>1, <1>2, KeyFacts, RebuildStepKey

\* The two outcomes of a rebuild's load.
LEMMA RebuildLoadStep ==
  ASSUME Shapes, RebuildLoad
  PROVE  \E x \in rebuild.todo :
            /\ rebuild.at = "load"
            /\ rebuild'.valid = rebuild.valid
            /\ rebuild'.todo = rebuild.todo \ {x}
            /\ \/ /\ rebuild'.at = "doc" /\ rebuild'.key = x /\ rebuild'.ver = store[x]
                  /\ store[x] # 0 /\ rebuild'.failed = rebuild.failed
               \/ rebuild'.at = "load" /\ rebuild'.failed = 1
  <1> DEFINE k == CHOOSE x \in rebuild.todo : \A y \in rebuild.todo : x <= y
  <1>1. k \in rebuild.todo
    BY NextObject DEF RebuildLoad
  <1>2. \/ /\ store[k] # 0
           /\ rebuild' = [rebuild EXCEPT !.at = "doc", !.key = k, !.ver = store[k],
                                         !.todo = @ \ {k}]
        \/ rebuild' = [rebuild EXCEPT !.failed = 1, !.todo = @ \ {k}]
    BY DEF RebuildLoad
  <1>3. rebuild.at = "load"
    BY DEF RebuildLoad
  <1> HIDE DEF k
  <1> QED
    BY <1>1, <1>2, <1>3, ShapesParts DEF RebuildType

LEMMA RebuildLoadKey ==
  ASSUME IndexInv, RebuildLoad, NEW k \in Keys \ excused'
  PROVE  KeyOK(k)'
  <1>1. k \notin excused /\ RebuildMoves /\ UNCHANGED <<doc, item>>
    BY DEF RebuildLoad, RebuildMoves
  <1>2. RebuildOK(k)'
    <2>1. PICK x \in rebuild.todo :
            /\ rebuild.at = "load"
            /\ rebuild'.valid = rebuild.valid
            /\ \/ rebuild'.at = "doc" /\ rebuild'.key = x /\ rebuild'.ver = store[x]
               \/ rebuild'.at = "load"
      BY RebuildLoadStep DEF IndexInv
    <2>2. RebuildOK(k)
      BY <1>1, KeyFacts
    <2> QED
      BY <1>1, <2>1, <2>2 DEF RebuildOK, RebuildMoves
  <1> QED
    BY <1>1, <1>2, KeyFacts, RebuildStepKey

LEMMA RebuildDocKey ==
  ASSUME IndexInv, RebuildDoc, NEW k \in Keys \ excused'
  PROVE  KeyOK(k)'
  <1>1. /\ RebuildMoves /\ UNCHANGED item /\ excused \subseteq excused'
        /\ rebuild.at = "doc" /\ rebuild' = [rebuild EXCEPT !.at = "item"]
        /\ \/ doc' = [doc EXCEPT ![rebuild.key] = rebuild.ver]
           \/ UNCHANGED doc /\ rebuild.key \in excused'
    BY DEF RebuildDoc, RebuildMoves
  <1>2. /\ rebuild'.at = "item" /\ rebuild'.key = rebuild.key /\ rebuild'.ver = rebuild.ver
        /\ rebuild'.valid = rebuild.valid
        /\ doc \in [Keys -> Versions]
    BY <1>1, ShapesParts DEF RebuildType, IndexType, IndexInv
  <1>3. KeyOK(k) /\ RebuildOK(k)
    BY <1>1, KeyFacts
  <1>4. RebuildOK(k)'
    BY <1>1, <1>2, <1>3 DEF RebuildOK, RebuildMoves
  <1>5. doc'[k] \in {doc[k], store[k]}
    BY <1>1, <1>2, <1>3 DEF RebuildOK
  <1> QED
    BY <1>1, <1>3, <1>4, <1>5, RebuildStepKey

LEMMA RebuildItemKey ==
  ASSUME IndexInv, RebuildItem, NEW k \in Keys \ excused'
  PROVE  KeyOK(k)'
  <1>1. /\ RebuildMoves /\ UNCHANGED doc /\ excused = excused'
        /\ rebuild.at = "item"
        /\ rebuild' = [rebuild EXCEPT !.at = "load", !.key = 0, !.ver = 0]
        /\ item' = [item EXCEPT ![rebuild.key] = rebuild.ver]
    BY DEF RebuildItem, RebuildMoves
  <1>2. /\ rebuild'.at = "load" /\ rebuild'.valid = rebuild.valid
        /\ item \in [Keys -> Versions]
    BY <1>1, ShapesParts DEF RebuildType, IndexType, IndexInv
  <1>3. KeyOK(k) /\ RebuildOK(k)
    BY <1>1, KeyFacts
  <1>4. RebuildOK(k)'
    BY <1>1, <1>2, <1>3 DEF RebuildOK, RebuildMoves
  <1>5. item'[k] \in {item[k], store[k]}
    BY <1>1, <1>2, <1>3 DEF RebuildOK
  <1> QED
    BY <1>1, <1>3, <1>4, <1>5, RebuildStepKey

LEMMA PruneListKey ==
  ASSUME IndexInv, PruneList, NEW k \in Keys \ excused'
  PROVE  KeyOK(k)'
  <1> DEFINE gone == IndexedIDs \ rebuild.valid
  <1>1. /\ RebuildMoves /\ UNCHANGED <<doc, item>> /\ excused = excused' /\ rebuild.at = "load"
        /\ rebuild' = [rebuild EXCEPT !.at = "prune", !.todo = gone, !.valid = gone]
    BY DEF PruneList, RebuildMoves
  <1>2. rebuild'.at = "prune" /\ rebuild'.valid = gone
    BY <1>1, ShapesParts DEF RebuildType, IndexInv
  <1>3. KeyOK(k) /\ RebuildOK(k)
    BY <1>1, KeyFacts
  <1>4. RebuildOK(k)'
    BY <1>1, <1>2, <1>3 DEF RebuildOK, RebuildMoves
  <1> QED
    BY <1>1, <1>3, <1>4, RebuildStepKey

LEMMA PruneDocKey ==
  ASSUME IndexInv, NEW k0 \in Keys, PruneDoc(k0), NEW k \in Keys \ excused'
  PROVE  KeyOK(k)'
  <1>1. /\ RebuildMoves /\ UNCHANGED item /\ excused = excused' /\ rebuild.at = "prune"
        /\ k0 \in rebuild.todo
        /\ \/ rebuild' = NoRebuild /\ UNCHANGED doc
           \/ /\ rebuild' = [rebuild EXCEPT !.todo = @ \ {k0}]
              /\ doc' = [doc EXCEPT ![k0] = 0]
    BY DEF PruneDoc, RebuildMoves
  <1>2. KeyOK(k) /\ RebuildOK(k) /\ doc \in [Keys -> Versions] /\ k0 \in rebuild.valid
    BY <1>1, KeyFacts, ShapesParts DEF IndexInv, IndexType, RebuildType, RebuildShape
  <1>3. RebuildOK(k)'
    <2>1. CASE rebuild' = NoRebuild
      BY <2>1, NoRebuildOK
    <2>2. CASE rebuild' = [rebuild EXCEPT !.todo = @ \ {k0}]
      <3>1. rebuild'.at = "prune" /\ rebuild'.valid = rebuild.valid
        BY <1>1, <2>2, ShapesParts DEF RebuildType, IndexInv
      <3> QED
        BY <1>1, <1>2, <3>1 DEF RebuildOK, RebuildMoves
    <2> QED
      BY <1>1, <2>1, <2>2
  <1>4. doc'[k] \in {doc[k], store[k]}
    BY <1>1, <1>2 DEF RebuildOK
  <1> QED
    BY <1>1, <1>2, <1>3, <1>4, RebuildStepKey

\* With nothing outstanding after a step, what a key needs is that its documents
\* are right.
LEMMA QuietKey ==
  ASSUME NEW k \in Keys, (~Outstanding)', doc'[k] = store'[k], item'[k] \in {0, store'[k]},
         RebuildOK(k)'
  PROVE  KeyOK(k)'
  <1>1. queue' = <<>> /\ worker' = Idle
    BY DEF Outstanding
  <1>2. Followed(k)'
    BY <1>1 DEF Followed
  <1>3. worker'.at = "idle"
    BY <1>1 DEF Idle
  <1> QED
    BY <1>2, <1>3 DEF KeyOK, LiveOK, GoneOK, WorkerOn

LEMMA RebuildFinishKey ==
  ASSUME IndexInv, RebuildFinish, NEW k \in Keys \ excused'
  PROVE  KeyOK(k)'
  <1>1. /\ RebuildMoves /\ UNCHANGED doc /\ rebuild' = NoRebuild
        /\ rebuild.at = "prune" /\ rebuild.todo = {}
        /\ item'[k] = IF k \in rebuild.valid THEN 0 ELSE item[k]
        /\ excused' = IF quiet /\ rebuild.failed = 0 THEN {} ELSE excused
    BY DEF RebuildFinish, RebuildMoves
  <1>2. RebuildOK(k)'
    BY <1>1, NoRebuildOK
  <1>3. CASE quiet /\ rebuild.failed = 0
    <2>1. ~Outstanding /\ QuietPruning
      BY <1>3 DEF IndexInv, QuietOK
    <2>2. (~Outstanding)'
      BY <1>1, <2>1 DEF Outstanding, RebuildMoves
    <2>3. store'[k] = store[k] /\ doc'[k] = store[k] /\ item'[k] \in {0, store[k]}
      BY <1>1, <2>1 DEF QuietPruning, Reached, RebuildMoves
    <2> QED
      BY <1>2, <2>2, <2>3, QuietKey
  <1>4. CASE ~(quiet /\ rebuild.failed = 0)
    <2>1. k \notin excused
      BY <1>1, <1>4
    <2> QED
      BY <1>1, <1>2, <2>1, KeyFacts, RebuildStepKey
  <1> QED
    BY <1>3, <1>4

\* A restart loses what was outstanding of a key only if it excuses it.
LEMMA CrashKey ==
  ASSUME IndexInv, Crash, NEW k \in Keys \ excused'
  PROVE  KeyOK(k)'
  <1>1. /\ UNCHANGED <<store, doc>> /\ item'[k] = 0 /\ rebuild' = NoRebuild
        /\ pending' = [c \in Clients |-> NoTask] /\ queue' = <<>> /\ worker' = Idle
        /\ retry' = [x \in Keys |-> [a \in 1 .. IndexMaxRetries |-> 0]]
        /\ k \notin excused /\ k \notin LostKeys
    BY DEF Crash
  <1>2. worker.task.key # k
    BY <1>1 DEF LostKeys
  <1>3. ~UpdatePending(k) /\ ~DeletePending(k)
    BY <1>1 DEF LostKeys, UpdatePending, DeletePending, IsUpdate, IsDelete
  <1>4. ~UpdateQueued(k) /\ ~DeleteQueued(k)
    BY <1>1 DEF LostKeys, UpdateQueued, DeleteQueued, IsUpdate, IsDelete
  <1>5. ~UpdateTimed(k)
    BY <1>1 DEF LostKeys, UpdateTimed
  <1>6. KeyOK(k)
    BY <1>1, KeyFacts
  <1>7. doc[k] = store[k]
    BY <1>2, <1>3, <1>4, <1>5, <1>6
       DEF KeyOK, LiveOK, GoneOK, UpdateComes, DeleteComes, WorkerOn
  <1>8. (~Outstanding)'
    <2>1. \A x \in Keys, a \in 1 .. IndexMaxRetries : ~(retry'[x][a] > 0)
      BY <1>1
    <2> QED
      BY <1>1, <2>1 DEF Outstanding
  <1>9. RebuildOK(k)'
    BY <1>1, NoRebuildOK
  <1> QED
    BY <1>1, <1>7, <1>8, <1>9, QuietKey

(***************************************************************************)
(* QuietOK: how far a rebuild without concurrent changes has got.          *)
(***************************************************************************)
RebuildRuns == UNCHANGED <<store, pending, queue, worker, retry, quiet>>

\* A quiet rebuild stays quiet when its step changes nothing else, and what it has
\* reached is all there is to show.
LEMMA QuietStep ==
  ASSUME QuietOK, RebuildRuns,
         quiet /\ rebuild'.failed = 0 => QuietLoading' /\ QuietPruning'
  PROVE  QuietOK'
  <1>1. Outstanding' <=> Outstanding
    BY DEF RebuildRuns, Outstanding
  <1> QED
    BY <1>1 DEF QuietOK, RebuildRuns

\* What is outstanding when a step of the worker, a client or a timer is due.
LEMMA OutstandingQuiet ==
  ASSUME QuietOK, Outstanding, UNCHANGED quiet
  PROVE  QuietOK'
  BY DEF QuietOK

LEMMA EventStepsQuiet ==
  ASSUME QuietOK,
         \/ \E c \in Clients : Publish(c)
         \/ WorkerStep
         \/ \E k \in Keys, a \in 1 .. IndexMaxRetries : RetryFires(k, a)
  PROVE  QuietOK'
  <1>1. ASSUME NEW c \in Clients, Publish(c) PROVE Outstanding /\ UNCHANGED quiet
    BY <1>1 DEF Publish, Outstanding
  <1>2. ASSUME WorkerStep PROVE Outstanding /\ UNCHANGED quiet
    <2>1. WorkerTake => queue # <<>> /\ UNCHANGED quiet
      BY DEF WorkerTake
    <2>2. WorkerLoad \/ WorkerDoc \/ WorkerItem \/ WorkerRemoveDoc \/ WorkerRemoveItem =>
             worker # Idle /\ UNCHANGED quiet
      BY DEF WorkerLoad, WorkerDoc, WorkerItem, WorkerRemoveDoc, WorkerRemoveItem, Idle
    <2> QED
      BY <1>2, <2>1, <2>2 DEF WorkerStep, Outstanding
  <1>3. ASSUME NEW k \in Keys, NEW a \in 1 .. IndexMaxRetries, RetryFires(k, a)
        PROVE  Outstanding /\ UNCHANGED quiet
    BY <1>3 DEF RetryFires, Outstanding
  <1> QED
    BY <1>1, <1>2, <1>3, OutstandingQuiet

LEMMA CommitQuiet ==
  ASSUME NEW c, NEW k,
         PutObject(c, k) \/ DeleteObject(c, k) \/ DeleteBucketObject(c, k)
  PROVE  QuietOK'
  BY DEF PutObject, DeleteObject, DeleteBucketObject, Commit, QuietOK

LEMMA RebuildBeginQuiet ==
  ASSUME RebuildBegin
  PROVE  QuietOK'
  <1>1. Outstanding' <=> Outstanding
    BY DEF RebuildBegin, Outstanding
  <1>2. rebuild'.at = "list" /\ (quiet' => ~Outstanding)
    BY DEF RebuildBegin, NoRebuild
  <1> QED
    BY <1>1, <1>2 DEF QuietOK, QuietLoading, QuietPruning

\* Nothing is claimed of a rebuild that ended.
LEMMA EndedQuiet ==
  ASSUME rebuild' = NoRebuild
  PROVE  QuietLoading' /\ QuietPruning'
  BY DEF QuietLoading, QuietPruning, NoRebuild

LEMMA RebuildListQuiet ==
  ASSUME IndexInv, RebuildList
  PROVE  QuietOK'
  <1>1. QuietOK /\ RebuildRuns
    BY DEF IndexInv, RebuildList, RebuildRuns
  <1>2. QuietLoading' /\ QuietPruning'
    <2>1. CASE rebuild' = NoRebuild
      BY <2>1, EndedQuiet
    <2>2. CASE rebuild' # NoRebuild
      <3> DEFINE listed == {x \in Keys : store[x] # 0}
      <3>1. rebuild' = [rebuild EXCEPT !.at = "load", !.todo = listed, !.valid = listed]
        BY <2>2 DEF RebuildList
      <3>2. rebuild'.at = "load" /\ rebuild'.valid = listed /\ rebuild'.todo = listed
        BY <3>1, ShapesParts DEF RebuildType, IndexInv
      <3> QED
        BY <1>1, <3>2 DEF QuietLoading, QuietPruning, RebuildRuns
    <2> QED
      BY <2>1, <2>2
  <1> QED
    BY <1>1, <1>2, QuietStep

\* What a quiet rebuild without failures has reached.
LEMMA QuietFacts ==
  ASSUME IndexInv, quiet, rebuild.failed = 0
  PROVE  QuietLoading /\ QuietPruning
  BY DEF IndexInv, QuietOK

LEMMA RebuildLoadQuiet ==
  ASSUME IndexInv, RebuildLoad
  PROVE  QuietOK'
  <1>1. QuietOK /\ RebuildRuns /\ UNCHANGED <<doc, item>>
    BY DEF IndexInv, RebuildLoad, RebuildRuns
  <1>2. PICK x \in rebuild.todo :
            /\ rebuild.at = "load"
            /\ rebuild'.valid = rebuild.valid
            /\ rebuild'.todo = rebuild.todo \ {x}
            /\ \/ /\ rebuild'.at = "doc" /\ rebuild'.key = x /\ rebuild'.ver = store[x]
                  /\ store[x] # 0 /\ rebuild'.failed = rebuild.failed
               \/ rebuild'.at = "load" /\ rebuild'.failed = 1
    BY RebuildLoadStep DEF IndexInv
  <1>3. ASSUME quiet, rebuild'.failed = 0 PROVE QuietLoading' /\ QuietPruning'
    <2>1. /\ rebuild'.at = "doc" /\ rebuild'.key = x /\ rebuild'.ver = store[x]
          /\ rebuild.failed = 0
      BY <1>2, <1>3
    <2>2. QuietLoading
      BY <1>3, <2>1, QuietFacts
    <2> QED
      BY <1>1, <1>2, <2>1, <2>2 DEF QuietLoading, QuietPruning, RebuildRuns, Reached
  <1> QED
    BY <1>1, <1>3, QuietStep

LEMMA RebuildDocQuiet ==
  ASSUME IndexInv, RebuildDoc
  PROVE  QuietOK'
  <1>1. CASE quiet' = FALSE
    BY <1>1 DEF QuietOK
  <1>2. CASE UNCHANGED quiet /\ doc' = [doc EXCEPT ![rebuild.key] = rebuild.ver]
    <2>1. QuietOK /\ RebuildRuns /\ UNCHANGED item /\ rebuild.at = "doc"
      BY <1>2 DEF IndexInv, RebuildDoc, RebuildRuns
    <2>2. /\ rebuild'.at = "item" /\ rebuild'.key = rebuild.key /\ rebuild'.ver = rebuild.ver
          /\ rebuild'.valid = rebuild.valid /\ rebuild'.todo = rebuild.todo
          /\ rebuild'.failed = rebuild.failed
      BY ShapesParts DEF RebuildDoc, RebuildType, IndexInv
    <2>3. doc \in [Keys -> Versions] /\ rebuild.key \in Keys /\ rebuild.valid \subseteq Keys
      BY <2>1, ShapesParts DEF IndexType, RebuildType, RebuildShape, IndexInv
    <2>4. ASSUME quiet, rebuild'.failed = 0 PROVE QuietLoading' /\ QuietPruning'
      <3>1. QuietLoading
        BY <2>2, <2>4, QuietFacts
      <3> QED
        BY <1>2, <2>1, <2>2, <2>3, <3>1 DEF QuietLoading, QuietPruning, RebuildRuns, Reached
    <2> QED
      BY <2>1, <2>4, QuietStep
  <1> QED
    BY <1>1, <1>2 DEF RebuildDoc

LEMMA RebuildItemQuiet ==
  ASSUME IndexInv, RebuildItem
  PROVE  QuietOK'
  <1>1. /\ QuietOK /\ RebuildRuns /\ UNCHANGED doc /\ rebuild.at = "item"
        /\ item' = [item EXCEPT ![rebuild.key] = rebuild.ver]
    BY DEF IndexInv, RebuildItem, RebuildRuns
  <1>2. /\ rebuild'.at = "load"
        /\ rebuild'.valid = rebuild.valid /\ rebuild'.todo = rebuild.todo
        /\ rebuild'.failed = rebuild.failed
    BY ShapesParts DEF RebuildItem, RebuildType, IndexInv
  <1>3. item \in [Keys -> Versions] /\ rebuild.key \in Keys /\ rebuild.valid \subseteq Keys
    BY <1>1, ShapesParts DEF IndexType, RebuildType, RebuildShape, IndexInv
  <1>4. ASSUME quiet, rebuild'.failed = 0 PROVE QuietLoading' /\ QuietPruning'
    <2>1. QuietLoading
      BY <1>2, <1>4, QuietFacts
    <2> QED
      BY <1>1, <1>2, <1>3, <2>1 DEF QuietLoading, QuietPruning, RebuildRuns, Reached
  <1> QED
    BY <1>1, <1>4, QuietStep

LEMMA PruneListQuiet ==
  ASSUME IndexInv, PruneList
  PROVE  QuietOK'
  <1> DEFINE gone == IndexedIDs \ rebuild.valid
  <1>1. /\ QuietOK /\ RebuildRuns /\ UNCHANGED <<doc, item>>
        /\ rebuild.at = "load" /\ rebuild.todo = {}
    BY DEF IndexInv, PruneList, RebuildRuns
  <1>2. /\ rebuild'.at = "prune" /\ rebuild'.valid = gone /\ rebuild'.todo = gone
        /\ rebuild'.failed = rebuild.failed
    BY ShapesParts DEF PruneList, RebuildType, IndexInv
  <1>3. ASSUME quiet, rebuild'.failed = 0 PROVE QuietLoading' /\ QuietPruning'
    <2>1. QuietLoading
      BY <1>2, <1>3, QuietFacts
    <2> QED
      BY <1>1, <1>2, <2>1 DEF QuietLoading, QuietPruning, RebuildRuns, Reached, IndexedIDs
  <1> QED
    BY <1>1, <1>3, QuietStep

LEMMA PruneDocQuiet ==
  ASSUME IndexInv, NEW k \in Keys, PruneDoc(k)
  PROVE  QuietOK'
  <1>1. /\ QuietOK /\ RebuildRuns /\ UNCHANGED item /\ rebuild.at = "prune"
        /\ k \in rebuild.todo
    BY DEF IndexInv, PruneDoc, RebuildRuns
  <1>2. CASE rebuild' = NoRebuild
    BY <1>1, <1>2, EndedQuiet, QuietStep
  <1>3. CASE rebuild' = [rebuild EXCEPT !.todo = @ \ {k}] /\ doc' = [doc EXCEPT ![k] = 0]
    <2>1. /\ rebuild'.at = "prune"
          /\ rebuild'.valid = rebuild.valid /\ rebuild'.todo = rebuild.todo \ {k}
          /\ rebuild'.failed = rebuild.failed
      BY <1>1, <1>3, ShapesParts DEF RebuildType, IndexInv
    <2>2. doc \in [Keys -> Versions] /\ k \in rebuild.valid
      BY <1>1, ShapesParts DEF IndexType, RebuildType, RebuildShape, IndexInv
    <2>3. ASSUME quiet, rebuild'.failed = 0 PROVE QuietLoading' /\ QuietPruning'
      <3>1. QuietPruning
        BY <2>1, <2>3, QuietFacts
      <3> QED
        BY <1>1, <1>3, <2>1, <2>2, <3>1 DEF QuietLoading, QuietPruning, RebuildRuns, Reached
    <2> QED
      BY <1>1, <2>3, QuietStep
  <1> QED
    BY <1>2, <1>3 DEF PruneDoc

LEMMA RebuildFinishQuiet ==
  ASSUME IndexInv, RebuildFinish
  PROVE  QuietOK'
  BY EndedQuiet, QuietStep DEF IndexInv, RebuildFinish, RebuildRuns

LEMMA CrashQuiet ==
  ASSUME Crash
  PROVE  QuietOK'
  <1>1. (~Outstanding)'
    <2>1. \A x \in Keys, a \in 1 .. IndexMaxRetries : ~(retry'[x][a] > 0)
      BY DEF Crash
    <2> QED
      BY <2>1 DEF Outstanding, Crash
  <1>2. QuietLoading' /\ QuietPruning'
    BY EndedQuiet DEF Crash
  <1> QED
    BY <1>1, <1>2 DEF QuietOK

(***************************************************************************)
(* The invariant, and what it says.                                        *)
(***************************************************************************)
LEMMA InitInv == Init => IndexInv
  <1> SUFFICES ASSUME Init PROVE IndexInv
    OBVIOUS
  <1>1. QuietOK
    BY DEF Init, QuietOK
  <1>2. KeysOK
    <2> SUFFICES ASSUME NEW k \in Keys PROVE KeyOK(k)
      BY DEF KeysOK
    <2>1. /\ store[k] = 0 /\ doc[k] = 0 /\ item[k] = 0 /\ worker.at = "idle"
          /\ rebuild.at = "idle"
      BY DEF Init, Idle, NoRebuild
    <2> QED
      BY <2>1 DEF KeyOK, GoneOK, RebuildOK, WorkerOn
  <1> QED
    BY <1>1, <1>2, InitShapes DEF IndexInv

\* KeysOK after a step is KeyOK of every key that is not excused then.
LEMMA KeysStep ==
  ASSUME Shapes', QuietOK', \A k \in Keys \ excused' : KeyOK(k)'
  PROVE  IndexInv'
  BY DEF IndexInv, KeysOK

LEMMA NextInv == IndexInv /\ [Next]_vars => IndexInv'
  <1> SUFFICES ASSUME IndexInv, [Next]_vars PROVE IndexInv'
    OBVIOUS
  <1>0. Shapes /\ QuietOK
    BY DEF IndexInv
  <1>1. ASSUME NEW c \in Clients, NEW k \in Keys, PutObject(c, k) PROVE IndexInv'
    BY <1>0, <1>1, PutObjectShapes, PutObjectKey, CommitQuiet, KeysStep
  <1>2. ASSUME NEW c \in Clients, NEW k \in Keys, DeleteObject(c, k) PROVE IndexInv'
    BY <1>0, <1>2, DeleteObjectShapes, DeleteObjectKey, CommitQuiet, KeysStep
  <1>3. ASSUME NEW c \in Clients, NEW k \in Keys, DeleteBucketObject(c, k) PROVE IndexInv'
    BY <1>0, <1>3, DeleteBucketObjectShapes, DeleteBucketObjectKey, CommitQuiet, KeysStep
  <1>4. ASSUME NEW c \in Clients, Publish(c) PROVE IndexInv'
    BY <1>0, <1>4, PublishShapes, PublishKey, EventStepsQuiet, KeysStep
  <1>5. ASSUME WorkerStep PROVE IndexInv'
    <2>1. QuietOK'
      BY <1>0, <1>5, EventStepsQuiet
    <2>2. CASE WorkerTake
      BY <1>0, <2>1, <2>2, WorkerTakeShapes, WorkerTakeKey, KeysStep
    <2>3. CASE WorkerLoad
      BY <1>0, <2>1, <2>3, WorkerLoadShapes, WorkerLoadKey, KeysStep
    <2>4. CASE WorkerDoc
      BY <1>0, <2>1, <2>4, WorkerDocShapes, WorkerDocKey, KeysStep
    <2>5. CASE WorkerItem
      BY <1>0, <2>1, <2>5, WorkerItemShapes, WorkerItemKey, KeysStep
    <2>6. CASE WorkerRemoveDoc
      BY <1>0, <2>1, <2>6, WorkerRemoveDocShapes, WorkerRemoveDocKey, KeysStep
    <2>7. CASE WorkerRemoveItem
      BY <1>0, <2>1, <2>7, WorkerRemoveItemShapes, WorkerRemoveItemKey, KeysStep
    <2> QED
      BY <1>5, <2>2, <2>3, <2>4, <2>5, <2>6, <2>7 DEF WorkerStep
  <1>6. ASSUME NEW k \in Keys, NEW a \in 1 .. IndexMaxRetries, RetryFires(k, a)
        PROVE  IndexInv'
    BY <1>0, <1>6, RetryFiresShapes, RetryFiresKey, EventStepsQuiet, KeysStep
  <1>7. CASE RebuildBegin
    BY <1>0, <1>7, RebuildBeginShapes, RebuildBeginKey, RebuildBeginQuiet, KeysStep
  <1>8. CASE RebuildList
    BY <1>0, <1>8, RebuildListShapes, RebuildListKey, RebuildListQuiet, KeysStep
  <1>9. CASE RebuildLoad
    BY <1>0, <1>9, RebuildLoadShapes, RebuildLoadKey, RebuildLoadQuiet, KeysStep
  <1>10. CASE RebuildDoc
    BY <1>0, <1>10, RebuildDocShapes, RebuildDocKey, RebuildDocQuiet, KeysStep
  <1>11. CASE RebuildItem
    BY <1>0, <1>11, RebuildItemShapes, RebuildItemKey, RebuildItemQuiet, KeysStep
  <1>12. CASE PruneList
    BY <1>0, <1>12, PruneListShapes, PruneListKey, PruneListQuiet, KeysStep
  <1>13. ASSUME NEW k \in Keys, PruneDoc(k) PROVE IndexInv'
    BY <1>0, <1>13, PruneDocShapes, PruneDocKey, PruneDocQuiet, KeysStep
  <1>14. CASE RebuildFinish
    BY <1>0, <1>14, RebuildFinishShapes, RebuildFinishKey, RebuildFinishQuiet, KeysStep
  <1>15. CASE Crash
    BY <1>0, <1>15, CrashShapes, CrashKey, CrashQuiet, KeysStep
  <1>16. CASE UNCHANGED vars
    <2>1. UNCHANGED <<store, pending, queue, worker, retry, doc, item, rebuild, excused, quiet>>
      BY <1>16 DEF vars
    <2>2. Shapes'
      BY <1>0, <1>16, ShapesParts, PartsKept DEF vars, bounds
    <2>3. ASSUME NEW k \in Keys \ excused' PROVE KeyOK(k)'
      BY <2>1, KeyFacts, RebuildKept, EventsKept, OtherKey DEF WorkerApart, IndexKept
    <2>4. QuietOK'
      BY <1>0, <2>1 DEF QuietOK, QuietLoading, QuietPruning, Reached, Outstanding
    <2> QED
      BY <2>2, <2>3, <2>4, KeysStep
  <1> QED
    BY <1>1, <1>2, <1>3, <1>4, <1>5, <1>6, <1>7, <1>8, <1>9, <1>10, <1>11, <1>12, <1>13,
       <1>14, <1>15, <1>16 DEF Next, RebuildStep

\* The inductive invariant: of every key that is not excused, which event is still to
\* come wherever the index is not yet right, and how far a quiet rebuild has got.
THEOREM IndexInvariant == Spec => []IndexInv
  BY InitInv, NextInv, PTL DEF Spec

\* Types of the queue, the worker, the timers, the index and the rebuild
\* (object/indexer.go, object/index_rebuild.go), for every queue and retry limit.
THEOREM IndexTypes == Spec => []IndexingTypeOK
  <1>1. IndexInv => IndexingTypeOK
    BY DEF IndexInv, Shapes
  <1> QED
    BY <1>1, IndexInvariant, PTL

\* Once nothing is outstanding the index describes the committed version of every key
\* that is not excused: publishObjectEvent, the worker, its retries, a rebuild beside
\* them and restarts, in any order.
THEOREM IndexConverges == Spec => []IndexAgrees
  <1>1. IndexInv => IndexAgrees
    <2> SUFFICES ASSUME IndexInv, ~Outstanding, NEW k \in Keys \ excused
                 PROVE  doc[k] = store[k] /\ item[k] \in {0, store[k]}
      BY DEF IndexAgrees
    <2>1. KeyOK(k) /\ worker.at = "idle"
      BY KeyFacts DEF Outstanding, Idle
    <2>2. pending \in [Clients -> Task \cup {NoTask}]
      BY ShapesParts DEF IndexInv, EventsType
    <2>3. ~UpdatePending(k) /\ ~DeletePending(k)
      BY <2>2 DEF Outstanding, UpdatePending, DeletePending, IsUpdate, IsDelete, NoTask
    <2>4. ~UpdateQueued(k) /\ ~DeleteQueued(k)
      BY DEF Outstanding, UpdateQueued, DeleteQueued
    <2>5. ~UpdateTimed(k)
      BY DEF Outstanding, UpdateTimed
    <2> QED
      BY <2>1, <2>3, <2>4, <2>5 DEF KeyOK, LiveOK, GoneOK, UpdateComes, DeleteComes, WorkerOn
  <1> QED
    BY <1>1, IndexInvariant, PTL

\* A rebuild that ran without concurrent changes and without failures leaves exactly
\* the committed objects in the documents and in the map (RebuildIndex, PruneExcept).
THEOREM QuietRebuild == Spec => QuietRebuildReconciles
  <1>1. ASSUME IndexInv, RebuildFinish, quiet, rebuild.failed = 0, NEW k \in Keys
        PROVE  doc'[k] = store[k] /\ item'[k] = store[k]
    <2>1. QuietPruning /\ rebuild.at = "prune" /\ rebuild.todo = {}
      BY <1>1, QuietFacts DEF RebuildFinish
    <2>2. doc' = doc /\ item'[k] = IF k \in rebuild.valid THEN 0 ELSE item[k]
      BY <1>1 DEF RebuildFinish
    <2> QED
      BY <2>1, <2>2 DEF QuietPruning, Reached
  <1>2. IndexInv /\ [Next]_vars =>
           [RebuildFinish /\ quiet /\ rebuild.failed = 0 =>
               \A k \in Keys : doc'[k] = store[k] /\ item'[k] = store[k]]_vars
    BY <1>1
  <1> QED
    BY <1>2, IndexInvariant, PTL DEF Spec, QuietRebuildReconciles
===============================================================================
