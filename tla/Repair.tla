-------------------------------- MODULE Repair --------------------------------
(***************************************************************************)
(* The repair service of one server (internal/repair, internal/scheduler): *)
(* a gocron job that only runs on the Raft leader, an initial run at       *)
(* start-up and manual runs over HTTP share one Runtime.  A run scans the  *)
(* buckets in order, checks every object, scrubs the healthy ones and      *)
(* repairs the damaged ones with retries, up to RepairMaxBatch attempts;   *)
(* status, progress, history and issues are kept in memory.                *)
(*                                                                         *)
(* An object is an index into Layout, which lists each bucket's objects in *)
(* scan order.  Its health is what CheckHealth, ScrubObject and            *)
(* RepairObject find: "ok", "damaged" (recoverable), "bad" (too few shards *)
(* left, or healthy shards and a wrong checksum) or "gone" (deleted).  An  *)
(* issue is kept as the object it is about: its kind and reason are text.  *)
(* An object in Stubborn cannot be repaired as long as the cluster stays   *)
(* as it is, for instance because its shards' node is down.                *)
(***************************************************************************)
EXTENDS Integers, Sequences, FiniteSets

CONSTANTS
    Layout,             \* Layout[b] is the sequence of objects of bucket b
    Objects,
    Stubborn,
    Runners,            \* "cron", "boot" and "admin"
    RepairMaxBatch,
    RepairMaxRetries,
    MaxHistory,         \* maxRepairHistory
    MaxIssues,          \* maxRepairIssues
    MaxManual,          \* manual runs per behaviour
    MaxFaults           \* damages, failing calls and cancelled contexts

ASSUME RepairAssumption ==
    /\ Layout \in Seq(Seq(Objects))
    /\ Stubborn \subseteq Objects
    /\ Runners \subseteq {"cron", "boot", "admin"}
    /\ {RepairMaxBatch, MaxHistory, MaxIssues} \subseteq Nat \ {0}
    /\ {RepairMaxRetries, MaxManual, MaxFaults} \subseteq Nat

VARIABLES
    health,       \* [Objects -> ...]
    leader,       \* whether this server leads the Raft group
    booted,       \* whether startInitialRepair has been called
    pc,           \* where each runner is
    scan,         \* the locals of each runner's run
    running, lastRun, progress, lastTrigger,   \* Runtime.status, lastTrigger
    history,      \* Runtime.history, newest first
    issues,       \* Runtime.issues, from run ids to recorded issues
    manual, faults

status == <<running, lastRun, progress>>
vars == <<health, leader, booted, pc, scan, status, lastTrigger, history,
          issues, manual, faults>>

None == 0
NoScan == [id |-> None, scope |-> 0, bucket |-> 0, todo |-> {}, tries |-> 0,
           attempts |-> 0, limited |-> FALSE, found |-> {}, cancelled |-> FALSE,
           err |-> FALSE]

Init ==
    /\ health \in [Objects -> {"ok", "damaged"}]
    /\ leader \in BOOLEAN
    /\ booted = FALSE
    /\ pc = [r \in Runners |-> "idle"]
    /\ scan = [r \in Runners |-> NoScan]
    /\ running = FALSE
    /\ lastRun = None
    /\ progress = None
    /\ lastTrigger = "manual"
    /\ history = <<>>
    /\ issues = [id \in {} |-> {}]
    /\ manual = 0
    /\ faults = 0

Fault == faults < MaxFaults /\ faults' = faults + 1

(* The elector asks the Raft runtime: AssertLeader. *)
IsLeader == leader

(***************************************************************************)
(* The environment: shards are damaged, objects are lost or deleted, and   *)
(* leadership comes and goes.                                              *)
(***************************************************************************)
Damage(o, h) ==
    /\ Fault
    /\ health[o] \in {"ok", "damaged"}
    /\ health' = [health EXCEPT ![o] = h]
    /\ UNCHANGED <<leader, booted, pc, scan, status, lastTrigger, history,
                   issues, manual>>

LeadershipChanges ==
    /\ leader' = ~leader
    /\ UNCHANGED <<health, booted, pc, scan, status, lastTrigger, history,
                   issues, manual, faults>>

(***************************************************************************)
(* Runs begin.  runScheduled and startInitialRepair need leadership, which *)
(* is checked once, and say "scheduled"; RunOnceWithScope says "manual"    *)
(* whoever called it, and takes a run id before it knows whether it may    *)
(* start.                                                                  *)
(***************************************************************************)
Scheduled(r) ==
    /\ r \in {"cron", "boot"}
    /\ pc[r] = "idle"
    /\ IsLeader
    /\ r = "boot" => ~booted
    /\ booted' = (booted \/ r = "boot")
    /\ lastTrigger' = "scheduled"
    /\ pc' = [pc EXCEPT ![r] = "asked"]
    /\ UNCHANGED <<health, leader, scan, status, history, issues, manual, faults>>

(* handleRepairRun, with an optional bucket. *)
Manual(b) ==
    /\ pc["admin"] = "idle"
    /\ manual < MaxManual
    /\ manual' = manual + 1
    /\ pc' = [pc EXCEPT !["admin"] = "asked"]
    /\ scan' = [scan EXCEPT !["admin"].scope = b]
    /\ UNCHANGED <<health, leader, booted, status, lastTrigger, history, issues,
                   faults>>

SetManualTrigger(r) ==
    /\ pc[r] = "asked"
    /\ lastTrigger' = "manual"
    /\ pc' = [pc EXCEPT ![r] = "named"]
    /\ UNCHANGED <<health, leader, booted, scan, status, history, issues, manual,
                   faults>>

(***************************************************************************)
(* newRunID: the code counts and never repeats; ids are only compared, so  *)
(* the model takes an id that nothing refers to any more.                  *)
(***************************************************************************)
RunIDs == 1 .. MaxHistory + Cardinality(Runners) + 1

Ids(h) == {h[i].id : i \in DOMAIN h}

newRunID ==
    CHOOSE id \in RunIDs :
       id \notin Ids(history) \cup {lastRun} \cup {scan[r].id : r \in Runners}

\* Mutant: the running flag is not tested.
tryMarkStartedAlways(r) ==
    /\ pc[r] = "named"
    /\ running' = TRUE
    /\ lastRun' = newRunID
    /\ progress' = newRunID
    /\ pc' = [pc EXCEPT ![r] = "scan"]
    /\ scan' = [scan EXCEPT ![r].id = newRunID]
    /\ UNCHANGED <<health, leader, booted, lastTrigger, history, issues,
                   manual, faults>>

(* tryMarkStarted: single flight, or ErrRepairAlreadyRunning. *)
tryMarkStarted(r) ==
    /\ pc[r] = "named"
    /\ IF running
         THEN /\ pc' = [pc EXCEPT ![r] = "idle"]
              /\ scan' = [scan EXCEPT ![r] = NoScan]
              /\ UNCHANGED status
         ELSE /\ running' = TRUE
              /\ lastRun' = newRunID
              /\ progress' = newRunID
              /\ pc' = [pc EXCEPT ![r] = "scan"]
              /\ scan' = [scan EXCEPT ![r].id = newRunID]
    /\ UNCHANGED <<health, leader, booted, lastTrigger, history, issues, manual,
                   faults>>

(* setProgress: ignored unless it comes from the run in progress. *)
setProgress(r) ==
    /\ progress' = IF running /\ lastRun = scan[r].id THEN scan[r].id ELSE progress
    /\ UNCHANGED <<running, lastRun>>

(* addIssue: no more than maxRepairIssues. *)
addIssue(s, o) ==
    IF Cardinality(s.found) >= MaxIssues THEN s
    ELSE [s EXCEPT !.found = @ \cup {o}]

(***************************************************************************)
(* scanBucket: the next bucket in scope is listed; a listing that fails is *)
(* counted and skipped.                                                    *)
(***************************************************************************)
NextBucket(s) ==
    CHOOSE b \in s.bucket + 1 .. Len(Layout) :
       /\ s.scope \in {0, b}
       /\ \A c \in s.bucket + 1 .. b - 1 : s.scope \notin {0, c}

(* What is listed and not yet looked at are positions in the bucket; the    *)
(* scan takes them in order.                                               *)
FirstOf(S) == CHOOSE i \in S : \A j \in S : i <= j
Current(s) == Layout[s.bucket][FirstOf(s.todo)]
Others(s) == s.todo \ {FirstOf(s.todo)}

HasBucket(s) == \E b \in s.bucket + 1 .. Len(Layout) : s.scope \in {0, b}

ScanBucket(r) ==
    LET s == scan[r]
        b == NextBucket(s)
        listed == {i \in DOMAIN Layout[b] : health[Layout[b][i]] # "gone"}
    IN
    /\ pc[r] = "scan"
    /\ s.todo = {}
    /\ ~s.limited
    /\ ~s.cancelled
    /\ HasBucket(s)
    /\ \/ /\ scan' = [scan EXCEPT ![r].bucket = b, ![r].todo = listed]
          /\ UNCHANGED faults
       \/ /\ Fault
          /\ scan' = [scan EXCEPT ![r].bucket = b]
    /\ setProgress(r)
    /\ UNCHANGED <<health, leader, booted, pc, lastTrigger, history, issues, manual>>

\* Mutant: the batch is used up one attempt too early.
shouldStopRepairEarly(s) == s.attempts + 1 >= RepairMaxBatch

shouldStopRepair(s) == s.attempts >= RepairMaxBatch

(* The batch is used up: the run ends as limited. *)
StopLimited(r) ==
    LET s == scan[r] IN
    /\ pc[r] = "scan"
    /\ s.todo # {}
    /\ s.tries = 0
    /\ shouldStopRepair(s)
    /\ scan' = [scan EXCEPT ![r].limited = TRUE, ![r].todo = {}]
    /\ setProgress(r)
    /\ UNCHANGED <<health, leader, booted, pc, lastTrigger, history, issues,
                   manual, faults>>

(* scrubHealthyObject: a scrub that fails, or finds the data bad though    *)
(* every shard is there, adds an issue; either way the scan moves on.      *)
scrubHealthyObject(r, o) ==
    \/ /\ health[o] = "ok"
       /\ scan' = [scan EXCEPT ![r].todo = Others(scan[r])]
       /\ UNCHANGED faults
    \/ /\ IF health[o] = "bad" THEN UNCHANGED faults ELSE Fault
       /\ scan' = [scan EXCEPT ![r] = [addIssue(scan[r], o) EXCEPT !.todo = Others(scan[r])]]

(* repairObject, up to the first attempt at a repair: CheckHealth finds    *)
(* every shard, fails or finds too few of them, or finds what can be       *)
(* repaired.                                                               *)
CheckObject(r) ==
    LET s == scan[r]
        o == Current(s)
    IN
    /\ pc[r] = "scan"
    /\ s.todo # {}
    /\ s.tries = 0
    /\ ~s.cancelled
    /\ ~shouldStopRepair(s)
    /\ \/ health[o] \in {"ok", "bad"} /\ scrubHealthyObject(r, o)
       \/ /\ IF health[o] \in {"gone", "bad"} THEN UNCHANGED faults ELSE Fault
          /\ scan' = [scan EXCEPT ![r] = [addIssue(s, o) EXCEPT !.todo = Others(s)]]
       \/ /\ health[o] = "damaged"                 \* limiter.Wait, RepairAttempts++
          /\ scan' = [scan EXCEPT ![r].tries = RepairMaxRetries + 1,
                                  ![r].attempts = @ + 1]
          /\ UNCHANGED faults
    /\ setProgress(r)
    /\ UNCHANGED <<health, leader, booted, pc, lastTrigger, history, issues, manual>>

(* repairObjectWithRetry: RepairObject succeeds, or fails and is tried     *)
(* again until the retries are used up and an issue is added.              *)
RepairFailed(s, o) ==
    IF s.tries > 1 /\ ~s.cancelled THEN [s EXCEPT !.tries = @ - 1]
    ELSE [addIssue(s, o) EXCEPT !.todo = Others(s), !.tries = 0]

RepairTry(r) ==
    LET s == scan[r]
        o == Current(s)
    IN
    /\ pc[r] = "scan"
    /\ s.tries > 0
    /\ \/ /\ health[o] \in {"ok", "bad", "damaged"}
          /\ health[o] = "damaged" => o \notin Stubborn
          /\ health' = [health EXCEPT ![o] = IF @ = "damaged" THEN "ok" ELSE @]
          /\ scan' = [scan EXCEPT ![r].todo = Others(s), ![r].tries = 0]
          /\ UNCHANGED faults
       \/ /\ IF health[o] \in {"gone", "bad"} \/ o \in Stubborn \/ s.cancelled
               THEN UNCHANGED faults
               ELSE Fault
          /\ scan' = [scan EXCEPT ![r] = RepairFailed(s, o)]
          /\ UNCHANGED health
    /\ setProgress(r)
    /\ UNCHANGED <<leader, booted, pc, lastTrigger, history, issues, manual>>

(***************************************************************************)
(* The run's context is cancelled.  Nobody notices before the next test of *)
(* ctx.Err(), at a bucket or at an object, which ends the run with an      *)
(* error; a retry is given up, and recorded, at once.                      *)
(***************************************************************************)
Cancel(r) ==
    /\ pc[r] = "scan"
    /\ ~scan[r].cancelled
    /\ Fault
    /\ scan' = [scan EXCEPT ![r].cancelled = TRUE]
    /\ UNCHANGED <<health, leader, booted, pc, status, lastTrigger, history,
                   issues, manual>>

ContextDone(r) ==
    LET s == scan[r] IN
    /\ pc[r] = "scan"
    /\ s.cancelled
    /\ s.tries = 0
    /\ IF s.todo = {} THEN ~s.limited /\ HasBucket(s) ELSE ~shouldStopRepair(s)
    /\ scan' = [scan EXCEPT ![r].err = TRUE, ![r].todo = {}]
    /\ pc' = [pc EXCEPT ![r] = "finish"]
    /\ UNCHANGED <<health, leader, booted, status, lastTrigger, history, issues,
                   manual, faults>>

(* resolveBuckets: ListBuckets fails, and so does a run over all buckets.  *)
ListBucketsFails(r) ==
    LET s == scan[r] IN
    /\ pc[r] = "scan"
    /\ s.scope = 0 /\ s.bucket = 0
    /\ Fault
    /\ scan' = [scan EXCEPT ![r].err = TRUE]
    /\ pc' = [pc EXCEPT ![r] = "finish"]
    /\ UNCHANGED <<health, leader, booted, status, lastTrigger, history, issues,
                   manual>>

ScanDone(r) ==
    LET s == scan[r] IN
    /\ pc[r] = "scan"
    /\ s.todo = {}
    /\ s.limited \/ ~HasBucket(s)
    /\ pc' = [pc EXCEPT ![r] = "finish"]
    /\ UNCHANGED <<health, leader, booted, scan, status, lastTrigger, history,
                   issues, manual, faults>>

(***************************************************************************)
(* markFinished and recordRun: newest first, the oldest record falls off   *)
(* with its issues.                                                        *)
(***************************************************************************)
Record(r) ==
    [id |-> scan[r].id, trigger |-> lastTrigger,
     count |-> Cardinality(scan[r].found)]

\* Mutant: the issues of a record that falls off are kept.
recordRunKeepsIssues(r) ==
    LET h == <<Record(r)>> \o history IN
    /\ history' = SubSeq(h, 1, IF Len(h) > MaxHistory THEN MaxHistory ELSE Len(h))
    /\ issues' = [id \in DOMAIN issues \cup {scan[r].id} |->
                    IF id = scan[r].id THEN scan[r].found ELSE issues[id]]

recordRun(r) ==
    LET h == <<Record(r)>> \o history IN
    /\ history' = SubSeq(h, 1, IF Len(h) > MaxHistory THEN MaxHistory ELSE Len(h))
    /\ issues' = [id \in Ids(history') |->
                    IF id = scan[r].id THEN scan[r].found ELSE issues[id]]

markFinished(r) ==
    /\ pc[r] = "finish"
    /\ running' = FALSE
    /\ lastRun' = scan[r].id
    /\ progress' = None
    /\ recordRun(r)
    /\ pc' = [pc EXCEPT ![r] = "idle"]
    /\ scan' = [scan EXCEPT ![r] = NoScan]
    /\ UNCHANGED <<health, leader, booted, lastTrigger, manual, faults>>

Step(r) ==
    \/ SetManualTrigger(r)
    \/ tryMarkStarted(r)
    \/ ScanBucket(r)
    \/ StopLimited(r)
    \/ CheckObject(r)
    \/ RepairTry(r)
    \/ ContextDone(r)
    \/ ScanDone(r)
    \/ markFinished(r)

Next ==
    \/ \E o \in Objects, h \in {"damaged", "bad", "gone"} : Damage(o, h)
    \/ LeadershipChanges
    \/ \E r \in Runners : Scheduled(r) \/ Step(r) \/ Cancel(r) \/ ListBucketsFails(r)
    \/ "admin" \in Runners /\ \E b \in 0 .. Len(Layout) : Manual(b)

Spec == Init /\ [][Next]_vars

(* Goroutines run, and the job's timer fires on a server that leads again  *)
(* and again.                                                              *)
FairSpec ==
    /\ Spec
    /\ \A r \in Runners : WF_vars(Step(r))
    /\ SF_vars(Scheduled("cron"))

-----------------------------------------------------------------------------
(* HistoryConsistent: every recorded run appears once, has issues to page  *)
(* through exactly as long as its record is kept, and the record's count   *)
(* is theirs.                                                              *)
HistoryConsistent ==
    /\ \A i, j \in DOMAIN history : history[i].id = history[j].id => i = j
    /\ DOMAIN issues = Ids(history)
    /\ \A i \in DOMAIN history :
          history[i].count = Cardinality(issues[history[i].id])

Scans == [id : {None} \cup RunIDs, scope : 0 .. Len(Layout), bucket : 0 .. Len(Layout),
          todo : SUBSET Nat, tries : 0 .. RepairMaxRetries + 1,
          attempts : 0 .. RepairMaxBatch, limited : BOOLEAN, found : SUBSET Objects,
          cancelled : BOOLEAN, err : BOOLEAN]

(* Type correctness of the scans and of what the runtime keeps; the number *)
(* of repair attempts never exceeds the batch.                             *)
RepairTypeOK ==
    /\ health \in [Objects -> {"ok", "damaged", "bad", "gone"}]
    /\ leader \in BOOLEAN /\ booted \in BOOLEAN
    /\ pc \in [Runners -> {"idle", "asked", "named", "scan", "finish"}]
    /\ scan \in [Runners -> Scans]
    /\ \A r \in Runners :
          /\ scan[r].todo # {} => scan[r].bucket # 0
          /\ scan[r].todo # {} => scan[r].todo \subseteq DOMAIN Layout[scan[r].bucket]
          /\ Cardinality(scan[r].found) <= MaxIssues
    /\ running \in BOOLEAN
    /\ {lastRun, progress} \subseteq {None} \cup RunIDs
    /\ manual \in 0 .. MaxManual /\ faults \in 0 .. MaxFaults
    /\ lastTrigger \in {"manual", "scheduled"}
    /\ Len(history) <= MaxHistory
    /\ HistoryConsistent

(* SingleFlight: at most one run scans at a time, whichever of the job,    *)
(* the initial run and manual requests come together; the running flag,    *)
(* the last run id and the progress are that run's, and there is no        *)
(* progress without a run.                                                 *)
SingleFlight ==
    LET active == {r \in Runners : pc[r] \in {"scan", "finish"}} IN
    /\ Cardinality(active) <= 1
    /\ running <=> active # {}
    /\ \A r \in active : lastRun = scan[r].id /\ progress = scan[r].id
    /\ ~running => progress = None

(* Starved(o): RepairMaxBatch objects that come before o in the scan order *)
(* are damaged and cannot be repaired.                                     *)
Before(o) ==
    {p \in Objects :
       \E b, c \in DOMAIN Layout :
          \E i \in DOMAIN Layout[b], j \in DOMAIN Layout[c] :
             /\ Layout[b][i] = p
             /\ Layout[c][j] = o
             /\ b < c \/ (b = c /\ i < j)}

Starved(o) ==
    Cardinality({p \in Before(o) \cap Stubborn : health[p] = "damaged"})
       >= RepairMaxBatch

(* DamageRepaired: on a server that keeps becoming leader, a damaged       *)
(* object that can be repaired is repaired in the end, unless unrepairable *)
(* objects before it use up every run's batch.                             *)
DamageRepaired ==
    []<>leader =>
       \A o \in Objects \ Stubborn : []<>(health[o] # "damaged" \/ Starved(o))

=============================================================================
