----------------------------- MODULE RepairProofs -----------------------------
(***************************************************************************)
(* The repair service for any layout, runners, batch, retries, history and *)
(* faults: its types, with the consistency of the run history, and single  *)
(* flight.  They rest on RepairInv: the run that has started is the only   *)
(* one, it is the one the status tells of, and its id is new to the        *)
(* history.                                                                *)
(***************************************************************************)
EXTENDS Repair, FiniteSetTheorems, TLAPS

Active(r) == pc[r] \in {"scan", "finish"}

(* The status is that of the run that has started. *)
StatusOK ==
    /\ \A r \in Runners : Active(r) => running /\ lastRun = scan[r].id /\ progress = scan[r].id
    /\ running => \E r \in Runners : Active(r)
    /\ ~running => progress = None

OneActive == \A r, q \in Runners : Active(r) /\ Active(q) => r = q

(* Only a run that has started has an id, which no record has. *)
IdsOK ==
    \A r \in Runners :
       /\ Active(r) => scan[r].id # None /\ scan[r].id \notin Ids(history)
       /\ ~Active(r) => scan[r].id = None

(* A repair is tried again on an object that is listed. *)
ScansOK ==
    \A r \in Runners :
       /\ scan[r].tries > 0 => scan[r].todo # {}
       /\ IsFiniteSet(scan[r].found)

HistoryOK ==
    /\ history \in Seq([id : RunIDs, trigger : {"manual", "scheduled"}, count : Nat])
    /\ Len(history) <= MaxHistory
    /\ HistoryConsistent

RepairInv ==
    /\ RepairTypeOK
    /\ StatusOK
    /\ OneActive
    /\ IdsOK
    /\ ScansOK
    /\ HistoryOK

(***************************************************************************)
(* Helpers                                                                 *)
(***************************************************************************)
\* A finite set of numbers that is not empty has a least member: the next
\* position of a scan exists.
LEMMA LeastExists ==
  ASSUME NEW T, T \subseteq Nat, IsFiniteSet(T), T # {}
  PROVE  \E x \in T : \A y \in T : x <= y
  <1> DEFINE upTo(x) == {y \in T : y <= x}
             family == {upTo(x) : x \in T}
  <1>1. IsWellFoundedOn(StrictSubsetOrdering(T), SUBSET T)
    <2>1. FiniteSubsetsOf(T) = SUBSET T
      BY FS_FiniteSubsetsOfFinite
    <2>2. IsWellFoundedOn(StrictSubsetOrdering(T), FiniteSubsetsOf(T))
      BY FS_StrictSubsetOrderingWellFounded
    <2> QED
      BY <2>1, <2>2
  <1>2. family \subseteq SUBSET T /\ family # {}
    OBVIOUS
  <1>3. PICK s \in family : \A t \in family : ~(<<t, s>> \in StrictSubsetOrdering(T))
    BY <1>1, <1>2, WFMin
  <1>4. PICK x \in T : s = upTo(x)
    OBVIOUS
  <1>5. ASSUME NEW y \in T, y < x
        PROVE  FALSE
    <2>1. upTo(y) \in family
      OBVIOUS
    <2> x \in Int /\ y \in Int /\ \A z \in T : z \in Int
      OBVIOUS
    <2>2. upTo(y) \subseteq upTo(x) /\ x \in upTo(x) /\ x \notin upTo(y)
      <3>1. \A z \in T : z <= y => z <= x
        BY <1>5
      <3>2. x <= x /\ ~(x <= y)
        BY <1>5
      <3> QED
        BY <3>1, <3>2
    <2>3. <<upTo(y), upTo(x)>> \in StrictSubsetOrdering(T)
      BY <2>2 DEF StrictSubsetOrdering
    <2> QED
      BY <1>3, <1>4, <2>1, <2>3
  <1>6. \A y \in T : x <= y
    BY <1>5
  <1> QED
    BY <1>6

\* ... and CHOOSE takes it.
LEMMA LeastMember ==
  ASSUME NEW T, T \subseteq Nat, IsFiniteSet(T), T # {}
  PROVE  /\ (CHOOSE x \in T : \A y \in T : x <= y) \in T
         /\ \A z \in T : (CHOOSE x \in T : \A y \in T : x <= y) <= z
  BY LeastExists

\* Sizes and limits are numbers.
LEMMA Limits ==
  /\ RepairMaxBatch \in Nat /\ RepairMaxBatch > 0
  /\ MaxHistory \in Nat /\ MaxHistory > 0
  /\ MaxIssues \in Nat /\ MaxIssues > 0
  /\ RepairMaxRetries \in Nat /\ MaxManual \in Nat /\ MaxFaults \in Nat
  /\ Len(Layout) \in Nat /\ DOMAIN Layout = 1 .. Len(Layout)
  /\ \A b \in 1 .. Len(Layout) : Layout[b] \in Seq(Objects)
  <1>1. Layout \in Seq(Seq(Objects))
    BY RepairAssumption
  <1>2. Len(Layout) \in Nat /\ DOMAIN Layout = 1 .. Len(Layout)
    BY <1>1
  <1>3. \A b \in 1 .. Len(Layout) : Layout[b] \in Seq(Objects)
    BY <1>1
  <1>4. /\ RepairMaxBatch \in Nat \ {0} /\ MaxHistory \in Nat \ {0} /\ MaxIssues \in Nat \ {0}
        /\ RepairMaxRetries \in Nat /\ MaxManual \in Nat /\ MaxFaults \in Nat
    BY RepairAssumption, Zenon
  <1> QED
    BY <1>2, <1>3, <1>4

\* There are finitely many runners.
LEMMA RunnersFinite == IsFiniteSet(Runners)
  <1>1. IsFiniteSet({"cron", "boot", "admin"})
    <2>1. IsFiniteSet({"cron"} \cup {"boot"})
      BY FS_Singleton, FS_AddElement
    <2>2. IsFiniteSet(({"cron"} \cup {"boot"}) \cup {"admin"})
      BY <2>1, FS_AddElement
    <2>3. ({"cron"} \cup {"boot"}) \cup {"admin"} = {"cron", "boot", "admin"}
      OBVIOUS
    <2> QED
      BY <2>2, <2>3
  <1>2. Runners \in SUBSET {"cron", "boot", "admin"}
    BY RepairAssumption
  <1> QED
    BY <1>1, <1>2, FS_Subset

(* What is around the runs. *)
EnvType ==
    /\ health \in [Objects -> {"ok", "damaged", "bad", "gone"}]
    /\ leader \in BOOLEAN
    /\ booted \in BOOLEAN
    /\ manual \in 0 .. MaxManual
    /\ faults \in 0 .. MaxFaults
    /\ lastTrigger \in {"manual", "scheduled"}

(* The locals of one run. *)
GoodScan(s) ==
    /\ s \in Scans
    /\ s.todo # {} => s.bucket # 0 /\ s.todo \subseteq DOMAIN Layout[s.bucket]
    /\ s.tries > 0 => s.todo # {}
    /\ IsFiniteSet(s.found) /\ Cardinality(s.found) <= MaxIssues

PCs == {"idle", "asked", "named", "scan", "finish"}

RunsType ==
    /\ pc \in [Runners -> PCs]
    /\ scan \in [Runners -> Scans]
    /\ \A r \in Runners : GoodScan(scan[r])

StatusType == running \in BOOLEAN /\ {lastRun, progress} \subseteq {None} \cup RunIDs

\* The invariant by its parts.
LEMMA InvParts ==
  /\ RepairInv <=> EnvType /\ RunsType /\ StatusType /\ StatusOK /\ OneActive /\ IdsOK
                   /\ HistoryOK
  /\ RepairInv' <=> EnvType' /\ RunsType' /\ StatusType' /\ StatusOK' /\ OneActive' /\ IdsOK'
                    /\ HistoryOK'
  <1>1. RepairInv <=> EnvType /\ RunsType /\ StatusType /\ StatusOK /\ OneActive /\ IdsOK
                   /\ HistoryOK
    BY DEF RepairInv, RepairTypeOK, ScansOK, EnvType, RunsType, StatusType, HistoryOK, GoodScan,
           PCs
  <1>2. RepairInv' <=> EnvType' /\ RunsType' /\ StatusType' /\ StatusOK' /\ OneActive' /\ IdsOK'
                    /\ HistoryOK'
    BY DEF RepairInv, RepairTypeOK, ScansOK, EnvType, RunsType, StatusType, HistoryOK, GoodScan,
           PCs
  <1> QED
    BY <1>1, <1>2

\* The locals of a runner without a run.
LEMMA NoScanGood == GoodScan(NoScan) /\ NoScan.id = None
  <1>1. NoScan \in Scans
    BY Limits DEF NoScan, Scans, None
  <1> QED
    BY <1>1, FS_EmptySet, Limits DEF GoodScan, NoScan

LEMMA InitInv == Init => RepairInv
  <1> SUFFICES ASSUME Init PROVE RepairInv
    OBVIOUS
  <1>1. EnvType
    <2>1. /\ health \in [Objects -> {"ok", "damaged"}]
          /\ leader \in BOOLEAN /\ booted \in BOOLEAN
      BY Zenon DEF Init
    <2>2. manual = 0 /\ faults = 0 /\ lastTrigger = "manual"
      BY DEF Init
    <2>3. health \in [Objects -> {"ok", "damaged", "bad", "gone"}]
      BY <2>1
    <2> QED
      BY <2>1, <2>2, <2>3, Limits DEF EnvType
  <1>2. RunsType
    BY NoScanGood DEF Init, RunsType, GoodScan, PCs
  <1>3. StatusType
    <2>1. running \in BOOLEAN
      BY Zenon DEF Init
    <2> QED
      BY <2>1 DEF Init, StatusType
  <1>4. StatusOK /\ OneActive /\ IdsOK
    BY NoScanGood DEF Init, StatusOK, OneActive, IdsOK, Active
  <1>5. HistoryOK
    <2>1. history = <<>> /\ issues = [id \in {} |-> {}]
      BY DEF Init
    <2>2. HistoryConsistent
      BY <2>1 DEF HistoryConsistent, Ids
    <2> QED
      BY <2>1, <2>2, Limits DEF HistoryOK
  <1> QED
    BY <1>1, <1>2, <1>3, <1>4, <1>5, InvParts

(***************************************************************************)
(* A runner goes on: its id, the status and the history stay, and it has a *)
(* run afterwards if it had one before.                                    *)
(***************************************************************************)
Proceeds(r, s) ==
    /\ GoodScan(s) /\ s.id = scan[r].id
    /\ scan' = [scan EXCEPT ![r] = s]
    /\ pc' \in [Runners -> PCs]
    /\ \A q \in Runners : Active(q)' <=> Active(q)
    /\ UNCHANGED <<status, history, issues>>

\* A runner that goes on keeps the invariant.
LEMMA ProceedsInv ==
  ASSUME RepairInv, NEW r \in Runners, NEW s, Proceeds(r, s), EnvType'
  PROVE  RepairInv'
  <1>1. scan \in [Runners -> Scans] /\ \A q \in Runners : GoodScan(scan[q])
    BY InvParts DEF RunsType
  <1>2. \A q \in Runners : scan'[q] = IF q = r THEN s ELSE scan[q]
    BY <1>1 DEF Proceeds
  <1>3. \A q \in Runners : scan'[q].id = scan[q].id /\ GoodScan(scan'[q])
    BY <1>1, <1>2 DEF Proceeds
  <1>4. scan' \in [Runners -> Scans]
    BY <1>1 DEF Proceeds, GoodScan
  <1>5. RunsType'
    BY <1>3, <1>4 DEF Proceeds, RunsType, GoodScan
  <1>6. StatusType'
    BY InvParts DEF StatusType, Proceeds, status
  <1>7. UNCHANGED <<running, lastRun, progress, history, issues>>
    BY DEF Proceeds, status
  <1>8. \A q \in Runners : Active(q)' <=> Active(q)
    BY DEF Proceeds
  <1>9. StatusOK'
    BY <1>3, <1>7, <1>8, InvParts DEF StatusOK
  <1>10. OneActive'
    BY <1>8, InvParts DEF OneActive
  <1>11. IdsOK'
    BY <1>3, <1>7, <1>8, InvParts DEF IdsOK, Ids
  <1>12. HistoryOK'
    BY <1>7, InvParts DEF HistoryOK, HistoryConsistent, Ids
  <1> QED
    BY <1>5, <1>6, <1>9, <1>10, <1>11, <1>12, InvParts

\* What happens around the runs keeps the invariant.
LEMMA AroundInv ==
  ASSUME RepairInv, EnvType', UNCHANGED <<pc, scan, status, history, issues>>
  PROVE  RepairInv'
  BY InvParts DEF RunsType, GoodScan, StatusType, StatusOK, OneActive, IdsOK, HistoryOK,
                  HistoryConsistent, Ids, Active, status

LEMMA DamageInv ==
  ASSUME RepairInv, NEW o \in Objects, NEW h \in {"damaged", "bad", "gone"}, Damage(o, h)
  PROVE  RepairInv'
  <1>1. EnvType'
    BY InvParts, Limits DEF Damage, Fault, EnvType
  <1> QED
    BY <1>1, AroundInv DEF Damage

LEMMA LeadershipChangesInv ==
  ASSUME RepairInv, LeadershipChanges
  PROVE  RepairInv'
  <1>1. leader' \in BOOLEAN
    BY Zenon DEF LeadershipChanges
  <1>2. EnvType'
    BY <1>1, InvParts DEF LeadershipChanges, EnvType
  <1> QED
    BY <1>2, AroundInv DEF LeadershipChanges

\* The locals of a runner, and its place.
LEMMA RunnerFacts ==
  ASSUME RepairInv, NEW r \in Runners
  PROVE  /\ GoodScan(scan[r]) /\ scan[r] \in Scans
         /\ pc \in [Runners -> PCs]
         /\ scan \in [Runners -> Scans]
         /\ EnvType
         /\ Active(r) => running /\ lastRun = scan[r].id /\ progress = scan[r].id
         /\ ~Active(r) => scan[r].id = None
  BY InvParts DEF RunsType, GoodScan, StatusOK, IdsOK

\* A runner moves to another place that is as active as the one it leaves.
LEMMA Places ==
  ASSUME RepairInv, NEW r \in Runners, NEW l \in PCs, pc' = [pc EXCEPT ![r] = l],
         Active(r) <=> l \in {"scan", "finish"}
  PROVE  pc' \in [Runners -> PCs] /\ \A q \in Runners : Active(q)' <=> Active(q)
  BY RunnerFacts DEF Active

\* Locals that stay are written back.
LEMMA SameScan ==
  ASSUME RepairInv, NEW r \in Runners, UNCHANGED scan
  PROVE  scan' = [scan EXCEPT ![r] = scan[r]]
  BY RunnerFacts

LEMMA ScheduledInv ==
  ASSUME RepairInv, NEW r \in Runners, Scheduled(r)
  PROVE  RepairInv'
  <1>1. pc' = [pc EXCEPT ![r] = "asked"] /\ pc[r] = "idle" /\ UNCHANGED <<scan, status, history, issues>>
    BY DEF Scheduled
  <1>2. EnvType'
    <2>1. booted' \in BOOLEAN
      BY Zenon DEF Scheduled
    <2> QED
      BY <2>1, RunnerFacts DEF Scheduled, EnvType
  <1>3. "asked" \in PCs /\ (Active(r) <=> "asked" \in {"scan", "finish"})
    BY <1>1 DEF PCs, Active
  <1>4. Proceeds(r, scan[r])
    BY <1>1, <1>3, Places, SameScan, RunnerFacts DEF Proceeds
  <1> QED
    BY <1>2, <1>4, ProceedsInv

LEMMA SetManualTriggerInv ==
  ASSUME RepairInv, NEW r \in Runners, SetManualTrigger(r)
  PROVE  RepairInv'
  <1>1. pc' = [pc EXCEPT ![r] = "named"] /\ pc[r] = "asked" /\ UNCHANGED <<scan, status, history, issues>>
    BY DEF SetManualTrigger
  <1>2. EnvType'
    BY RunnerFacts DEF SetManualTrigger, EnvType
  <1>3. "named" \in PCs /\ (Active(r) <=> "named" \in {"scan", "finish"})
    BY <1>1 DEF PCs, Active
  <1>4. Proceeds(r, scan[r])
    BY <1>1, <1>3, Places, SameScan, RunnerFacts DEF Proceeds
  <1> QED
    BY <1>2, <1>4, ProceedsInv

LEMMA ManualInv ==
  ASSUME RepairInv, "admin" \in Runners, NEW b \in 0 .. Len(Layout), Manual(b)
  PROVE  RepairInv'
  <1> DEFINE s == [scan["admin"] EXCEPT !.scope = b]
  <1>1. /\ pc' = [pc EXCEPT !["admin"] = "asked"] /\ pc["admin"] = "idle"
        /\ scan' = [scan EXCEPT !["admin"] = s]
        /\ UNCHANGED <<status, history, issues>>
    BY DEF Manual
  <1>2. EnvType'
    BY RunnerFacts, Limits DEF Manual, EnvType
  <1>3. "asked" \in PCs /\ (Active("admin") <=> "asked" \in {"scan", "finish"})
    BY <1>1 DEF PCs, Active
  <1>4. GoodScan(s) /\ s.id = scan["admin"].id
    BY RunnerFacts DEF GoodScan, Scans
  <1> HIDE DEF s
  <1>5. Proceeds("admin", s)
    BY <1>1, <1>3, <1>4, Places DEF Proceeds
  <1> QED
    BY <1>2, <1>5, ProceedsInv

(***************************************************************************)
(* The steps of a scan.                                                    *)
(***************************************************************************)
\* The progress that a run in progress reports is its own.
LEMMA ProgressKept ==
  ASSUME RepairInv, NEW r \in Runners, Active(r), setProgress(r)
  PROVE  UNCHANGED status
  BY RunnerFacts DEF setProgress, status

\* A run in progress goes on with other locals.
LEMMA ScanGoesOn ==
  ASSUME RepairInv, NEW r \in Runners, pc[r] = "scan",
         UNCHANGED pc \/ pc' = [pc EXCEPT ![r] = "finish"],
         setProgress(r) \/ UNCHANGED status,
         UNCHANGED <<history, issues>>,
         NEW s, GoodScan(s), s.id = scan[r].id, scan' = [scan EXCEPT ![r] = s],
         EnvType'
  PROVE  RepairInv'
  <1>1. Active(r)
    BY DEF Active
  <1>2. UNCHANGED status
    BY <1>1, ProgressKept
  <1>3. pc' \in [Runners -> PCs] /\ \A q \in Runners : Active(q)' <=> Active(q)
    <2>1. CASE UNCHANGED pc
      BY <2>1, RunnerFacts DEF Active
    <2>2. CASE pc' = [pc EXCEPT ![r] = "finish"]
      <3>1. "finish" \in PCs /\ (Active(r) <=> "finish" \in {"scan", "finish"})
        BY <1>1 DEF PCs
      <3> QED
        BY <2>2, <3>1, Places
    <2> QED
      BY <2>1, <2>2
  <1>4. Proceeds(r, s)
    BY <1>2, <1>3 DEF Proceeds
  <1> QED
    BY <1>4, ProceedsInv

\* An interval of numbers is finite.
LEMMA IntervalFinite == ASSUME NEW a \in Nat, NEW b \in Nat PROVE IsFiniteSet(a .. b)
  BY FS_Interval

\* The next position of a scan is one of those left.
LEMMA NextPosition ==
  ASSUME NEW s, GoodScan(s), s.todo # {}
  PROVE  /\ FirstOf(s.todo) \in s.todo
         /\ Current(s) \in Objects
         /\ Others(s) \in SUBSET Nat /\ Others(s) \subseteq s.todo
  <1>1. s.bucket \in 1 .. Len(Layout) /\ s.todo \subseteq DOMAIN Layout[s.bucket]
    BY Limits DEF GoodScan, Scans
  <1>2. Layout[s.bucket] \in Seq(Objects)
    BY <1>1, Limits
  <1>3. DOMAIN Layout[s.bucket] = 1 .. Len(Layout[s.bucket]) /\ Len(Layout[s.bucket]) \in Nat
    BY <1>2
  <1>4. IsFiniteSet(s.todo) /\ s.todo \subseteq Nat
    <2>1. IsFiniteSet(1 .. Len(Layout[s.bucket]))
      BY <1>3, IntervalFinite
    <2>2. s.todo \in SUBSET (1 .. Len(Layout[s.bucket]))
      BY <1>1, <1>3
    <2> QED
      BY <2>1, <2>2, FS_Subset
  <1>5. FirstOf(s.todo) \in s.todo
    BY <1>4, LeastMember DEF FirstOf
  <1>6. Current(s) \in Objects
    BY <1>1, <1>2, <1>5 DEF Current
  <1> QED
    BY <1>4, <1>5, <1>6 DEF Others

\* An issue more, unless there are enough.
LEMMA IssueAdded ==
  ASSUME NEW s, GoodScan(s), NEW o \in Objects
  PROVE  /\ GoodScan(addIssue(s, o))
         /\ addIssue(s, o).id = s.id /\ addIssue(s, o).todo = s.todo
         /\ addIssue(s, o).bucket = s.bucket /\ addIssue(s, o).tries = s.tries
  <1>1. CASE Cardinality(s.found) >= MaxIssues
    BY <1>1 DEF addIssue
  <1>2. CASE ~(Cardinality(s.found) >= MaxIssues)
    <2> DEFINE more == s.found \cup {o}
    <2>1. IsFiniteSet(s.found) /\ s \in Scans /\ Cardinality(s.found) \in Nat
      BY FS_CardinalityType DEF GoodScan
    <2>2. IsFiniteSet(more) /\ Cardinality(more) <= Cardinality(s.found) + 1
      <3>1. /\ IsFiniteSet(more)
            /\ Cardinality(more) = IF o \in s.found THEN Cardinality(s.found)
                                   ELSE Cardinality(s.found) + 1
        BY <2>1, FS_AddElement
      <3> QED
        BY <2>1, <3>1
    <2>3. Cardinality(more) <= MaxIssues
      <3>1. Cardinality(more) \in Nat
        BY <2>2, FS_CardinalityType
      <3> QED
        BY <1>2, <2>1, <2>2, <3>1, Limits
    <2>4. more \in SUBSET Objects
      BY <2>1 DEF Scans
    <2>5. addIssue(s, o) = [s EXCEPT !.found = more]
      BY <1>2 DEF addIssue
    <2> HIDE DEF more
    <2> QED
      BY <2>1, <2>2, <2>3, <2>4, <2>5 DEF GoodScan, Scans
  <1> QED
    BY <1>1, <1>2

\* The scan moves on to the next object, or gives up the tries on this one.
LEMMA MovedOn ==
  ASSUME NEW s, GoodScan(s), s.todo # {}
  PROVE  /\ GoodScan([s EXCEPT !.todo = Others(s), !.tries = 0])
         /\ [s EXCEPT !.todo = Others(s), !.tries = 0].id = s.id
         /\ s.tries = 0 => /\ GoodScan([s EXCEPT !.todo = Others(s)])
                           /\ [s EXCEPT !.todo = Others(s)].id = s.id
  <1>1. Others(s) \in SUBSET Nat /\ Others(s) \subseteq s.todo
    BY NextPosition
  <1>2. 0 \in 0 .. RepairMaxRetries + 1
    BY Limits
  <1>3. GoodScan([s EXCEPT !.todo = Others(s), !.tries = 0])
    <2> DEFINE t == [s EXCEPT !.todo = Others(s), !.tries = 0]
    <2>1. t \in Scans
      BY <1>1, <1>2 DEF GoodScan, Scans
    <2>2. t.todo = Others(s) /\ t.tries = 0 /\ t.bucket = s.bucket /\ t.found = s.found
      BY DEF GoodScan, Scans
    <2> HIDE DEF t
    <2>3. GoodScan(t)
      BY <1>1, <2>1, <2>2 DEF GoodScan
    <2> QED
      BY <2>3 DEF t
  <1>4. s.tries = 0 => GoodScan([s EXCEPT !.todo = Others(s)])
    BY <1>1 DEF GoodScan, Scans
  <1> QED
    BY <1>3, <1>4 DEF GoodScan, Scans

\* The next bucket in scope exists when there is one.
LEMMA BucketExists ==
  ASSUME NEW s, GoodScan(s), HasBucket(s)
  PROVE  NextBucket(s) \in 1 .. Len(Layout)
  <1> DEFINE n == Len(Layout)
             inScope == {b \in s.bucket + 1 .. n : s.scope \in {0, b}}
             least == CHOOSE x \in inScope : \A y \in inScope : x <= y
  <1>1. s.bucket \in Nat /\ n \in Nat
    BY Limits DEF GoodScan, Scans
  <1>2. inScope # {} /\ inScope \subseteq Nat
    BY <1>1 DEF HasBucket
  <1>3. IsFiniteSet(inScope)
    <2>1. IsFiniteSet(s.bucket + 1 .. n)
      BY <1>1, IntervalFinite
    <2>2. inScope \in SUBSET (s.bucket + 1 .. n)
      OBVIOUS
    <2> QED
      BY <2>1, <2>2, FS_Subset
  <1>4. least \in inScope
    BY <1>2, <1>3, LeastMember
  <1>5. \A y \in inScope : least <= y
    BY <1>2, <1>3, LeastMember
  <1> HIDE DEF least
  <1>6. /\ least \in s.bucket + 1 .. n
        /\ s.scope \in {0, least}
        /\ \A c \in s.bucket + 1 .. least - 1 : s.scope \notin {0, c}
    <2>1. ASSUME NEW c \in s.bucket + 1 .. least - 1, s.scope \in {0, c} PROVE FALSE
      <3>1. c \in inScope /\ c < least
        BY <1>1, <1>4, <2>1
      <3> QED
        BY <1>1, <1>4, <1>5, <3>1
    <2> QED
      BY <1>4, <2>1
  <1>7. NextBucket(s) \in s.bucket + 1 .. n
    BY <1>6 DEF NextBucket
  <1> QED
    BY <1>1, <1>7

\* A call that fails, or a context that is cancelled, is counted.
LEMMA FaultType ==
  ASSUME RepairInv, Fault \/ UNCHANGED faults,
         UNCHANGED <<leader, booted, lastTrigger, manual>>,
         health' \in [Objects -> {"ok", "damaged", "bad", "gone"}]
  PROVE  EnvType'
  BY InvParts, Limits DEF EnvType, Fault

\* Health stays as it is.
LEMMA HealthKept ==
  ASSUME RepairInv, UNCHANGED health
  PROVE  health' \in [Objects -> {"ok", "damaged", "bad", "gone"}]
  BY InvParts DEF EnvType

\* Locals with nothing left of the bucket.
LEMMA Emptied ==
  ASSUME NEW s, GoodScan(s), NEW t \in Scans, t.todo = {}, t.tries = 0, t.found = s.found
  PROVE  GoodScan(t)
  BY DEF GoodScan

LEMMA ScanBucketInv ==
  ASSUME RepairInv, NEW r \in Runners, ScanBucket(r)
  PROVE  RepairInv'
  <1> DEFINE b == NextBucket(scan[r])
             listed == {i \in DOMAIN Layout[b] : health[Layout[b][i]] # "gone"}
             s1 == [scan[r] EXCEPT !.bucket = b, !.todo = listed]
             s2 == [scan[r] EXCEPT !.bucket = b]
  <1>1. /\ pc[r] = "scan" /\ scan[r].todo = {} /\ HasBucket(scan[r])
        /\ UNCHANGED <<health, leader, booted, pc, lastTrigger, history, issues, manual>>
        /\ setProgress(r)
        /\ Fault \/ UNCHANGED faults
        /\ \/ scan' = [scan EXCEPT ![r].bucket = b, ![r].todo = listed]
           \/ scan' = [scan EXCEPT ![r].bucket = b]
    BY DEF ScanBucket
  <1>2. scan' = [scan EXCEPT ![r] = s1] \/ scan' = [scan EXCEPT ![r] = s2]
    BY <1>1, RunnerFacts
  <1>3. b \in 1 .. Len(Layout)
    BY <1>1, RunnerFacts, BucketExists
  <1>4. listed \subseteq DOMAIN Layout[b] /\ listed \in SUBSET Nat
    <2>1. Layout[b] \in Seq(Objects)
      BY <1>3, Limits
    <2> QED
      BY <2>1
  <1> HIDE DEF b, listed
  <1>5. EnvType'
    BY <1>1, FaultType, HealthKept
  <1>6. GoodScan(s1) /\ s1.id = scan[r].id
    <2>1. b \in 0 .. Len(Layout) /\ b # 0
      BY <1>3, Limits
    <2>2. s1 \in Scans
      BY <1>4, <2>1, RunnerFacts DEF Scans
    <2>3. /\ s1.bucket = b /\ s1.todo = listed /\ s1.tries = scan[r].tries
          /\ s1.found = scan[r].found /\ s1.id = scan[r].id
      BY RunnerFacts DEF Scans
    <2>4. ~(s1.tries > 0)
      BY <1>1, <2>3, RunnerFacts DEF GoodScan
    <2> HIDE DEF s1
    <2> QED
      BY <1>4, <2>1, <2>2, <2>3, <2>4, RunnerFacts DEF GoodScan
  <1>7. GoodScan(s2) /\ s2.id = scan[r].id
    <2>1. b \in 0 .. Len(Layout)
      BY <1>3, Limits
    <2>2. scan[r] \in Scans /\ GoodScan(scan[r])
      BY RunnerFacts
    <2>3. /\ s2 \in Scans /\ s2.todo = scan[r].todo /\ s2.tries = scan[r].tries
          /\ s2.found = scan[r].found /\ s2.id = scan[r].id
      BY <2>1, <2>2 DEF Scans
    <2>4. scan[r].tries = 0
      BY <1>1, <2>2 DEF GoodScan, Scans
    <2> HIDE DEF s2
    <2> QED
      BY <1>1, <2>2, <2>3, <2>4, Emptied
  <1> HIDE DEF s1, s2
  <1> QED
    BY <1>1, <1>2, <1>5, <1>6, <1>7, ScanGoesOn

LEMMA StopLimitedInv ==
  ASSUME RepairInv, NEW r \in Runners, StopLimited(r)
  PROVE  RepairInv'
  <1> DEFINE s == [scan[r] EXCEPT !.limited = TRUE, !.todo = {}]
  <1>1. /\ pc[r] = "scan" /\ scan[r].tries = 0
        /\ UNCHANGED <<health, leader, booted, pc, lastTrigger, history, issues, manual, faults>>
        /\ setProgress(r)
        /\ scan' = [scan EXCEPT ![r].limited = TRUE, ![r].todo = {}]
    BY DEF StopLimited
  <1>2. scan' = [scan EXCEPT ![r] = s]
    BY <1>1, RunnerFacts
  <1>3. EnvType'
    BY <1>1, FaultType, HealthKept
  <1>4. GoodScan(s) /\ s.id = scan[r].id
    <2>1. scan[r] \in Scans /\ GoodScan(scan[r])
      BY RunnerFacts
    <2>2. s \in Scans /\ s.id = scan[r].id
      BY <2>1 DEF Scans
    <2>3. s.todo = {} /\ s.tries = scan[r].tries /\ s.found = scan[r].found
      BY <2>1 DEF Scans
    <2> HIDE DEF s
    <2> QED
      BY <1>1, <2>1, <2>2, <2>3, Emptied
  <1> HIDE DEF s
  <1> QED
    BY <1>1, <1>2, <1>3, <1>4, ScanGoesOn

\* What a check or a try may leave of a run's locals.
LEMMA CheckedScans ==
  ASSUME RepairInv, NEW r \in Runners, scan[r].todo # {}
  PROVE  LET s == scan[r]
             t == addIssue(s, Current(s))
         IN  /\ GoodScan([s EXCEPT !.todo = Others(s), !.tries = 0])
             /\ [s EXCEPT !.todo = Others(s), !.tries = 0].id = s.id
             /\ GoodScan([t EXCEPT !.todo = Others(s), !.tries = 0])
             /\ [t EXCEPT !.todo = Others(s), !.tries = 0].id = s.id
             /\ s.tries = 0 =>
                   /\ GoodScan([s EXCEPT !.todo = Others(s)])
                   /\ [s EXCEPT !.todo = Others(s)].id = s.id
                   /\ GoodScan([t EXCEPT !.todo = Others(s)])
                   /\ [t EXCEPT !.todo = Others(s)].id = s.id
  <1> DEFINE s == scan[r]
             t == addIssue(s, Current(s))
  <1>1. GoodScan(s) /\ Current(s) \in Objects
    BY RunnerFacts, NextPosition
  <1>2. GoodScan(t) /\ t.id = s.id /\ t.todo = s.todo /\ t.tries = s.tries
    BY <1>1, IssueAdded
  <1>3. Others(t) = Others(s) /\ t.todo # {}
    BY <1>2 DEF Others
  <1> HIDE DEF s, t
  <1>4. /\ GoodScan([t EXCEPT !.todo = Others(t), !.tries = 0])
        /\ [t EXCEPT !.todo = Others(t), !.tries = 0].id = t.id
        /\ t.tries = 0 => /\ GoodScan([t EXCEPT !.todo = Others(t)])
                          /\ [t EXCEPT !.todo = Others(t)].id = t.id
    BY <1>2, <1>3, MovedOn
  <1>5. s.todo # {}
    BY DEF s
  <1>6. /\ GoodScan([s EXCEPT !.todo = Others(s), !.tries = 0])
        /\ [s EXCEPT !.todo = Others(s), !.tries = 0].id = s.id
        /\ s.tries = 0 => /\ GoodScan([s EXCEPT !.todo = Others(s)])
                          /\ [s EXCEPT !.todo = Others(s)].id = s.id
    BY <1>1, <1>5, MovedOn
  <1> QED
    BY <1>2, <1>3, <1>4, <1>6 DEF s, t

LEMMA CheckObjectInv ==
  ASSUME RepairInv, NEW r \in Runners, CheckObject(r)
  PROVE  RepairInv'
  <1> DEFINE s == scan[r]
             t == addIssue(s, Current(s))
             s1 == [s EXCEPT !.todo = Others(s)]
             s2 == [t EXCEPT !.todo = Others(s)]
             s3 == [s EXCEPT !.tries = RepairMaxRetries + 1, !.attempts = @ + 1]
  <1>1. /\ pc[r] = "scan" /\ s.tries = 0 /\ s.todo # {} /\ ~shouldStopRepair(s)
        /\ UNCHANGED <<health, leader, booted, pc, lastTrigger, history, issues, manual>>
        /\ setProgress(r)
    BY DEF CheckObject
  <1>2. /\ Fault \/ UNCHANGED faults
        /\ \/ scan' = [scan EXCEPT ![r] = s1]
           \/ scan' = [scan EXCEPT ![r] = s2]
           \/ scan' = [scan EXCEPT ![r] = s3]
    BY RunnerFacts DEF CheckObject, scrubHealthyObject
  <1>3. EnvType'
    BY <1>1, <1>2, FaultType, HealthKept
  <1>4. GoodScan(s1) /\ s1.id = s.id /\ GoodScan(s2) /\ s2.id = s.id
    BY <1>1, CheckedScans
  <1>5. GoodScan(s3) /\ s3.id = s.id
    <2>1. s.attempts + 1 \in 0 .. RepairMaxBatch
      BY <1>1, RunnerFacts, Limits DEF shouldStopRepair, Scans
    <2>2. RepairMaxRetries + 1 \in 0 .. RepairMaxRetries + 1
      BY Limits
    <2>3. s3 \in Scans
      BY <2>1, <2>2, RunnerFacts DEF Scans
    <2>4. s3.todo = s.todo /\ s3.bucket = s.bucket /\ s3.found = s.found /\ s3.id = s.id
      BY RunnerFacts DEF Scans
    <2> HIDE DEF s3
    <2> QED
      BY <1>1, <2>3, <2>4, RunnerFacts DEF GoodScan
  <1> HIDE DEF s1, s2, s3
  <1> QED
    BY <1>1, <1>2, <1>3, <1>4, <1>5, ScanGoesOn

LEMMA RepairTryInv ==
  ASSUME RepairInv, NEW r \in Runners, RepairTry(r)
  PROVE  RepairInv'
  <1> DEFINE s == scan[r]
             t == addIssue(s, Current(s))
             s1 == [s EXCEPT !.todo = Others(s), !.tries = 0]
             s2 == [t EXCEPT !.todo = Others(s), !.tries = 0]
             s3 == [s EXCEPT !.tries = @ - 1]
  <1>1. /\ pc[r] = "scan" /\ s.tries > 0
        /\ UNCHANGED <<leader, booted, pc, lastTrigger, history, issues, manual>>
        /\ setProgress(r)
        /\ Fault \/ UNCHANGED faults
    BY DEF RepairTry
  <1>2. s.todo # {} /\ Current(s) \in Objects
    BY <1>1, RunnerFacts, NextPosition DEF GoodScan
  <1>3. \/ scan' = [scan EXCEPT ![r] = s1]
        \/ scan' = [scan EXCEPT ![r] = s2]
        \/ s.tries > 1 /\ scan' = [scan EXCEPT ![r] = s3]
    BY RunnerFacts DEF RepairTry, RepairFailed
  <1>4. EnvType'
    <2>1. health \in [Objects -> {"ok", "damaged", "bad", "gone"}]
      BY RunnerFacts DEF EnvType
    <2>2. health' \in [Objects -> {"ok", "damaged", "bad", "gone"}]
      <3>1. \/ UNCHANGED health
            \/ health' = [health EXCEPT ![Current(s)] = IF @ = "damaged" THEN "ok" ELSE @]
        BY DEF RepairTry
      <3> QED
        BY <1>2, <2>1, <3>1
    <2> QED
      BY <1>1, <2>2, FaultType
  <1>5. GoodScan(s1) /\ s1.id = s.id /\ GoodScan(s2) /\ s2.id = s.id
    BY <1>2, CheckedScans
  <1>6. GoodScan(s3) /\ s3.id = s.id
    <2>1. s.tries - 1 \in 0 .. RepairMaxRetries + 1
      BY <1>1, RunnerFacts, Limits DEF Scans
    <2>2. s3 \in Scans
      BY <2>1, RunnerFacts DEF Scans
    <2>3. s3.todo = s.todo /\ s3.bucket = s.bucket /\ s3.found = s.found /\ s3.id = s.id
      BY RunnerFacts DEF Scans
    <2> HIDE DEF s3
    <2> QED
      BY <1>2, <2>2, <2>3, RunnerFacts DEF GoodScan
  <1> HIDE DEF s1, s2, s3
  <1> QED
    BY <1>1, <1>3, <1>4, <1>5, <1>6, ScanGoesOn

LEMMA CancelInv ==
  ASSUME RepairInv, NEW r \in Runners, Cancel(r)
  PROVE  RepairInv'
  <1> DEFINE s == [scan[r] EXCEPT !.cancelled = TRUE]
  <1>1. /\ pc[r] = "scan" /\ Fault
        /\ UNCHANGED <<health, leader, booted, pc, status, lastTrigger, history, issues, manual>>
        /\ scan' = [scan EXCEPT ![r] = s]
    BY DEF Cancel
  <1>2. EnvType'
    BY <1>1, FaultType, HealthKept
  <1>3. GoodScan(s) /\ s.id = scan[r].id
    BY RunnerFacts DEF GoodScan, Scans
  <1> HIDE DEF s
  <1> QED
    BY <1>1, <1>2, <1>3, ScanGoesOn

LEMMA ContextDoneInv ==
  ASSUME RepairInv, NEW r \in Runners, ContextDone(r)
  PROVE  RepairInv'
  <1> DEFINE s == [scan[r] EXCEPT !.err = TRUE, !.todo = {}]
  <1>1. /\ pc[r] = "scan" /\ scan[r].tries = 0
        /\ pc' = [pc EXCEPT ![r] = "finish"]
        /\ UNCHANGED <<health, leader, booted, status, lastTrigger, history, issues, manual, faults>>
        /\ scan' = [scan EXCEPT ![r].err = TRUE, ![r].todo = {}]
    BY DEF ContextDone
  <1>2. scan' = [scan EXCEPT ![r] = s]
    BY <1>1, RunnerFacts
  <1>3. EnvType'
    BY <1>1, FaultType, HealthKept
  <1>4. GoodScan(s) /\ s.id = scan[r].id
    <2>1. scan[r] \in Scans /\ GoodScan(scan[r])
      BY RunnerFacts
    <2>2. s \in Scans /\ s.id = scan[r].id
      BY <2>1 DEF Scans
    <2>3. s.todo = {} /\ s.tries = scan[r].tries /\ s.found = scan[r].found
      BY <2>1 DEF Scans
    <2> HIDE DEF s
    <2> QED
      BY <1>1, <2>1, <2>2, <2>3, Emptied
  <1> HIDE DEF s
  <1> QED
    BY <1>1, <1>2, <1>3, <1>4, ScanGoesOn

LEMMA ListBucketsFailsInv ==
  ASSUME RepairInv, NEW r \in Runners, ListBucketsFails(r)
  PROVE  RepairInv'
  <1> DEFINE s == [scan[r] EXCEPT !.err = TRUE]
  <1>1. /\ pc[r] = "scan" /\ Fault
        /\ pc' = [pc EXCEPT ![r] = "finish"]
        /\ UNCHANGED <<health, leader, booted, status, lastTrigger, history, issues, manual>>
        /\ scan' = [scan EXCEPT ![r] = s]
    BY DEF ListBucketsFails
  <1>2. EnvType'
    BY <1>1, FaultType, HealthKept
  <1>3. GoodScan(s) /\ s.id = scan[r].id
    BY RunnerFacts DEF GoodScan, Scans
  <1> HIDE DEF s
  <1> QED
    BY <1>1, <1>2, <1>3, ScanGoesOn

LEMMA ScanDoneInv ==
  ASSUME RepairInv, NEW r \in Runners, ScanDone(r)
  PROVE  RepairInv'
  <1>1. /\ pc[r] = "scan"
        /\ pc' = [pc EXCEPT ![r] = "finish"]
        /\ UNCHANGED <<health, leader, booted, scan, status, lastTrigger, history, issues, manual,
                       faults>>
    BY DEF ScanDone
  <1>2. EnvType'
    BY <1>1, FaultType, HealthKept
  <1>3. GoodScan(scan[r]) /\ scan' = [scan EXCEPT ![r] = scan[r]]
    BY <1>1, RunnerFacts, SameScan
  <1> QED
    BY <1>1, <1>2, <1>3, ScanGoesOn

(***************************************************************************)
(* A run starts.                                                           *)
(***************************************************************************)
\* No more ids are in the history than it has records.
LEMMA IdsCounted ==
  ASSUME NEW S, NEW h \in Seq(S)
  PROVE  IsFiniteSet(Ids(h)) /\ Cardinality(Ids(h)) <= Len(h) /\ Cardinality(Ids(h)) \in Nat
  <1> DEFINE f == [i \in DOMAIN h |-> h[i].id]
  <1>1. f \in Surjection(DOMAIN h, Ids(h))
    BY DEF Surjection, Ids
  <1>2. DOMAIN h = 1 .. Len(h) /\ Len(h) \in Nat
    OBVIOUS
  <1>3. IsFiniteSet(DOMAIN h) /\ Cardinality(DOMAIN h) = Len(h)
    <2>1. /\ IsFiniteSet(1 .. Len(h))
          /\ Cardinality(1 .. Len(h)) = IF 1 > Len(h) THEN 0 ELSE Len(h) - 1 + 1
      BY <1>2, FS_Interval
    <2> QED
      BY <1>2, <2>1
  <1>4. IsFiniteSet(Ids(h)) /\ Cardinality(Ids(h)) <= Cardinality(DOMAIN h)
    BY <1>1, <1>3, FS_Surjection
  <1> QED
    BY <1>3, <1>4, FS_CardinalityType

\* newRunID finds an id that nothing refers to: there are more than the history, the
\* last run and the runs in progress can hold.
LEMMA FreshId ==
  ASSUME RepairInv, NEW r \in Runners, ~running
  PROVE  newRunID \in RunIDs /\ newRunID \notin Ids(history)
  <1> DEFINE used == Ids(history) \cup {lastRun} \cup {scan[q].id : q \in Runners}
             held == Ids(history) \cup {lastRun}
             n == MaxHistory + Cardinality(Runners) + 1
  <1>1. \A q \in Runners : scan[q].id = None
    BY RunnerFacts
  <1>2. IsFiniteSet(held) /\ Cardinality(held) <= MaxHistory + 1 /\ Cardinality(held) \in Nat
    <2>1. history \in Seq([id : RunIDs, trigger : {"manual", "scheduled"}, count : Nat])
          /\ Len(history) <= MaxHistory
      BY InvParts DEF HistoryOK
    <2>2. /\ IsFiniteSet(Ids(history)) /\ Cardinality(Ids(history)) <= Len(history)
          /\ Cardinality(Ids(history)) \in Nat
      BY <2>1, IdsCounted
    <2>3. /\ IsFiniteSet(held)
          /\ Cardinality(held) = IF lastRun \in Ids(history) THEN Cardinality(Ids(history))
                                 ELSE Cardinality(Ids(history)) + 1
      BY <2>2, FS_AddElement
    <2>4. Len(history) \in Nat
      BY <2>1
    <2> HIDE DEF held
    <2> QED
      BY <2>1, <2>2, <2>3, <2>4, Limits
  <1>3. Cardinality(Runners) \in Nat /\ Cardinality(Runners) > 0
    <2>1. Cardinality(Runners) \in Nat /\ Cardinality(Runners) # 0
      BY RunnersFinite, FS_CardinalityType, FS_EmptySet
    <2> QED
      BY <2>1
  <1>4. Cardinality(RunIDs) = n /\ n \in Nat
    <2>1. n \in Nat /\ n > 0
      BY <1>3, Limits
    <2>2. Cardinality(1 .. n) = IF 1 > n THEN 0 ELSE n - 1 + 1
      BY <2>1, FS_Interval
    <2> HIDE DEF n
    <2>3. Cardinality(1 .. n) = n
      BY <2>1, <2>2
    <2> QED
      BY <2>1, <2>3 DEF n, RunIDs
  <1>5. \E id \in RunIDs : id \notin used
    <2> SUFFICES ASSUME RunIDs \subseteq used PROVE FALSE
      OBVIOUS
    <2>1. RunIDs \subseteq held
      <3> SUFFICES ASSUME NEW id \in RunIDs PROVE id \in held
        OBVIOUS
      <3>1. id # None
        BY <1>3, Limits DEF RunIDs, None
      <3> QED
        BY <1>1, <3>1
    <2>2. Cardinality(RunIDs) <= Cardinality(held)
      BY <1>2, <2>1, FS_Subset
    <2> HIDE DEF held
    <2> QED
      BY <1>2, <1>3, <1>4, <2>2, Limits
  <1> HIDE DEF used
  <1>6. newRunID \in RunIDs /\ newRunID \notin used
    BY <1>5 DEF newRunID, used
  <1> QED
    BY <1>6 DEF used

LEMMA tryMarkStartedInv ==
  ASSUME RepairInv, NEW r \in Runners, tryMarkStarted(r)
  PROVE  RepairInv'
  <1>1. /\ pc[r] = "named"
        /\ UNCHANGED <<health, leader, booted, lastTrigger, history, issues, manual, faults>>
    BY DEF tryMarkStarted
  <1>2. EnvType'
    BY <1>1, FaultType, HealthKept
  <1>3. CASE running
    <2>1. /\ pc' = [pc EXCEPT ![r] = "idle"]
          /\ scan' = [scan EXCEPT ![r] = NoScan]
          /\ UNCHANGED status
      BY <1>3 DEF tryMarkStarted
    <2>2. "idle" \in PCs /\ (Active(r) <=> "idle" \in {"scan", "finish"})
      BY <1>1 DEF PCs, Active
    <2>3. NoScan.id = scan[r].id
      BY <1>1, RunnerFacts, NoScanGood DEF Active
    <2>4. Proceeds(r, NoScan)
      BY <1>1, <2>1, <2>2, <2>3, Places, NoScanGood DEF Proceeds
    <2> QED
      BY <1>2, <2>4, ProceedsInv
  <1>4. CASE ~running
    <2>1. PICK id \in RunIDs : id = newRunID /\ id \notin Ids(history)
      BY <1>4, FreshId
    <2> DEFINE s == [scan[r] EXCEPT !.id = id]
    <2>2. /\ running' = TRUE /\ lastRun' = id /\ progress' = id
          /\ pc' = [pc EXCEPT ![r] = "scan"]
          /\ scan' = [scan EXCEPT ![r] = s]
      BY <1>4, <2>1 DEF tryMarkStarted
    <2>3. id # None
      BY RunnersFinite, FS_CardinalityType, Limits DEF RunIDs, None
    <2>4. GoodScan(s) /\ s.id = id
      BY RunnerFacts DEF GoodScan, Scans
    <2> HIDE DEF s
    <2>5. \A q \in Runners : ~Active(q)
      BY <1>4, RunnerFacts
    <2>6. \A q \in Runners : (Active(q)' <=> q = r) /\ scan'[q] = IF q = r THEN s ELSE scan[q]
      BY <2>2, <2>5, RunnerFacts DEF Active
    <2>7. RunsType'
      <3>1. pc' \in [Runners -> PCs] /\ scan' \in [Runners -> Scans]
        BY <2>2, <2>4, RunnerFacts DEF PCs, GoodScan
      <3>2. \A q \in Runners : GoodScan(scan'[q])
        BY <2>4, <2>6, RunnerFacts
      <3> QED
        BY <3>1, <3>2 DEF RunsType, GoodScan
    <2>8. StatusType' /\ StatusOK' /\ OneActive'
      BY <2>2, <2>3, <2>4, <2>6 DEF StatusType, StatusOK, OneActive
    <2>9. IdsOK'
      BY <1>1, <2>1, <2>3, <2>4, <2>5, <2>6, InvParts DEF IdsOK, Ids
    <2>10. HistoryOK'
      BY <1>1, InvParts DEF HistoryOK, HistoryConsistent, Ids
    <2> QED
      BY <1>2, <2>7, <2>8, <2>9, <2>10, InvParts
  <1> QED
    BY <1>3, <1>4

(***************************************************************************)
(* A run finishes and is recorded.                                         *)
(***************************************************************************)
\* What is in the history after a record is put first and the oldest may fall off.
LEMMA RecordedFirst ==
  ASSUME NEW S, NEW q \in Seq(S), NEW e \in S, NEW n \in Nat, n > 0
  PROVE  LET h == <<e>> \o q
             p == SubSeq(h, 1, IF Len(h) > n THEN n ELSE Len(h))
         IN  /\ p \in Seq(S) /\ Len(p) <= n /\ Len(p) > 0
             /\ p[1] = e
             /\ DOMAIN p = 1 .. Len(p)
             /\ \A i \in 1 .. Len(p) : i # 1 => i - 1 \in DOMAIN q /\ p[i] = q[i - 1]
  <1> DEFINE h == <<e>> \o q
             m == IF Len(h) > n THEN n ELSE Len(h)
             p == SubSeq(h, 1, m)
  <1>1. /\ h \in Seq(S) /\ Len(h) = Len(q) + 1 /\ Len(q) \in Nat
        /\ h[1] = e
        /\ \A i \in 1 .. Len(h) : i # 1 => i - 1 \in DOMAIN q /\ h[i] = q[i - 1]
    OBVIOUS
  <1> HIDE DEF h
  <1>2. m \in 1 .. Len(h) /\ m <= n
    BY <1>1
  <1> HIDE DEF m
  <1>3. p \in Seq(S) /\ Len(p) = m /\ \A i \in 1 .. m : p[i] = h[i]
    BY <1>1, <1>2
  <1>4. DOMAIN p = 1 .. Len(p)
    BY <1>3
  <1> HIDE DEF p
  <1>5. \A i \in 1 .. Len(p) : i # 1 => i - 1 \in DOMAIN q /\ p[i] = q[i - 1]
    BY <1>1, <1>2, <1>3
  <1>6. p[1] = e /\ Len(p) <= n /\ Len(p) > 0
    BY <1>1, <1>2, <1>3
  <1> QED
    BY <1>3, <1>4, <1>5, <1>6 DEF p, m, h

Records == [id : RunIDs, trigger : {"manual", "scheduled"}, count : Nat]

\* The record of a run keeps the history consistent: its id is new to it, and the issues
\* kept are those of the records kept.
LEMMA Recorded ==
  ASSUME RepairInv, NEW r \in Runners, pc[r] = "finish", recordRun(r)
  PROVE  HistoryOK'
  <1>1. history \in Seq(Records) /\ HistoryConsistent /\ MaxHistory \in Nat /\ MaxHistory > 0
    BY InvParts, Limits DEF HistoryOK, Records
  <1>2. Active(r) /\ scan[r].id # None /\ scan[r].id \notin Ids(history)
    BY InvParts DEF IdsOK, Active
  <1>3. Record(r) \in Records
    <2>1. scan[r].id \in RunIDs
      BY <1>2, RunnerFacts DEF Scans
    <2>2. Cardinality(scan[r].found) \in Nat
      BY RunnerFacts, FS_CardinalityType DEF GoodScan
    <2>3. lastTrigger \in {"manual", "scheduled"}
      BY RunnerFacts DEF EnvType
    <2> QED
      BY <2>1, <2>2, <2>3 DEF Record, Records
  <1>4. /\ history' \in Seq(Records) /\ Len(history') <= MaxHistory /\ Len(history') > 0
        /\ history'[1] = Record(r)
        /\ DOMAIN history' = 1 .. Len(history')
        /\ \A i \in 1 .. Len(history') :
              i # 1 => i - 1 \in DOMAIN history /\ history'[i] = history[i - 1]
    BY <1>1, <1>3, RecordedFirst DEF recordRun
  <1>5. Record(r).id = scan[r].id /\ Record(r).count = Cardinality(scan[r].found)
    BY DEF Record
  <1>6. \A i \in DOMAIN history' :
           i # 1 => /\ i - 1 \in DOMAIN history /\ history'[i] = history[i - 1]
                    /\ history'[i].id \in Ids(history)
    BY <1>4 DEF Ids
  <1>7. /\ DOMAIN issues' = Ids(history')
        /\ \A id \in Ids(history') :
              issues'[id] = IF id = scan[r].id THEN scan[r].found ELSE issues[id]
    BY DEF recordRun
  <1>8. \A i \in DOMAIN history' : history'[i].id \in Ids(history') /\ i \in Int
    BY <1>4 DEF Ids
  <1>9. \A i, j \in DOMAIN history' : history'[i].id = history'[j].id => i = j
    <2> SUFFICES ASSUME NEW i \in DOMAIN history', NEW j \in DOMAIN history',
                        history'[i].id = history'[j].id
                 PROVE  i = j
      OBVIOUS
    <2>1. i = 1 <=> j = 1
      BY <1>2, <1>4, <1>5, <1>6
    <2>2. CASE i # 1 /\ j # 1
      <3>1. history[i - 1].id = history[j - 1].id /\ i - 1 \in DOMAIN history
            /\ j - 1 \in DOMAIN history
        BY <1>6, <2>2
      <3>2. i - 1 = j - 1
        BY <1>1, <3>1 DEF HistoryConsistent
      <3> QED
        BY <1>8, <3>2
    <2> QED
      BY <2>1, <2>2
  <1>10. ASSUME NEW i \in DOMAIN history'
         PROVE  history'[i].count = Cardinality(issues'[history'[i].id])
    <2>1. CASE i = 1
      BY <1>4, <1>5, <1>7, <1>8, <2>1
    <2>2. CASE i # 1
      <3>1. /\ i - 1 \in DOMAIN history /\ history'[i] = history[i - 1]
            /\ history'[i].id # scan[r].id
        BY <1>2, <1>6, <2>2
      <3>2. history[i - 1].count = Cardinality(issues[history[i - 1].id])
        BY <1>1, <3>1 DEF HistoryConsistent
      <3> QED
        BY <1>7, <1>8, <3>1, <3>2
    <2> QED
      BY <2>1, <2>2
  <1>11. HistoryConsistent'
    <2>1. DOMAIN issues' = (Ids(history))'
      BY <1>7 DEF Ids
    <2> QED
      BY <1>9, <1>10, <2>1 DEF HistoryConsistent
  <1> QED
    BY <1>4, <1>11 DEF HistoryOK, Records, RunIDs

LEMMA markFinishedInv ==
  ASSUME RepairInv, NEW r \in Runners, markFinished(r)
  PROVE  RepairInv'
  <1>1. /\ pc[r] = "finish"
        /\ running' = FALSE /\ lastRun' = scan[r].id /\ progress' = None
        /\ recordRun(r)
        /\ pc' = [pc EXCEPT ![r] = "idle"]
        /\ scan' = [scan EXCEPT ![r] = NoScan]
        /\ UNCHANGED <<health, leader, booted, lastTrigger, manual, faults>>
    BY DEF markFinished
  <1>2. EnvType'
    BY <1>1, FaultType, HealthKept
  <1>3. HistoryOK'
    BY <1>1, Recorded
  <1>4. \A q \in Runners : ~Active(q)' /\ scan'[q] = IF q = r THEN NoScan ELSE scan[q]
    <2>1. \A q \in Runners : Active(q) => q = r
      BY <1>1, InvParts DEF OneActive, Active
    <2> QED
      BY <1>1, <2>1, RunnerFacts DEF Active
  <1>5. RunsType'
    <2>1. pc' \in [Runners -> PCs] /\ scan' \in [Runners -> Scans]
      BY <1>1, NoScanGood, RunnerFacts DEF PCs, GoodScan
    <2>2. \A q \in Runners : GoodScan(scan'[q])
      BY <1>4, NoScanGood, RunnerFacts
    <2> QED
      BY <2>1, <2>2 DEF RunsType, GoodScan
  <1>6. \A q \in Runners : scan'[q].id = None
    <2>1. \A q \in Runners : q # r => ~Active(q)
      BY <1>1, InvParts DEF OneActive, Active
    <2> QED
      BY <1>4, <2>1, NoScanGood, RunnerFacts
  <1>7. StatusType'
    <2>1. scan[r].id \in {None} \cup RunIDs
      BY RunnerFacts DEF Scans
    <2> QED
      BY <1>1, <2>1 DEF StatusType, RunIDs
  <1>8. StatusOK' /\ OneActive' /\ IdsOK'
    BY <1>1, <1>4, <1>6 DEF StatusOK, OneActive, IdsOK
  <1> QED
    BY <1>2, <1>3, <1>5, <1>7, <1>8, InvParts

(***************************************************************************)
(* The invariant, and what it says.                                        *)
(***************************************************************************)
LEMMA StepInv ==
  ASSUME RepairInv, NEW r \in Runners,
         Scheduled(r) \/ Step(r) \/ Cancel(r) \/ ListBucketsFails(r)
  PROVE  RepairInv'
  <1>1. CASE Step(r)
    BY <1>1, SetManualTriggerInv, tryMarkStartedInv, ScanBucketInv, StopLimitedInv,
       CheckObjectInv, RepairTryInv, ContextDoneInv, ScanDoneInv, markFinishedInv DEF Step
  <1> QED
    BY <1>1, ScheduledInv, CancelInv, ListBucketsFailsInv

LEMMA NextInv == RepairInv /\ [Next]_vars => RepairInv'
  <1> SUFFICES ASSUME RepairInv, [Next]_vars PROVE RepairInv'
    OBVIOUS
  <1>1. ASSUME NEW o \in Objects, NEW h \in {"damaged", "bad", "gone"}, Damage(o, h)
        PROVE  RepairInv'
    BY <1>1, DamageInv
  <1>2. CASE LeadershipChanges
    BY <1>2, LeadershipChangesInv
  <1>3. ASSUME NEW r \in Runners,
               Scheduled(r) \/ Step(r) \/ Cancel(r) \/ ListBucketsFails(r)
        PROVE  RepairInv'
    BY <1>3, StepInv
  <1>4. ASSUME "admin" \in Runners, NEW b \in 0 .. Len(Layout), Manual(b)
        PROVE  RepairInv'
    BY <1>4, ManualInv
  <1>5. CASE UNCHANGED vars
    BY <1>5, AroundInv, InvParts DEF vars, EnvType
  <1> QED
    BY <1>1, <1>2, <1>3, <1>4, <1>5 DEF Next

\* The inductive invariant: the run that has started is the only one and the one the
\* status tells of, and its id is new to a consistent history.
THEOREM RepairInvariant == Spec => []RepairInv
  BY InitInv, NextInv, PTL DEF Spec

\* Types of the runs, the status and the history (internal/repair): a run never makes
\* more attempts than the batch, keeps no more issues than the limit, and the history
\* lists each run once with as many issues as it counts.
THEOREM RepairTypes == Spec => []RepairTypeOK
  <1>1. RepairInv => RepairTypeOK
    BY DEF RepairInv
  <1> QED
    BY <1>1, RepairInvariant, PTL

\* Single flight (tryMarkStarted, markFinished): whichever of the job, the initial run
\* and manual requests come together, one run at most has started, and the running flag,
\* the last run and the progress are that run's.
THEOREM OneRunAtATime == Spec => []SingleFlight
  <1>1. RepairInv => SingleFlight
    <2> SUFFICES ASSUME RepairInv PROVE SingleFlight
      OBVIOUS
    <2> DEFINE active == {r \in Runners : pc[r] \in {"scan", "finish"}}
    <2>1. \A r \in Runners : r \in active <=> Active(r)
      BY DEF Active
    <2>2. Cardinality(active) <= 1
      <3>1. CASE active = {}
        BY <3>1, FS_EmptySet
      <3>2. CASE active # {}
        <4>1. PICK r \in Runners : active = {r}
          BY <2>1, <3>2, InvParts DEF OneActive
        <4> QED
          BY <4>1, FS_Singleton
      <3> QED
        BY <3>1, <3>2
    <2>3. running <=> active # {}
      BY <2>1, InvParts DEF StatusOK
    <2>4. \A r \in active : lastRun = scan[r].id /\ progress = scan[r].id
      BY <2>1, InvParts DEF StatusOK
    <2>5. ~running => progress = None
      BY InvParts DEF StatusOK
    <2> QED
      BY <2>2, <2>3, <2>4, <2>5 DEF SingleFlight
  <1> QED
    BY <1>1, RepairInvariant, PTL
===============================================================================
