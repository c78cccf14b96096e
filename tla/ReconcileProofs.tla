---------------------------- MODULE ReconcileProofs ----------------------------
(***************************************************************************)
(* The reconciliation of the membership for any replicas, servers, requests *)
(* in flight, wishes and faults: its types, what a request may remove, and  *)
(* what an undisturbed request leaves.  They rest on ReconcileInv: how far  *)
(* a request that nothing has interfered with has brought the membership.   *)
(***************************************************************************)
EXTENDS Reconcile, FiniteSetTheorems, TLAPS

Labels == {"idle", "before", "add", "remove", "after", "set", "done"}
Requests ==
    [op : {"none", "add_only", "exact", "bootstrap", "join"}, server : Servers,
     current : Partial(Replicas, Addrs), desired : Partial(Replicas, Addrs),
     todo : SUBSET Replicas, next : Partial(Replicas, Addrs \cup {Http}),
     res : {"none", "error", "conflict", "applied"}]

(* The states of the variables around the handlers. *)
Around ==
    /\ nodes \in Partial(Replicas, Addrs) /\ removed \subseteq Replicas
    /\ DOMAIN nodes \cap removed = {}
    /\ view \in [Servers -> Partial(Replicas, Entries)]
    /\ table \in [Servers -> Partial(Replicas, Addrs \cup {Http})]
    /\ disturbed \subseteq Handlers
    /\ requests \in 0 .. MaxRequests /\ gossips \in 0 .. MaxGossip /\ faults \in 0 .. MaxFaults

(* The handlers' locals are records. *)
Shapes == Around /\ pc \in [Handlers -> Labels] /\ req \in [Handlers -> Requests]

Reconciling(r) == r.op \in {"add_only", "exact"}

(* The members a reconcile promises, from the view it was made with. *)
Promised(r, w) == usable(w) \cup {r.server} \cup (IF r.op = "add_only" THEN DOMAIN r.current ELSE {})

(* The plan of a reconcile lists them, at the addresses they gossip. *)
FromPlan(r, w) ==
    /\ DOMAIN r.desired = Promised(r, w)
    /\ \A i \in usable(w) : r.desired[i] = w[i].raft

(* The membership agrees with the wish. *)
Agrees(n, d) == \A i \in DOMAIN d \cap DOMAIN n : n[i] = d[i]

(* The members are the promised ones. *)
Reached(r, n, w) ==
    /\ DOMAIN n = Promised(r, w)
    /\ \A i \in usable(w) : n[i] = w[i].raft

(* What holds of a request's locals whatever happens around it. *)
LocalsOK(l, r) ==
    /\ l = "add" => r.todo \subseteq DOMAIN r.desired
    /\ l = "remove" => r.todo \cap DOMAIN r.desired = {}
    /\ l \in {"add", "remove"} /\ r.op # "join" => r.server \in DOMAIN r.desired
    /\ l \in {"before", "add", "remove"} /\ r.op = "add_only" =>
          DOMAIN r.current \subseteq DOMAIN r.desired
    /\ l \in {"before", "remove"} => r.op # "join"
    /\ l = "after" => ~Reconciling(r)
    /\ l = "add" /\ r.op = "join" => \A i, j \in r.todo : i = j
    /\ l = "idle" => r.res = "none"

(* What a request's steps so far have made of the membership n, the removed *)
(* ids x, and the view w and storage nodes t of its server, if nothing has  *)
(* interfered with it.                                                      *)
BeforeOK(r, n, w) == n = r.current /\ (Reconciling(r) => FromPlan(r, w))

AddOK(r, n, x, w) ==
    /\ r.server \in DOMAIN n
    /\ r.op = "join" => (r.todo # {} => n = r.current)
    /\ r.op # "join" =>
         /\ DOMAIN r.desired \cap x = {} /\ Agrees(n, r.desired)
         /\ DOMAIN r.desired \subseteq DOMAIN n \cup r.todo
    /\ Reconciling(r) => FromPlan(r, w)

RemoveOK(r, n, w) ==
    /\ DOMAIN r.desired \subseteq DOMAIN n /\ DOMAIN n \subseteq DOMAIN r.desired \cup r.todo
    /\ Agrees(n, r.desired)
    /\ Reconciling(r) => FromPlan(r, w)

Mapped(n, w) == [i \in DOMAIN n |-> IF i \in DOMAIN w THEN Http ELSE n[i]]

SetOK(r, n, w) == Reconciling(r) => r.next = Mapped(n, w) /\ Reached(r, n, w)

DoneOK(r, n, w, t) ==
    /\ r.res \in {"error", "conflict"} => n = r.current
    /\ r.res = "applied" /\ Reconciling(r) => t = Mapped(n, w) /\ Reached(r, n, w)

StepsOK(l, r, n, x, w, t) ==
    /\ l = "before" => BeforeOK(r, n, w)
    /\ l = "add" => AddOK(r, n, x, w)
    /\ l = "remove" => RemoveOK(r, n, w)
    /\ l = "after" => r.server \in DOMAIN n
    /\ l = "set" => SetOK(r, n, w)
    /\ l = "done" => DoneOK(r, n, w, t)

HandlerOK(h) ==
    /\ LocalsOK(pc[h], req[h])
    /\ h \notin disturbed =>
         StepsOK(pc[h], req[h], nodes, removed, view[req[h].server], table[req[h].server])

ReconcileInv == Shapes /\ \A h \in Handlers : HandlerOK(h)

(***************************************************************************)
(* Helpers                                                                 *)
(***************************************************************************)
LEMMA LeastExists ==
  ASSUME NEW T, T \subseteq Nat, IsFiniteSet(T), T # {}
  PROVE  \E x \in T : \A y \in T : x <= y
  <1> DEFINE upTo(x) == {y \in T : y <= x}
             family == {upTo(x) : x \in T}
  <1>1. IsWellFoundedOn(StrictSubsetOrdering(T), SUBSET T)
    <2>1. FiniteSubsetsOf(T) = SUBSET T
      BY FS_FiniteSubsetsOfFinite
    <2>2. IsWellFoundedOn(StrictSubsetOrdering(T), FiniteSubsetsOf(T))
      BY FS_StrictSubsetOrderingWellFounded
    <2> QED
      BY <2>1, <2>2
  <1>2. family \subseteq SUBSET T /\ family # {}
    OBVIOUS
  <1>3. PICK s \in family : \A t \in family : ~(<<t, s>> \in StrictSubsetOrdering(T))
    BY <1>1, <1>2, WFMin
  <1>4. PICK x \in T : s = upTo(x)
    OBVIOUS
  <1>5. ASSUME NEW y \in T, y < x
        PROVE  FALSE
    <2>1. upTo(y) \in family
      OBVIOUS
    <2> x \in Int /\ y \in Int /\ \A z \in T : z \in Int
      OBVIOUS
    <2>2. upTo(y) \subseteq upTo(x) /\ x \in upTo(x) /\ x \notin upTo(y)
      <3>1. \A z \in T : z <= y => z <= x
        BY <1>5
      <3>2. x <= x /\ ~(x <= y)
        BY <1>5
      <3> QED
        BY <3>1, <3>2
    <2>3. <<upTo(y), upTo(x)>> \in StrictSubsetOrdering(T)
      BY <2>2 DEF StrictSubsetOrdering
    <2> QED
      BY <1>3, <1>4, <2>1, <2>3
  <1>6. \A y \in T : x <= y
    BY <1>5
  <1> QED
    BY <1>6

\* ... and CHOOSE takes it.
LEMMA LeastMember ==
  ASSUME NEW T, T \subseteq Nat, IsFiniteSet(T), T # {}
  PROVE  /\ (CHOOSE x \in T : \A y \in T : x <= y) \in T
         /\ \A z \in T : (CHOOSE x \in T : \A y \in T : x <= y) <= z
  BY LeastExists

\* The bounds are numbers and the replicas a finite set of them.
LEMMA Limits ==
  /\ Replicas \subseteq Nat /\ IsFiniteSet(Replicas)
  /\ Servers \subseteq Replicas /\ Servers # {}
  /\ Advertised \in [Replicas -> SUBSET Addrs]
  /\ InitNodes \in Partial(Replicas, Addrs)
  /\ Wishes \subseteq Partial(Replicas, Addrs)
  /\ MaxRequests \in Nat /\ MaxGossip \in Nat /\ MaxFaults \in Nat
  <1>1. InitNodes \in Partial(Replicas, Addrs)
    BY ReconcileAssumption DEF Partial
  <1>2. Wishes \subseteq Partial(Replicas, Addrs)
    BY ReconcileAssumption DEF Partial
  <1> QED
    BY <1>1, <1>2, ReconcileAssumption

\* The next replica of a sync is one of those left.
LEMMA NextReplica ==
  ASSUME NEW T \in SUBSET Replicas, T # {}
  PROVE  Min(T) \in T
  <1>1. T \subseteq Nat /\ IsFiniteSet(T)
    BY Limits, FS_Subset
  <1> QED
    BY <1>1, LeastMember DEF Min

\* Memberships, views and tables as functions.
LEMMA PartialIs ==
  ASSUME NEW S, NEW T, NEW f \in Partial(S, T)
  PROVE  /\ DOMAIN f \subseteq S
         /\ \A i \in DOMAIN f : f[i] \in T
         /\ f = [i \in DOMAIN f |-> f[i]]
  BY DEF Partial

LEMMA PartialMade ==
  ASSUME NEW S, NEW T, NEW R \in SUBSET S, NEW f \in [R -> T]
  PROVE  f \in Partial(S, T)
  BY DEF Partial

LEMMA EmptyPartial ==
  ASSUME NEW S, NEW T
  PROVE  Empty \in Partial(S, T)
  <1>1. Empty \in [{} -> T]
    BY DEF Empty
  <1> QED
    BY <1>1, PartialMade

LEMMA EmptyDomain == DOMAIN Empty = {}
  BY DEF Empty

LEMMA WithIs ==
  ASSUME NEW S, NEW T, NEW f \in Partial(S, T), NEW i \in S, NEW v \in T
  PROVE  /\ With(f, i, v) \in Partial(S, T)
         /\ DOMAIN With(f, i, v) = DOMAIN f \cup {i}
         /\ With(f, i, v)[i] = v
         /\ \A j \in DOMAIN f : j # i => With(f, i, v)[j] = f[j]
  <1>1. DOMAIN f \cup {i} \in SUBSET S
    BY PartialIs
  <1>2. With(f, i, v) \in [DOMAIN f \cup {i} -> T]
    BY PartialIs DEF With
  <1>3. With(f, i, v) \in Partial(S, T)
    BY <1>1, <1>2, PartialMade
  <1> QED
    BY <1>3 DEF With

LEMMA WithoutIs ==
  ASSUME NEW S, NEW T, NEW f \in Partial(S, T), NEW R
  PROVE  /\ Without(f, R) \in Partial(S, T)
         /\ DOMAIN Without(f, R) = DOMAIN f \ R
         /\ \A j \in DOMAIN f \ R : Without(f, R)[j] = f[j]
  <1>1. DOMAIN f \ R \in SUBSET S
    BY PartialIs
  <1>2. Without(f, R) \in [DOMAIN f \ R -> T]
    BY PartialIs DEF Without, Restrict
  <1>3. Without(f, R) \in Partial(S, T)
    BY <1>1, <1>2, PartialMade
  <1> QED
    BY <1>3 DEF Without, Restrict

\* A membership is mapped to storage nodes.
LEMMA MappedType ==
  ASSUME NEW n \in Partial(Replicas, Addrs), NEW w
  PROVE  Mapped(n, w) \in Partial(Replicas, Addrs \cup {Http})
  <1>1. Mapped(n, w) \in [DOMAIN n -> Addrs \cup {Http}]
    BY PartialIs DEF Mapped
  <1>2. DOMAIN n \in SUBSET Replicas
    BY PartialIs
  <1> QED
    BY <1>1, <1>2, PartialMade

(***************************************************************************)
(* The plan                                                                *)
(***************************************************************************)
\* Merging a view: the listed members stay as they are and the usable nodes
\* that are not listed are taken from the view.
LEMMA MergedIs ==
  ASSUME NEW d \in Partial(Replicas, Addrs), NEW w \in Partial(Replicas, Entries)
  PROVE  /\ mergeDiscoveredMembers(d, w) \in Partial(Replicas, Addrs)
         /\ DOMAIN mergeDiscoveredMembers(d, w) = DOMAIN d \cup usable(w)
         /\ \A i \in DOMAIN d : mergeDiscoveredMembers(d, w)[i] = d[i]
         /\ \A i \in usable(w) \ DOMAIN d : mergeDiscoveredMembers(d, w)[i] = w[i].raft
  <1> DEFINE R == DOMAIN d \cup usable(w)
  <1>1. DOMAIN d \subseteq Replicas /\ usable(w) \subseteq DOMAIN w /\ DOMAIN w \subseteq Replicas
    BY PartialIs DEF usable
  <1>2. \A i \in usable(w) : w[i].raft \in Addrs
    <2>1. \A i \in DOMAIN w : w[i] \in Entries
      BY PartialIs
    <2> QED
      BY <1>1, <2>1 DEF Entries
  <1>3. \A i \in DOMAIN d : d[i] \in Addrs
    BY PartialIs
  <1>4. mergeDiscoveredMembers(d, w) \in [R -> Addrs]
    BY <1>2, <1>3 DEF mergeDiscoveredMembers
  <1>5. R \in SUBSET Replicas
    BY <1>1
  <1>6. mergeDiscoveredMembers(d, w) \in Partial(Replicas, Addrs)
    BY <1>4, <1>5, PartialMade
  <1> QED
    BY <1>6 DEF mergeDiscoveredMembers

\* A plan is a membership.
LEMMA PlanType ==
  ASSUME NEW n \in Partial(Replicas, Addrs), NEW w \in Partial(Replicas, Entries),
         NEW s \in Servers, NEW exact \in BOOLEAN
  PROVE  BuildClusterReconcilePlan(n, w, s, exact).desired \in Partial(Replicas, Addrs)
  <1> DEFINE base == desiredMembersBase(n, exact)
             merged == mergeDiscoveredMembers(base, w)
  <1>1. base \in Partial(Replicas, Addrs)
    BY EmptyPartial DEF desiredMembersBase
  <1>2. merged \in Partial(Replicas, Addrs)
    BY <1>1, MergedIs
  <1>3. keepLocalMember(merged, n, s) \in Partial(Replicas, Addrs)
    <2>1. CASE s \in DOMAIN n /\ s \notin DOMAIN merged
      <3>1. s \in Replicas /\ n[s] \in Addrs
        BY <2>1, PartialIs
      <3>2. With(merged, s, n[s]) \in Partial(Replicas, Addrs)
        BY <1>2, <3>1, WithIs
      <3> QED
        BY <2>1, <3>2 DEF keepLocalMember
    <2>2. CASE ~(s \in DOMAIN n /\ s \notin DOMAIN merged)
      <3> keepLocalMember(merged, n, s) = merged
        BY <2>2 DEF keepLocalMember
      <3> QED
        BY <1>2
    <2> QED
      BY <2>1, <2>2
  <1> QED
    BY <1>2, <1>3 DEF BuildClusterReconcilePlan

\* An add_only plan without a conflict: the members and the usable nodes, at
\* the addresses both agree on.
LEMMA AddOnlyPlan ==
  ASSUME NEW n \in Partial(Replicas, Addrs), NEW w \in Partial(Replicas, Entries),
         NEW s \in Servers,
         BuildClusterReconcilePlan(n, w, s, FALSE).conflicts = {}
  PROVE  LET d == BuildClusterReconcilePlan(n, w, s, FALSE).desired IN
         /\ DOMAIN d = DOMAIN n \cup usable(w)
         /\ \A i \in usable(w) : d[i] = w[i].raft
  <1>1. desiredMembersBase(n, FALSE) = n
    BY DEF desiredMembersBase
  <1>2. BuildClusterReconcilePlan(n, w, s, FALSE).desired = mergeDiscoveredMembers(n, w)
    BY <1>1 DEF BuildClusterReconcilePlan
  <1>3. conflicts(n, w) = {}
    BY <1>1 DEF BuildClusterReconcilePlan
  <1>4. \A i \in usable(w) \cap DOMAIN n : n[i] = w[i].raft
    BY <1>3 DEF conflicts
  <1> DEFINE d == mergeDiscoveredMembers(n, w)
  <1>5. /\ DOMAIN d = DOMAIN n \cup usable(w)
        /\ \A i \in DOMAIN n : d[i] = n[i]
        /\ \A i \in usable(w) \ DOMAIN n : d[i] = w[i].raft
    BY MergedIs
  <1> HIDE DEF d
  <1>6. \A i \in usable(w) : d[i] = w[i].raft
    BY <1>4, <1>5
  <1> QED
    BY <1>2, <1>5, <1>6 DEF d

\* An exact plan of a server that is a member: the usable nodes and itself.
LEMMA ExactPlan ==
  ASSUME NEW n \in Partial(Replicas, Addrs), NEW w \in Partial(Replicas, Entries),
         NEW s \in Servers, s \in DOMAIN n
  PROVE  LET d == BuildClusterReconcilePlan(n, w, s, TRUE).desired IN
         /\ DOMAIN d = usable(w) \cup {s}
         /\ \A i \in usable(w) : d[i] = w[i].raft
  <1> DEFINE merged == mergeDiscoveredMembers(Empty, w)
  <1>1. desiredMembersBase(n, TRUE) = Empty
    BY DEF desiredMembersBase
  <1>2. BuildClusterReconcilePlan(n, w, s, TRUE).desired = keepLocalMember(merged, n, s)
    BY <1>1 DEF BuildClusterReconcilePlan
  <1>3. /\ merged \in Partial(Replicas, Addrs)
        /\ DOMAIN merged = usable(w)
        /\ \A i \in usable(w) : merged[i] = w[i].raft
    <2>1. Empty \in Partial(Replicas, Addrs)
      BY EmptyPartial
    <2>2. /\ merged \in Partial(Replicas, Addrs)
          /\ DOMAIN merged = DOMAIN Empty \cup usable(w)
          /\ \A i \in usable(w) \ DOMAIN Empty : merged[i] = w[i].raft
      BY <2>1, MergedIs
    <2> HIDE DEF merged
    <2> QED
      BY <2>2, EmptyDomain
  <1> HIDE DEF merged
  <1>4. CASE s \in DOMAIN merged
    BY <1>2, <1>3, <1>4 DEF keepLocalMember
  <1>5. CASE s \notin DOMAIN merged
    <2>1. keepLocalMember(merged, n, s) = With(merged, s, n[s])
      BY <1>5 DEF keepLocalMember
    <2>2. s \in Replicas /\ n[s] \in Addrs
      BY PartialIs
    <2>3. /\ DOMAIN With(merged, s, n[s]) = DOMAIN merged \cup {s}
          /\ \A j \in DOMAIN merged : j # s => With(merged, s, n[s])[j] = merged[j]
      BY DEF With
    <2> DEFINE kept == With(merged, s, n[s])
    <2>4. DOMAIN kept = usable(w) \cup {s} /\ \A i \in usable(w) : kept[i] = w[i].raft
      BY <1>3, <1>5, <2>3
    <2>5. BuildClusterReconcilePlan(n, w, s, TRUE).desired = kept
      BY <1>2, <2>1
    <2> HIDE DEF kept
    <2> QED
      BY <2>4, <2>5
  <1> QED
    BY <1>4, <1>5

(***************************************************************************)
(* What every step keeps                                                   *)
(***************************************************************************)
\* The invariant in its parts, before and after a step.
LEMMA InvParts ==
  /\ ReconcileInv <=>
       /\ Around
       /\ pc \in [Handlers -> Labels] /\ req \in [Handlers -> Requests]
       /\ \A h \in Handlers : HandlerOK(h)
  /\ ReconcileInv' <=>
       /\ Around'
       /\ pc' \in [Handlers -> Labels] /\ req' \in [Handlers -> Requests]
       /\ \A h \in Handlers : HandlerOK(h)'
  BY DEF ReconcileInv, Shapes

\* What the steps of others leave a request: its locals, and, unless it is
\* disturbed, everything its progress is about.
Undisturbed(g) ==
    g \notin disturbed' =>
      /\ g \notin disturbed
      /\ nodes' = nodes /\ removed' = removed
      /\ view'[req[g].server] = view[req[g].server]
      /\ table'[req[g].server] = table[req[g].server]

\* So what holds of the request still holds.
LEMMA OtherKept ==
  ASSUME NEW g \in Handlers, HandlerOK(g), pc'[g] = pc[g], req'[g] = req[g], Undisturbed(g)
  PROVE  HandlerOK(g)'
  BY DEF HandlerOK, Undisturbed

\* A step of one request that goes on at label l with locals r.
LEMMA Going ==
  ASSUME ReconcileInv, NEW h \in Handlers, NEW l \in Labels, NEW r \in Requests,
         Goto(h, l, r), Around',
         LocalsOK(l, r),
         h \notin disturbed' =>
            StepsOK(l, r, nodes', removed', view'[r.server], table'[r.server]),
         \A g \in Handlers \ {h} : Undisturbed(g)
  PROVE  ReconcileInv'
  <1>1. pc \in [Handlers -> Labels] /\ req \in [Handlers -> Requests]
    BY InvParts
  <1>2. pc' = [pc EXCEPT ![h] = l] /\ req' = [req EXCEPT ![h] = r]
    BY DEF Goto
  <1>3. pc' \in [Handlers -> Labels] /\ req' \in [Handlers -> Requests]
    BY <1>1, <1>2
  <1>4. pc'[h] = l /\ req'[h] = r
    BY <1>1, <1>2
  <1>5. HandlerOK(h)'
    BY <1>4 DEF HandlerOK
  <1>6. ASSUME NEW g \in Handlers \ {h}
        PROVE  HandlerOK(g)'
    <2>1. HandlerOK(g)
      BY InvParts
    <2>2. pc'[g] = pc[g] /\ req'[g] = req[g]
      BY <1>1, <1>2
    <2> QED
      BY <2>1, <2>2, OtherKept
  <1> QED
    BY <1>3, <1>5, <1>6, InvParts

\* A step of one request that answers it.
LEMMA Answering ==
  ASSUME ReconcileInv, NEW h \in Handlers, NEW r \in Requests,
         NEW res \in {"error", "conflict", "applied"},
         Answer(h, r, res), Around',
         h \notin disturbed' =>
            /\ res \in {"error", "conflict"} => nodes' = r.current
            /\ res = "applied" /\ Reconciling(r) =>
                 /\ table'[r.server] = Mapped(nodes', view'[r.server])
                 /\ Reached(r, nodes', view'[r.server]),
         \A g \in Handlers \ {h} : Undisturbed(g)
  PROVE  ReconcileInv'
  <1> DEFINE q == [r EXCEPT !.res = res, !.desired = Empty, !.todo = {}, !.next = Empty]
  <1>1. Goto(h, "done", q)
    BY DEF Answer
  <1>2. /\ q.op = r.op /\ q.server = r.server /\ q.current = r.current /\ q.res = res
        /\ q.desired = Empty /\ q.todo = {} /\ q.next = Empty
    BY DEF Requests
  <1>3. q \in Requests
    <2>1. Empty \in Partial(Replicas, Addrs) /\ Empty \in Partial(Replicas, Addrs \cup {Http})
      BY EmptyPartial
    <2> QED
      BY <2>1 DEF Requests
  <1> HIDE DEF q
  <1>4. LocalsOK("done", q)
    BY <1>2 DEF LocalsOK
  <1>5. ASSUME h \notin disturbed'
        PROVE  StepsOK("done", q, nodes', removed', view'[q.server], table'[q.server])
    <2>1. Reconciling(q) = Reconciling(r)
      BY <1>2 DEF Reconciling
    <2>2. ASSUME NEW n, NEW w
          PROVE  Reached(q, n, w) = Reached(r, n, w)
      BY <1>2 DEF Reached, Promised
    <2> QED
      BY <1>2, <1>5, <2>1, <2>2 DEF StepsOK, DoneOK
  <1>6. "done" \in Labels
    BY DEF Labels
  <1> QED
    BY <1>1, <1>3, <1>4, <1>5, <1>6, Going

\* A step that only changes a request and its own locals.
LEMMA LocalSteps ==
  ASSUME ReconcileInv, NEW h \in Handlers, Local
  PROVE  Around' /\ (h \notin disturbed' => h \notin disturbed)
         /\ \A g \in Handlers \ {h} : Undisturbed(g)
  <1>1. Around
    BY InvParts
  <1> QED
    BY <1>1 DEF Local, Around, raftVars, counters, Undisturbed

\* What is known of a handler.
LEMMA HandlerFacts ==
  ASSUME ReconcileInv, NEW h \in Handlers
  PROVE  /\ pc[h] \in Labels /\ req[h] \in Requests
         /\ LocalsOK(pc[h], req[h])
         /\ h \notin disturbed =>
              StepsOK(pc[h], req[h], nodes, removed, view[req[h].server], table[req[h].server])
         /\ Around
  BY InvParts DEF HandlerOK

\* The fields of a request's locals.
LEMMA RequestFields ==
  ASSUME NEW r \in Requests
  PROVE  /\ r.op \in {"none", "add_only", "exact", "bootstrap", "join"}
         /\ r.server \in Servers
         /\ r.current \in Partial(Replicas, Addrs) /\ r.desired \in Partial(Replicas, Addrs)
         /\ r.todo \in SUBSET Replicas
         /\ r.next \in Partial(Replicas, Addrs \cup {Http})
         /\ r.res \in {"none", "error", "conflict", "applied"}
  BY DEF Requests

\* What is left to do may be replaced.
LEMMA WithTodo ==
  ASSUME NEW r \in Requests, NEW T \in SUBSET Replicas
  PROVE  LET q == [r EXCEPT !.todo = T] IN
         /\ q \in Requests
         /\ q.op = r.op /\ q.server = r.server /\ q.current = r.current
         /\ q.desired = r.desired /\ q.todo = T /\ q.next = r.next /\ q.res = r.res
  BY DEF Requests

(***************************************************************************)
(* The initial state and discovery                                         *)
(***************************************************************************)
LEMMA InitInv == Init => ReconcileInv
  <1> SUFFICES ASSUME Init
               PROVE  ReconcileInv
    OBVIOUS
  <1>1. Min(Servers) \in Servers
    <2>1. Servers \in SUBSET Replicas /\ Servers # {}
      BY Limits
    <2> QED
      BY <2>1, NextReplica
  <1>2. NoReq(Min(Servers)) \in Requests /\ NoReq(Min(Servers)).res = "none"
    <2>1. Empty \in Partial(Replicas, Addrs) /\ Empty \in Partial(Replicas, Addrs \cup {Http})
      BY EmptyPartial
    <2> QED
      BY <1>1, <2>1 DEF NoReq, Requests
  <1>3. Around
    <2>1. Empty \in Partial(Replicas, Entries)
      BY EmptyPartial
    <2>2. [i \in DOMAIN InitNodes |-> InitNodes[i]] \in Partial(Replicas, Addrs \cup {Http})
      <3>1. /\ DOMAIN InitNodes \in SUBSET Replicas
            /\ [i \in DOMAIN InitNodes |-> InitNodes[i]] \in [DOMAIN InitNodes -> Addrs \cup {Http}]
        BY Limits, PartialIs
      <3> QED
        BY <3>1, PartialMade
    <2>3. view \in [Servers -> Partial(Replicas, Entries)]
      BY <2>1 DEF Init
    <2>4. table \in [Servers -> Partial(Replicas, Addrs \cup {Http})]
      BY <2>2 DEF Init
    <2>5. requests \in 0 .. MaxRequests /\ gossips \in 0 .. MaxGossip /\ faults \in 0 .. MaxFaults
      BY Limits DEF Init
    <2> QED
      BY <2>3, <2>4, <2>5, Limits DEF Around, Init
  <1>4. pc \in [Handlers -> Labels] /\ req \in [Handlers -> Requests]
    BY <1>2 DEF Init, Labels
  <1>5. ASSUME NEW h \in Handlers
        PROVE  HandlerOK(h)
    <2>1. pc[h] = "idle" /\ req[h] = NoReq(Min(Servers))
      BY DEF Init
    <2> QED
      BY <1>2, <2>1 DEF HandlerOK, LocalsOK, StepsOK
  <1> QED
    BY <1>3, <1>4, <1>5, InvParts

\* A change of what a server sees disturbs the requests it is answering.
LEMMA SeenByInv ==
  ASSUME ReconcileInv, NEW s \in Servers, NEW w \in Partial(Replicas, Entries), SeenBy(s, w)
  PROVE  ReconcileInv'
  <1>1. Around /\ pc \in [Handlers -> Labels] /\ req \in [Handlers -> Requests]
    BY InvParts
  <1>2. /\ gossips < MaxGossip /\ gossips' = gossips + 1
        /\ view' = [view EXCEPT ![s] = w]
        /\ disturbed' = disturbed \cup {h \in Handlers : req[h].server = s}
        /\ nodes' = nodes /\ removed' = removed /\ table' = table /\ pc' = pc /\ req' = req
        /\ requests' = requests /\ faults' = faults
    BY DEF SeenBy, raftVars
  <1>3. gossips' \in 0 .. MaxGossip
    BY <1>1, <1>2, Limits DEF Around
  <1>4. view' \in [Servers -> Partial(Replicas, Entries)]
    BY <1>1, <1>2 DEF Around
  <1>5. Around'
    BY <1>1, <1>2, <1>3, <1>4 DEF Around
  <1>6. ASSUME NEW g \in Handlers
        PROVE  HandlerOK(g)'
    <2>1. HandlerOK(g)
      BY InvParts
    <2>2. view \in [Servers -> Partial(Replicas, Entries)]
      BY <1>1 DEF Around
    <2>3. Undisturbed(g)
      BY <1>2, <2>2 DEF Undisturbed
    <2> QED
      BY <1>2, <2>1, <2>3, OtherKept
  <1> QED
    BY <1>1, <1>2, <1>5, <1>6, InvParts

LEMMA DiscoveryStartInv ==
  ASSUME ReconcileInv, NEW s \in Servers, DiscoveryStart(s)
  PROVE  ReconcileInv'
  <1>1. PICK others \in SUBSET (Replicas \ {s}) :
          \E at \in [others \cup {s} -> Addrs] :
             SeenBy(s, [i \in DOMAIN at |-> [state |-> "alive", raft |-> at[i]]])
    BY DEF DiscoveryStart
  <1>2. PICK at \in [others \cup {s} -> Addrs] :
          SeenBy(s, [i \in DOMAIN at |-> [state |-> "alive", raft |-> at[i]]])
    BY <1>1
  <1> DEFINE w == [i \in DOMAIN at |-> [state |-> "alive", raft |-> at[i]]]
  <1>3. w \in [others \cup {s} -> Entries]
    BY DEF Entries
  <1>4. others \cup {s} \in SUBSET Replicas
    BY Limits
  <1>5. w \in Partial(Replicas, Entries)
    BY <1>3, <1>4, PartialMade
  <1> QED
    BY <1>2, <1>5, SeenByInv

LEMMA DiscoveryStopInv ==
  ASSUME ReconcileInv, NEW s \in Servers, DiscoveryStop(s)
  PROVE  ReconcileInv'
  <1>1. Empty \in Partial(Replicas, Entries)
    BY EmptyPartial
  <1> QED
    BY <1>1, SeenByInv DEF DiscoveryStop

LEMMA GossipChangesInv ==
  ASSUME ReconcileInv, NEW s \in Servers, GossipChanges(s)
  PROVE  ReconcileInv'
  <1>1. view[s] \in Partial(Replicas, Entries)
    BY InvParts DEF Around
  <1>2. PICK i \in Replicas :
          \/ \E e \in Entries : SeenBy(s, With(view[s], i, e))
          \/ SeenBy(s, Without(view[s], {i}))
    BY DEF GossipChanges
  <1>3. CASE \E e \in Entries : SeenBy(s, With(view[s], i, e))
    <2>1. PICK e \in Entries : SeenBy(s, With(view[s], i, e))
      BY <1>3
    <2>2. With(view[s], i, e) \in Partial(Replicas, Entries)
      BY <1>1, WithIs
    <2> QED
      BY <2>1, <2>2, SeenByInv
  <1>4. CASE SeenBy(s, Without(view[s], {i}))
    <2>1. Without(view[s], {i}) \in Partial(Replicas, Entries)
      BY <1>1, WithoutIs
    <2> QED
      BY <1>4, <2>1, SeenByInv
  <1> QED
    BY <1>2, <1>3, <1>4

(***************************************************************************)
(* The arrival of a request                                                *)
(***************************************************************************)
\* A request that arrives is undisturbed, and disturbs nothing.
LEMMA ArriveKeeps ==
  ASSUME ReconcileInv, NEW h \in Handlers, Arrive(h)
  PROVE  /\ Around' /\ nodes' = nodes /\ removed' = removed /\ view' = view /\ table' = table
         /\ \A g \in Handlers \ {h} : Undisturbed(g)
  <1>1. Around
    BY InvParts
  <1>2. /\ requests < MaxRequests /\ requests' = requests + 1
        /\ disturbed' = disturbed \ {h}
        /\ nodes' = nodes /\ removed' = removed /\ view' = view /\ table' = table
        /\ gossips' = gossips /\ faults' = faults
    BY DEF Arrive, raftVars
  <1>3. requests' \in 0 .. MaxRequests
    BY <1>1, <1>2, Limits DEF Around
  <1>4. Around'
    BY <1>1, <1>2, <1>3 DEF Around
  <1>5. \A g \in Handlers \ {h} : Undisturbed(g)
    BY <1>2 DEF Undisturbed
  <1> QED
    BY <1>2, <1>4, <1>5

\* A request refused when it arrives has changed nothing.
LEMMA ArriveAnswered ==
  ASSUME ReconcileInv, NEW h \in Handlers, Arrive(h), NEW r \in Requests, r.current = nodes,
         NEW res \in {"error", "conflict"}, Answer(h, r, res)
  PROVE  ReconcileInv'
  BY ArriveKeeps, Answering

LEMMA ReconcileArrives ==
  ASSUME ReconcileInv, NEW h \in Handlers, Reconcile(h)
  PROVE  ReconcileInv'
  <1> USE DEF Labels
  <1>1. PICK s \in Servers, op \in {"add_only", "exact"} :
          LET plan == BuildClusterReconcilePlan(nodes, view[s], s, op = "exact")
              r == [NoReq(s) EXCEPT !.op = op, !.current = nodes, !.desired = plan.desired]
          IN  /\ Arrive(h)
              /\ \/ Answer(h, r, "error")
                 \/ Answer(h, r, "conflict")
                 \/ Served(s) /\ plan.conflicts = {} /\ Goto(h, "before", r)
    BY DEF Reconcile
  <1> DEFINE exact == op = "exact"
             plan == BuildClusterReconcilePlan(nodes, view[s], s, exact)
             d == plan.desired
             r == [NoReq(s) EXCEPT !.op = op, !.current = nodes, !.desired = d]
  <1>2. nodes \in Partial(Replicas, Addrs) /\ view[s] \in Partial(Replicas, Entries)
    BY InvParts DEF Around
  <1>3. d \in Partial(Replicas, Addrs)
    BY <1>2, PlanType
  <1>4. Arrive(h)
    BY <1>1
  <1>5. Answer(h, r, "error") \/ Answer(h, r, "conflict")
        \/ (Served(s) /\ plan.conflicts = {} /\ Goto(h, "before", r))
    BY <1>1
  <1>6. s \in DOMAIN nodes /\ plan.conflicts = {} =>
          /\ DOMAIN d = usable(view[s]) \cup {s} \cup (IF op = "add_only" THEN DOMAIN nodes ELSE {})
          /\ \A i \in usable(view[s]) : d[i] = view[s][i].raft
    <2> SUFFICES ASSUME s \in DOMAIN nodes, plan.conflicts = {}
                 PROVE  /\ DOMAIN d = usable(view[s]) \cup {s}
                                      \cup (IF op = "add_only" THEN DOMAIN nodes ELSE {})
                        /\ \A i \in usable(view[s]) : d[i] = view[s][i].raft
      OBVIOUS
    <2>1. CASE op = "add_only"
      <3>1. exact = FALSE
        BY <2>1
      <3>2. DOMAIN d = DOMAIN nodes \cup usable(view[s])
            /\ \A i \in usable(view[s]) : d[i] = view[s][i].raft
        BY <1>2, <3>1, AddOnlyPlan
      <3> HIDE DEF d
      <3> QED
        BY <2>1, <3>2
    <2>2. CASE op = "exact"
      <3>1. exact = TRUE
        BY <2>2
      <3>2. DOMAIN d = usable(view[s]) \cup {s}
            /\ \A i \in usable(view[s]) : d[i] = view[s][i].raft
        BY <1>2, <3>1, ExactPlan
      <3> HIDE DEF d
      <3> QED
        BY <2>2, <3>2
    <2> QED
      BY <2>1, <2>2
  <1> HIDE DEF d, plan
  <1>7. /\ r \in Requests
        /\ r.op = op /\ r.server = s /\ r.current = nodes /\ r.desired = d
        /\ r.todo = {} /\ r.next = Empty /\ r.res = "none"
    <2>1. Empty \in Partial(Replicas, Addrs \cup {Http})
      BY EmptyPartial
    <2> QED
      BY <1>2, <1>3, <2>1 DEF NoReq, Requests
  <1> HIDE DEF r
  <1>8. CASE Answer(h, r, "error") \/ Answer(h, r, "conflict")
    BY <1>4, <1>7, <1>8, ArriveAnswered
  <1>9. CASE Served(s) /\ plan.conflicts = {} /\ Goto(h, "before", r)
    <2>1. FromPlan(r, view[s])
      BY <1>6, <1>7, <1>9 DEF FromPlan, Promised, Served
    <2>2. LocalsOK("before", r)
      BY <1>7, <2>1 DEF LocalsOK, FromPlan, Promised, Reconciling
    <2>3. StepsOK("before", r, nodes', removed', view'[r.server], table'[r.server])
      BY <1>4, <1>7, <2>1, ArriveKeeps DEF StepsOK, BeforeOK
    <2> QED
      BY <1>4, <1>7, <1>9, <2>2, <2>3, ArriveKeeps, Going
  <1> QED
    BY <1>5, <1>8, <1>9

LEMMA BootstrapInv ==
  ASSUME ReconcileInv, NEW h \in Handlers, Bootstrap(h)
  PROVE  ReconcileInv'
  <1> USE DEF Labels
  <1>1. PICK s \in Servers, want \in Wishes :
          LET r == [NoReq(s) EXCEPT !.op = "bootstrap", !.current = nodes, !.desired = want]
          IN  /\ Arrive(h)
              /\ \/ Answer(h, r, "error")
                 \/ Served(s) /\ Goto(h, "after", r)
                 \/ Served(s) /\ Goto(h, "before", r)
    BY DEF Bootstrap
  <1> DEFINE r == [NoReq(s) EXCEPT !.op = "bootstrap", !.current = nodes, !.desired = want]
  <1>2. Arrive(h)
    BY <1>1
  <1>3. /\ r \in Requests
        /\ r.op = "bootstrap" /\ r.server = s /\ r.current = nodes
    <2>1. nodes \in Partial(Replicas, Addrs) /\ want \in Partial(Replicas, Addrs)
      BY InvParts, Limits DEF Around
    <2>2. Empty \in Partial(Replicas, Addrs \cup {Http})
      BY EmptyPartial
    <2> QED
      BY <2>1, <2>2 DEF NoReq, Requests
  <1>4. Answer(h, r, "error") \/ (Served(s) /\ Goto(h, "after", r))
        \/ (Served(s) /\ Goto(h, "before", r))
    BY <1>1
  <1> HIDE DEF r
  <1>5. CASE Answer(h, r, "error")
    BY <1>2, <1>3, <1>5, ArriveAnswered
  <1>6. ~Reconciling(r) /\ \A l \in {"after", "before"} : LocalsOK(l, r)
    BY <1>3 DEF LocalsOK, Reconciling
  <1>7. CASE Served(s) /\ Goto(h, "after", r)
    <2>1. StepsOK("after", r, nodes', removed', view'[r.server], table'[r.server])
      BY <1>2, <1>3, <1>7, ArriveKeeps DEF StepsOK, Served
    <2> QED
      BY <1>2, <1>3, <1>6, <1>7, <2>1, ArriveKeeps, Going
  <1>8. CASE Served(s) /\ Goto(h, "before", r)
    <2>1. StepsOK("before", r, nodes', removed', view'[r.server], table'[r.server])
      BY <1>2, <1>3, <1>6, ArriveKeeps DEF StepsOK, BeforeOK
    <2> QED
      BY <1>2, <1>3, <1>6, <1>8, <2>1, ArriveKeeps, Going
  <1> QED
    BY <1>4, <1>5, <1>7, <1>8

LEMMA JoinInv ==
  ASSUME ReconcileInv, NEW h \in Handlers, Join(h)
  PROVE  ReconcileInv'
  <1> USE DEF Labels
  <1>1. PICK s \in Servers, i \in Replicas : \E a \in Advertised[i] :
          LET r == [NoReq(s) EXCEPT !.op = "join", !.current = nodes, !.desired = With(Empty, i, a)]
          IN  /\ Arrive(h)
              /\ \/ Answer(h, r, "error")
                 \/ Served(s) /\ Goto(h, "after", r)
                 \/ Answer(h, r, "conflict")
                 \/ Served(s) /\ Goto(h, "add", [r EXCEPT !.todo = {i}])
    BY DEF Join
  <1>2. PICK a \in Advertised[i] :
          LET r == [NoReq(s) EXCEPT !.op = "join", !.current = nodes, !.desired = With(Empty, i, a)]
          IN  /\ Arrive(h)
              /\ \/ Answer(h, r, "error")
                 \/ Served(s) /\ Goto(h, "after", r)
                 \/ Answer(h, r, "conflict")
                 \/ Served(s) /\ Goto(h, "add", [r EXCEPT !.todo = {i}])
    BY <1>1
  <1> DEFINE d == With(Empty, i, a)
             r == [NoReq(s) EXCEPT !.op = "join", !.current = nodes, !.desired = d]
             q == [r EXCEPT !.todo = {i}]
  <1>3. Arrive(h)
    BY <1>2
  <1>4. Answer(h, r, "error") \/ Answer(h, r, "conflict")
        \/ (Served(s) /\ Goto(h, "after", r)) \/ (Served(s) /\ Goto(h, "add", q))
    BY <1>2
  <1>5. d \in Partial(Replicas, Addrs) /\ i \in DOMAIN d
    <2>1. Empty \in Partial(Replicas, Addrs) /\ a \in Addrs
      BY EmptyPartial, Limits
    <2>2. With(Empty, i, a) \in Partial(Replicas, Addrs)
      BY <2>1, WithIs
    <2>3. i \in DOMAIN With(Empty, i, a)
      BY DEF With
    <2> QED
      BY <2>2, <2>3
  <1> HIDE DEF d
  <1>6. /\ r \in Requests
        /\ r.op = "join" /\ r.server = s /\ r.current = nodes /\ r.desired = d
    <2>1. nodes \in Partial(Replicas, Addrs)
      BY InvParts DEF Around
    <2>2. Empty \in Partial(Replicas, Addrs \cup {Http})
      BY EmptyPartial
    <2> QED
      BY <1>5, <2>1, <2>2 DEF NoReq, Requests
  <1> HIDE DEF r
  <1>7. /\ q \in Requests
        /\ q.op = "join" /\ q.server = s /\ q.current = nodes /\ q.desired = d /\ q.todo = {i}
    BY <1>6, WithTodo
  <1> HIDE DEF q
  <1>8. CASE Answer(h, r, "error") \/ Answer(h, r, "conflict")
    BY <1>3, <1>6, <1>8, ArriveAnswered
  <1>9. CASE Served(s) /\ Goto(h, "after", r)
    <2>1. StepsOK("after", r, nodes', removed', view'[r.server], table'[r.server])
      BY <1>3, <1>6, <1>9, ArriveKeeps DEF StepsOK, Served
    <2>2. LocalsOK("after", r)
      BY <1>6 DEF LocalsOK, Reconciling
    <2> QED
      BY <1>3, <1>6, <1>9, <2>1, <2>2, ArriveKeeps, Going
  <1>10. CASE Served(s) /\ Goto(h, "add", q)
    <2>1. StepsOK("add", q, nodes', removed', view'[q.server], table'[q.server])
      BY <1>3, <1>7, <1>10, ArriveKeeps DEF StepsOK, AddOK, Served, Reconciling
    <2>2. LocalsOK("add", q)
      BY <1>5, <1>7 DEF LocalsOK, Reconciling
    <2> QED
      BY <1>3, <1>7, <1>10, <2>1, <2>2, ArriveKeeps, Going
  <1> QED
    BY <1>4, <1>8, <1>9, <1>10

(***************************************************************************)
(* The steps of SyncReplicas                                               *)
(***************************************************************************)
\* A reconcile's plan does not depend on how far it has come.
LEMMA SamePlan ==
  ASSUME NEW r, NEW q, q.op = r.op, q.server = r.server, q.current = r.current,
         q.desired = r.desired
  PROVE  /\ Reconciling(q) <=> Reconciling(r)
         /\ \A w : FromPlan(q, w) <=> FromPlan(r, w)
  BY DEF Reconciling, FromPlan, Promised

LEMMA BeforeInv ==
  ASSUME ReconcileInv, NEW h \in Handlers, Before(h)
  PROVE  ReconcileInv'
  <1> DEFINE r == req[h]
             T == missingReplicas(nodes, r.desired)
             q == [r EXCEPT !.todo = T]
  <1>1. pc[h] = "before" /\ Local /\ r \in Requests /\ LocalsOK("before", r)
    BY HandlerFacts DEF Before
  <1>2. /\ Around' /\ (h \notin disturbed' => h \notin disturbed)
        /\ \A g \in Handlers \ {h} : Undisturbed(g)
        /\ nodes' = nodes /\ removed' = removed /\ view' = view /\ table' = table
    BY <1>1, LocalSteps DEF Local, raftVars
  <1>3. h \notin disturbed => BeforeOK(r, nodes, view[r.server])
    BY <1>1, HandlerFacts DEF StepsOK
  <1>4. CASE /\ normalizeDesiredReplicas(r.desired, r.server) /\ Served(r.server)
             /\ validateDesiredReplicaTargets(r.desired)
             /\ Goto(h, "add", q)
    <2>1. r.desired \in Partial(Replicas, Addrs)
      BY <1>1, RequestFields
    <2>2. T \in SUBSET Replicas /\ T \subseteq DOMAIN r.desired
          /\ DOMAIN r.desired \subseteq DOMAIN nodes \cup T
      BY <2>1, PartialIs DEF missingReplicas
    <2> HIDE DEF T
    <2>3. /\ q \in Requests
          /\ q.op = r.op /\ q.server = r.server /\ q.current = r.current
          /\ q.desired = r.desired /\ q.todo = T
      BY <1>1, <2>2, WithTodo
    <2> HIDE DEF q
    <2>4. LocalsOK("add", q)
      BY <1>1, <1>4, <2>2, <2>3 DEF LocalsOK, normalizeDesiredReplicas
    <2>5. ASSUME h \notin disturbed'
          PROVE  AddOK(q, nodes, removed, view[r.server])
      <3>1. Reconciling(q) => FromPlan(q, view[r.server])
        BY <1>2, <1>3, <2>3, <2>5, SamePlan DEF BeforeOK
      <3>2. q.op # "join"
        BY <1>1, <2>3 DEF LocalsOK
      <3> QED
        BY <1>4, <2>2, <2>3, <3>1, <3>2
        DEF AddOK, Agrees, Served, validateDesiredReplicaTargets
    <2>6. h \notin disturbed' =>
             StepsOK("add", q, nodes', removed', view'[q.server], table'[q.server])
      BY <1>2, <2>3, <2>5 DEF StepsOK
    <2>7. "add" \in Labels
      BY DEF Labels
    <2> QED
      BY <1>2, <1>4, <2>3, <2>4, <2>6, <2>7, Going
  <1>5. CASE Answer(h, r, "error")
    BY <1>1, <1>2, <1>3, <1>5, Answering DEF BeforeOK
  <1> QED
    BY <1>4, <1>5 DEF Before

\* The rest of the state around a Raft operation.
LEMMA AroundRaft ==
  ASSUME ReconcileInv, nodes' \in Partial(Replicas, Addrs), removed' \subseteq Replicas,
         DOMAIN nodes' \cap removed' = {}, view' = view, table' = table,
         disturbed' \subseteq Handlers,
         requests' = requests, gossips' = gossips, faults' \in 0 .. MaxFaults
  PROVE  Around'
  BY InvParts DEF Around

\* An operation that changes the membership disturbs the other requests.
LEMMA ChangesKeep ==
  ASSUME ReconcileInv, NEW h \in Handlers, Changes(h), nodes' = nodes => removed' = removed
  PROVE  /\ h \notin disturbed' => h \notin disturbed
         /\ view' = view /\ table' = table /\ disturbed' \subseteq Handlers
         /\ requests' = requests /\ gossips' = gossips
         /\ faults' = faults /\ faults' \in 0 .. MaxFaults
         /\ \A g \in Handlers \ {h} : Undisturbed(g)
  <1>1. disturbed \subseteq Handlers /\ faults \in 0 .. MaxFaults
    BY InvParts DEF Around
  <1> QED
    BY <1>1 DEF Changes, counters, Undisturbed

\* A replica that may be added is added.
LEMMA AddedIs ==
  ASSUME ReconcileInv, NEW i \in Replicas, NEW a \in Addrs, ensureReplicaAddable(i, a),
         AddReplica(i, a)
  PROVE  /\ nodes' \in Partial(Replicas, Addrs)
         /\ DOMAIN nodes' = DOMAIN nodes \cup {i}
         /\ nodes'[i] = a
         /\ \A j \in DOMAIN nodes : nodes'[j] = nodes[j]
         /\ removed' = removed /\ removed' \subseteq Replicas
         /\ DOMAIN nodes' \cap removed' = {}
  <1>1. nodes \in Partial(Replicas, Addrs) /\ removed \subseteq Replicas
        /\ DOMAIN nodes \cap removed = {}
    BY InvParts DEF Around
  <1>2. nodes' = With(nodes, i, a) /\ removed' = removed
    BY DEF AddReplica
  <1>3. nodes' \in Partial(Replicas, Addrs)
    BY <1>1, <1>2, WithIs
  <1>4. /\ DOMAIN nodes' = DOMAIN nodes \cup {i}
        /\ nodes'[i] = a
        /\ \A j \in DOMAIN nodes : j # i => nodes'[j] = nodes[j]
    BY <1>2 DEF With
  <1>5. i \notin removed /\ (i \in DOMAIN nodes => nodes[i] = a)
    BY DEF ensureReplicaAddable
  <1> QED
    BY <1>1, <1>2, <1>3, <1>4, <1>5

\* A replica that is removed cannot be added again.
LEMMA RemovedIs ==
  ASSUME ReconcileInv, NEW i \in Replicas, RemoveReplica(i)
  PROVE  /\ nodes' \in Partial(Replicas, Addrs)
         /\ DOMAIN nodes' = DOMAIN nodes \ {i}
         /\ \A j \in DOMAIN nodes \ {i} : nodes'[j] = nodes[j]
         /\ removed' \subseteq Replicas
         /\ DOMAIN nodes' \cap removed' = {}
         /\ nodes' = nodes => removed' = removed
  <1>1. nodes \in Partial(Replicas, Addrs) /\ removed \subseteq Replicas
        /\ DOMAIN nodes \cap removed = {}
    BY InvParts DEF Around
  <1>2. nodes' = Without(nodes, {i}) /\ removed' = removed \cup (DOMAIN nodes \cap {i})
    BY DEF RemoveReplica
  <1>3. nodes' \in Partial(Replicas, Addrs)
    BY <1>1, <1>2, WithoutIs
  <1>4. /\ DOMAIN nodes' = DOMAIN nodes \ {i}
        /\ \A j \in DOMAIN nodes \ {i} : nodes'[j] = nodes[j]
    BY <1>2 DEF Without, Restrict
  <1>5. nodes' = nodes => i \notin DOMAIN nodes
    BY <1>4
  <1> QED
    BY <1>1, <1>2, <1>3, <1>4, <1>5

\* The next replica to add is a desired one.
LEMMA NextToAdd ==
  ASSUME ReconcileInv, NEW h \in Handlers, pc[h] = "add", req[h].todo # {}
  PROVE  /\ Min(req[h].todo) \in req[h].todo /\ Min(req[h].todo) \in Replicas
         /\ Min(req[h].todo) \in DOMAIN req[h].desired
         /\ req[h].desired[Min(req[h].todo)] \in Addrs
  <1>1. /\ req[h].todo \in SUBSET Replicas /\ req[h].desired \in Partial(Replicas, Addrs)
        /\ req[h].todo \subseteq DOMAIN req[h].desired
    BY HandlerFacts, RequestFields DEF LocalsOK
  <1>2. Min(req[h].todo) \in req[h].todo
    BY <1>1, NextReplica
  <1> QED
    BY <1>1, <1>2, PartialIs

\* ... and the next to remove is not.
LEMMA NextToRemove ==
  ASSUME ReconcileInv, NEW h \in Handlers, pc[h] = "remove", req[h].todo # {}
  PROVE  /\ Min(req[h].todo) \in req[h].todo /\ Min(req[h].todo) \in Replicas
         /\ Min(req[h].todo) \notin DOMAIN req[h].desired
  <1>1. req[h].todo \in SUBSET Replicas /\ req[h].todo \cap DOMAIN req[h].desired = {}
    BY HandlerFacts, RequestFields DEF LocalsOK
  <1>2. Min(req[h].todo) \in req[h].todo
    BY <1>1, NextReplica
  <1> QED
    BY <1>1, <1>2

LEMMA AddInv ==
  ASSUME ReconcileInv, NEW h \in Handlers, Add(h)
  PROVE  ReconcileInv'
  <1> DEFINE r == req[h]
             i == Min(r.todo)
             q == [r EXCEPT !.todo = r.todo \ {i}]
  <1>1. pc[h] = "add" /\ r.todo # {} /\ Changes(h) /\ r \in Requests /\ LocalsOK("add", r)
    BY HandlerFacts DEF Add
  <1>2. i \in r.todo /\ i \in Replicas /\ i \in DOMAIN r.desired /\ r.desired[i] \in Addrs
    BY <1>1, NextToAdd
  <1>3. h \notin disturbed => AddOK(r, nodes, removed, view[r.server])
    BY <1>1, HandlerFacts DEF StepsOK
  <1>4. \/ /\ Served(r.server) /\ ensureReplicaAddable(i, r.desired[i])
           /\ AddReplica(i, r.desired[i]) /\ Goto(h, "add", q)
        \/ /\ ~(Served(r.server) /\ ensureReplicaAddable(i, r.desired[i]))
           /\ Answer(h, r, "error") /\ nodes' = nodes /\ removed' = removed
    BY DEF Add, raftVars
  <1>5. r.todo \ {i} \in SUBSET Replicas
    BY <1>1, RequestFields
  <1> HIDE DEF i
  <1>6. /\ q \in Requests
        /\ q.op = r.op /\ q.server = r.server /\ q.current = r.current
        /\ q.desired = r.desired /\ q.todo = r.todo \ {i}
    BY <1>1, <1>5, WithTodo
  <1> HIDE DEF q, r
  <1>7. CASE /\ Served(r.server) /\ ensureReplicaAddable(i, r.desired[i])
             /\ AddReplica(i, r.desired[i]) /\ Goto(h, "add", q)
    <2>1. /\ nodes' \in Partial(Replicas, Addrs)
          /\ DOMAIN nodes' = DOMAIN nodes \cup {i}
          /\ nodes'[i] = r.desired[i]
          /\ \A j \in DOMAIN nodes : nodes'[j] = nodes[j]
          /\ removed' = removed /\ removed' \subseteq Replicas
          /\ DOMAIN nodes' \cap removed' = {}
      BY <1>2, <1>7, AddedIs
    <2>2. /\ h \notin disturbed' => h \notin disturbed
          /\ view' = view /\ table' = table /\ disturbed' \subseteq Handlers
          /\ requests' = requests /\ gossips' = gossips /\ faults' \in 0 .. MaxFaults
          /\ \A g \in Handlers \ {h} : Undisturbed(g)
      BY <1>1, <2>1, ChangesKeep
    <2>3. Around'
      BY <2>1, <2>2, AroundRaft
    <2>4. LocalsOK("add", q)
      BY <1>1, <1>6 DEF LocalsOK
    <2>5. ASSUME h \notin disturbed'
          PROVE  AddOK(q, nodes', removed', view[r.server])
      <3>1. AddOK(r, nodes, removed, view[r.server])
        BY <1>3, <2>2, <2>5
      <3>2. q.server \in DOMAIN nodes'
        BY <1>6, <2>1, <3>1 DEF AddOK
      <3>3. q.op = "join" => q.todo = {}
        BY <1>1, <1>2, <1>6 DEF LocalsOK
      <3>4. ASSUME q.op # "join"
            PROVE  /\ DOMAIN q.desired \cap removed' = {} /\ Agrees(nodes', q.desired)
                   /\ DOMAIN q.desired \subseteq DOMAIN nodes' \cup q.todo
        <4>1. /\ DOMAIN r.desired \cap removed = {} /\ Agrees(nodes, r.desired)
              /\ DOMAIN r.desired \subseteq DOMAIN nodes \cup r.todo
          BY <1>6, <3>1, <3>4 DEF AddOK
        <4>2. Agrees(nodes', r.desired)
          BY <2>1, <4>1 DEF Agrees
        <4> QED
          BY <1>6, <2>1, <4>1, <4>2
      <3>5. Reconciling(q) => FromPlan(q, view[r.server])
        BY <1>6, <3>1, SamePlan DEF AddOK
      <3> QED
        BY <3>2, <3>3, <3>4, <3>5 DEF AddOK
    <2>6. h \notin disturbed' =>
             StepsOK("add", q, nodes', removed', view'[q.server], table'[q.server])
      BY <1>6, <2>2, <2>5 DEF StepsOK
    <2>7. "add" \in Labels
      BY DEF Labels
    <2> QED
      BY <1>6, <1>7, <2>2, <2>3, <2>4, <2>6, <2>7, Going
  <1>8. CASE /\ ~(Served(r.server) /\ ensureReplicaAddable(i, r.desired[i]))
             /\ Answer(h, r, "error") /\ nodes' = nodes /\ removed' = removed
    <2>1. /\ h \notin disturbed' => h \notin disturbed
          /\ view' = view /\ table' = table /\ disturbed' \subseteq Handlers
          /\ requests' = requests /\ gossips' = gossips /\ faults' \in 0 .. MaxFaults
          /\ \A g \in Handlers \ {h} : Undisturbed(g)
      BY <1>1, <1>8, ChangesKeep
    <2>2. nodes \in Partial(Replicas, Addrs) /\ removed \subseteq Replicas
          /\ DOMAIN nodes \cap removed = {}
      BY InvParts DEF Around
    <2>3. Around'
      BY <1>8, <2>1, <2>2, AroundRaft
    <2>4. ASSUME h \notin disturbed'
          PROVE  nodes' = r.current
      <3>1. AddOK(r, nodes, removed, view[r.server])
        BY <1>3, <2>1, <2>4
      <3>2. CASE r.op = "join"
        BY <1>1, <1>8, <3>1, <3>2 DEF AddOK
      <3>3. CASE r.op # "join"
        BY <1>2, <1>8, <3>1, <3>3 DEF AddOK, Agrees, Served, ensureReplicaAddable
      <3> QED
        BY <3>2, <3>3
    <2> QED
      BY <1>1, <1>8, <2>1, <2>3, <2>4, Answering
  <1> QED
    BY <1>4, <1>7, <1>8

LEMMA MidInv ==
  ASSUME ReconcileInv, NEW h \in Handlers, Mid(h)
  PROVE  ReconcileInv'
  <1> DEFINE r == req[h]
             T == extraReplicas(nodes, r.desired)
             q == [r EXCEPT !.todo = T]
  <1>1. pc[h] = "add" /\ r.todo = {} /\ Local /\ r \in Requests /\ LocalsOK("add", r)
    BY HandlerFacts DEF Mid
  <1>2. /\ Around' /\ (h \notin disturbed' => h \notin disturbed)
        /\ \A g \in Handlers \ {h} : Undisturbed(g)
        /\ nodes' = nodes /\ removed' = removed /\ view' = view /\ table' = table
    BY <1>1, LocalSteps DEF Local, raftVars
  <1>3. h \notin disturbed => AddOK(r, nodes, removed, view[r.server])
    BY <1>1, HandlerFacts DEF StepsOK
  <1>4. \/ r.op = "join" /\ Goto(h, "after", r)
        \/ r.op # "join" /\ Served(r.server) /\ Goto(h, "remove", q)
        \/ r.op # "join" /\ ~ Served(r.server) /\ Answer(h, r, "error")
    BY DEF Mid
  <1>5. T \in SUBSET Replicas /\ T \cap DOMAIN r.desired = {}
        /\ DOMAIN nodes \subseteq DOMAIN r.desired \cup T
    <2>1. nodes \in Partial(Replicas, Addrs)
      BY InvParts DEF Around
    <2> QED
      BY <2>1, PartialIs DEF extraReplicas
  <1> HIDE DEF T
  <1>6. /\ q \in Requests
        /\ q.op = r.op /\ q.server = r.server /\ q.current = r.current
        /\ q.desired = r.desired /\ q.todo = T
    BY <1>1, <1>5, WithTodo
  <1> HIDE DEF q, r
  <1>7. CASE r.op = "join" /\ Goto(h, "after", r)
    <2>1. LocalsOK("after", r)
      BY <1>7 DEF LocalsOK, Reconciling
    <2>2. h \notin disturbed' =>
             StepsOK("after", r, nodes', removed', view'[r.server], table'[r.server])
      BY <1>2, <1>3 DEF StepsOK, AddOK
    <2>3. "after" \in Labels
      BY DEF Labels
    <2> QED
      BY <1>1, <1>2, <1>7, <2>1, <2>2, <2>3, Going
  <1>8. CASE r.op # "join" /\ Served(r.server) /\ Goto(h, "remove", q)
    <2>1. LocalsOK("remove", q)
      BY <1>1, <1>5, <1>6, <1>8 DEF LocalsOK
    <2>2. ASSUME h \notin disturbed'
          PROVE  RemoveOK(q, nodes, view[r.server])
      <3>1. AddOK(r, nodes, removed, view[r.server])
        BY <1>2, <1>3, <2>2
      <3>2. Reconciling(q) => FromPlan(q, view[r.server])
        BY <1>6, <3>1, SamePlan DEF AddOK
      <3> QED
        BY <1>1, <1>5, <1>6, <1>8, <3>1, <3>2 DEF AddOK, RemoveOK
    <2>3. h \notin disturbed' =>
             StepsOK("remove", q, nodes', removed', view'[q.server], table'[q.server])
      BY <1>2, <1>6, <2>2 DEF StepsOK
    <2>4. "remove" \in Labels
      BY DEF Labels
    <2> QED
      BY <1>2, <1>6, <1>8, <2>1, <2>3, <2>4, Going
  <1>9. CASE r.op # "join" /\ ~ Served(r.server) /\ Answer(h, r, "error")
    <2>1. h \in disturbed'
      BY <1>2, <1>3, <1>9 DEF AddOK, Served
    <2> QED
      BY <1>1, <1>2, <1>9, <2>1, Answering
  <1> QED
    BY <1>4, <1>7, <1>8, <1>9

\* The server of a request that removes replicas, and that nothing has
\* interfered with, is a member.
LEMMA RemoverServed ==
  ASSUME ReconcileInv, NEW h \in Handlers, pc[h] = "remove", h \notin disturbed
  PROVE  /\ RemoveOK(req[h], nodes, view[req[h].server])
         /\ req[h].server \in DOMAIN nodes
  BY HandlerFacts DEF StepsOK, LocalsOK, RemoveOK

LEMMA RemoveInv ==
  ASSUME ReconcileInv, NEW h \in Handlers, Remove(h)
  PROVE  ReconcileInv'
  <1> DEFINE r == req[h]
             i == Min(r.todo)
             q == [r EXCEPT !.todo = r.todo \ {i}]
  <1>1. pc[h] = "remove" /\ r.todo # {} /\ Changes(h) /\ r \in Requests /\ LocalsOK("remove", r)
    BY HandlerFacts DEF Remove
  <1>2. i \in r.todo /\ i \in Replicas /\ i \notin DOMAIN r.desired
    BY <1>1, NextToRemove
  <1>3. h \notin disturbed =>
          RemoveOK(r, nodes, view[r.server]) /\ r.server \in DOMAIN nodes
    BY <1>1, RemoverServed
  <1>4. \/ /\ Served(r.server)
           /\ RemoveReplica(i) /\ Goto(h, "remove", q)
        \/ /\ ~Served(r.server)
           /\ Answer(h, r, "error") /\ nodes' = nodes /\ removed' = removed
    BY DEF Remove, raftVars
  <1>5. r.todo \ {i} \in SUBSET Replicas
    BY <1>1, RequestFields
  <1> HIDE DEF i
  <1>6. /\ q \in Requests
        /\ q.op = r.op /\ q.server = r.server /\ q.current = r.current
        /\ q.desired = r.desired /\ q.todo = r.todo \ {i}
    BY <1>1, <1>5, WithTodo
  <1> HIDE DEF q, r
  <1>7. CASE Served(r.server) /\ RemoveReplica(i) /\ Goto(h, "remove", q)
    <2>1. /\ nodes' \in Partial(Replicas, Addrs)
          /\ DOMAIN nodes' = DOMAIN nodes \ {i}
          /\ \A j \in DOMAIN nodes \ {i} : nodes'[j] = nodes[j]
          /\ removed' \subseteq Replicas
          /\ DOMAIN nodes' \cap removed' = {}
          /\ nodes' = nodes => removed' = removed
      BY <1>2, <1>7, RemovedIs
    <2>2. /\ h \notin disturbed' => h \notin disturbed
          /\ view' = view /\ table' = table /\ disturbed' \subseteq Handlers
          /\ requests' = requests /\ gossips' = gossips /\ faults' \in 0 .. MaxFaults
          /\ \A g \in Handlers \ {h} : Undisturbed(g)
      BY <1>1, <2>1, ChangesKeep
    <2>3. Around'
      BY <2>1, <2>2, AroundRaft
    <2>4. LocalsOK("remove", q)
      BY <1>1, <1>6 DEF LocalsOK
    <2>5. ASSUME h \notin disturbed'
          PROVE  RemoveOK(q, nodes', view[r.server])
      <3>1. RemoveOK(r, nodes, view[r.server])
        BY <1>3, <2>2, <2>5
      <3>2. DOMAIN q.desired \subseteq DOMAIN nodes'
            /\ DOMAIN nodes' \subseteq DOMAIN q.desired \cup q.todo
        BY <1>2, <1>6, <2>1, <3>1 DEF RemoveOK
      <3>3. Agrees(nodes', q.desired)
        BY <1>2, <1>6, <2>1, <3>1 DEF RemoveOK, Agrees
      <3>4. Reconciling(q) => FromPlan(q, view[r.server])
        BY <1>6, <3>1, SamePlan DEF RemoveOK
      <3> QED
        BY <3>2, <3>3, <3>4 DEF RemoveOK
    <2>6. h \notin disturbed' =>
             StepsOK("remove", q, nodes', removed', view'[q.server], table'[q.server])
      BY <1>6, <2>2, <2>5 DEF StepsOK
    <2>7. "remove" \in Labels
      BY DEF Labels
    <2> QED
      BY <1>6, <1>7, <2>2, <2>3, <2>4, <2>6, <2>7, Going
  <1>8. CASE /\ ~Served(r.server)
             /\ Answer(h, r, "error") /\ nodes' = nodes /\ removed' = removed
    <2>1. /\ h \notin disturbed' => h \notin disturbed
          /\ view' = view /\ table' = table /\ disturbed' \subseteq Handlers
          /\ requests' = requests /\ gossips' = gossips /\ faults' \in 0 .. MaxFaults
          /\ \A g \in Handlers \ {h} : Undisturbed(g)
      BY <1>1, <1>8, ChangesKeep
    <2>2. nodes \in Partial(Replicas, Addrs) /\ removed \subseteq Replicas
          /\ DOMAIN nodes \cap removed = {}
      BY InvParts DEF Around
    <2>3. Around'
      BY <1>8, <2>1, <2>2, AroundRaft
    <2>4. h \in disturbed'
      BY <1>3, <1>8, <2>1 DEF Served
    <2> QED
      BY <1>1, <1>8, <2>1, <2>3, <2>4, Answering
  <1> QED
    BY <1>4, <1>7, <1>8

\* A reconcile that has nothing left to remove has reached what it promised.
LEMMA RemovedAll ==
  ASSUME NEW r \in Requests, NEW n \in Partial(Replicas, Addrs), NEW w,
         r.todo = {}, Reconciling(r), RemoveOK(r, n, w)
  PROVE  Reached(r, n, w)
  <1>1. DOMAIN n = DOMAIN r.desired /\ FromPlan(r, w) /\ Agrees(n, r.desired)
    BY DEF RemoveOK
  <1>2. DOMAIN n = Promised(r, w)
    BY <1>1 DEF FromPlan
  <1>3. ASSUME NEW j \in usable(w)
        PROVE  n[j] = w[j].raft
    <2>1. j \in DOMAIN r.desired /\ r.desired[j] = w[j].raft
      BY <1>1 DEF FromPlan, Promised
    <2> QED
      BY <1>1, <2>1 DEF Agrees
  <1> QED
    BY <1>2, <1>3 DEF Reached

LEMMA AfterInv ==
  ASSUME ReconcileInv, NEW h \in Handlers, After(h)
  PROVE  ReconcileInv'
  <1> DEFINE r == req[h]
             m == storageNodesFromMembership(view[r.server])
             q == [r EXCEPT !.next = m]
  <1>1. /\ pc[h] = "after" \/ (pc[h] = "remove" /\ r.todo = {})
        /\ Local /\ r \in Requests /\ LocalsOK(pc[h], r)
    BY HandlerFacts DEF After
  <1>2. /\ Around' /\ (h \notin disturbed' => h \notin disturbed)
        /\ \A g \in Handlers \ {h} : Undisturbed(g)
        /\ nodes' = nodes /\ removed' = removed /\ view' = view /\ table' = table
    BY <1>1, LocalSteps DEF Local, raftVars
  <1>3. h \notin disturbed => r.server \in DOMAIN nodes
    <2>1. CASE pc[h] = "after"
      BY <2>1, HandlerFacts DEF StepsOK
    <2>2. CASE pc[h] = "remove"
      BY <2>2, RemoverServed
    <2> QED
      BY <1>1, <2>1, <2>2
  <1>4. nodes \in Partial(Replicas, Addrs)
    BY InvParts DEF Around
  <1>5. h \notin disturbed /\ Reconciling(r) => Reached(r, nodes, view[r.server])
    <2>1. CASE pc[h] = "after"
      BY <1>1, <2>1 DEF LocalsOK
    <2>2. CASE pc[h] = "remove" /\ r.todo = {}
      BY <1>1, <1>4, <2>2, RemoverServed, RemovedAll
    <2> QED
      BY <1>1, <2>1, <2>2
  <1>6. CASE Goto(h, "set", q)
    <2>1. m = Mapped(nodes, view[r.server])
      BY DEF storageNodesFromMembership, Mapped
    <2>2. m \in Partial(Replicas, Addrs \cup {Http})
      BY <1>4, <2>1, MappedType
    <2> HIDE DEF m
    <2>3. /\ q \in Requests
          /\ q.op = r.op /\ q.server = r.server /\ q.current = r.current /\ q.next = m
      BY <1>1, <2>2 DEF Requests
    <2> HIDE DEF q
    <2>4. LocalsOK("set", q)
      BY DEF LocalsOK
    <2>5. /\ Reconciling(q) = Reconciling(r)
          /\ Reached(q, nodes, view[r.server]) = Reached(r, nodes, view[r.server])
      BY <2>3 DEF Reconciling, Reached, Promised
    <2>6. h \notin disturbed' =>
             StepsOK("set", q, nodes', removed', view'[q.server], table'[q.server])
      BY <1>2, <1>5, <2>1, <2>3, <2>5 DEF StepsOK, SetOK
    <2>7. "set" \in Labels
      BY DEF Labels
    <2> QED
      BY <1>2, <1>6, <2>3, <2>4, <2>6, <2>7, Going
  <1>7. CASE ~Served(r.server) /\ Answer(h, r, "error")
    <2>1. h \in disturbed'
      BY <1>2, <1>3, <1>7 DEF Served
    <2> QED
      BY <1>1, <1>2, <1>7, <2>1, Answering
  <1> QED
    BY <1>6, <1>7 DEF After

LEMMA SetStorageInv ==
  ASSUME ReconcileInv, NEW h \in Handlers, SetStorage(h)
  PROVE  ReconcileInv'
  <1> DEFINE r == req[h]
  <1>1. pc[h] = "set" /\ r \in Requests /\ Around
    BY HandlerFacts DEF SetStorage
  <1>2. /\ table' = [table EXCEPT ![r.server] = r.next]
        /\ Answer(h, r, "applied")
        /\ disturbed' = disturbed \cup {g \in Handlers \ {h} : req[g].server = r.server}
        /\ nodes' = nodes /\ removed' = removed /\ view' = view
        /\ requests' = requests /\ gossips' = gossips /\ faults' = faults
    BY DEF SetStorage, SyncStorageNodesFromRaft, raftVars, counters
  <1>3. r.server \in Servers /\ r.next \in Partial(Replicas, Addrs \cup {Http})
    BY <1>1, RequestFields
  <1>4. table \in [Servers -> Partial(Replicas, Addrs \cup {Http})]
    BY <1>1 DEF Around
  <1>5. /\ table' \in [Servers -> Partial(Replicas, Addrs \cup {Http})]
        /\ table'[r.server] = r.next
        /\ \A s \in Servers : s # r.server => table'[s] = table[s]
    BY <1>2, <1>3, <1>4
  <1>6. Around'
    BY <1>1, <1>2, <1>5 DEF Around
  <1>7. ASSUME NEW g \in Handlers \ {h}
        PROVE  Undisturbed(g)
    <2>1. req[g].server \in Servers
      BY HandlerFacts, RequestFields
    <2> QED
      BY <1>2, <1>5, <2>1 DEF Undisturbed
  <1>8. h \notin disturbed' => SetOK(r, nodes, view[r.server])
    BY <1>1, <1>2, HandlerFacts DEF StepsOK
  <1>9. h \notin disturbed' /\ Reconciling(r) =>
          /\ table'[r.server] = Mapped(nodes', view'[r.server])
          /\ Reached(r, nodes', view'[r.server])
    BY <1>2, <1>5, <1>8 DEF SetOK
  <1> QED
    BY <1>1, <1>2, <1>6, <1>7, <1>9, Answering

(***************************************************************************)
(* Failures                                                                *)
(***************************************************************************)
LEMMA FaultCounts ==
  ASSUME ReconcileInv, NEW h \in Handlers, Fault(h)
  PROVE  /\ faults' \in 0 .. MaxFaults
         /\ view' = view /\ table' = table /\ requests' = requests /\ gossips' = gossips
  <1>1. faults \in 0 .. MaxFaults
    BY InvParts DEF Around
  <1> QED
    BY <1>1, Limits DEF Fault

LEMMA OperationFailsInv ==
  ASSUME ReconcileInv, NEW h \in Handlers, OperationFails(h)
  PROVE  ReconcileInv'
  <1>1. /\ Answer(h, req[h], "error") /\ disturbed' = disturbed \cup {h}
        /\ nodes' = nodes /\ removed' = removed /\ Fault(h)
    BY DEF OperationFails, raftVars
  <1>2. /\ faults' \in 0 .. MaxFaults
        /\ view' = view /\ table' = table /\ requests' = requests /\ gossips' = gossips
    BY <1>1, FaultCounts
  <1>3. nodes \in Partial(Replicas, Addrs) /\ removed \subseteq Replicas
        /\ DOMAIN nodes \cap removed = {} /\ disturbed \subseteq Handlers
    BY InvParts DEF Around
  <1>4. disturbed' \subseteq Handlers
    BY <1>1, <1>3
  <1>5. Around'
    BY <1>1, <1>2, <1>3, <1>4, AroundRaft
  <1>6. \A g \in Handlers \ {h} : Undisturbed(g)
    BY <1>1, <1>2 DEF Undisturbed
  <1>7. h \in disturbed' /\ req[h] \in Requests
    BY <1>1, HandlerFacts
  <1> QED
    BY <1>1, <1>5, <1>6, <1>7, Answering

LEMMA ReplyLostInv ==
  ASSUME ReconcileInv, NEW h \in Handlers, ReplyLost(h)
  PROVE  ReconcileInv'
  <1> DEFINE r == req[h]
             i == Min(r.todo)
  <1>1. /\ r.todo # {} /\ Fault(h) /\ Answer(h, r, "error") /\ disturbed' = Handlers
        /\ r \in Requests
    BY HandlerFacts DEF ReplyLost
  <1>2. /\ faults' \in 0 .. MaxFaults
        /\ view' = view /\ table' = table /\ requests' = requests /\ gossips' = gossips
    BY <1>1, FaultCounts
  <1>3. nodes' \in Partial(Replicas, Addrs) /\ removed' \subseteq Replicas
        /\ DOMAIN nodes' \cap removed' = {}
    <2>1. CASE /\ pc[h] = "add" /\ ensureReplicaAddable(i, r.desired[i])
               /\ AddReplica(i, r.desired[i])
      <3>1. i \in Replicas /\ r.desired[i] \in Addrs
        BY <1>1, <2>1, NextToAdd
      <3> HIDE DEF i, r
      <3> QED
        BY <2>1, <3>1, AddedIs
    <2>2. CASE pc[h] = "remove" /\ RemoveReplica(i)
      <3>1. i \in Replicas
        BY <1>1, <2>2, NextToRemove
      <3> HIDE DEF i, r
      <3> QED
        BY <2>2, <3>1, RemovedIs
    <2> QED
      BY <2>1, <2>2 DEF ReplyLost
  <1>4. Around'
    BY <1>1, <1>2, <1>3, AroundRaft
  <1>5. \A g \in Handlers \ {h} : Undisturbed(g)
    BY <1>1 DEF Undisturbed
  <1> QED
    BY <1>1, <1>4, <1>5, Answering

(***************************************************************************)
(* The invariant                                                           *)
(***************************************************************************)
LEMMA NextInv == ReconcileInv /\ [Next]_vars => ReconcileInv'
  <1> SUFFICES ASSUME ReconcileInv, [Next]_vars
               PROVE  ReconcileInv'
    OBVIOUS
  <1>1. CASE Next
    <2>1. CASE \E s \in Servers : DiscoveryStart(s) \/ DiscoveryStop(s) \/ GossipChanges(s)
      BY <2>1, DiscoveryStartInv, DiscoveryStopInv, GossipChangesInv
    <2>2. ASSUME NEW h \in Handlers, Reconcile(h) \/ Bootstrap(h) \/ Join(h)
          PROVE  ReconcileInv'
      BY <2>2, ReconcileArrives, BootstrapInv, JoinInv
    <2>3. ASSUME NEW h \in Handlers, Before(h) \/ Add(h) \/ Mid(h) \/ Remove(h)
          PROVE  ReconcileInv'
      BY <2>3, BeforeInv, AddInv, MidInv, RemoveInv
    <2>4. ASSUME NEW h \in Handlers,
                 After(h) \/ SetStorage(h) \/ OperationFails(h) \/ ReplyLost(h)
          PROVE  ReconcileInv'
      BY <2>4, AfterInv, SetStorageInv, OperationFailsInv, ReplyLostInv
    <2> QED
      BY <1>1, <2>1, <2>2, <2>3, <2>4 DEF Next
  <1>2. CASE UNCHANGED vars
    <2>1. Around' <=> Around
      BY <1>2 DEF vars, Around
    <2>2. \A h \in Handlers : HandlerOK(h)' <=> HandlerOK(h)
      BY <1>2 DEF vars, HandlerOK
    <2>3. pc' = pc /\ req' = req
      BY <1>2 DEF vars
    <2> QED
      BY <2>1, <2>2, <2>3, InvParts
  <1> QED
    BY <1>1, <1>2

\* Every reachable state satisfies the inductive invariant: a request that
\* nothing has interfered with has brought the membership exactly as far as its
\* step says, whatever the other requests, gossip and faults do.
THEOREM ReconcileInvariant == Spec => []ReconcileInv
  BY InitInv, NextInv, PTL DEF Spec

\* The membership, the views, the tables of storage nodes and the locals of the
\* requests have their types: a member is never a removed replica, and what
\* SyncReplicas has left to add is desired, what it has left to remove is not.
THEOREM ReconcileTypes == Spec => []ReconcileTypeOK
  <1>1. ReconcileInv => ReconcileTypeOK
    <2> SUFFICES ASSUME ReconcileInv
                 PROVE  ReconcileTypeOK
      OBVIOUS
    <2>1. ASSUME NEW h \in Handlers
          PROVE  /\ pc[h] \in {"idle", "before", "add", "remove", "after", "set", "done"}
                 /\ req[h].op \in {"none", "add_only", "exact", "bootstrap", "join"}
                 /\ req[h].res \in {"none", "error", "conflict", "applied"}
                 /\ req[h].server \in Servers /\ req[h].todo \subseteq Replicas
                 /\ req[h].current \in Partial(Replicas, Addrs)
                 /\ req[h].desired \in Partial(Replicas, Addrs)
                 /\ req[h].next \in Partial(Replicas, Addrs \cup {Http})
                 /\ pc[h] = "add" => req[h].todo \subseteq DOMAIN req[h].desired
                 /\ pc[h] = "remove" => req[h].todo \cap DOMAIN req[h].desired = {}
      <3>1. pc[h] \in Labels /\ req[h] \in Requests /\ LocalsOK(pc[h], req[h])
        BY HandlerFacts
      <3>2. pc[h] = "add" => req[h].todo \subseteq DOMAIN req[h].desired
        BY <3>1 DEF LocalsOK
      <3>3. pc[h] = "remove" => req[h].todo \cap DOMAIN req[h].desired = {}
        BY <3>1 DEF LocalsOK
      <3> QED
        BY <3>1, <3>2, <3>3, RequestFields DEF Labels
    <2> QED
      BY <2>1, InvParts DEF ReconcileTypeOK, Around
  <1> QED
    BY <1>1, ReconcileInvariant, PTL

(***************************************************************************)
(* Removals                                                                *)
(***************************************************************************)
PlannedRemoval ==
    \A i \in DOMAIN nodes \ DOMAIN nodes' :
      \E h \in Handlers :
         /\ pc[h] = "remove" /\ i \in req[h].todo /\ i \notin req'[h].todo
         /\ i # req[h].server
         /\ req[h].op = "add_only" => i \notin DOMAIN req[h].current

\* Of the steps of a request only those of removeExtraReplicas take a member
\* away, and it is one its plan does not list.
LEMMA RemovesPlanned ==
  ASSUME ReconcileInv, NEW h \in Handlers, pc[h] = "remove", req[h].todo # {},
         RemoveReplica(Min(req[h].todo)), Min(req[h].todo) \notin req'[h].todo
  PROVE  PlannedRemoval
  <1> DEFINE i == Min(req[h].todo)
  <1>1. i \in req[h].todo /\ i \in Replicas /\ i \notin DOMAIN req[h].desired
    BY NextToRemove
  <1>2. /\ req[h].op = "add_only" => DOMAIN req[h].current \subseteq DOMAIN req[h].desired
        /\ req[h].server \in DOMAIN req[h].desired
    BY HandlerFacts DEF LocalsOK
  <1>3. DOMAIN nodes' = DOMAIN nodes \ {i}
    BY <1>1, RemovedIs
  <1>4. i # req[h].server /\ (req[h].op = "add_only" => i \notin DOMAIN req[h].current)
    BY <1>1, <1>2
  <1>5. DOMAIN nodes \ DOMAIN nodes' \subseteq {i}
    BY <1>3
  <1>6. i \notin req'[h].todo
    OBVIOUS
  <1> HIDE DEF i
  <1> QED
    BY <1>1, <1>4, <1>5, <1>6 DEF PlannedRemoval

LEMMA NextRemovals == ReconcileInv /\ [Next]_vars => [PlannedRemoval]_vars
  <1> SUFFICES ASSUME ReconcileInv, Next
               PROVE  PlannedRemoval
    OBVIOUS
  <1>0. nodes' = nodes => PlannedRemoval
    BY DEF PlannedRemoval
  <1>1. CASE \E s \in Servers : DiscoveryStart(s) \/ DiscoveryStop(s) \/ GossipChanges(s)
    BY <1>0, <1>1 DEF DiscoveryStart, DiscoveryStop, GossipChanges, SeenBy, raftVars
  <1>2. ASSUME NEW h \in Handlers, Reconcile(h) \/ Bootstrap(h) \/ Join(h)
        PROVE  PlannedRemoval
    BY <1>0, <1>2 DEF Reconcile, Bootstrap, Join, Arrive, raftVars
  <1>3. ASSUME NEW h \in Handlers,
               Before(h) \/ Mid(h) \/ After(h) \/ SetStorage(h) \/ OperationFails(h)
        PROVE  PlannedRemoval
    BY <1>0, <1>3 DEF Before, Mid, After, SetStorage, OperationFails, Local, raftVars
  <1>4. ASSUME NEW h \in Handlers, NEW i, NEW a, AddReplica(i, a)
        PROVE  PlannedRemoval
    <2>1. DOMAIN nodes' = DOMAIN nodes \cup {i}
      BY <1>4 DEF AddReplica, With
    <2> QED
      BY <2>1 DEF PlannedRemoval
  <1>5. ASSUME NEW h \in Handlers, Add(h)
        PROVE  PlannedRemoval
    BY <1>0, <1>4, <1>5 DEF Add, raftVars
  <1>6. ASSUME NEW h \in Handlers, Remove(h)
        PROVE  PlannedRemoval
    <2>1. pc[h] = "remove" /\ req[h].todo # {} /\ req \in [Handlers -> Requests]
      BY <1>6, InvParts DEF Remove
    <2>2. CASE RemoveReplica(Min(req[h].todo))
               /\ Goto(h, "remove", [req[h] EXCEPT !.todo = @ \ {Min(req[h].todo)}])
      <3>1. req'[h] = [req[h] EXCEPT !.todo = @ \ {Min(req[h].todo)}]
        BY <2>1, <2>2 DEF Goto
      <3>2. req[h] \in Requests
        BY <2>1
      <3>3. Min(req[h].todo) \notin req'[h].todo
        BY <3>1, <3>2 DEF Requests
      <3> QED
        BY <2>1, <2>2, <3>3, RemovesPlanned
    <2> QED
      BY <1>0, <1>6, <2>2 DEF Remove, raftVars
  <1>7. ASSUME NEW h \in Handlers, ReplyLost(h)
        PROVE  PlannedRemoval
    <2>1. CASE pc[h] = "add"
      BY <1>4, <1>7, <2>1 DEF ReplyLost
    <2>2. CASE pc[h] = "remove"
      <3>1. RemoveReplica(Min(req[h].todo)) /\ req[h].todo # {} /\ Answer(h, req[h], "error")
        BY <1>7, <2>2 DEF ReplyLost
      <3>2. req \in [Handlers -> Requests]
        BY InvParts
      <3>3. req'[h].todo = {}
        <4>1. req'[h] = [req[h] EXCEPT !.res = "error", !.desired = Empty, !.todo = {}, !.next = Empty]
          BY <3>1, <3>2 DEF Answer, Goto
        <4>2. req[h] \in Requests
          BY <3>2
        <4> QED
          BY <4>1, <4>2 DEF Requests
      <3> QED
        BY <2>2, <3>1, <3>3, RemovesPlanned
    <2> QED
      BY <1>7, <2>1, <2>2 DEF ReplyLost
  <1> QED
    BY <1>1, <1>2, <1>3, <1>5, <1>6, <1>7 DEF Next

\* SyncReplicas removes only what its plan leaves out: never the replica of the
\* server that runs it, and in add_only mode no member its plan had seen,
\* whatever the other servers do between its steps.
THEOREM RemovalsArePlanned == Spec => RemovalsPlanned
  <1>1. Spec => [][PlannedRemoval]_vars
    BY ReconcileInvariant, NextRemovals, PTL DEF Spec
  <1> QED
    BY <1>1 DEF RemovalsPlanned, PlannedRemoval

(***************************************************************************)
(* What an undisturbed request leaves                                      *)
(***************************************************************************)
\* A bootstrap, join or reconcile request that is refused, and that nothing has
\* interfered with, has changed no member: validateDesiredReplicaTargets sees
\* every reason to refuse before the first replica is added.
THEOREM RefusalsAreWhole == Spec => []RefusedWhole
  <1>1. ReconcileInv => RefusedWhole
    <2> SUFFICES ASSUME ReconcileInv, NEW h \in Handlers, Quiet(h),
                        req[h].res \in {"error", "conflict"}
                 PROVE  nodes = req[h].current
      BY DEF RefusedWhole
    <2> QED
      BY HandlerFacts DEF Quiet, StepsOK, DoneOK
  <1> QED
    BY <1>1, ReconcileInvariant, PTL

\* A reconcile that is answered "applied", and that nothing has interfered
\* with, leaves exactly the members it promised, and the registry of its server
\* finds every live node online and without an issue.
THEOREM ReconcileReaches == Spec => []QuietReconcile
  <1>1. ReconcileInv => QuietReconcile
    <2> SUFFICES ASSUME ReconcileInv, NEW h \in Handlers, Quiet(h),
                        req[h].op \in {"add_only", "exact"}, req[h].res = "applied"
                 PROVE  LET r == req[h]  s == r.server IN
                        /\ DOMAIN nodes = {i \in DOMAIN view[s] : view[s][i].state = "alive"} \cup {s}
                                          \cup (IF r.op = "add_only" THEN DOMAIN r.current ELSE {})
                        /\ \A i \in Replicas :
                             /\ "storage_without_raft_member" \notin clusterNodeIssues(s, i)
                             /\ Discovered(s, i) /\ view[s][i].state = "alive" =>
                                  clusterNodeStatus(s, i) = "online" /\ clusterNodeIssues(s, i) = {}
      BY DEF QuietReconcile
    <2> DEFINE r == req[h]
               s == r.server
               w == view[s]
    <2>1. table[s] = Mapped(nodes, w) /\ Reached(r, nodes, w)
      BY HandlerFacts DEF Quiet, StepsOK, DoneOK, Reconciling
    <2>2. /\ DOMAIN nodes = Promised(r, w)
          /\ \A i \in usable(w) : nodes[i] = w[i].raft
      BY <2>1 DEF Reached
    <2>3. usable(w) = {i \in DOMAIN w : w[i].state = "alive"}
      BY DEF usable, usableDiscoveredNode
    <2>4. DOMAIN nodes = {i \in DOMAIN w : w[i].state = "alive"} \cup {s}
                         \cup (IF r.op = "add_only" THEN DOMAIN r.current ELSE {})
      BY <2>2, <2>3 DEF Promised
    <2>5. DOMAIN table[s] = DOMAIN nodes /\ \A i \in DOMAIN nodes \cap DOMAIN w : table[s][i] = Http
      BY <2>1 DEF Mapped
    <2>6. ASSUME NEW i \in Replicas
          PROVE  "storage_without_raft_member" \notin clusterNodeIssues(s, i)
      BY <2>5 DEF clusterNodeIssues, Member, StorageRegistered
    <2>7. ASSUME NEW i \in Replicas, Discovered(s, i), w[i].state = "alive"
          PROVE  clusterNodeStatus(s, i) = "online" /\ clusterNodeIssues(s, i) = {}
      <3>1. i \in DOMAIN w /\ i \in usable(w) /\ i \in DOMAIN nodes
        BY <2>3, <2>4, <2>7 DEF Discovered
      <3>2. Member(i) /\ StorageRegistered(s, i) /\ nodes[i] = w[i].raft /\ table[s][i] = Http
        BY <2>2, <2>5, <3>1 DEF Member, StorageRegistered
      <3>3. clusterNodeStatus(s, i) = "online"
        BY <2>7, <3>2 DEF clusterNodeStatus
      <3>4. clusterNodeIssues(s, i) = {}
        BY <2>7, <3>2 DEF clusterNodeIssues
      <3> QED
        BY <3>3, <3>4
    <2> QED
      BY <2>4, <2>6, <2>7
  <1> QED
    BY <1>1, ReconcileInvariant, PTL
===============================================================================
