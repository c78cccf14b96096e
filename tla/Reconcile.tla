----------------------------- MODULE Reconcile -----------------------------
(***************************************************************************)
(* The Raft membership reconciled with what gossip discovers, on several    *)
(* servers: the reconcile, bootstrap and join handlers                      *)
(* (internal/handler/cluster.go, cluster_reconcile.go), SyncReplicas        *)
(* (internal/raft/membership.go), the discovery runtime                     *)
(* (internal/discovery/runtime.go) and the node registry that reports the   *)
(* outcome (internal/handler/cluster_nodes.go).                             *)
(*                                                                          *)
(* A plan is made from one read of the membership and the gossip view of    *)
(* the server that answers; applying it takes one Raft operation per        *)
(* replica, with no lock and no check of the configuration the plan was     *)
(* made from.  memberlist and the Raft library are external: a view changes *)
(* on its own, and a Raft operation is applied at once, or fails with or    *)
(* without being applied.  Shards holds what removing a member does to its  *)
(* data; a storage node is here only an entry in the table of a server.     *)
(***************************************************************************)
EXTENDS Integers, FiniteSets, Functions, FiniteSetsExt

CONSTANTS
    Replicas,     \* replica ids
    Servers,      \* the replicas whose admin API is used
    Handlers,     \* requests in flight
    Addrs,        \* Raft addresses
    Http,         \* the storage address a discovered node advertises
    Advertised,   \* replica -> the Raft addresses it may run and gossip with
    Wishes,       \* the memberships bootstrap requests ask for
    InitNodes,    \* the membership the cluster was bootstrapped with
    MaxRequests, MaxGossip, MaxFaults    \* bounds

ASSUME ReconcileAssumption ==
    /\ Replicas \subseteq Nat \ {0} /\ IsFiniteSet(Replicas)
    /\ Servers \subseteq Replicas /\ Servers # {}
    /\ Http \notin Addrs
    /\ Advertised \in [Replicas -> SUBSET Addrs]
    /\ InitNodes \in UNION {[R -> Addrs] : R \in SUBSET Replicas}
    /\ Wishes \subseteq UNION {[R -> Addrs] : R \in (SUBSET Replicas) \ {{}}}
    /\ MaxRequests \in Nat /\ MaxGossip \in Nat /\ MaxFaults \in Nat

VARIABLES
    nodes,       \* Membership.Nodes: replica id -> Raft address
    removed,     \* Membership.Removed
    view,        \* server -> what its memberlist lists: id -> state, address
    table,       \* server -> its engine's storage nodes: id -> address
    pc, req,     \* each handler's next step and its locals
    disturbed,   \* history: handlers that something interfered with
    requests, gossips, faults

raftVars == <<nodes, removed>>
counters == <<requests, gossips, faults>>
vars == <<nodes, removed, view, table, pc, req, disturbed, requests, gossips, faults>>

Partial(S, T) == UNION {[R -> T] : R \in SUBSET S}
Entries == [state : {"alive", "suspect"}, raft : Addrs]
Empty == [i \in {} |-> {}]
With(f, i, v) == [j \in DOMAIN f \cup {i} |-> IF j = i THEN v ELSE f[j]]
Without(f, S) == Restrict(f, DOMAIN f \ S)

NoReq(s) == [op |-> "none", server |-> s, current |-> Empty, desired |-> Empty,
             todo |-> {}, next |-> Empty, res |-> "none"]

Init ==
    /\ nodes = InitNodes /\ removed = {}
    /\ view = [s \in Servers |-> Empty]
    /\ table = [s \in Servers |-> [i \in DOMAIN InitNodes |-> InitNodes[i]]]
    /\ pc = [h \in Handlers |-> "idle"]
    /\ req = [h \in Handlers |-> NoReq(Min(Servers))]
    /\ disturbed = {}
    /\ requests = 0 /\ gossips = 0 /\ faults = 0

(***************************************************************************)
(* Discovery                                                                *)
(***************************************************************************)
Started(s) == view[s] # Empty

SeenBy(s, w) ==
    /\ gossips < MaxGossip
    /\ gossips' = gossips + 1
    /\ view' = [view EXCEPT ![s] = w]
    /\ disturbed' = disturbed \cup {h \in Handlers : req[h].server = s}
    /\ UNCHANGED <<raftVars, table, pc, req, requests, faults>>

\* Start: the list holds the server itself; joining the seeds adds the nodes
\* they know, or fails, which is logged and never tried again.
DiscoveryStart(s) ==
    \E others \in SUBSET (Replicas \ {s}) :
        /\ ~ Started(s)
        /\ \E at \in [others \cup {s} -> Addrs] :
              /\ \A i \in DOMAIN at : at[i] \in Advertised[i]
              /\ SeenBy(s, [i \in DOMAIN at |-> [state |-> "alive", raft |-> at[i]]])

\* Stop: leave and forget the list; Nodes() is empty from then on.
DiscoveryStop(s) == Started(s) /\ SeenBy(s, Empty)

\* memberlist: another node appears, is suspected, recovers, comes back with
\* another address, or is dropped from Members() as dead or left.
GossipChanges(s) ==
    \E i \in Replicas \ {s} :
        /\ Started(s)
        /\ \/ \E e \in Entries : /\ e.raft \in Advertised[i]
                                 /\ i \in DOMAIN view[s] => e # view[s][i]
                                 /\ SeenBy(s, With(view[s], i, e))
           \/ i \in DOMAIN view[s] /\ SeenBy(s, Without(view[s], {i}))

(***************************************************************************)
(* The plan                                                                 *)
(***************************************************************************)
usableDiscoveredNode(e) == e.state = "alive"
usable(w) == {i \in DOMAIN w : usableDiscoveredNode(w[i])}

\* Mutant of desiredMembersBase: every plan starts from nothing.
desiredMembersBaseEmpty(current, exact) == Empty

desiredMembersBase(current, exact) == IF exact THEN Empty ELSE current

conflicts(desired, w) == {i \in usable(w) \cap DOMAIN desired : desired[i] # w[i].raft}

\* Mutant of mergeDiscoveredMembers: suspected nodes are merged as well.
mergeDiscoveredMembersAll(desired, w) ==
    [i \in DOMAIN desired \cup DOMAIN w |-> IF i \in DOMAIN desired THEN desired[i] ELSE w[i].raft]

mergeDiscoveredMembers(desired, w) ==
    [i \in DOMAIN desired \cup usable(w) |-> IF i \in DOMAIN desired THEN desired[i] ELSE w[i].raft]

keepLocalMember(desired, current, s) ==
    IF s \in DOMAIN current /\ s \notin DOMAIN desired THEN With(desired, s, current[s]) ELSE desired

BuildClusterReconcilePlan(current, w, s, exact) ==
    LET base == desiredMembersBase(current, exact)
        merged == mergeDiscoveredMembers(base, w)
    IN  [desired   |-> IF exact THEN keepLocalMember(merged, current, s) ELSE merged,
         conflicts |-> conflicts(base, w)]

(***************************************************************************)
(* The handlers                                                             *)
(***************************************************************************)
Working(h) == pc[h] \notin {"idle", "done"}
Goto(h, l, r) == pc' = [pc EXCEPT ![h] = l] /\ req' = [req EXCEPT ![h] = r]
Answer(h, r, res) == Goto(h, "done", [r EXCEPT !.res = res, !.desired = Empty, !.todo = {}, !.next = Empty])

\* Raft serves a replica that is a member; a removed one gets errors.
Served(s) == s \in DOMAIN nodes

\* A request arrives and reads the membership of its server; Rest continues.
Arrive(h) ==
    /\ ~ Working(h) /\ requests < MaxRequests
    /\ requests' = requests + 1
    /\ disturbed' = disturbed \ {h}
    /\ UNCHANGED <<raftVars, view, table, gossips, faults>>

\* handleClusterReconcileApply up to SyncReplicas.  The view is read just after
\* the membership; as views change on their own, reading both at once loses
\* nothing.
Reconcile(h) ==
    \E s \in Servers, op \in {"add_only", "exact"} :
        LET plan == BuildClusterReconcilePlan(nodes, view[s], s, op = "exact")
            r == [NoReq(s) EXCEPT !.op = op, !.current = nodes, !.desired = plan.desired]
        IN  /\ Arrive(h)
            /\ \/ ~ Served(s) /\ Answer(h, r, "error")
               \/ Served(s) /\ plan.conflicts # {} /\ Answer(h, r, "conflict")
               \/ Served(s) /\ plan.conflicts = {} /\ Goto(h, "before", r)

\* handleClusterBootstrap; membershipStatesMatch goes straight to the sync.
Bootstrap(h) ==
    \E s \in Servers, want \in Wishes :
        LET r == [NoReq(s) EXCEPT !.op = "bootstrap", !.current = nodes, !.desired = want]
        IN  /\ Arrive(h)
            /\ \/ ~ Served(s) /\ Answer(h, r, "error")
               \/ Served(s) /\ want = nodes /\ Goto(h, "after", r)
               \/ Served(s) /\ want # nodes /\ Goto(h, "before", r)

\* handleClusterJoin and handleAddClusterMember, with maybeHandleExistingReplica.
Join(h) ==
    \E s \in Servers, i \in Replicas : \E a \in Advertised[i] :
        LET r == [NoReq(s) EXCEPT !.op = "join", !.current = nodes, !.desired = With(Empty, i, a)]
        IN  /\ Arrive(h)
            /\ \/ ~ Served(s) /\ Answer(h, r, "error")
               \/ Served(s) /\ i \in DOMAIN nodes /\ nodes[i] = a /\ Goto(h, "after", r)
               \/ Served(s) /\ i \in DOMAIN nodes /\ nodes[i] # a /\ Answer(h, r, "conflict")
               \/ Served(s) /\ i \notin DOMAIN nodes /\ Goto(h, "add", [r EXCEPT !.todo = {i}])

(***************************************************************************)
(* SyncReplicas                                                             *)
(***************************************************************************)
Local == UNCHANGED <<raftVars, view, table, disturbed, counters>>

normalizeDesiredReplicas(desired, s) == s \in DOMAIN desired

\* Mutant of validateDesiredReplicaTargets: removed replicas pass.
validateDesiredReplicaTargetsOnly(desired) ==
    \A i \in DOMAIN desired \cap DOMAIN nodes : nodes[i] = desired[i]

validateDesiredReplicaTargets(desired) ==
    /\ DOMAIN desired \cap removed = {}
    /\ \A i \in DOMAIN desired \cap DOMAIN nodes : nodes[i] = desired[i]

\* Mutant of missingReplicas: the difference the other way round.
missingReplicasSwapped(current, desired) == DOMAIN current \ DOMAIN desired

missingReplicas(current, desired) == DOMAIN desired \ DOMAIN current
extraReplicas(current, desired) == DOMAIN current \ DOMAIN desired

Before(h) ==
    LET r == req[h] IN
    /\ pc[h] = "before"
    /\ IF normalizeDesiredReplicas(r.desired, r.server) /\ Served(r.server)
          /\ validateDesiredReplicaTargets(r.desired)
       THEN Goto(h, "add", [r EXCEPT !.todo = missingReplicas(nodes, r.desired)])
       ELSE Answer(h, r, "error")
    /\ Local

\* ensureReplicaAddable: neither removed, nor a member at another address.
ensureReplicaAddable(i, a) == i \notin removed /\ (i \in DOMAIN nodes => nodes[i] = a)

\* The Raft operations; a change disturbs every other request.
Changes(h) ==
    /\ disturbed' = IF UNCHANGED nodes THEN disturbed ELSE disturbed \cup (Handlers \ {h})
    /\ UNCHANGED <<view, table, counters>>
AddReplica(i, a) == nodes' = With(nodes, i, a) /\ UNCHANGED removed
RemoveReplica(i) ==
    /\ nodes' = Without(nodes, {i})
    /\ removed' = removed \cup (DOMAIN nodes \cap {i})

\* addMissingReplicas in the order of the ids, and the add of a join.
Add(h) ==
    LET r == req[h]  i == Min(r.todo) IN
    /\ pc[h] = "add" /\ r.todo # {}
    /\ IF Served(r.server) /\ ensureReplicaAddable(i, r.desired[i])
       THEN AddReplica(i, r.desired[i]) /\ Goto(h, "add", [r EXCEPT !.todo = @ \ {i}])
       ELSE Answer(h, r, "error") /\ UNCHANGED raftVars
    /\ Changes(h)

\* Everything is added.  SyncReplicas reads the membership again and removes
\* what the plan does not list; a join goes on to the storage nodes.
Mid(h) ==
    LET r == req[h] IN
    /\ pc[h] = "add" /\ r.todo = {}
    /\ \/ r.op = "join" /\ Goto(h, "after", r)
       \/ r.op # "join" /\ Served(r.server)
          /\ Goto(h, "remove", [r EXCEPT !.todo = extraReplicas(nodes, r.desired)])
       \/ r.op # "join" /\ ~ Served(r.server) /\ Answer(h, r, "error")
    /\ Local

Remove(h) ==
    LET r == req[h]  i == Min(r.todo) IN
    /\ pc[h] = "remove" /\ r.todo # {}
    /\ IF Served(r.server)
       THEN RemoveReplica(i) /\ Goto(h, "remove", [r EXCEPT !.todo = @ \ {i}])
       ELSE Answer(h, r, "error") /\ UNCHANGED raftVars
    /\ Changes(h)

\* storageNodesFromMembership: a member's storage address is the one it
\* gossips, alive or suspected, or else its Raft address.
storageNodesFromMembership(w) ==
    [i \in DOMAIN nodes |-> IF i \in DOMAIN w THEN Http ELSE nodes[i]]

\* The last read of SyncReplicas and the one of syncStorageNodes.
After(h) ==
    LET r == req[h] IN
    /\ pc[h] = "after" \/ (pc[h] = "remove" /\ r.todo = {})
    /\ IF Served(r.server)
       THEN Goto(h, "set", [r EXCEPT !.next = storageNodesFromMembership(view[r.server])])
       ELSE Answer(h, r, "error")
    /\ Local

\* It replaces the table of the server.
SyncStorageNodesFromRaft(s, next) == table' = [table EXCEPT ![s] = next]

SetStorage(h) ==
    LET r == req[h] IN
    /\ pc[h] = "set"
    /\ SyncStorageNodesFromRaft(r.server, r.next)
    /\ Answer(h, r, "applied")
    /\ disturbed' = disturbed \cup {g \in Handlers \ {h} : req[g].server = r.server}
    /\ UNCHANGED <<raftVars, view, counters>>

\* A read or a Raft operation fails or times out.
Fault(h) == faults < MaxFaults /\ faults' = faults + 1 /\ UNCHANGED <<view, table, requests, gossips>>

OperationFails(h) ==
    /\ pc[h] \in {"before", "add", "remove", "after"}
    /\ Fault(h)
    /\ Answer(h, req[h], "error")
    /\ disturbed' = disturbed \cup {h}
    /\ UNCHANGED raftVars

\* The operation was applied although its caller gave up waiting.
ReplyLost(h) ==
    LET r == req[h]  i == Min(r.todo) IN
    /\ pc[h] \in {"add", "remove"} /\ r.todo # {} /\ Served(r.server)
    /\ \/ pc[h] = "add" /\ ensureReplicaAddable(i, r.desired[i]) /\ AddReplica(i, r.desired[i])
       \/ pc[h] = "remove" /\ RemoveReplica(i)
    /\ Fault(h)
    /\ Answer(h, r, "error")
    /\ disturbed' = Handlers

Next ==
    \/ \E s \in Servers : DiscoveryStart(s) \/ DiscoveryStop(s) \/ GossipChanges(s)
    \/ \E h \in Handlers :
        \/ Reconcile(h) \/ Bootstrap(h) \/ Join(h)
        \/ Before(h) \/ Add(h) \/ Mid(h) \/ Remove(h) \/ After(h) \/ SetStorage(h)
        \/ OperationFails(h) \/ ReplyLost(h)

Spec == Init /\ [][Next]_vars

(***************************************************************************)
(* The registry of a server (GET /cluster/nodes): what it says of replica i *)
(***************************************************************************)
Member(i) == i \in DOMAIN nodes
Discovered(s, i) == i \in DOMAIN view[s]
StorageRegistered(s, i) == i \in DOMAIN table[s]

clusterNodeIssues(s, i) ==
    {x \in {"not_discovered", "storage_not_registered", "not_in_raft_membership",
            "storage_without_raft_member", "raft_address_mismatch", "storage_address_mismatch"} :
        CASE x = "not_discovered" -> Member(i) /\ ~ Discovered(s, i) /\ i # s
          [] x = "storage_not_registered" -> Member(i) /\ ~ StorageRegistered(s, i)
          [] x = "not_in_raft_membership" -> Discovered(s, i) /\ ~ Member(i)
          [] x = "storage_without_raft_member" -> StorageRegistered(s, i) /\ ~ Member(i)
          [] x = "raft_address_mismatch" ->
                 Member(i) /\ Discovered(s, i) /\ nodes[i] # view[s][i].raft
          [] x = "storage_address_mismatch" ->
                 StorageRegistered(s, i) /\ Discovered(s, i) /\ table[s][i] # Http}

clusterNodeStatus(s, i) ==
    IF Discovered(s, i)
    THEN IF view[s][i].state = "suspect" THEN "suspect"
         ELSE IF Member(i) THEN "online" ELSE "discovered"
    ELSE IF Member(i) THEN IF i = s THEN "online" ELSE "offline"
    ELSE IF StorageRegistered(s, i) THEN "storage_only" ELSE "discovered"

(***************************************************************************)
(* Properties                                                               *)
(***************************************************************************)

\* Type invariant.  The locals of a request hold only what its plan names: ids
\* to add are desired ids, ids to remove are not.
ReconcileTypeOK ==
    /\ nodes \in Partial(Replicas, Addrs) /\ removed \subseteq Replicas
    /\ DOMAIN nodes \cap removed = {}
    /\ view \in [Servers -> Partial(Replicas, Entries)]
    /\ table \in [Servers -> Partial(Replicas, Addrs \cup {Http})]
    /\ disturbed \subseteq Handlers
    /\ requests \in 0 .. MaxRequests /\ gossips \in 0 .. MaxGossip /\ faults \in 0 .. MaxFaults
    /\ \A h \in Handlers :
        /\ pc[h] \in {"idle", "before", "add", "remove", "after", "set", "done"}
        /\ req[h].op \in {"none", "add_only", "exact", "bootstrap", "join"}
        /\ req[h].res \in {"none", "error", "conflict", "applied"}
        /\ req[h].server \in Servers /\ req[h].todo \subseteq Replicas
        /\ req[h].current \in Partial(Replicas, Addrs)
        /\ req[h].desired \in Partial(Replicas, Addrs)
        /\ req[h].next \in Partial(Replicas, Addrs \cup {Http})
        /\ pc[h] = "add" => req[h].todo \subseteq DOMAIN req[h].desired
        /\ pc[h] = "remove" => req[h].todo \cap DOMAIN req[h].desired = {}

Quiet(h) == pc[h] = "done" /\ h \notin disturbed

\* A reconcile answered "applied" with which nothing interfered leaves exactly
\* the members it promised (cluster_reconcile.go:171): those alive in the
\* server's view and the server itself, plus in add_only mode the earlier
\* members; and the server's registry finds every live node online, without an
\* issue, and no storage node that is not a member.
QuietReconcile ==
    \A h \in Handlers :
        LET r == req[h]  s == r.server IN
        Quiet(h) /\ r.op \in {"add_only", "exact"} /\ r.res = "applied" =>
            /\ DOMAIN nodes = {i \in DOMAIN view[s] : view[s][i].state = "alive"} \cup {s}
                              \cup (IF r.op = "add_only" THEN DOMAIN r.current ELSE {})
            /\ \A i \in Replicas :
                 /\ "storage_without_raft_member" \notin clusterNodeIssues(s, i)
                 /\ Discovered(s, i) /\ view[s][i].state = "alive" =>
                      clusterNodeStatus(s, i) = "online" /\ clusterNodeIssues(s, i) = {}

\* A request that is refused, and with which nothing interfered, changed
\* nothing: SyncReplicas validates the whole wish before it adds the first
\* replica (membership.go:124), so a removed id or a changed target cannot stop
\* it half way.
RefusedWhole ==
    \A h \in Handlers :
        Quiet(h) /\ req[h].res \in {"error", "conflict"} => nodes = req[h].current

\* A request never removes the replica of the server that runs it, and an
\* add_only reconcile removes no member its plan had seen, whatever other
\* servers do meanwhile.  (It does remove a replica that joined after its plan:
\* the extras are taken from a membership read later, membership.go:133.)
RemovalsPlanned ==
    [][\A i \in DOMAIN nodes \ DOMAIN nodes' :
         \E h \in Handlers :
            /\ pc[h] = "remove" /\ i \in req[h].todo /\ i \notin req'[h].todo
            /\ i # req[h].server
            /\ req[h].op = "add_only" => i \notin DOMAIN req[h].current]_vars

=============================================================================
