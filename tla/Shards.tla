------------------------------- MODULE Shards -------------------------------
(***************************************************************************)
(* Single shards on storage nodes, and the cluster operations that move     *)
(* them: the engine's placement, repair and rebalance (internal/engine),    *)
(* Store.RebalanceNode (internal/store), the Raft membership                *)
(* (internal/raft/membership.go) and the cluster handlers                   *)
(* (internal/handler/cluster*.go), as seen from one server, Local, which    *)
(* serves the requests and holds the layouts; the other nodes store shards. *)
(*                                                                          *)
(* As in ObjectStore, a request is a goroutine, an action is one call with  *)
(* the local computation up to the next, pc[p] names request p's next call  *)
(* and req[p] holds its locals.  Staging, write intents and failing metadata*)
(* calls of a put are ObjectStore's subject and left out here.              *)
(***************************************************************************)
EXTENDS Integers, FiniteSets

CONSTANTS
    Procs,        \* request goroutines that can be in flight at a time
    Nodes,        \* replica ids, numbered in the order of their storage node id
    Local,        \* the server's own replica
    InitMembers,  \* the Raft members at startup
    Total, Data,  \* shards of a content, and how many of them rebuild it
    Objects,
    Contents,
    Puts,         \* which <<object, content>> pairs clients write
    None,         \* no object, no content, no node
    MaxRequests,  \* how many requests clients and operators make
    MaxTroubles,  \* how many losses, outages, faults and restarts in all
    MaxLosses,    \* how many shard files may vanish or rot
    MaxOutages,   \* how many times a node may become unreachable
    MaxFaults,    \* how many layout or metadata writes of a rebalance may fail
    MaxRestarts,  \* how many times the server may be restarted
    Contend       \* TRUE: requests in flight may touch the same object or node

Index == 0 .. Total - 1

ASSUME NodesAssumption ==
    /\ Nodes \subseteq Nat \ {0}
    /\ IsFiniteSet(Nodes)
    /\ Local \in InitMembers
    /\ InitMembers \subseteq Nodes
    /\ None \notin Nodes \cup Objects \cup Contents

ASSUME CodingAssumption ==
    /\ Total \in Nat
    /\ Data \in 1 .. Total

ASSUME RequestsAssumption ==
    /\ Puts \subseteq Objects \X Contents
    /\ IsFiniteSet(Procs)
    /\ IsFiniteSet(Objects)
    /\ Contend \in BOOLEAN
    /\ {MaxRequests, MaxTroubles, MaxLosses, MaxOutages, MaxFaults, MaxRestarts} \subseteq Nat

VARIABLES
    members,      \* Raft: the shard's voting members
    removed,      \* Raft: replica ids removed once, never to be added again
    reg,          \* engine: nodes, the registered storage nodes
    drained,      \* engine: drainedNodes
    up,           \* nodes whose storage API answers
    files,        \* chunk files: files[content][node][index]
    refs,         \* metadata: blobRefs, count and placements
    meta,         \* metadata: committed objects, content and placements
    cache,        \* engine: layoutCache, lost on restart
    disk,         \* engine: meta.json of each object
    pc, req,      \* requests in flight
    requests, losses, outages, faults, restarts

raftVars == <<members, removed>>
nodeVars == <<reg, drained>>
layoutVars == <<cache, disk>>
storeVars == <<files, refs, meta, layoutVars>>
counters == <<requests, losses, outages, faults, restarts>>
vars == <<raftVars, nodeVars, up, storeVars, pc, req, counters>>

(***************************************************************************)
(* Values                                                                   *)
(***************************************************************************)
Placements == [Index -> Nodes]
AllLocal == [i \in Index |-> Local]

\* What a layout, and the committed metadata, say of an object's content.
NoLayout == [hash |-> None, places |-> AllLocal]
Layouts == [hash : Contents \cup {None}, places : Placements]

NoRef == [count |-> 0, places |-> AllLocal]

PutCalls == {"put_load", "put_loadref", "put_ref", "put_plan", "put_write", "put_link",
             "put_retain", "put_commit"}
DeleteCalls == {"del_load", "del_meta", "del_layout", "rel_ref", "rel_blob"}
RepairCalls == {"fix_health", "fix_read", "fix_write"}
MemberCalls == {"join_get", "dec_get", "repl_get", "mem_get", "reb_get", "add", "check", "remove",
                "all_get", "all_add", "all_mid", "all_remove", "sync_get", "sync_set"}
RebalanceCalls == {"drain", "reb_list", "reb_next", "reb_move", "reb_persist", "reb_clean",
                   "reb_meta", "reb_ref"}
Calls == {"idle"} \cup PutCalls \cup DeleteCalls \cup RepairCalls \cup MemberCalls
             \cup RebalanceCalls

Ops == {"none", "put", "delete", "repair", "join", "decommission", "replace", "remove",
        "rebalance", "sync", "members"}

\* The locals of a request: its object and content, or its node and the
\* replacement; lay the layout it works on and to the placements it builds; ex,
\* exRef and exPlaces the existing object of a put, whether it has a ref and that
\* ref's placements; hit whether the content had a ref; idx the next shard of a loop; moved the shards
\* moved or to repair; snap and todo the metadata a rebalance listed and what
\* is left of it; want the desired members; seen a membership read earlier;
\* ret where a sync of storage nodes goes on.
Requests ==
    [op : Ops, obj : Objects \cup {None}, hash : Contents \cup {None},
     node : Nodes \cup {None}, new : Nodes \cup {None},
     lay : Layouts, to : Placements, ex : Layouts, exRef : BOOLEAN, exPlaces : Placements,
     hit : BOOLEAN, idx : Nat, moved : SUBSET Index,
     snap : [Objects -> Layouts], todo : SUBSET Objects,
     want : SUBSET Nodes, seen : SUBSET Nodes, ret : Calls]

NoReq ==
    [op |-> "none", obj |-> None, hash |-> None, node |-> None, new |-> None,
     lay |-> NoLayout, to |-> AllLocal, ex |-> NoLayout, exRef |-> FALSE,
     exPlaces |-> AllLocal, hit |-> FALSE, idx |-> 0, moved |-> {}, snap |-> [o \in Objects |-> NoLayout],
     todo |-> {}, want |-> {}, seen |-> {}, ret |-> "idle"]

\* The server is always a registered storage node, and drains registered nodes.
TypeOK ==
    /\ members \in SUBSET Nodes
    /\ removed \in SUBSET Nodes
    /\ reg \in SUBSET Nodes
    /\ Local \in reg
    /\ drained \in SUBSET reg
    /\ up \in SUBSET Nodes
    /\ files \in [Contents -> [Nodes -> [Index -> {"none", "good", "bad"}]]]
    /\ refs \in [Contents -> [count : Nat, places : Placements]]
    /\ meta \in [Objects -> Layouts]
    /\ cache \in [Objects -> Layouts]
    /\ disk \in [Objects -> Layouts]
    /\ pc \in [Procs -> Calls]
    /\ req \in [Procs -> Requests]
    /\ {requests, losses, outages, faults, restarts} \subseteq Nat

Init ==
    /\ members = InitMembers
    /\ removed = {}
    /\ reg = InitMembers
    /\ drained = {}
    /\ up = Nodes
    /\ files = [c \in Contents |-> [n \in Nodes |-> [i \in Index |-> "none"]]]
    /\ refs = [c \in Contents |-> NoRef]
    /\ meta = [o \in Objects |-> NoLayout]
    /\ cache = [o \in Objects |-> NoLayout]
    /\ disk = [o \in Objects |-> NoLayout]
    /\ pc = [p \in Procs |-> "idle"]
    /\ req = [p \in Procs |-> NoReq]
    /\ requests = 0 /\ losses = 0 /\ outages = 0 /\ faults = 0 /\ restarts = 0

(***************************************************************************)
(* Control                                                                  *)
(***************************************************************************)
Enter(p, l, r) ==
    /\ pc' = [pc EXCEPT ![p] = l]
    /\ req' = [req EXCEPT ![p] = IF l = "idle" THEN NoReq ELSE r]

Goto(p, l) == Enter(p, l, req[p])

\* A handler returns, with an answer or with an error.
Return(p) == Goto(p, "idle")

MayGoWrong == losses + outages + faults + restarts < MaxTroubles

\* A layout or metadata write fails, and the handler with it.
Fail(p) ==
    /\ MayGoWrong /\ faults < MaxFaults
    /\ faults' = faults + 1
    /\ Return(p)
    /\ UNCHANGED <<requests, losses, outages, restarts>>

(***************************************************************************)
(* The engine's view of nodes and shards                                    *)
(***************************************************************************)
\* placementNodesLocked: registered nodes that are not drained.
Active == reg \ drained

\* The k-th of a set of nodes sorted by storage node id, counting from 0.
Nth(S, k) == CHOOSE n \in S : Cardinality({m \in S : m < n}) = k

\* RoundRobinPlacementPlanner.Plan (and SingleNode's, when one node is active).
RoundRobin(S) == [i \in Index |-> Nth(S, i % Cardinality(S))]

\* storageNode finds the node, and its storage API answers.
Reachable(n) == n \in reg /\ n \in up

\* What readShard makes of a shard: its bytes, no file, a checksum mismatch, or
\* another error.
ReadShard(c, n, i) == IF Reachable(n) THEN files[c][n][i] ELSE "error"

SetFile(c, n, i, s) == files' = [files EXCEPT ![c][n][i] = s]

\* getLayout: the cache, then meta.json.
GetLayout(o) == IF cache[o] # NoLayout THEN cache[o] ELSE disk[o]

\* LinkObject writes meta.json and fills the cache.
LinkObject(o, l) ==
    /\ cache' = [cache EXCEPT ![o] = l]
    /\ disk' = [disk EXCEPT ![o] = l]

\* DeleteObjectLayout drops the cache entry and meta.json.
DeleteObjectLayout(o) == LinkObject(o, NoLayout)

\* A layout is shared through the cache: a request that holds it sees what a
\* rebalance has made of it since.
Held(p) ==
    LET l == GetLayout(req[p].obj) IN IF l.hash = req[p].lay.hash THEN l ELSE req[p].lay

\* DeleteBlob removes the content's shards from this server's disk only.
DeleteBlob(c) ==
    files' = [files EXCEPT ![c][Local] = [i \in Index |-> "none"]]

\* metaUsesNode.
Uses(l, n) == l # NoLayout /\ \E i \in Index : l.places[i] = n

(***************************************************************************)
(* Requests begin                                                           *)
(***************************************************************************)
ObjectOps == {"put", "delete", "repair"}

\* The objects a request in flight may read or write.
Touches(p) ==
    IF pc[p] = "idle" THEN {}
    ELSE IF req[p].op \in ObjectOps THEN {req[p].obj} ELSE Objects

\* Without contention, a request waits for those that touch the same objects.
MayStart(p, objs) ==
    /\ requests < MaxRequests
    /\ pc[p] = "idle"
    /\ Contend \/ \A q \in Procs : Touches(q) \cap objs = {}

NewRequest ==
    /\ requests < MaxRequests
    /\ requests' = requests + 1
    /\ UNCHANGED <<losses, outages, faults, restarts>>

Begin(p, l, r) ==
    /\ NewRequest
    /\ Enter(p, l, r)
    /\ UNCHANGED <<raftVars, nodeVars, up, storeVars>>

PutObject(p) ==
    \E x \in Puts :
        /\ MayStart(p, {x[1]})
        /\ Begin(p, "put_load", [NoReq EXCEPT !.op = "put", !.obj = x[1], !.hash = x[2]])

DeleteObject(p) ==
    \E o \in Objects :
        /\ MayStart(p, {o})
        /\ Begin(p, "del_load", [NoReq EXCEPT !.op = "delete", !.obj = o])

RepairObject(p) ==
    \E o \in Objects :
        /\ MayStart(p, {o})
        /\ Begin(p, "fix_health", [NoReq EXCEPT !.op = "repair", !.obj = o])

\* handleClusterJoin and handleAddClusterMember.
Join(p) ==
    \E n \in Nodes :
        /\ MayStart(p, Objects)
        /\ Begin(p, "join_get", [NoReq EXCEPT !.op = "join", !.new = n])

\* ValidateClusterMemberDecommission refuses the server's own replica.
Decommission(p) ==
    \E n \in Nodes \ {Local} :
        /\ MayStart(p, Objects)
        /\ Begin(p, "dec_get", [NoReq EXCEPT !.op = "decommission", !.node = n])

Replace(p) ==
    \E n \in Nodes \ {Local}, m \in Nodes :
        /\ MayStart(p, Objects)
        /\ Begin(p, "repl_get", [NoReq EXCEPT !.op = "replace", !.node = n, !.new = m])

\* handleClusterMember (DELETE).
RemoveMember(p) ==
    \E n \in Nodes \ {Local} :
        /\ MayStart(p, Objects)
        /\ Begin(p, "mem_get", [NoReq EXCEPT !.op = "remove", !.node = n])

\* handleClusterRebalance: any member may be the source, the server too.
Rebalance(p) ==
    \E n \in Nodes :
        /\ MayStart(p, Objects)
        /\ Begin(p, "reb_get", [NoReq EXCEPT !.op = "rebalance", !.node = n])

\* handleClusterStorageNodesSync.
SyncNodes(p) ==
    /\ MayStart(p, Objects)
    /\ Begin(p, "sync_get", [NoReq EXCEPT !.op = "sync"])

\* handleSyncClusterMembers, handleClusterBootstrap and
\* handleClusterReconcileApply set the members outright, the server's own among
\* them, and look at no shards.
SyncMembers(p) ==
    \E want \in SUBSET Nodes :
        /\ MayStart(p, Objects)
        /\ Local \in want
        /\ Begin(p, "all_get", [NoReq EXCEPT !.op = "members", !.want = want])

(***************************************************************************)
(* Put, delete                                                              *)
(***************************************************************************)
At(p, l) == pc[p] = l

StoreOnly == UNCHANGED <<raftVars, nodeVars, up, counters>>
Nothing == StoreOnly /\ UNCHANGED storeVars

\* loadExistingObject: the committed object, then its blob ref.
PutLoad(p) ==
    LET r == req[p] IN
    /\ At(p, "put_load")
    /\ Enter(p, IF meta[r.obj] = NoLayout THEN "put_ref" ELSE "put_loadref",
             [r EXCEPT !.ex = meta[r.obj]])
    /\ Nothing

PutLoadRef(p) ==
    LET r == req[p]
        ref == refs[r.ex.hash] IN
    /\ At(p, "put_loadref")
    /\ Enter(p, "put_ref", [r EXCEPT !.exRef = ref.count > 0, !.exPlaces = ref.places])
    /\ Nothing

\* prepareBlob: content that has a ref is linked where the ref says it is.
PutRef(p) ==
    LET r == req[p]
        ref == refs[r.hash] IN
    /\ At(p, "put_ref")
    /\ IF ref.count > 0
       THEN Enter(p, "put_link", [r EXCEPT !.hit = TRUE, !.to = ref.places])
       ELSE Goto(p, "put_plan")
    /\ Nothing

\* PlanShardPlacement: no active node, no planner.
PutPlan(p) ==
    /\ At(p, "put_plan")
    /\ IF Active = {} THEN Return(p)
       ELSE Enter(p, "put_write", [req[p] EXCEPT !.to = RoundRobin(Active)])
    /\ Nothing

\* PutBlobBytes writes shard after shard, and stops at the first it cannot.
PutWrite(p) ==
    LET r == req[p] IN
    /\ At(p, "put_write")
    /\ IF r.idx = Total THEN Goto(p, "put_link") /\ UNCHANGED files
       ELSE IF Reachable(r.to[r.idx])
            THEN /\ SetFile(r.hash, r.to[r.idx], r.idx, "good")
                 /\ Enter(p, "put_write", [r EXCEPT !.idx = @ + 1])
       ELSE Return(p) /\ UNCHANGED files
    /\ UNCHANGED <<refs, meta, layoutVars>>
    /\ StoreOnly

PutLink(p) ==
    LET r == req[p]
        l == [hash |-> r.hash, places |-> r.to] IN
    /\ At(p, "put_link")
    /\ LinkObject(r.obj, l)
    /\ Enter(p, "put_retain", [r EXCEPT !.lay = l])
    /\ UNCHANGED <<files, refs, meta>>
    /\ StoreOnly

\* retainBlob: createBlobRef keeps the placements of a ref that came up
\* meanwhile; increaseBlobRef fails when the ref is gone, and rollbackPut puts the
\* previous layout back where its ref was.
PutRetain(p) ==
    LET r == req[p]
        ref == refs[r.hash] IN
    /\ At(p, "put_retain")
    /\ IF ~r.hit
       THEN /\ refs' = [refs EXCEPT ![r.hash] =
                          [count |-> ref.count + 1,
                           places |-> IF ref.count = 0 THEN r.to ELSE ref.places]]
            /\ Goto(p, "put_commit")
            /\ UNCHANGED layoutVars
       ELSE IF r.ex.hash = r.hash
       THEN Goto(p, "put_commit") /\ UNCHANGED <<refs, layoutVars>>
       ELSE IF ref.count > 0
       THEN /\ refs' = [refs EXCEPT ![r.hash].count = @ + 1]
            /\ Goto(p, "put_commit")
            /\ UNCHANGED layoutVars
       ELSE /\ LinkObject(r.obj, IF r.exRef THEN [hash |-> r.ex.hash, places |-> r.exPlaces]
                                 ELSE NoLayout)
            /\ Return(p)
            /\ UNCHANGED refs
    /\ UNCHANGED <<files, meta>>
    /\ StoreOnly

\* UpsertObjectMeta, then releaseReplacedBlob.
PutCommit(p) ==
    LET r == req[p] IN
    /\ At(p, "put_commit")
    /\ meta' = [meta EXCEPT ![r.obj] = r.lay]
    /\ IF r.ex = NoLayout \/ r.ex.hash = r.hash THEN Return(p)
       ELSE Enter(p, "rel_ref", [r EXCEPT !.hash = r.ex.hash])
    /\ UNCHANGED <<files, refs, layoutVars>>
    /\ StoreOnly

\* Store.DeleteObject: metadata, layout, reference, shards.
DeleteLoad(p) ==
    LET r == req[p] IN
    /\ At(p, "del_load")
    /\ IF meta[r.obj] = NoLayout THEN Return(p)
       ELSE Enter(p, "del_meta", [r EXCEPT !.hash = meta[r.obj].hash])
    /\ Nothing

DeleteMeta(p) ==
    /\ At(p, "del_meta")
    /\ meta' = [meta EXCEPT ![req[p].obj] = NoLayout]
    /\ Goto(p, "del_layout")
    /\ UNCHANGED <<files, refs, layoutVars>>
    /\ StoreOnly

DeleteLayout(p) ==
    /\ At(p, "del_layout")
    /\ DeleteObjectLayout(req[p].obj)
    /\ Goto(p, "rel_ref")
    /\ UNCHANGED <<files, refs, meta>>
    /\ StoreOnly

\* releaseBlob: decreaseBlobRef, and the blob of the last reference.
ReleaseRef(p) ==
    LET r == req[p]
        ref == refs[r.hash] IN
    /\ At(p, "rel_ref")
    /\ refs' = [refs EXCEPT ![r.hash] =
                  IF ref.count <= 1 THEN NoRef ELSE [ref EXCEPT !.count = @ - 1]]
    /\ IF ref.count = 1 THEN Goto(p, "rel_blob") ELSE Return(p)
    /\ UNCHANGED <<files, meta, layoutVars>>
    /\ StoreOnly

ReleaseBlob(p) ==
    /\ At(p, "rel_blob")
    /\ DeleteBlob(req[p].hash)
    /\ Return(p)
    /\ UNCHANGED <<refs, meta, layoutVars>>
    /\ StoreOnly

(***************************************************************************)
(* RepairObject                                                             *)
(***************************************************************************)
Good(l) == {i \in Index : ReadShard(l.hash, l.places[i], i) = "good"}

\* healthFromLayout counts a shard that cannot be reached as missing.
FixHealth(p) ==
    LET l == GetLayout(req[p].obj) IN
    /\ At(p, "fix_health")
    /\ IF l = NoLayout \/ Good(l) = Index \/ Cardinality(Good(l)) < Data THEN Return(p)
       ELSE Enter(p, "fix_read", [req[p] EXCEPT !.lay = l])
    /\ Nothing

\* readRepairShards gives up on any shard it cannot reach; Rebuild needs Data
\* shards.
FixRead(p) ==
    LET l == Held(p)
        lost == Index \ Good(l) IN
    /\ At(p, "fix_read")
    /\ IF \/ \E i \in Index : ReadShard(l.hash, l.places[i], i) = "error"
          \/ Cardinality(Good(l)) < Data
       THEN Return(p)
       ELSE Enter(p, "fix_write", [req[p] EXCEPT !.moved = lost])
    /\ Nothing

\* writeRepairedShards, in the order of the shards.
FixWrite(p) ==
    LET r == req[p]
        l == Held(p)
        Write(i) ==
            IF Reachable(l.places[i])
            THEN /\ SetFile(l.hash, l.places[i], i, "good")
                 /\ Enter(p, "fix_write", [r EXCEPT !.moved = @ \ {i}])
            ELSE Return(p) /\ UNCHANGED files IN
    /\ At(p, "fix_write")
    /\ IF r.moved = {} THEN Return(p) /\ UNCHANGED files
       ELSE \E i \in r.moved : (\A j \in r.moved : i <= j) /\ Write(i)
    /\ UNCHANGED <<refs, meta, layoutVars>>
    /\ StoreOnly

(***************************************************************************)
(* Membership calls of the cluster handlers                                 *)
(***************************************************************************)
\* syncStorageNodes returns to l.
Sync(p, l) == Enter(p, "sync_get", [req[p] EXCEPT !.ret = l])

\* GetMembership, then SyncStorageNodesFromRaft with what it returned.
SyncGet(p) ==
    /\ At(p, "sync_get")
    /\ Enter(p, "sync_set", [req[p] EXCEPT !.seen = members])
    /\ Nothing

\* Mutant of SyncSet: nodes that leave the registry stay in the drained set.
SyncSetKeepsDrained(p) ==
    /\ At(p, "sync_set")
    /\ reg' = req[p].seen \cup {Local}
    /\ Enter(p, req[p].ret, [req[p] EXCEPT !.seen = {}, !.ret = "idle"])
    /\ UNCHANGED <<drained, raftVars, up, storeVars, counters>>

\* The registry is replaced; drained nodes that are still in it stay drained.
SyncSet(p) ==
    LET nodes == req[p].seen \cup {Local} IN
    /\ At(p, "sync_set")
    /\ reg' = nodes
    /\ drained' = drained \cap nodes
    /\ Enter(p, req[p].ret, [req[p] EXCEPT !.seen = {}, !.ret = "idle"])
    /\ UNCHANGED <<raftVars, up, storeVars, counters>>

\* maybeHandleExistingReplica: a member that is there already is only synced.
JoinGet(p) ==
    /\ At(p, "join_get")
    /\ IF req[p].new \in members THEN Sync(p, "idle") ELSE Goto(p, "add")
    /\ Nothing

DecommissionGet(p) ==
    /\ At(p, "dec_get")
    /\ Sync(p, IF req[p].node \in members THEN "drain" ELSE "idle")
    /\ Nothing

\* resolveReplacementReplicaID: a member replaced by itself gets the id after
\* the largest ever used.
LargestId == CHOOSE n \in members \cup removed : \A m \in members \cup removed : m <= n

ReplaceGet(p) ==
    LET r == req[p] IN
    /\ At(p, "repl_get")
    /\ IF r.node \notin members THEN Return(p)
       ELSE IF r.new # r.node THEN Goto(p, "add")
       ELSE IF LargestId + 1 \in Nodes THEN Enter(p, "add", [r EXCEPT !.new = LargestId + 1])
       ELSE Return(p)
    /\ Nothing

RemoveGet(p) ==
    /\ At(p, "mem_get")
    /\ IF req[p].node \in members THEN Goto(p, "check") ELSE Return(p)
    /\ Nothing

RebalanceGet(p) ==
    /\ At(p, "reb_get")
    /\ IF req[p].node \in members THEN Goto(p, "reb_list") ELSE Return(p)
    /\ Nothing

\* AddReplica: ensureReplicaAddable refuses a replica that was removed.
AddReplica(n) == members' = members \cup {n} /\ UNCHANGED removed

Add(p) ==
    LET r == req[p] IN
    /\ At(p, "add")
    /\ IF r.new \in removed THEN Return(p) /\ UNCHANGED raftVars
       ELSE AddReplica(r.new) /\ Sync(p, IF r.op = "join" THEN "idle" ELSE "drain")
    /\ UNCHANGED <<nodeVars, up, storeVars, counters>>

\* Mutant of Check: ownership is counted over the cached layouts.
CheckCachedLayouts(p) ==
    /\ At(p, "check")
    /\ IF \E o \in Objects : Uses(cache[o], req[p].node) THEN Return(p) ELSE Goto(p, "remove")
    /\ Nothing

\* ensureClusterMemberDecommissionable counts the committed placements.
Check(p) ==
    /\ At(p, "check")
    /\ IF \E o \in Objects : Uses(meta[o], req[p].node) THEN Return(p) ELSE Goto(p, "remove")
    /\ Nothing

RemoveReplica(n) ==
    IF n \in members THEN members' = members \ {n} /\ removed' = removed \cup {n}
    ELSE UNCHANGED raftVars

Remove(p) ==
    /\ At(p, "remove")
    /\ RemoveReplica(req[p].node)
    /\ Sync(p, "idle")
    /\ UNCHANGED <<nodeVars, up, storeVars, counters>>

\* SyncReplicas: validateDesiredReplicaTargets, add what is missing, read the
\* membership again, remove what is extra; ids in ascending order.
AllGet(p) ==
    LET r == req[p] IN
    /\ At(p, "all_get")
    /\ IF r.want \cap removed # {} THEN Return(p)
       ELSE Enter(p, "all_add", [r EXCEPT !.seen = r.want \ members])
    /\ Nothing

AllAdd(p) ==
    LET r == req[p] IN
    /\ At(p, "all_add")
    /\ IF r.seen = {} THEN Goto(p, "all_mid") /\ UNCHANGED raftVars
       ELSE IF Nth(r.seen, 0) \in removed THEN Return(p) /\ UNCHANGED raftVars
       ELSE /\ AddReplica(Nth(r.seen, 0))
            /\ Enter(p, "all_add", [r EXCEPT !.seen = @ \ {Nth(@, 0)}])
    /\ UNCHANGED <<nodeVars, up, storeVars, counters>>

AllMid(p) ==
    LET r == req[p] IN
    /\ At(p, "all_mid")
    /\ Enter(p, "all_remove", [r EXCEPT !.seen = members \ r.want])
    /\ Nothing

AllRemove(p) ==
    LET r == req[p] IN
    /\ At(p, "all_remove")
    /\ IF r.seen = {} THEN Sync(p, "idle") /\ UNCHANGED raftVars
       ELSE /\ RemoveReplica(Nth(r.seen, 0))
            /\ Enter(p, "all_remove", [r EXCEPT !.seen = @ \ {Nth(@, 0)}])
    /\ UNCHANGED <<nodeVars, up, storeVars, counters>>

(***************************************************************************)
(* Draining and rebalancing a node                                          *)
(***************************************************************************)
DrainStorageNode(n) == drained' = drained \cup {n} /\ UNCHANGED reg

Drain(p) ==
    LET n == req[p].node IN
    /\ At(p, "drain")
    /\ IF n \in reg THEN DrainStorageNode(n) /\ Goto(p, "reb_list")
       ELSE Return(p) /\ UNCHANGED nodeVars
    /\ UNCHANGED <<raftVars, up, storeVars, counters>>

\* rebalanceBucket lists the committed objects once.
RebalanceList(p) ==
    LET r == req[p] IN
    /\ At(p, "reb_list")
    /\ Enter(p, "reb_next",
             [r EXCEPT !.snap = meta, !.todo = {o \in Objects : Uses(meta[o], r.node)}])
    /\ Nothing

\* The next object whose listed placements name the node; its layout must exist.
RebalanceNext(p) ==
    LET r == req[p] IN
    /\ At(p, "reb_next")
    /\ \/ /\ r.todo = {}
          /\ IF r.op = "rebalance" THEN Return(p)
             ELSE Enter(p, "check", [NoReq EXCEPT !.op = r.op, !.node = r.node])
          /\ UNCHANGED cache
       \/ \E o \in r.todo :
            LET l == GetLayout(o) IN
            /\ IF l = NoLayout THEN Return(p)
               ELSE Enter(p, "reb_move",
                          [r EXCEPT !.todo = @ \ {o}, !.obj = o, !.lay = l, !.to = l.places,
                                    !.moved = {}])
            /\ cache' = [cache EXCEPT ![o] = l]
    /\ UNCHANGED <<files, refs, meta, disk>>
    /\ StoreOnly

\* The shards of the layout that are still to be moved off the node.
Unmoved(r) == {i \in Index : r.lay.places[i] = r.node /\ i \notin r.moved}

\* moveShard copies the shard as readShard returns it.  A missing file of the
\* server itself reads as no data and no error: an empty shard is written.
MovedShard(c, n, i) ==
    LET shard == ReadShard(c, n, i) IN
    IF shard = "good" THEN "good" ELSE IF shard = "none" /\ n = Local THEN "bad" ELSE "error"

\* rebalanceTargetPlacement chooses among the nodes active now.
RebalanceMove(p) ==
    LET r == req[p]
        candidates == Active \ {r.node}
        Move(i) ==
            LET target == Nth(candidates, i % Cardinality(candidates))
                shard == MovedShard(r.lay.hash, r.node, i) IN
            IF candidates # {} /\ shard # "error" /\ Reachable(target)
            THEN /\ SetFile(r.lay.hash, target, i, shard)
                 /\ Enter(p, "reb_move", [r EXCEPT !.to[i] = target,
                                                   !.moved = @ \cup {i}])
            ELSE Return(p) /\ UNCHANGED files IN
    /\ At(p, "reb_move")
    /\ IF Unmoved(r) # {}
       THEN \E i \in Unmoved(r) : (\A j \in Unmoved(r) : i <= j) /\ Move(i)
       ELSE /\ Goto(p, IF r.moved = {} THEN "reb_next" ELSE "reb_persist")
            /\ UNCHANGED files
    /\ UNCHANGED <<refs, meta, layoutVars>>
    /\ StoreOnly

\* The cached layout gets the new placements before persistLayout writes them.
RebalancePersist(p) ==
    LET r == req[p]
        l == [r.lay EXCEPT !.places = r.to] IN
    /\ At(p, "reb_persist")
    /\ \/ /\ LinkObject(r.obj, l)
          /\ Goto(p, "reb_clean")
          /\ UNCHANGED counters
       \/ /\ cache' = [cache EXCEPT ![r.obj] = IF @ = r.lay THEN l ELSE @]
          /\ UNCHANGED disk
          /\ Fail(p)
    /\ UNCHANGED <<raftVars, nodeVars, up, files, refs, meta>>

\* Mutant of RebalanceClean: the shards are deleted where the layout says they are
\* now.
RebalanceCleanNew(p) ==
    LET r == req[p]
        New(n) == {i \in r.moved : r.to[i] = n} IN
    /\ At(p, "reb_clean")
    /\ files' = [files EXCEPT ![r.lay.hash] =
                    [n \in Nodes |-> [i \in Index |-> IF i \in New(n) THEN "none" ELSE @[n][i]]]]
    /\ Goto(p, "reb_meta")
    /\ UNCHANGED <<refs, meta, layoutVars>>
    /\ StoreOnly

\* cleanupMovedShards deletes the moved shards from the node; errors are only
\* reported.
RebalanceClean(p) ==
    LET r == req[p] IN
    /\ At(p, "reb_clean")
    /\ files' = IF Reachable(r.node)
                THEN [files EXCEPT ![r.lay.hash][r.node] =
                        [i \in Index |-> IF i \in r.moved THEN "none" ELSE @[i]]]
                ELSE files
    /\ Goto(p, "reb_meta")
    /\ UNCHANGED <<refs, meta, layoutVars>>
    /\ StoreOnly

\* UpsertObjectMeta with the listed metadata and the new placements.
RebalanceMeta(p) ==
    LET r == req[p] IN
    /\ At(p, "reb_meta")
    /\ \/ /\ meta' = [meta EXCEPT ![r.obj] = [r.snap[r.obj] EXCEPT !.places = r.to]]
          /\ Goto(p, "reb_ref")
          /\ UNCHANGED counters
       \/ Fail(p) /\ UNCHANGED meta
    /\ UNCHANGED <<raftVars, nodeVars, up, files, refs, layoutVars>>

\* Mutant of RebalanceRef: the ref keeps its placements.
RebalanceRefKeeps(p) ==
    LET r == req[p] IN
    /\ At(p, "reb_ref")
    /\ \/ /\ IF refs[r.snap[r.obj].hash].count > 0 THEN Goto(p, "reb_next") ELSE Return(p)
          /\ UNCHANGED counters
       \/ Fail(p)
    /\ UNCHANGED <<raftVars, nodeVars, up, storeVars>>

\* UpdateBlobRefPlacements; a ref that is gone is an error.
RebalanceRef(p) ==
    LET r == req[p]
        c == r.snap[r.obj].hash IN
    /\ At(p, "reb_ref")
    /\ \/ /\ IF refs[c].count > 0
             THEN refs' = [refs EXCEPT ![c].places = r.to] /\ Goto(p, "reb_next")
             ELSE Return(p) /\ UNCHANGED refs
          /\ UNCHANGED counters
       \/ Fail(p) /\ UNCHANGED refs
    /\ UNCHANGED <<raftVars, nodeVars, up, files, meta, layoutVars>>

(***************************************************************************)
(* Single-call handlers and the environment                                 *)
(***************************************************************************)
NoRequest == UNCHANGED <<pc, req>>

\* handleDrainClusterMember, handleResumeClusterMember.
DrainMember ==
    \E n \in reg :
        /\ NewRequest
        /\ DrainStorageNode(n)
        /\ NoRequest
        /\ UNCHANGED <<raftVars, up, storeVars>>

ResumeMember ==
    \E n \in reg :
        /\ NewRequest
        /\ drained' = drained \ {n}
        /\ NoRequest
        /\ UNCHANGED <<raftVars, reg, up, storeVars>>

\* A node's storage API stops answering, or answers again.
GoDown ==
    \E n \in up \ {Local} :
        /\ MayGoWrong /\ outages < MaxOutages
        /\ up' = up \ {n}
        /\ outages' = outages + 1
        /\ NoRequest
        /\ UNCHANGED <<raftVars, nodeVars, storeVars, requests, losses, faults, restarts>>

GoUp ==
    \E n \in Nodes \ up :
        /\ up' = up \cup {n}
        /\ NoRequest
        /\ UNCHANGED <<raftVars, nodeVars, storeVars, counters>>

\* A shard file of a committed object vanishes or rots.
LoseShard ==
    \E o \in Objects, i \in Index, s \in {"none", "bad"} :
        LET l == meta[o] IN
        /\ MayGoWrong /\ losses < MaxLosses
        /\ l # NoLayout
        /\ files[l.hash][l.places[i]][i] = "good"
        /\ SetFile(l.hash, l.places[i], i, s)
        /\ losses' = losses + 1
        /\ NoRequest
        /\ UNCHANGED <<raftVars, nodeVars, up, refs, meta, layoutVars, requests,
                       outages, faults, restarts>>

\* The server restarts with nothing in flight: the layout cache and the drained
\* set are gone, and syncStorageNodesOnStart registers the members.
Restart ==
    /\ MayGoWrong /\ restarts < MaxRestarts
    /\ restarts' = restarts + 1
    /\ \A p \in Procs : pc[p] = "idle"
    /\ cache' = [o \in Objects |-> NoLayout]
    /\ reg' = members \cup {Local}
    /\ drained' = {}
    /\ NoRequest
    /\ UNCHANGED <<raftVars, up, files, refs, meta, disk, requests, losses, outages, faults>>

(***************************************************************************)
(* The specification                                                        *)
(***************************************************************************)
Start(p) ==
    \/ PutObject(p) \/ DeleteObject(p) \/ RepairObject(p) \/ Join(p) \/ Decommission(p)
    \/ Replace(p) \/ RemoveMember(p) \/ Rebalance(p) \/ SyncNodes(p) \/ SyncMembers(p)

ObjectStep(p) ==
    \/ PutLoad(p) \/ PutLoadRef(p) \/ PutRef(p) \/ PutPlan(p) \/ PutWrite(p) \/ PutLink(p)
    \/ PutRetain(p) \/ PutCommit(p)
    \/ DeleteLoad(p) \/ DeleteMeta(p) \/ DeleteLayout(p) \/ ReleaseRef(p) \/ ReleaseBlob(p)
    \/ FixHealth(p) \/ FixRead(p) \/ FixWrite(p)

MemberStep(p) ==
    \/ SyncGet(p) \/ SyncSet(p) \/ JoinGet(p) \/ DecommissionGet(p) \/ ReplaceGet(p)
    \/ RemoveGet(p) \/ RebalanceGet(p) \/ Add(p) \/ Check(p) \/ Remove(p)
    \/ AllGet(p) \/ AllAdd(p) \/ AllMid(p) \/ AllRemove(p)

RebalanceStep(p) ==
    \/ Drain(p) \/ RebalanceList(p) \/ RebalanceNext(p) \/ RebalanceMove(p)
    \/ RebalancePersist(p) \/ RebalanceClean(p) \/ RebalanceMeta(p) \/ RebalanceRef(p)

Next ==
    \/ \E p \in Procs : Start(p) \/ ObjectStep(p) \/ MemberStep(p) \/ RebalanceStep(p)
    \/ DrainMember \/ ResumeMember \/ GoDown \/ GoUp \/ LoseShard \/ Restart

Spec == Init /\ [][Next]_vars

(***************************************************************************)
(* Properties                                                               *)
(***************************************************************************)
Settled(o) == \A p \in Procs : o \notin Touches(p)

Committed == {o \in Objects : meta[o] # NoLayout}

LostShards(l) == {i \in Index : files[l.hash][l.places[i]][i] # "good"}

\* Moving, repairing, draining and removing nodes costs no shard: the layout a
\* read of a committed object uses names good shards, up to as many bad ones as
\* disks have lost or corrupted (rebalance.go, repair.go, placement.go).  A rebalance
\* that could not write what it did is excepted.
LostOnlyByLoss ==
    \A o \in Committed : Settled(o) /\ faults = 0 =>
        /\ GetLayout(o).hash = meta[o].hash
        /\ Cardinality(LostShards(GetLayout(o))) <= losses

\* The three records of where an object's shards are (its layout on disk, its
\* committed metadata, its content's blob ref) agree between requests, so a
\* decommission check, a deduplicating put and a restart all see the same nodes,
\* unless a rebalance could not write one of them.
CopiesAgree ==
    \A o \in Committed : Settled(o) /\ faults = 0 =>
        /\ GetLayout(o) = meta[o]
        /\ disk[o] = meta[o]
        /\ refs[meta[o].hash].places = meta[o].places

\* Deleting, decommissioning or replacing a member takes it out of the membership
\* only when no committed object is placed on it, whatever the rebalance before
\* could not move or write (ensureClusterMemberDecommissionable; setting the
\* members outright has no such check).
SafeRemoval ==
    [][\A n \in removed' \ removed :
          (\E p \in Procs : At(p, "remove") /\ req[p].node = n) =>
              \A o \in Objects : ~Uses(meta'[o], n)]_vars

\* Engine.GetObject: every shard is read, a missing or corrupt one is skipped,
\* any other error fails the read, and Data shards decode the object.
Readable(o) ==
    LET l == GetLayout(o) IN
    /\ l # NoLayout
    /\ \A i \in Index : ReadShard(l.hash, l.places[i], i) # "error"
    /\ Cardinality(Good(l)) >= Data

\* A committed object of which Data good shards are on nodes that answer can be
\* read (the erasure coding's purpose; Engine.GetObject, readAvailableShards).
ReadableFromEnough ==
    \A o \in Committed :
        Settled(o) /\ Cardinality(Good(GetLayout(o))) >= Data => Readable(o)

=============================================================================
