---------------------------- MODULE ShardsProofs ----------------------------
(***************************************************************************)
(* The shards and the cluster operations for any nodes, objects, contents,  *)
(* requests, losses, outages, faults and restarts: their types, that a      *)
(* member is removed only when no object is on it, that the records of an   *)
(* object's nodes agree, and that no shard is lost but by a disk.           *)
(***************************************************************************)
EXTENDS Shards, FiniteSetTheorems, TLAPS

\* A layout that exists, and a layout that may be absent.
Real == [hash : Contents, places : Placements]
Kept == Real \cup {NoLayout}

NodesType ==
    /\ members \in SUBSET Nodes
    /\ removed \in SUBSET Nodes
    /\ reg \in SUBSET Nodes
    /\ Local \in reg
    /\ drained \in SUBSET reg
    /\ up \in SUBSET Nodes

FilesType == files \in [Contents -> [Nodes -> [Index -> {"none", "good", "bad"}]]]
RefsType == refs \in [Contents -> [count : Nat, places : Placements]]
MetaType == meta \in [Objects -> Kept]
EngineType == cache \in [Objects -> Kept] /\ disk \in [Objects -> Kept]
StoreType == FilesType /\ RefsType /\ MetaType /\ EngineType

CountersType == {requests, losses, outages, faults, restarts} \subseteq Nat

(***************************************************************************)
(* What a request at call l has in its locals: a call that reads a field    *)
(* comes after the calls that set it.                                       *)
(***************************************************************************)
ObjectCalls == PutCalls \cup DeleteCalls \cup RepairCalls
NodeCalls == {"dec_get", "repl_get", "mem_get", "reb_get", "check", "remove"} \cup RebalanceCalls
MovingCalls == {"reb_move", "reb_persist", "reb_clean", "reb_meta", "reb_ref"}

PutShape(l, r) ==
    /\ r.op = "put" /\ r.hash \in Contents /\ r.ex \in Kept
    /\ l = "put_loadref" => r.ex \in Real
    /\ l \in {"put_ref", "put_plan", "put_write", "put_link", "put_retain"} /\ r.exRef => r.ex \in Real
    /\ l \in {"put_load", "put_loadref"} => ~r.exRef
    /\ l \in {"put_load", "put_loadref", "put_ref", "put_plan"} => r.idx = 0
    /\ l = "put_write" => r.idx \in 0 .. Total
    /\ l \in {"put_retain", "put_commit"} => r.lay \in Real

DeleteShape(l, r) ==
    /\ r.op \in {"put", "delete"}
    /\ l # "del_load" => r.hash \in Contents

RepairShape(l, r) ==
    /\ r.op = "repair"
    /\ l # "fix_health" => r.lay \in Real

MemberShape(l, r) ==
    /\ r.op \notin ObjectOps \cup {"none"}
    /\ l \in {"join_get", "repl_get", "add"} => r.new \in Nodes
    /\ l = "join_get" => r.op = "join"
    /\ l \in NodeCalls \/ (l = "add" /\ r.op # "join") => r.node \in Nodes
    /\ l \in {"sync_get", "sync_set"} =>
         /\ r.ret \in {"idle", "drain"}
         /\ r.ret = "drain" => r.node \in Nodes

RebalanceShape(l, r) ==
    /\ r.snap \in [Objects -> Kept]
    /\ \A o \in r.todo : r.snap[o] \in Real
    /\ l \in MovingCalls => r.obj \in Objects /\ r.lay \in Real /\ r.snap[r.obj] \in Real

Shape(l, r) ==
    /\ l \in ObjectCalls => r.obj \in Objects
    /\ l \in PutCalls => PutShape(l, r)
    /\ l \in DeleteCalls => DeleteShape(l, r)
    /\ l \in RepairCalls => RepairShape(l, r)
    /\ l \in MemberCalls \cup RebalanceCalls => MemberShape(l, r)
    /\ l \in {"reb_next"} \cup MovingCalls => RebalanceShape(l, r)

ControlType == pc \in [Procs -> Calls] /\ req \in [Procs -> Requests]
ControlOK == ControlType /\ \A p \in Procs : Shape(pc[p], req[p])

TypeInv == NodesType /\ StoreType /\ CountersType /\ ControlOK

(***************************************************************************)
(* The values                                                               *)
(***************************************************************************)
LEMMA ConstantFacts ==
  /\ Nodes \subseteq Nat /\ IsFiniteSet(Nodes) /\ Local \in Nodes
  /\ None \notin Contents /\ None \notin Objects /\ None \notin Nodes
  /\ Total \in Nat /\ Total >= 1 /\ 0 \in Index /\ AllLocal \in Placements
  BY NodesAssumption, CodingAssumption DEF Index, AllLocal, Placements

\* A layout that exists is not the absent one, and both are layouts.
LEMMA KeptFacts ==
  /\ NoLayout \in Kept /\ NoLayout \notin Real /\ Real \subseteq Kept /\ Kept \subseteq Layouts
  /\ \A l \in Kept : l.places \in Placements
  /\ \A l \in Kept : l # NoLayout => l \in Real
  /\ \A l \in Real : l.hash \in Contents
  BY ConstantFacts DEF NoLayout, Kept, Real, Layouts

LEMMA NoReqFacts == NoReq \in Requests /\ Shape("idle", NoReq)
  <1>1. NoReq \in Requests
    <2>1. [o \in Objects |-> NoLayout] \in [Objects -> Layouts] /\ NoLayout \in Layouts
      BY KeptFacts
    <2> QED
      BY <2>1, ConstantFacts DEF NoReq, Requests, Ops, Calls
  <1>2. Shape("idle", NoReq)
    BY DEF Shape, ObjectCalls, PutCalls, DeleteCalls, RepairCalls, MemberCalls, RebalanceCalls, MovingCalls
  <1> QED
    BY <1>1, <1>2

\* The parts of the invariant give the types the runs check.
LEMMA TypesFollow == TypeInv => TypeOK
  BY KeptFacts DEF TypeInv, TypeOK, NodesType, StoreType, FilesType, RefsType, MetaType, EngineType,
                   CountersType, ControlOK, ControlType

LEMMA InitInv == Init => TypeInv
  <1> SUFFICES ASSUME Init PROVE TypeInv
    OBVIOUS
  <1>1. NodesType
    BY NodesAssumption DEF Init, NodesType
  <1>2. StoreType
    <2>1. FilesType
      BY DEF Init, FilesType
    <2>2. RefsType
      BY ConstantFacts DEF Init, RefsType, NoRef
    <2> QED
      BY <2>1, <2>2, KeptFacts DEF Init, StoreType, MetaType, EngineType
  <1>3. CountersType
    BY DEF Init, CountersType
  <1>4. ControlOK
    BY NoReqFacts DEF Init, ControlOK, ControlType, Calls
  <1> QED
    BY <1>1, <1>2, <1>3, <1>4 DEF TypeInv

(***************************************************************************)
(* Sorted nodes                                                             *)
(***************************************************************************)
Place(S, n) == Cardinality({m \in S : m < n})

\* The places of the elements of a finite set of numbers are 0, 1, ...
LEMMA PlacesFill ==
  ASSUME NEW S, S \subseteq Nat, IsFiniteSet(S)
  PROVE  /\ Cardinality(S) \in Nat
         /\ \A k \in 0 .. Cardinality(S) - 1 : \E n \in S : Place(S, n) = k
  <1> DEFINE size == Cardinality(S)
             T == 0 .. size - 1
             place == [n \in S |-> Place(S, n)]
             below(n) == {m \in S : m < n}
  <1>1. size \in Nat
    BY FS_CardinalityType
  <1>2. ASSUME NEW n \in S
        PROVE  Place(S, n) \in Nat /\ Place(S, n) < size
    <2>1. below(n) \subseteq S /\ n \notin below(n)
      OBVIOUS
    <2>2. IsFiniteSet(below(n)) /\ Cardinality(below(n)) <= size /\ Cardinality(below(n)) # size
      BY <2>1, FS_Subset
    <2>3. Cardinality(below(n)) \in Nat
      BY <2>2, FS_CardinalityType
    <2> QED
      BY <1>1, <2>2, <2>3 DEF Place
  <1>3. ASSUME NEW m \in S, NEW n \in S, m < n
        PROVE  Place(S, m) # Place(S, n)
    <2>0. m \in Nat /\ n \in Nat /\ ~(m < m) /\ \A k \in S : k \in Nat /\ (k < m => k < n)
      BY <1>3
    <2>1. below(m) \subseteq below(n) /\ m \in below(n) /\ m \notin below(m)
      BY <1>3, <2>0
    <2>2. IsFiniteSet(below(n))
      BY FS_Subset
    <2> QED
      BY <2>1, <2>2, FS_Subset DEF Place
  <1>4. \A m, n \in S : m # n => m < n \/ n < m
    OBVIOUS
  <1>5. place \in Injection(S, T)
    <2>1. place \in [S -> T]
      BY <1>1, <1>2
    <2>2. \A m, n \in S : place[m] = place[n] => m = n
      BY <1>3, <1>4
    <2> QED
      BY <2>1, <2>2 DEF Injection, IsInjective
  <1>6. IsFiniteSet(T) /\ Cardinality(T) = size
    <2>1. IsFiniteSet(T) /\ Cardinality(T) = IF 0 > size - 1 THEN 0 ELSE size - 1 - 0 + 1
      BY <1>1, FS_Interval
    <2> QED
      BY <1>1, <2>1
  <1>7. place \in Surjection(S, T)
    BY <1>5, <1>6, FS_Injection
  <1>8. \A k \in T : \E n \in S : Place(S, n) = k
    BY <1>7 DEF Surjection
  <1> QED
    BY <1>1, <1>8

\* The k-th of a set of nodes is one of them.
LEMMA NthIn ==
  ASSUME NEW S \in SUBSET Nodes, NEW k \in 0 .. Cardinality(S) - 1
  PROVE  Nth(S, k) \in S
  <1>1. S \subseteq Nat /\ IsFiniteSet(S)
    BY ConstantFacts, FS_Subset
  <1>2. \E n \in S : Cardinality({m \in S : m < n}) = k
    BY <1>1, PlacesFill DEF Place
  <1> QED
    BY <1>2 DEF Nth

\* A set of nodes that is not empty has a first node.
LEMMA FirstIn ==
  ASSUME NEW S \in SUBSET Nodes, S # {}
  PROVE  Nth(S, 0) \in S
  <1>1. IsFiniteSet(S)
    BY ConstantFacts, FS_Subset
  <1>2. Cardinality(S) \in Nat /\ Cardinality(S) # 0
    BY <1>1, FS_CardinalityType, FS_EmptySet
  <1> QED
    BY <1>2, NthIn

\* Taking shard i to the node at i modulo the number of nodes finds a node.
LEMMA TurnIn ==
  ASSUME NEW S \in SUBSET Nodes, S # {}, NEW i \in Index
  PROVE  Nth(S, i % Cardinality(S)) \in S
  <1>1. IsFiniteSet(S)
    BY ConstantFacts, FS_Subset
  <1>2. Cardinality(S) \in Nat /\ Cardinality(S) # 0
    BY <1>1, FS_CardinalityType, FS_EmptySet
  <1>3. i \in Int /\ Cardinality(S) > 0
    BY <1>2 DEF Index
  <1>4. i % Cardinality(S) \in 0 .. Cardinality(S) - 1
    BY <1>2, <1>3
  <1> QED
    BY <1>4, NthIn

\* A placement of the planner places every shard on one of the nodes.
LEMMA RoundRobinIn ==
  ASSUME NEW S \in SUBSET Nodes, S # {}
  PROVE  RoundRobin(S) \in Placements
  BY TurnIn DEF RoundRobin, Placements

(***************************************************************************)
(* Control moves                                                            *)
(***************************************************************************)
LEMMA CallsFacts ==
  /\ "idle" \in Calls /\ PutCalls \subseteq Calls /\ DeleteCalls \subseteq Calls
  /\ RepairCalls \subseteq Calls /\ MemberCalls \subseteq Calls /\ RebalanceCalls \subseteq Calls
  BY DEF Calls

\* Moving to a call whose locals are set keeps the control state well formed.
LEMMA EnterOK ==
  ASSUME ControlOK, NEW p \in Procs, NEW l \in Calls, NEW r,
         l # "idle" => r \in Requests /\ Shape(l, r), Enter(p, l, r)
  PROVE  ControlOK'
  <1>1. pc \in [Procs -> Calls] /\ req \in [Procs -> Requests]
    BY DEF ControlOK, ControlType
  <1> DEFINE r2 == IF l = "idle" THEN NoReq ELSE r
  <1>2. r2 \in Requests /\ Shape(l, r2)
    BY NoReqFacts
  <1>3. pc' = [pc EXCEPT ![p] = l] /\ req' = [req EXCEPT ![p] = r2]
    BY DEF Enter
  <1> HIDE DEF r2
  <1>4. ControlType'
    BY <1>1, <1>2, <1>3 DEF ControlType
  <1>5. \A q \in Procs : Shape(pc'[q], req'[q])
    BY <1>1, <1>2, <1>3 DEF ControlOK
  <1> QED
    BY <1>4, <1>5 DEF ControlOK

\* A request moves on, with its locals unchanged.
LEMMA GotoOK ==
  ASSUME ControlOK, NEW p \in Procs, NEW l \in Calls,
         l # "idle" => Shape(l, req[p]), Goto(p, l)
  PROVE  ControlOK'
  <1>1. req[p] \in Requests
    BY DEF ControlOK, ControlType
  <1> QED
    BY <1>1, EnterOK DEF Goto

LEMMA ReturnOK ==
  ASSUME ControlOK, NEW p \in Procs, Return(p)
  PROVE  ControlOK'
  BY GotoOK, CallsFacts DEF Return

\* Only requests change hands: everything else stays well formed.
LEMMA Quiet ==
  ASSUME TypeInv, ControlOK', Nothing
  PROVE  TypeInv'
  BY DEF TypeInv, Nothing, StoreOnly, NodesType, StoreType, FilesType, RefsType, MetaType, EngineType,
         CountersType, raftVars, nodeVars, storeVars, layoutVars, counters

\* A request changes the store.
LEMMA StoreStep ==
  ASSUME TypeInv, ControlOK', StoreOnly, StoreType'
  PROVE  TypeInv'
  BY DEF TypeInv, StoreOnly, NodesType, CountersType, raftVars, nodeVars, counters

\* What a request in flight has.
LEMMA AtFacts ==
  ASSUME TypeInv, NEW p \in Procs, NEW l, At(p, l)
  PROVE  req[p] \in Requests /\ Shape(l, req[p])
  BY DEF TypeInv, ControlOK, ControlType, At

\* The part of the shape a call stands for.
LEMMA ShapeParts ==
  ASSUME NEW r
  PROVE  /\ \A l \in PutCalls : Shape(l, r) <=> r.obj \in Objects /\ PutShape(l, r)
         /\ \A l \in DeleteCalls : Shape(l, r) <=> r.obj \in Objects /\ DeleteShape(l, r)
         /\ \A l \in RepairCalls : Shape(l, r) <=> r.obj \in Objects /\ RepairShape(l, r)
         /\ \A l \in MemberCalls \cup {"drain", "reb_list"} : Shape(l, r) <=> MemberShape(l, r)
         /\ \A l \in {"reb_next"} \cup MovingCalls :
                Shape(l, r) <=> MemberShape(l, r) /\ RebalanceShape(l, r)
  <1>1. \A l \in PutCalls : Shape(l, r) <=> r.obj \in Objects /\ PutShape(l, r)
    BY DEF Shape, ObjectCalls, PutCalls, DeleteCalls, RepairCalls, MemberCalls, RebalanceCalls, MovingCalls
  <1>2. \A l \in DeleteCalls : Shape(l, r) <=> r.obj \in Objects /\ DeleteShape(l, r)
    BY DEF Shape, ObjectCalls, PutCalls, DeleteCalls, RepairCalls, MemberCalls, RebalanceCalls, MovingCalls
  <1>3. \A l \in RepairCalls : Shape(l, r) <=> r.obj \in Objects /\ RepairShape(l, r)
    BY DEF Shape, ObjectCalls, PutCalls, DeleteCalls, RepairCalls, MemberCalls, RebalanceCalls, MovingCalls
  <1>4. \A l \in MemberCalls \cup {"drain", "reb_list"} : Shape(l, r) <=> MemberShape(l, r)
    BY DEF Shape, ObjectCalls, PutCalls, DeleteCalls, RepairCalls, MemberCalls, RebalanceCalls, MovingCalls
  <1>5. \A l \in {"reb_next"} \cup MovingCalls : Shape(l, r) <=> MemberShape(l, r) /\ RebalanceShape(l, r)
    BY DEF Shape, ObjectCalls, PutCalls, DeleteCalls, RepairCalls, MemberCalls, RebalanceCalls, MovingCalls
  <1> QED
    BY <1>1, <1>2, <1>3, <1>4, <1>5

(***************************************************************************)
(* Requests begin                                                           *)
(***************************************************************************)
LEMMA Limits == MaxRequests \in Nat /\ MaxTroubles \in Nat
  BY RequestsAssumption

LEMMA BeginInv ==
  ASSUME TypeInv, NEW p \in Procs, NEW l \in Calls, NEW r \in Requests, Shape(l, r), Begin(p, l, r)
  PROVE  TypeInv'
  <1>1. ControlOK'
    BY EnterOK DEF Begin, TypeInv
  <1>2. CountersType'
    BY DEF TypeInv, CountersType, Begin, NewRequest
  <1> QED
    BY <1>1, <1>2 DEF TypeInv, Begin, NodesType, StoreType, FilesType, RefsType, MetaType, EngineType,
                      raftVars, nodeVars, storeVars, layoutVars

\* The empty locals with what a request starts from.
LEMMA FreshPut ==
  ASSUME NEW o \in Objects, NEW c \in Contents
  PROVE  LET r == [NoReq EXCEPT !.op = "put", !.obj = o, !.hash = c]
         IN  r \in Requests /\ Shape("put_load", r)
  <1> DEFINE r == [NoReq EXCEPT !.op = "put", !.obj = o, !.hash = c]
  <1>1. r \in Requests
    BY NoReqFacts DEF Requests, Ops
  <1>2. r.op = "put" /\ r.obj = o /\ r.hash = c /\ r.ex = NoLayout /\ r.exRef = FALSE /\ r.idx = 0
    BY DEF NoReq
  <1> HIDE DEF r
  <1>3. Shape("put_load", r)
    BY <1>2, ShapeParts, KeptFacts DEF PutShape, PutCalls
  <1> QED
    BY <1>1, <1>3 DEF r

LEMMA FreshObject ==
  ASSUME NEW o \in Objects, NEW op \in {"delete", "repair"}
  PROVE  LET r == [NoReq EXCEPT !.op = op, !.obj = o]
         IN  r \in Requests /\ Shape(IF op = "delete" THEN "del_load" ELSE "fix_health", r)
  <1> DEFINE r == [NoReq EXCEPT !.op = op, !.obj = o]
  <1>1. r \in Requests
    BY NoReqFacts DEF Requests, Ops
  <1>2. r.op = op /\ r.obj = o
    BY DEF NoReq
  <1> HIDE DEF r
  <1>3. Shape(IF op = "delete" THEN "del_load" ELSE "fix_health", r)
    BY <1>2, ShapeParts DEF DeleteShape, RepairShape, DeleteCalls, RepairCalls
  <1> QED
    BY <1>1, <1>3 DEF r

LEMMA PutObjectInv ==
  ASSUME TypeInv, NEW p \in Procs, PutObject(p)
  PROVE  TypeInv'
  <1>1. PICK x \in Puts : Begin(p, "put_load", [NoReq EXCEPT !.op = "put", !.obj = x[1], !.hash = x[2]])
    BY DEF PutObject
  <1>2. x[1] \in Objects /\ x[2] \in Contents
    BY RequestsAssumption
  <1> QED
    BY <1>1, <1>2, FreshPut, BeginInv DEF Calls, PutCalls

LEMMA DeleteObjectInv ==
  ASSUME TypeInv, NEW p \in Procs, DeleteObject(p)
  PROVE  TypeInv'
  <1>1. PICK o \in Objects : Begin(p, "del_load", [NoReq EXCEPT !.op = "delete", !.obj = o])
    BY DEF DeleteObject
  <1> QED
    BY <1>1, FreshObject, BeginInv DEF Calls, DeleteCalls

LEMMA RepairObjectInv ==
  ASSUME TypeInv, NEW p \in Procs, RepairObject(p)
  PROVE  TypeInv'
  <1>1. PICK o \in Objects : Begin(p, "fix_health", [NoReq EXCEPT !.op = "repair", !.obj = o])
    BY DEF RepairObject
  <1> QED
    BY <1>1, FreshObject, BeginInv DEF Calls, RepairCalls

LEMMA ClusterBegins ==
  ASSUME TypeInv, NEW p \in Procs,
         \/ Join(p) \/ Decommission(p) \/ Replace(p) \/ RemoveMember(p) \/ Rebalance(p)
         \/ SyncNodes(p) \/ SyncMembers(p)
  PROVE  TypeInv'
  <1>1. CASE Join(p)
    <2>1. PICK n \in Nodes : Begin(p, "join_get", [NoReq EXCEPT !.op = "join", !.new = n])
      BY <1>1 DEF Join
    <2> DEFINE r == [NoReq EXCEPT !.op = "join", !.new = n]
    <2>2. r \in Requests /\ r.op = "join" /\ r.new = n
      BY NoReqFacts DEF Requests, Ops, NoReq
    <2> HIDE DEF r
    <2>3. Shape("join_get", r)
      BY <2>2, ShapeParts DEF MemberShape, MemberCalls, ObjectOps, NodeCalls, RebalanceCalls
    <2> QED
      BY <2>1, <2>2, <2>3, BeginInv DEF Calls, MemberCalls, r
  <1>2. CASE Decommission(p)
    <2>1. PICK n \in Nodes : Begin(p, "dec_get", [NoReq EXCEPT !.op = "decommission", !.node = n])
      BY <1>2 DEF Decommission
    <2> DEFINE r == [NoReq EXCEPT !.op = "decommission", !.node = n]
    <2>2. r \in Requests /\ r.op = "decommission" /\ r.node = n
      BY NoReqFacts DEF Requests, Ops, NoReq
    <2> HIDE DEF r
    <2>3. Shape("dec_get", r)
      BY <2>2, ShapeParts DEF MemberShape, MemberCalls, ObjectOps
    <2> QED
      BY <2>1, <2>2, <2>3, BeginInv DEF Calls, MemberCalls, r
  <1>3. CASE Replace(p)
    <2>1. PICK n \in Nodes, m \in Nodes :
             Begin(p, "repl_get", [NoReq EXCEPT !.op = "replace", !.node = n, !.new = m])
      BY <1>3 DEF Replace
    <2> DEFINE r == [NoReq EXCEPT !.op = "replace", !.node = n, !.new = m]
    <2>2. r \in Requests /\ r.op = "replace" /\ r.node = n /\ r.new = m
      BY NoReqFacts DEF Requests, Ops, NoReq
    <2> HIDE DEF r
    <2>3. Shape("repl_get", r)
      BY <2>2, ShapeParts DEF MemberShape, MemberCalls, ObjectOps
    <2> QED
      BY <2>1, <2>2, <2>3, BeginInv DEF Calls, MemberCalls, r
  <1>4. CASE RemoveMember(p)
    <2>1. PICK n \in Nodes : Begin(p, "mem_get", [NoReq EXCEPT !.op = "remove", !.node = n])
      BY <1>4 DEF RemoveMember
    <2> DEFINE r == [NoReq EXCEPT !.op = "remove", !.node = n]
    <2>2. r \in Requests /\ r.op = "remove" /\ r.node = n
      BY NoReqFacts DEF Requests, Ops, NoReq
    <2> HIDE DEF r
    <2>3. Shape("mem_get", r)
      BY <2>2, ShapeParts DEF MemberShape, MemberCalls, ObjectOps
    <2> QED
      BY <2>1, <2>2, <2>3, BeginInv DEF Calls, MemberCalls, r
  <1>5. CASE Rebalance(p)
    <2>1. PICK n \in Nodes : Begin(p, "reb_get", [NoReq EXCEPT !.op = "rebalance", !.node = n])
      BY <1>5 DEF Rebalance
    <2> DEFINE r == [NoReq EXCEPT !.op = "rebalance", !.node = n]
    <2>2. r \in Requests /\ r.op = "rebalance" /\ r.node = n
      BY NoReqFacts DEF Requests, Ops, NoReq
    <2> HIDE DEF r
    <2>3. Shape("reb_get", r)
      BY <2>2, ShapeParts DEF MemberShape, MemberCalls, ObjectOps
    <2> QED
      BY <2>1, <2>2, <2>3, BeginInv DEF Calls, MemberCalls, r
  <1>6. CASE SyncNodes(p)
    <2> DEFINE r == [NoReq EXCEPT !.op = "sync"]
    <2>2. r \in Requests /\ r.op = "sync" /\ r.ret = "idle"
      BY NoReqFacts DEF Requests, Ops, NoReq
    <2> HIDE DEF r
    <2>3. Shape("sync_get", r)
      BY <2>2, ShapeParts DEF MemberShape, MemberCalls, ObjectOps, NodeCalls, RebalanceCalls
    <2> QED
      BY <1>6, <2>2, <2>3, BeginInv DEF SyncNodes, Calls, MemberCalls, r
  <1>7. CASE SyncMembers(p)
    <2>1. PICK want \in SUBSET Nodes : Begin(p, "all_get", [NoReq EXCEPT !.op = "members", !.want = want])
      BY <1>7 DEF SyncMembers
    <2> DEFINE r == [NoReq EXCEPT !.op = "members", !.want = want]
    <2>2. r \in Requests /\ r.op = "members"
      BY NoReqFacts DEF Requests, Ops, NoReq
    <2> HIDE DEF r
    <2>3. Shape("all_get", r)
      BY <2>2, ShapeParts DEF MemberShape, MemberCalls, ObjectOps, NodeCalls, RebalanceCalls
    <2> QED
      BY <2>1, <2>2, <2>3, BeginInv DEF Calls, MemberCalls, r
  <1> QED
    BY <1>1, <1>2, <1>3, <1>4, <1>5, <1>6, <1>7

(***************************************************************************)
(* The engine                                                               *)
(***************************************************************************)
\* The objects' records are layouts.
LEMMA LayoutsKept ==
  ASSUME TypeInv, NEW o \in Objects
  PROVE  meta[o] \in Kept /\ cache[o] \in Kept /\ disk[o] \in Kept /\ GetLayout(o) \in Kept
  BY DEF TypeInv, StoreType, MetaType, EngineType, GetLayout

\* A layout seen through the cache is one that exists, if the one held does.
LEMMA HeldReal ==
  ASSUME TypeInv, NEW p \in Procs, req[p].obj \in Objects, req[p].lay \in Real
  PROVE  Held(p) \in Real
  <1>1. GetLayout(req[p].obj) \in Kept
    BY LayoutsKept
  <1>2. req[p].lay.hash \in Contents /\ NoLayout.hash \notin Contents
    BY ConstantFacts, KeptFacts DEF NoLayout
  <1> QED
    BY <1>1, <1>2, KeptFacts DEF Held

LEMMA RefFacts ==
  ASSUME TypeInv, NEW c \in Contents
  PROVE  refs[c].count \in Nat /\ refs[c].places \in Placements
         /\ refs \in [Contents -> [count : Nat, places : Placements]]
  BY DEF TypeInv, StoreType, RefsType

\* Writing and deleting meta.json keeps the layouts' type.
LEMMA LinkType ==
  ASSUME TypeInv, NEW o \in Objects, NEW l \in Kept, LinkObject(o, l)
  PROVE  EngineType'
  BY DEF TypeInv, StoreType, EngineType, LinkObject

LEMMA SetFileType ==
  ASSUME TypeInv, NEW c, NEW n, NEW i, NEW s \in {"none", "good", "bad"}, SetFile(c, n, i, s)
  PROVE  FilesType'
  BY DEF TypeInv, StoreType, FilesType, SetFile

\* One part of the store changes, the others stay.
LEMMA StoreParts ==
  ASSUME TypeInv
  PROVE  /\ UNCHANGED files => FilesType'
         /\ UNCHANGED refs => RefsType'
         /\ UNCHANGED meta => MetaType'
         /\ UNCHANGED layoutVars => EngineType'
  BY DEF TypeInv, StoreType, FilesType, RefsType, MetaType, EngineType, layoutVars

(***************************************************************************)
(* Put                                                                      *)
(***************************************************************************)
LEMMA PutLoadInv ==
  ASSUME TypeInv, NEW p \in Procs, PutLoad(p)
  PROVE  TypeInv'
  <1> DEFINE r == [req[p] EXCEPT !.ex = meta[req[p].obj]]
             l == IF meta[req[p].obj] = NoLayout THEN "put_ref" ELSE "put_loadref"
  <1>1. req[p] \in Requests /\ req[p].obj \in Objects /\ PutShape("put_load", req[p])
    BY AtFacts, ShapeParts DEF PutLoad, PutCalls
  <1>2. meta[req[p].obj] \in Kept
    BY <1>1, LayoutsKept
  <1>3. r \in Requests /\ r.obj = req[p].obj /\ r.op = req[p].op /\ r.hash = req[p].hash
        /\ r.ex = meta[req[p].obj] /\ r.exRef = req[p].exRef /\ r.idx = req[p].idx
    BY <1>1, <1>2, KeptFacts DEF Requests
  <1>4. Enter(p, l, r) /\ Nothing
    BY DEF PutLoad
  <1> HIDE DEF r
  <1>5. Shape(l, r) /\ l \in Calls
    BY <1>1, <1>2, <1>3, KeptFacts, ShapeParts, CallsFacts DEF PutShape, PutCalls
  <1> QED
    BY <1>3, <1>4, <1>5, EnterOK, Quiet DEF TypeInv

LEMMA PutLoadRefInv ==
  ASSUME TypeInv, NEW p \in Procs, PutLoadRef(p)
  PROVE  TypeInv'
  <1> DEFINE ref == refs[req[p].ex.hash]
             counted == ref.count > 0
             r == [req[p] EXCEPT !.exRef = counted, !.exPlaces = ref.places]
  <1>1. req[p] \in Requests /\ req[p].obj \in Objects /\ PutShape("put_loadref", req[p])
    BY AtFacts, ShapeParts DEF PutLoadRef, PutCalls
  <1>2. req[p].ex \in Real /\ ref.places \in Placements
    BY <1>1, KeptFacts, RefFacts DEF PutShape
  <1>6. counted \in BOOLEAN
    OBVIOUS
  <1> HIDE DEF ref, counted
  <1>3. r \in Requests /\ r.obj = req[p].obj /\ r.op = req[p].op /\ r.hash = req[p].hash
        /\ r.ex = req[p].ex /\ r.idx = req[p].idx
    BY <1>1, <1>2, <1>6 DEF Requests
  <1>4. Enter(p, "put_ref", r) /\ Nothing
    BY DEF PutLoadRef, ref, counted
  <1> HIDE DEF r
  <1>5. Shape("put_ref", r)
    BY <1>1, <1>2, <1>3, ShapeParts DEF PutShape, PutCalls
  <1> QED
    BY <1>3, <1>4, <1>5, EnterOK, Quiet, CallsFacts DEF TypeInv, PutCalls

LEMMA PutRefInv ==
  ASSUME TypeInv, NEW p \in Procs, PutRef(p)
  PROVE  TypeInv'
  <1> DEFINE ref == refs[req[p].hash]
             r == [req[p] EXCEPT !.hit = TRUE, !.to = ref.places]
  <1>1. req[p] \in Requests /\ req[p].obj \in Objects /\ PutShape("put_ref", req[p])
    BY AtFacts, ShapeParts DEF PutRef, PutCalls
  <1>2. ref.places \in Placements
    BY <1>1, RefFacts DEF PutShape
  <1>3. CASE ref.count > 0
    <2>1. Enter(p, "put_link", r) /\ Nothing
      BY <1>3 DEF PutRef
    <2> HIDE DEF ref
    <2>2. r \in Requests /\ r.obj = req[p].obj /\ r.op = req[p].op /\ r.hash = req[p].hash
          /\ r.ex = req[p].ex /\ r.exRef = req[p].exRef
      BY <1>1, <1>2 DEF Requests
    <2> HIDE DEF r
    <2>3. Shape("put_link", r)
      BY <1>1, <2>2, ShapeParts DEF PutShape, PutCalls
    <2> QED
      BY <2>1, <2>2, <2>3, EnterOK, Quiet, CallsFacts DEF TypeInv, PutCalls
  <1>4. CASE ~(ref.count > 0)
    <2>1. Goto(p, "put_plan") /\ Nothing
      BY <1>4 DEF PutRef
    <2>2. Shape("put_plan", req[p])
      BY <1>1, ShapeParts DEF PutShape, PutCalls
    <2> QED
      BY <2>1, <2>2, GotoOK, Quiet, CallsFacts DEF TypeInv, PutCalls
  <1> QED
    BY <1>3, <1>4

LEMMA PutPlanInv ==
  ASSUME TypeInv, NEW p \in Procs, PutPlan(p)
  PROVE  TypeInv'
  <1>1. req[p] \in Requests /\ req[p].obj \in Objects /\ PutShape("put_plan", req[p])
    BY AtFacts, ShapeParts DEF PutPlan, PutCalls
  <1>2. CASE Active = {}
    BY <1>2, ReturnOK, Quiet DEF PutPlan, TypeInv
  <1>3. CASE Active # {}
    <2> DEFINE to == RoundRobin(Active)
               r == [req[p] EXCEPT !.to = to]
    <2>1. Enter(p, "put_write", r) /\ Nothing
      BY <1>3 DEF PutPlan
    <2>2. Active \in SUBSET Nodes
      BY DEF TypeInv, NodesType, Active
    <2>3. to \in Placements
      BY <1>3, <2>2, RoundRobinIn
    <2> HIDE DEF to
    <2>4. r \in Requests /\ r.obj = req[p].obj /\ r.op = req[p].op /\ r.hash = req[p].hash
          /\ r.ex = req[p].ex /\ r.exRef = req[p].exRef /\ r.idx = req[p].idx
      BY <1>1, <2>3 DEF Requests
    <2> HIDE DEF r
    <2>5. Shape("put_write", r)
      BY <1>1, <2>4, ShapeParts, ConstantFacts DEF PutShape, PutCalls
    <2> QED
      BY <2>1, <2>4, <2>5, EnterOK, Quiet, CallsFacts DEF TypeInv, PutCalls
  <1> QED
    BY <1>2, <1>3

LEMMA PutWriteInv ==
  ASSUME TypeInv, NEW p \in Procs, PutWrite(p)
  PROVE  TypeInv'
  <1> DEFINE next == req[p].idx + 1
             r == [req[p] EXCEPT !.idx = next]
  <1>1. req[p] \in Requests /\ req[p].obj \in Objects /\ PutShape("put_write", req[p])
    BY AtFacts, ShapeParts DEF PutWrite, PutCalls
  <1>2. StoreOnly /\ RefsType' /\ MetaType' /\ EngineType'
    BY StoreParts DEF PutWrite
  <1>3. CASE req[p].idx = Total
    <2>1. Goto(p, "put_link") /\ UNCHANGED files
      BY <1>3 DEF PutWrite
    <2>2. Shape("put_link", req[p])
      BY <1>1, ShapeParts DEF PutShape, PutCalls
    <2> QED
      BY <1>2, <2>1, <2>2, GotoOK, StoreParts, StoreStep, CallsFacts DEF TypeInv, StoreType, PutCalls
  <1>4. CASE req[p].idx # Total /\ Reachable(req[p].to[req[p].idx])
    <2>1. SetFile(req[p].hash, req[p].to[req[p].idx], req[p].idx, "good") /\ Enter(p, "put_write", r)
      BY <1>4 DEF PutWrite
    <2>2. next \in 0 .. Total /\ next \in Nat
      BY <1>1, <1>4, ConstantFacts DEF PutShape
    <2> HIDE DEF next
    <2>3. r \in Requests /\ r.obj = req[p].obj /\ r.op = req[p].op /\ r.hash = req[p].hash
          /\ r.ex = req[p].ex /\ r.exRef = req[p].exRef /\ r.idx = next
      BY <1>1, <2>2 DEF Requests
    <2> HIDE DEF r
    <2>4. Shape("put_write", r)
      BY <1>1, <2>2, <2>3, ShapeParts DEF PutShape, PutCalls
    <2>5. FilesType'
      BY <2>1, SetFileType
    <2>6. ControlOK'
      BY <2>1, <2>3, <2>4, EnterOK, CallsFacts DEF TypeInv, PutCalls
    <2> QED
      BY <1>2, <2>5, <2>6, StoreStep DEF StoreType
  <1>5. CASE req[p].idx # Total /\ ~Reachable(req[p].to[req[p].idx])
    <2>1. Return(p) /\ UNCHANGED files
      BY <1>5 DEF PutWrite
    <2> QED
      BY <1>2, <2>1, ReturnOK, StoreParts, StoreStep DEF TypeInv, StoreType
  <1> QED
    BY <1>3, <1>4, <1>5

LEMMA PutLinkInv ==
  ASSUME TypeInv, NEW p \in Procs, PutLink(p)
  PROVE  TypeInv'
  <1> DEFINE l == [hash |-> req[p].hash, places |-> req[p].to]
             r == [req[p] EXCEPT !.lay = l]
  <1>1. req[p] \in Requests /\ req[p].obj \in Objects /\ PutShape("put_link", req[p])
    BY AtFacts, ShapeParts DEF PutLink, PutCalls
  <1>2. StoreOnly /\ FilesType' /\ RefsType' /\ MetaType'
    BY StoreParts DEF PutLink
  <1>3. l \in Real
    BY <1>1 DEF PutShape, Requests, Real
  <1>4. LinkObject(req[p].obj, l) /\ Enter(p, "put_retain", r)
    BY DEF PutLink
  <1> HIDE DEF l
  <1>5. r \in Requests /\ r.obj = req[p].obj /\ r.op = req[p].op /\ r.hash = req[p].hash
        /\ r.ex = req[p].ex /\ r.exRef = req[p].exRef /\ r.lay = l
    BY <1>1, <1>3, KeptFacts DEF Requests
  <1> HIDE DEF r
  <1>6. Shape("put_retain", r)
    BY <1>1, <1>3, <1>5, ShapeParts DEF PutShape, PutCalls
  <1>7. ControlOK' /\ EngineType'
    BY <1>1, <1>3, <1>4, <1>5, <1>6, EnterOK, LinkType, KeptFacts, CallsFacts DEF TypeInv, PutCalls
  <1> QED
    BY <1>2, <1>7, StoreStep DEF StoreType

LEMMA PutRetainInv ==
  ASSUME TypeInv, NEW p \in Procs, PutRetain(p)
  PROVE  TypeInv'
  <1> DEFINE r == req[p]
             ref == refs[r.hash]
  <1>1. r \in Requests /\ r.obj \in Objects /\ PutShape("put_retain", r)
    BY AtFacts, ShapeParts DEF PutRetain, PutCalls
  <1>2. StoreOnly /\ FilesType' /\ MetaType'
    BY StoreParts DEF PutRetain
  <1>3. ref.count \in Nat /\ ref.places \in Placements /\ r.to \in Placements /\ r.hash \in Contents
    BY <1>1, RefFacts DEF PutShape, Requests
  <1>4. Shape("put_commit", r)
    BY <1>1, ShapeParts DEF PutShape, PutCalls
  <1>5. CASE ~r.hit
    <2> DEFINE new == [count |-> ref.count + 1, places |-> IF ref.count = 0 THEN r.to ELSE ref.places]
    <2>1. refs' = [refs EXCEPT ![r.hash] = new] /\ Goto(p, "put_commit") /\ UNCHANGED layoutVars
      BY <1>5 DEF PutRetain
    <2>2. new \in [count : Nat, places : Placements]
      BY <1>3
    <2> HIDE DEF new, r, ref
    <2>3. RefsType'
      BY <2>1, <2>2, <1>3, RefFacts DEF RefsType
    <2> QED
      BY <1>2, <1>4, <2>1, <2>3, GotoOK, StoreParts, StoreStep, CallsFacts
         DEF TypeInv, StoreType, PutCalls, r
  <1>6. CASE r.hit /\ r.ex.hash = r.hash
    <2>1. Goto(p, "put_commit") /\ UNCHANGED <<refs, layoutVars>>
      BY <1>6 DEF PutRetain
    <2> QED
      BY <1>2, <1>4, <2>1, GotoOK, StoreParts, StoreStep, CallsFacts DEF TypeInv, StoreType, PutCalls
  <1>7. CASE r.hit /\ r.ex.hash # r.hash /\ ref.count > 0
    <2>1. refs' = [refs EXCEPT ![r.hash].count = @ + 1] /\ Goto(p, "put_commit") /\ UNCHANGED layoutVars
      BY <1>7 DEF PutRetain
    <2>2. RefsType'
      BY <2>1, <1>3, RefFacts DEF RefsType
    <2> QED
      BY <1>2, <1>4, <2>1, <2>2, GotoOK, StoreParts, StoreStep, CallsFacts
         DEF TypeInv, StoreType, PutCalls
  <1>8. CASE r.hit /\ r.ex.hash # r.hash /\ ~(ref.count > 0)
    <2> DEFINE l == IF r.exRef THEN [hash |-> r.ex.hash, places |-> r.exPlaces] ELSE NoLayout
    <2>1. LinkObject(r.obj, l) /\ Return(p) /\ UNCHANGED refs
      BY <1>8 DEF PutRetain
    <2>2. l \in Kept
      <3>1. CASE r.exRef
        BY <1>1, <3>1, KeptFacts DEF PutShape, Requests, Real, Kept
      <3>2. CASE ~r.exRef
        BY <3>2, KeptFacts
      <3> QED
        BY <3>1, <3>2
    <2> HIDE DEF l
    <2> QED
      BY <1>1, <1>2, <2>1, <2>2, ReturnOK, LinkType, StoreParts, StoreStep DEF TypeInv, StoreType
  <1> QED
    BY <1>5, <1>6, <1>7, <1>8

LEMMA PutCommitInv ==
  ASSUME TypeInv, NEW p \in Procs, PutCommit(p)
  PROVE  TypeInv'
  <1>1. req[p] \in Requests /\ req[p].obj \in Objects /\ PutShape("put_commit", req[p])
    BY AtFacts, ShapeParts DEF PutCommit, PutCalls
  <1>2. StoreOnly /\ FilesType' /\ RefsType' /\ EngineType'
    BY StoreParts DEF PutCommit
  <1>3. MetaType'
    <2>1. meta' = [meta EXCEPT ![req[p].obj] = req[p].lay] /\ req[p].lay \in Kept
      BY <1>1, KeptFacts DEF PutCommit, PutShape
    <2> QED
      BY <2>1 DEF TypeInv, StoreType, MetaType
  <1>4. CASE req[p].ex = NoLayout \/ req[p].ex.hash = req[p].hash
    BY <1>2, <1>3, <1>4, ReturnOK, StoreStep DEF PutCommit, TypeInv, StoreType
  <1>5. CASE ~(req[p].ex = NoLayout \/ req[p].ex.hash = req[p].hash)
    <2> DEFINE r == [req[p] EXCEPT !.hash = req[p].ex.hash]
    <2>1. Enter(p, "rel_ref", r)
      BY <1>5 DEF PutCommit
    <2>2. req[p].ex.hash \in Contents
      BY <1>1, <1>5, KeptFacts DEF PutShape
    <2>3. r \in Requests /\ r.obj = req[p].obj /\ r.op = req[p].op /\ r.hash = req[p].ex.hash
      BY <1>1, <2>2 DEF Requests
    <2> HIDE DEF r
    <2>4. Shape("rel_ref", r)
      BY <1>1, <2>2, <2>3, ShapeParts DEF PutShape, DeleteShape, DeleteCalls
    <2> QED
      BY <1>2, <1>3, <2>1, <2>3, <2>4, EnterOK, StoreStep, CallsFacts DEF TypeInv, StoreType, DeleteCalls
  <1> QED
    BY <1>4, <1>5

(***************************************************************************)
(* Delete and repair                                                        *)
(***************************************************************************)
LEMMA DeleteLoadInv ==
  ASSUME TypeInv, NEW p \in Procs, DeleteLoad(p)
  PROVE  TypeInv'
  <1>1. req[p] \in Requests /\ req[p].obj \in Objects /\ DeleteShape("del_load", req[p])
    BY AtFacts, ShapeParts DEF DeleteLoad, DeleteCalls
  <1>2. CASE meta[req[p].obj] = NoLayout
    BY <1>2, ReturnOK, Quiet DEF DeleteLoad, TypeInv
  <1>3. CASE meta[req[p].obj] # NoLayout
    <2> DEFINE c == meta[req[p].obj].hash
               r == [req[p] EXCEPT !.hash = c]
    <2>1. Enter(p, "del_meta", r) /\ Nothing
      BY <1>3 DEF DeleteLoad
    <2>2. c \in Contents
      BY <1>1, <1>3, LayoutsKept, KeptFacts
    <2> HIDE DEF c
    <2>3. r \in Requests /\ r.obj = req[p].obj /\ r.op = req[p].op /\ r.hash = c
      BY <1>1, <2>2 DEF Requests
    <2> HIDE DEF r
    <2>4. Shape("del_meta", r)
      BY <1>1, <2>2, <2>3, ShapeParts DEF DeleteShape, DeleteCalls
    <2> QED
      BY <2>1, <2>3, <2>4, EnterOK, Quiet, CallsFacts DEF TypeInv, DeleteCalls
  <1> QED
    BY <1>2, <1>3

LEMMA DeleteMetaInv ==
  ASSUME TypeInv, NEW p \in Procs, DeleteMeta(p)
  PROVE  TypeInv'
  <1>1. Shape("del_layout", req[p])
    BY AtFacts, ShapeParts DEF DeleteMeta, DeleteCalls, DeleteShape
  <1>2. StoreOnly /\ FilesType' /\ RefsType' /\ EngineType' /\ Goto(p, "del_layout")
    BY StoreParts DEF DeleteMeta
  <1>3. MetaType'
    BY KeptFacts DEF DeleteMeta, TypeInv, StoreType, MetaType
  <1> QED
    BY <1>1, <1>2, <1>3, GotoOK, StoreStep, CallsFacts DEF TypeInv, StoreType, DeleteCalls

LEMMA DeleteLayoutInv ==
  ASSUME TypeInv, NEW p \in Procs, DeleteLayout(p)
  PROVE  TypeInv'
  <1>1. Shape("rel_ref", req[p]) /\ req[p].obj \in Objects
    BY AtFacts, ShapeParts DEF DeleteLayout, DeleteCalls, DeleteShape
  <1>2. StoreOnly /\ FilesType' /\ RefsType' /\ MetaType' /\ Goto(p, "rel_ref")
    BY StoreParts DEF DeleteLayout
  <1>3. EngineType'
    BY <1>1, LinkType, KeptFacts DEF DeleteLayout, DeleteObjectLayout
  <1> QED
    BY <1>1, <1>2, <1>3, GotoOK, StoreStep, CallsFacts DEF TypeInv, StoreType, DeleteCalls

LEMMA ReleaseRefInv ==
  ASSUME TypeInv, NEW p \in Procs, ReleaseRef(p)
  PROVE  TypeInv'
  <1> DEFINE c == req[p].hash
             ref == refs[c]
             new == IF ref.count <= 1 THEN NoRef ELSE [ref EXCEPT !.count = @ - 1]
  <1>1. Shape("rel_blob", req[p]) /\ c \in Contents
    BY AtFacts, ShapeParts DEF ReleaseRef, DeleteCalls, DeleteShape
  <1>2. StoreOnly /\ FilesType' /\ MetaType' /\ EngineType'
    BY StoreParts DEF ReleaseRef
  <1>3. refs' = [refs EXCEPT ![c] = new]
    BY DEF ReleaseRef
  <1>4. new \in [count : Nat, places : Placements]
    <2>1. ref \in [count : Nat, places : Placements]
      BY <1>1, RefFacts
    <2>2. CASE ref.count <= 1
      BY <2>2, ConstantFacts DEF NoRef
    <2>3. CASE ~(ref.count <= 1)
      BY <2>1, <2>3
    <2> QED
      BY <2>2, <2>3
  <1>5. RefsType'
    <2> HIDE DEF new
    <2> QED
      BY <1>1, <1>3, <1>4, RefFacts DEF RefsType
  <1>6. Goto(p, "rel_blob") \/ Return(p)
    BY DEF ReleaseRef
  <1>7. ControlOK'
    BY <1>1, <1>6, GotoOK, ReturnOK, CallsFacts DEF TypeInv, DeleteCalls
  <1> QED
    BY <1>2, <1>5, <1>7, StoreStep DEF StoreType

LEMMA ReleaseBlobInv ==
  ASSUME TypeInv, NEW p \in Procs, ReleaseBlob(p)
  PROVE  TypeInv'
  <1>1. StoreOnly /\ RefsType' /\ MetaType' /\ EngineType' /\ Return(p)
    BY StoreParts DEF ReleaseBlob
  <1>2. FilesType'
    BY DEF ReleaseBlob, DeleteBlob, TypeInv, StoreType, FilesType
  <1> QED
    BY <1>1, <1>2, ReturnOK, StoreStep DEF TypeInv, StoreType

LEMMA FixHealthInv ==
  ASSUME TypeInv, NEW p \in Procs, FixHealth(p)
  PROVE  TypeInv'
  <1> DEFINE l == GetLayout(req[p].obj)
             r == [req[p] EXCEPT !.lay = l]
  <1>1. req[p] \in Requests /\ req[p].obj \in Objects /\ RepairShape("fix_health", req[p])
    BY AtFacts, ShapeParts DEF FixHealth, RepairCalls
  <1>2. Nothing /\ (Return(p) \/ (l # NoLayout /\ Enter(p, "fix_read", r)))
    BY DEF FixHealth
  <1>3. CASE Return(p)
    BY <1>2, <1>3, ReturnOK, Quiet DEF TypeInv
  <1>4. CASE l # NoLayout /\ Enter(p, "fix_read", r)
    <2>1. l \in Real
      BY <1>1, <1>4, LayoutsKept, KeptFacts
    <2> HIDE DEF l
    <2>2. r \in Requests /\ r.obj = req[p].obj /\ r.op = req[p].op /\ r.lay = l
      BY <1>1, <2>1, KeptFacts DEF Requests
    <2> HIDE DEF r
    <2>3. Shape("fix_read", r)
      BY <1>1, <2>1, <2>2, ShapeParts DEF RepairShape, RepairCalls
    <2> QED
      BY <1>2, <1>4, <2>2, <2>3, EnterOK, Quiet, CallsFacts DEF TypeInv, RepairCalls
  <1> QED
    BY <1>2, <1>3, <1>4

LEMMA FixReadInv ==
  ASSUME TypeInv, NEW p \in Procs, FixRead(p)
  PROVE  TypeInv'
  <1> DEFINE lost == Index \ Good(Held(p))
             r == [req[p] EXCEPT !.moved = lost]
  <1>1. req[p] \in Requests /\ req[p].obj \in Objects /\ RepairShape("fix_read", req[p])
    BY AtFacts, ShapeParts DEF FixRead, RepairCalls
  <1>2. Nothing /\ (Return(p) \/ Enter(p, "fix_write", r))
    BY DEF FixRead
  <1>3. CASE Return(p)
    BY <1>2, <1>3, ReturnOK, Quiet DEF TypeInv
  <1>4. CASE Enter(p, "fix_write", r)
    <2>1. lost \in SUBSET Index
      OBVIOUS
    <2> HIDE DEF lost
    <2>2. r \in Requests /\ r.obj = req[p].obj /\ r.op = req[p].op /\ r.lay = req[p].lay
      BY <1>1, <2>1 DEF Requests
    <2> HIDE DEF r
    <2>3. Shape("fix_write", r)
      BY <1>1, <2>2, ShapeParts DEF RepairShape, RepairCalls
    <2> QED
      BY <1>2, <1>4, <2>2, <2>3, EnterOK, Quiet, CallsFacts DEF TypeInv, RepairCalls
  <1> QED
    BY <1>2, <1>3, <1>4

LEMMA FixWriteInv ==
  ASSUME TypeInv, NEW p \in Procs, FixWrite(p)
  PROVE  TypeInv'
  <1>1. req[p] \in Requests /\ req[p].obj \in Objects /\ RepairShape("fix_write", req[p])
    BY AtFacts, ShapeParts DEF FixWrite, RepairCalls
  <1>2. StoreOnly /\ RefsType' /\ MetaType' /\ EngineType'
    BY StoreParts DEF FixWrite
  <1>3. CASE Return(p) /\ UNCHANGED files
    BY <1>2, <1>3, ReturnOK, StoreParts, StoreStep DEF TypeInv, StoreType
  <1>4. ASSUME NEW i \in req[p].moved, SetFile(Held(p).hash, Held(p).places[i], i, "good"),
               Enter(p, "fix_write", [req[p] EXCEPT !.moved = @ \ {i}])
        PROVE  TypeInv'
    <2> DEFINE left == req[p].moved \ {i}
               r == [req[p] EXCEPT !.moved = left]
    <2>1. left \in SUBSET Index
      BY <1>1 DEF Requests
    <2>2. Enter(p, "fix_write", r)
      BY <1>4
    <2> HIDE DEF left
    <2>3. r \in Requests /\ r.obj = req[p].obj /\ r.op = req[p].op /\ r.lay = req[p].lay
      BY <1>1, <2>1 DEF Requests
    <2> HIDE DEF r
    <2>4. Shape("fix_write", r)
      BY <1>1, <2>3, ShapeParts DEF RepairShape, RepairCalls
    <2>5. FilesType'
      BY <1>4, SetFileType
    <2>6. ControlOK'
      BY <2>2, <2>3, <2>4, EnterOK, CallsFacts DEF TypeInv, RepairCalls
    <2> QED
      BY <1>2, <2>5, <2>6, StoreStep DEF StoreType
  <1> QED
    BY <1>3, <1>4 DEF FixWrite

(***************************************************************************)
(* Membership calls                                                         *)
(***************************************************************************)
LEMMA MemberFacts ==
  ASSUME TypeInv, NEW p \in Procs, NEW l \in MemberCalls \cup RebalanceCalls, At(p, l)
  PROVE  req[p] \in Requests /\ MemberShape(l, req[p])
  BY AtFacts DEF Shape

LEMMA NodesUnchanged ==
  ASSUME TypeInv, UNCHANGED <<nodeVars, up>>, members' \in SUBSET Nodes, removed' \in SUBSET Nodes
  PROVE  NodesType'
  BY DEF TypeInv, NodesType, nodeVars

\* A step on the membership or the storage nodes leaves the store alone.
LEMMA NodesStep ==
  ASSUME TypeInv, NodesType', ControlOK', UNCHANGED <<storeVars, counters>>
  PROVE  TypeInv'
  BY DEF TypeInv, StoreType, FilesType, RefsType, MetaType, EngineType, CountersType, storeVars,
         layoutVars, counters

LEMMA SyncOK ==
  ASSUME ControlOK, NEW p \in Procs, req[p].op \notin ObjectOps \cup {"none"},
         NEW l \in {"idle", "drain"}, l = "drain" => req[p].node \in Nodes, Sync(p, l)
  PROVE  ControlOK'
  <1> DEFINE r == [req[p] EXCEPT !.ret = l]
  <1>1. req[p] \in Requests
    BY DEF ControlOK, ControlType
  <1>2. r \in Requests /\ r.op = req[p].op /\ r.node = req[p].node /\ r.ret = l
    BY <1>1 DEF Requests, Calls, RebalanceCalls
  <1>3. Enter(p, "sync_get", r)
    BY DEF Sync
  <1> HIDE DEF r
  <1>4. Shape("sync_get", r)
    BY <1>2, ShapeParts DEF MemberShape, MemberCalls, NodeCalls, RebalanceCalls
  <1> QED
    BY <1>2, <1>3, <1>4, EnterOK, CallsFacts DEF MemberCalls

LEMMA SyncGetInv ==
  ASSUME TypeInv, NEW p \in Procs, SyncGet(p)
  PROVE  TypeInv'
  <1> DEFINE r == [req[p] EXCEPT !.seen = members]
  <1>1. req[p] \in Requests /\ MemberShape("sync_get", req[p])
    BY MemberFacts DEF SyncGet, MemberCalls
  <1>2. members \in SUBSET Nodes
    BY DEF TypeInv, NodesType
  <1>3. r \in Requests /\ r.op = req[p].op /\ r.node = req[p].node /\ r.ret = req[p].ret
    BY <1>1, <1>2 DEF Requests
  <1>4. Enter(p, "sync_set", r) /\ Nothing
    BY DEF SyncGet
  <1> HIDE DEF r
  <1>5. Shape("sync_set", r)
    BY <1>1, <1>3, ShapeParts DEF MemberShape, MemberCalls, NodeCalls, RebalanceCalls
  <1> QED
    BY <1>3, <1>4, <1>5, EnterOK, Quiet, CallsFacts DEF TypeInv, MemberCalls

LEMMA SyncSetInv ==
  ASSUME TypeInv, NEW p \in Procs, SyncSet(p)
  PROVE  TypeInv'
  <1> DEFINE r == [req[p] EXCEPT !.seen = {}, !.ret = "idle"]
             l == req[p].ret
  <1>1. req[p] \in Requests /\ MemberShape("sync_set", req[p])
    BY MemberFacts DEF SyncSet, MemberCalls
  <1>2. r \in Requests /\ r.op = req[p].op /\ r.node = req[p].node
    BY <1>1, CallsFacts DEF Requests
  <1>3. Enter(p, l, r)
    BY DEF SyncSet
  <1>4. l = "idle" \/ (l = "drain" /\ req[p].node \in Nodes)
    BY <1>1 DEF MemberShape
  <1> HIDE DEF r
  <1>5. l # "idle" => Shape(l, r)
    BY <1>1, <1>2, <1>4, ShapeParts DEF MemberShape, MemberCalls
  <1>6. ControlOK'
    BY <1>2, <1>3, <1>4, <1>5, EnterOK, CallsFacts DEF TypeInv, RebalanceCalls
  <1>7. NodesType'
    <2>1. req[p].seen \in SUBSET Nodes
      BY <1>1 DEF Requests
    <2> QED
      BY <2>1, ConstantFacts DEF SyncSet, TypeInv, NodesType, raftVars
  <1> QED
    BY <1>6, <1>7, NodesStep DEF SyncSet

LEMMA JoinGetInv ==
  ASSUME TypeInv, NEW p \in Procs, JoinGet(p)
  PROVE  TypeInv'
  <1>1. req[p] \in Requests /\ MemberShape("join_get", req[p]) /\ Shape("join_get", req[p])
    BY MemberFacts, AtFacts DEF JoinGet, MemberCalls
  <1>2. Nothing
    BY DEF JoinGet
  <1>3. CASE Sync(p, "idle")
    BY <1>1, <1>2, <1>3, SyncOK, Quiet DEF TypeInv, MemberShape
  <1>4. CASE Goto(p, "add")
    <2>1. Shape("add", req[p])
      BY <1>1, ShapeParts DEF MemberShape, MemberCalls, NodeCalls, RebalanceCalls
    <2> QED
      BY <1>2, <1>4, <2>1, GotoOK, Quiet, CallsFacts DEF TypeInv, MemberCalls
  <1> QED
    BY <1>3, <1>4 DEF JoinGet

LEMMA DecommissionGetInv ==
  ASSUME TypeInv, NEW p \in Procs, DecommissionGet(p)
  PROVE  TypeInv'
  <1>1. req[p] \in Requests /\ MemberShape("dec_get", req[p])
    BY MemberFacts DEF DecommissionGet, MemberCalls
  <1>2. Nothing /\ (Sync(p, "drain") \/ Sync(p, "idle"))
    BY DEF DecommissionGet
  <1>3. req[p].op \notin ObjectOps \cup {"none"} /\ req[p].node \in Nodes
    BY <1>1 DEF MemberShape, NodeCalls
  <1> QED
    BY <1>2, <1>3, SyncOK, Quiet DEF TypeInv

LEMMA ReplaceGetInv ==
  ASSUME TypeInv, NEW p \in Procs, ReplaceGet(p)
  PROVE  TypeInv'
  <1> DEFINE next == LargestId + 1
             r == [req[p] EXCEPT !.new = next]
  <1>1. req[p] \in Requests /\ MemberShape("repl_get", req[p])
    BY MemberFacts DEF ReplaceGet, MemberCalls
  <1>2. Nothing
    BY DEF ReplaceGet
  <1>3. CASE Return(p)
    BY <1>2, <1>3, ReturnOK, Quiet DEF TypeInv
  <1>4. CASE Goto(p, "add")
    <2>1. Shape("add", req[p])
      BY <1>1, ShapeParts DEF MemberShape, MemberCalls, NodeCalls, RebalanceCalls
    <2> QED
      BY <1>2, <1>4, <2>1, GotoOK, Quiet, CallsFacts DEF TypeInv, MemberCalls
  <1>5. CASE next \in Nodes /\ Enter(p, "add", r)
    <2> HIDE DEF next
    <2>1. r \in Requests /\ r.op = req[p].op /\ r.node = req[p].node /\ r.new = next
      BY <1>1, <1>5 DEF Requests
    <2> HIDE DEF r
    <2>2. Shape("add", r)
      BY <1>1, <1>5, <2>1, ShapeParts DEF MemberShape, MemberCalls, NodeCalls, RebalanceCalls
    <2> QED
      BY <1>2, <1>5, <2>1, <2>2, EnterOK, Quiet, CallsFacts DEF TypeInv, MemberCalls
  <1> QED
    BY <1>3, <1>4, <1>5 DEF ReplaceGet

\* A membership call that goes on to another one with the locals it has.
LEMMA GotoMember ==
  ASSUME TypeInv, NEW p \in Procs, NEW l \in NodeCalls, At(p, l),
         NEW m \in {"check", "remove", "reb_list"}, Return(p) \/ Goto(p, m), Nothing
  PROVE  TypeInv'
  <1>1. req[p] \in Requests /\ MemberShape(l, req[p])
    BY MemberFacts DEF NodeCalls, MemberCalls
  <1>2. Shape(m, req[p])
    BY <1>1, ShapeParts DEF MemberShape, MemberCalls, NodeCalls, RebalanceCalls
  <1>3. m \in Calls
    BY DEF Calls, MemberCalls, RebalanceCalls
  <1> QED
    BY <1>2, <1>3, GotoOK, ReturnOK, Quiet DEF TypeInv

LEMMA CheckInv ==
  ASSUME TypeInv, NEW p \in Procs, RemoveGet(p) \/ RebalanceGet(p) \/ Check(p)
  PROVE  TypeInv'
  <1>1. CASE RemoveGet(p)
    BY <1>1, GotoMember DEF RemoveGet, NodeCalls
  <1>2. CASE RebalanceGet(p)
    BY <1>2, GotoMember DEF RebalanceGet, NodeCalls
  <1>3. CASE Check(p)
    BY <1>3, GotoMember DEF Check, NodeCalls
  <1> QED
    BY <1>1, <1>2, <1>3

LEMMA AddReplicaType ==
  ASSUME TypeInv, NEW n \in Nodes, AddReplica(n)
  PROVE  members' \in SUBSET Nodes /\ removed' \in SUBSET Nodes
  BY DEF TypeInv, NodesType, AddReplica

LEMMA RemoveReplicaType ==
  ASSUME TypeInv, NEW n \in Nodes, RemoveReplica(n)
  PROVE  members' \in SUBSET Nodes /\ removed' \in SUBSET Nodes
  BY DEF TypeInv, NodesType, RemoveReplica, raftVars

LEMMA AddInv ==
  ASSUME TypeInv, NEW p \in Procs, Add(p)
  PROVE  TypeInv'
  <1>1. req[p] \in Requests /\ MemberShape("add", req[p])
    BY MemberFacts DEF Add, MemberCalls
  <1>2. CASE Return(p) /\ UNCHANGED raftVars
    <2>1. NodesType'
      BY <1>2, NodesUnchanged DEF Add, TypeInv, NodesType, raftVars
    <2> QED
      BY <1>2, <2>1, ReturnOK, NodesStep DEF TypeInv, Add
  <1>3. CASE AddReplica(req[p].new) /\ Sync(p, IF req[p].op = "join" THEN "idle" ELSE "drain")
    <2>1. NodesType'
      BY <1>1, <1>3, AddReplicaType, NodesUnchanged DEF Add, MemberShape
    <2>2. ControlOK'
      <3>1. CASE req[p].op = "join"
        BY <1>1, <1>3, <3>1, SyncOK DEF TypeInv, MemberShape
      <3>2. CASE req[p].op # "join"
        BY <1>1, <1>3, <3>2, SyncOK DEF TypeInv, MemberShape
      <3> QED
        BY <3>1, <3>2
    <2> QED
      BY <2>1, <2>2, NodesStep DEF Add
  <1> QED
    BY <1>2, <1>3 DEF Add

LEMMA RemoveInv ==
  ASSUME TypeInv, NEW p \in Procs, Remove(p)
  PROVE  TypeInv'
  <1>1. req[p] \in Requests /\ MemberShape("remove", req[p])
    BY MemberFacts DEF Remove, MemberCalls
  <1>2. NodesType'
    BY <1>1, RemoveReplicaType, NodesUnchanged DEF Remove, MemberShape, NodeCalls
  <1>3. ControlOK'
    BY <1>1, SyncOK DEF Remove, TypeInv, MemberShape
  <1> QED
    BY <1>2, <1>3, NodesStep DEF Remove

\* A sync of the members goes on with a set of nodes to add or remove.
LEMMA SeenOK ==
  ASSUME ControlOK, NEW p \in Procs, req[p].op \notin ObjectOps \cup {"none"},
         NEW S \in SUBSET Nodes, NEW l \in {"all_add", "all_remove"},
         Enter(p, l, [req[p] EXCEPT !.seen = S])
  PROVE  ControlOK'
  <1> DEFINE r == [req[p] EXCEPT !.seen = S]
  <1>1. req[p] \in Requests
    BY DEF ControlOK, ControlType
  <1>2. r \in Requests /\ r.op = req[p].op
    BY <1>1 DEF Requests
  <1>3. Enter(p, l, r)
    OBVIOUS
  <1> HIDE DEF r
  <1>4. Shape(l, r)
    BY <1>2, ShapeParts DEF MemberShape, MemberCalls, NodeCalls, RebalanceCalls
  <1> QED
    BY <1>2, <1>3, <1>4, EnterOK, CallsFacts DEF MemberCalls

LEMMA SeenFacts ==
  ASSUME TypeInv, NEW p \in Procs, NEW l \in {"all_get", "all_add", "all_mid", "all_remove"}, At(p, l)
  PROVE  /\ req[p].op \notin ObjectOps \cup {"none"}
         /\ req[p].seen \in SUBSET Nodes /\ req[p].want \in SUBSET Nodes
         /\ req[p].seen # {} => Nth(req[p].seen, 0) \in req[p].seen /\ Nth(req[p].seen, 0) \in Nodes
         /\ members \in SUBSET Nodes
  <1>1. req[p] \in Requests /\ MemberShape(l, req[p])
    BY MemberFacts DEF MemberCalls
  <1>2. req[p].seen \in SUBSET Nodes /\ req[p].want \in SUBSET Nodes
    BY <1>1 DEF Requests
  <1> QED
    BY <1>1, <1>2, FirstIn DEF MemberShape, TypeInv, NodesType

LEMMA AllGetInv ==
  ASSUME TypeInv, NEW p \in Procs, AllGet(p)
  PROVE  TypeInv'
  <1> DEFINE S == req[p].want \ members
  <1>1. req[p].op \notin ObjectOps \cup {"none"} /\ S \in SUBSET Nodes
    BY SeenFacts DEF AllGet
  <1>2. Nothing /\ (Return(p) \/ Enter(p, "all_add", [req[p] EXCEPT !.seen = S]))
    BY DEF AllGet
  <1> HIDE DEF S
  <1> QED
    BY <1>1, <1>2, SeenOK, ReturnOK, Quiet DEF TypeInv

LEMMA AllMidInv ==
  ASSUME TypeInv, NEW p \in Procs, AllMid(p)
  PROVE  TypeInv'
  <1> DEFINE S == members \ req[p].want
  <1>1. req[p].op \notin ObjectOps \cup {"none"} /\ S \in SUBSET Nodes
    BY SeenFacts DEF AllMid
  <1>2. Nothing /\ Enter(p, "all_remove", [req[p] EXCEPT !.seen = S])
    BY DEF AllMid
  <1> HIDE DEF S
  <1> QED
    BY <1>1, <1>2, SeenOK, Quiet DEF TypeInv

LEMMA AllAddInv ==
  ASSUME TypeInv, NEW p \in Procs, AllAdd(p)
  PROVE  TypeInv'
  <1> DEFINE n == Nth(req[p].seen, 0)
             S == req[p].seen \ {n}
  <1>1. /\ req[p].op \notin ObjectOps \cup {"none"} /\ S \in SUBSET Nodes
        /\ req[p].seen # {} => n \in Nodes
        /\ members \in SUBSET Nodes /\ req[p] \in Requests /\ MemberShape("all_add", req[p])
    BY SeenFacts, MemberFacts DEF AllAdd, MemberCalls
  <1>2. CASE UNCHANGED raftVars /\ (Goto(p, "all_mid") \/ Return(p))
    <2>1. NodesType'
      BY <1>2, NodesUnchanged DEF AllAdd, TypeInv, NodesType, raftVars
    <2>2. Shape("all_mid", req[p])
      BY <1>1, ShapeParts DEF MemberShape, MemberCalls, NodeCalls, RebalanceCalls
    <2>3. ControlOK'
      BY <1>2, <2>2, GotoOK, ReturnOK, CallsFacts DEF TypeInv, MemberCalls
    <2> QED
      BY <2>1, <2>3, NodesStep DEF AllAdd
  <1>3. CASE req[p].seen # {} /\ AddReplica(n) /\ Enter(p, "all_add", [req[p] EXCEPT !.seen = S])
    <2> HIDE DEF S
    <2>1. NodesType'
      BY <1>1, <1>3, AddReplicaType, NodesUnchanged DEF AllAdd
    <2>2. ControlOK'
      BY <1>1, <1>3, SeenOK DEF TypeInv
    <2> QED
      BY <2>1, <2>2, NodesStep DEF AllAdd
  <1> QED
    BY <1>2, <1>3 DEF AllAdd

LEMMA AllRemoveInv ==
  ASSUME TypeInv, NEW p \in Procs, AllRemove(p)
  PROVE  TypeInv'
  <1> DEFINE n == Nth(req[p].seen, 0)
             S == req[p].seen \ {n}
  <1>1. /\ req[p].op \notin ObjectOps \cup {"none"} /\ S \in SUBSET Nodes
        /\ req[p].seen # {} => n \in Nodes
    BY SeenFacts DEF AllRemove
  <1>2. CASE UNCHANGED raftVars /\ Sync(p, "idle")
    <2>1. NodesType'
      BY <1>2, NodesUnchanged DEF AllRemove, TypeInv, NodesType, raftVars
    <2>2. ControlOK'
      BY <1>1, <1>2, SyncOK DEF TypeInv
    <2> QED
      BY <2>1, <2>2, NodesStep DEF AllRemove
  <1>3. CASE req[p].seen # {} /\ RemoveReplica(n) /\ Enter(p, "all_remove", [req[p] EXCEPT !.seen = S])
    <2> HIDE DEF S
    <2>1. NodesType'
      BY <1>1, <1>3, RemoveReplicaType, NodesUnchanged DEF AllRemove
    <2>2. ControlOK'
      BY <1>1, <1>3, SeenOK DEF TypeInv
    <2> QED
      BY <2>1, <2>2, NodesStep DEF AllRemove
  <1> QED
    BY <1>2, <1>3 DEF AllRemove

(***************************************************************************)
(* Rebalancing                                                              *)
(***************************************************************************)
LEMMA DrainInv ==
  ASSUME TypeInv, NEW p \in Procs, Drain(p)
  PROVE  TypeInv'
  <1>1. req[p] \in Requests /\ MemberShape("drain", req[p])
    BY MemberFacts DEF Drain, RebalanceCalls
  <1>2. NodesType'
    BY DEF Drain, DrainStorageNode, TypeInv, NodesType, raftVars, nodeVars
  <1>3. Shape("reb_list", req[p])
    BY <1>1, ShapeParts DEF MemberShape, MemberCalls, NodeCalls, RebalanceCalls
  <1>4. ControlOK'
    BY <1>3, GotoOK, ReturnOK, CallsFacts DEF Drain, TypeInv, RebalanceCalls
  <1> QED
    BY <1>2, <1>4, NodesStep DEF Drain

LEMMA RebalanceListInv ==
  ASSUME TypeInv, NEW p \in Procs, RebalanceList(p)
  PROVE  TypeInv'
  <1> DEFINE used == {o \in Objects : Uses(meta[o], req[p].node)}
             r == [req[p] EXCEPT !.snap = meta, !.todo = used]
  <1>1. req[p] \in Requests /\ MemberShape("reb_list", req[p])
    BY MemberFacts DEF RebalanceList, RebalanceCalls
  <1>2. used \subseteq Objects /\ \A o \in used : meta[o] \in Real
    BY LayoutsKept, KeptFacts DEF Uses
  <1>3. meta \in [Objects -> Kept]
    BY DEF TypeInv, StoreType, MetaType
  <1> HIDE DEF used
  <1>4. r \in Requests /\ r.op = req[p].op /\ r.node = req[p].node /\ r.snap = meta /\ r.todo = used
    BY <1>1, <1>2, <1>3, KeptFacts DEF Requests
  <1>5. Enter(p, "reb_next", r) /\ Nothing
    BY DEF RebalanceList, used
  <1> HIDE DEF r
  <1>6. Shape("reb_next", r)
    BY <1>1, <1>2, <1>3, <1>4, ShapeParts
       DEF MemberShape, RebalanceShape, MovingCalls, NodeCalls, RebalanceCalls
  <1> QED
    BY <1>4, <1>5, <1>6, EnterOK, Quiet, CallsFacts DEF TypeInv, RebalanceCalls

\* A rebalance goes on with other locals of the same node and listing.
LEMMA MovingShape ==
  ASSUME NEW l \in MovingCalls \cup {"reb_next"}, NEW m \in MovingCalls \cup {"reb_next"}, NEW r, NEW s,
         Shape(l, r), s.op = r.op, s.node = r.node, s.snap = r.snap, s.todo \subseteq r.todo,
         m \in MovingCalls => s.obj \in Objects /\ s.lay \in Real /\ s.snap[s.obj] \in Real
  PROVE  Shape(m, s)
  BY ShapeParts DEF MemberShape, RebalanceShape, NodeCalls, MovingCalls, RebalanceCalls

LEMMA MovingFacts ==
  ASSUME TypeInv, NEW p \in Procs, NEW l \in MovingCalls, At(p, l)
  PROVE  /\ req[p] \in Requests /\ Shape(l, req[p])
         /\ req[p].obj \in Objects /\ req[p].lay \in Real /\ req[p].snap[req[p].obj] \in Real
         /\ req[p].to \in Placements /\ req[p].node \in Nodes /\ l \in Calls
  <1>1. req[p] \in Requests /\ Shape(l, req[p])
    BY AtFacts
  <1> QED
    BY <1>1, ShapeParts DEF RebalanceShape, MemberShape, Requests, NodeCalls, RebalanceCalls, MovingCalls, Calls

\* A rebalance moves on to a call with the locals it has, or returns.
LEMMA MovingOn ==
  ASSUME TypeInv, NEW p \in Procs, NEW l \in MovingCalls, At(p, l),
         NEW m \in MovingCalls \cup {"reb_next"}, Goto(p, m) \/ Return(p)
  PROVE  ControlOK'
  <1>1. Shape(m, req[p]) /\ m \in Calls
    BY MovingFacts, MovingShape DEF MovingCalls, RebalanceCalls, Calls
  <1> QED
    BY <1>1, GotoOK, ReturnOK DEF TypeInv

LEMMA RebalanceNextInv ==
  ASSUME TypeInv, NEW p \in Procs, RebalanceNext(p)
  PROVE  TypeInv'
  <1>1. /\ req[p] \in Requests /\ Shape("reb_next", req[p])
        /\ MemberShape("reb_next", req[p]) /\ RebalanceShape("reb_next", req[p])
    BY AtFacts, ShapeParts DEF RebalanceNext
  <1>2. FilesType' /\ RefsType' /\ MetaType' /\ StoreOnly
    BY StoreParts DEF RebalanceNext
  <1>3. CASE UNCHANGED cache /\ Return(p)
    BY <1>2, <1>3, ReturnOK, StoreParts, StoreStep DEF RebalanceNext, TypeInv, StoreType, layoutVars
  <1>4. CASE UNCHANGED cache /\ Enter(p, "check", [NoReq EXCEPT !.op = req[p].op, !.node = req[p].node])
    <2> DEFINE r == [NoReq EXCEPT !.op = req[p].op, !.node = req[p].node]
    <2>1. req[p].op \in Ops /\ req[p].node \in Nodes \cup {None}
      BY <1>1 DEF Requests
    <2>2. r \in Requests
      BY <2>1, NoReqFacts DEF Requests
    <2>3. r.op = req[p].op /\ r.node = req[p].node
      BY DEF NoReq
    <2> HIDE DEF r
    <2>4. Shape("check", r)
      BY <1>1, <2>3, ShapeParts DEF MemberShape, MemberCalls, NodeCalls, RebalanceCalls
    <2>5. ControlOK'
      BY <1>4, <2>2, <2>4, EnterOK, CallsFacts DEF TypeInv, MemberCalls, r
    <2> QED
      BY <1>2, <1>4, <2>5, StoreParts, StoreStep DEF RebalanceNext, StoreType, layoutVars
  <1>5. ASSUME NEW o \in req[p].todo, cache' = [cache EXCEPT ![o] = GetLayout(o)],
               \/ Return(p)
               \/ /\ GetLayout(o) # NoLayout
                  /\ Enter(p, "reb_move",
                           [req[p] EXCEPT !.todo = @ \ {o}, !.obj = o, !.lay = GetLayout(o),
                                          !.to = GetLayout(o).places, !.moved = {}])
        PROVE  TypeInv'
    <2> DEFINE l == GetLayout(o)
               left == req[p].todo \ {o}
               to == l.places
               r == [req[p] EXCEPT !.todo = left, !.obj = o, !.lay = l, !.to = to, !.moved = {}]
    <2>1. o \in Objects /\ left \in SUBSET Objects /\ left \subseteq req[p].todo
      BY <1>1 DEF Requests
    <2>2. l \in Kept /\ to \in Placements
      BY <2>1, LayoutsKept, KeptFacts
    <2>3. EngineType'
      BY <1>5, <2>2 DEF RebalanceNext, TypeInv, StoreType, EngineType
    <2>4. CASE Return(p)
      BY <1>2, <2>3, <2>4, ReturnOK, StoreStep DEF TypeInv, StoreType
    <2>5. CASE l # NoLayout /\ Enter(p, "reb_move", r)
      <3>1. l \in Real
        BY <2>2, <2>5, KeptFacts
      <3>2. req[p].snap[o] \in Real
        BY <1>1 DEF RebalanceShape
      <3> HIDE DEF l, left, to
      <3>3. r \in Requests /\ r.op = req[p].op /\ r.node = req[p].node /\ r.snap = req[p].snap
            /\ r.todo = left /\ r.obj = o /\ r.lay = l
        BY <1>1, <2>1, <2>2, KeptFacts DEF Requests
      <3> HIDE DEF r
      <3>4. Shape("reb_move", r)
        BY <1>1, <2>1, <3>1, <3>2, <3>3, MovingShape DEF MovingCalls
      <3>5. ControlOK'
        BY <2>5, <3>3, <3>4, EnterOK, CallsFacts DEF TypeInv, RebalanceCalls
      <3> QED
        BY <1>2, <2>3, <3>5, StoreStep DEF StoreType
    <2> QED
      BY <1>5, <2>4, <2>5
  <1> QED
    BY <1>3, <1>4, <1>5 DEF RebalanceNext

LEMMA RebalanceMoveInv ==
  ASSUME TypeInv, NEW p \in Procs, RebalanceMove(p)
  PROVE  TypeInv'
  <1> DEFINE candidates == Active \ {req[p].node}
             target(i) == Nth(candidates, i % Cardinality(candidates))
             shard(i) == MovedShard(req[p].lay.hash, req[p].node, i)
  <1>1. /\ At(p, "reb_move") /\ req[p] \in Requests /\ Shape("reb_move", req[p])
        /\ req[p].obj \in Objects /\ req[p].lay \in Real /\ req[p].snap[req[p].obj] \in Real
        /\ req[p].to \in Placements
    BY MovingFacts DEF RebalanceMove, MovingCalls
  <1>2. RefsType' /\ MetaType' /\ EngineType' /\ StoreOnly
    BY StoreParts DEF RebalanceMove
  <1>3. CASE UNCHANGED files /\ (Return(p) \/ Goto(p, "reb_next") \/ Goto(p, "reb_persist"))
    <2>1. ControlOK'
      BY <1>1, <1>3, MovingOn DEF MovingCalls
    <2> QED
      BY <1>2, <1>3, <2>1, StoreParts, StoreStep DEF StoreType
  <1>4. ASSUME NEW i \in Index, candidates # {}, shard(i) # "error",
               SetFile(req[p].lay.hash, target(i), i, shard(i)),
               Enter(p, "reb_move", [req[p] EXCEPT !.to[i] = target(i), !.moved = @ \cup {i}])
        PROVE  TypeInv'
    <2> DEFINE n == target(i)
               to == [req[p].to EXCEPT ![i] = n]
               moved == req[p].moved \cup {i}
               r == [req[p] EXCEPT !.to = to, !.moved = moved]
    <2>1. candidates \in SUBSET Nodes
      BY DEF TypeInv, NodesType, Active
    <2>2. n \in Nodes
      BY <1>4, <2>1, TurnIn
    <2>3. Enter(p, "reb_move", r)
      BY <1>4
    <2> HIDE DEF n, candidates
    <2>4. to \in Placements /\ moved \in SUBSET Index
      BY <1>1, <2>2 DEF Placements, Requests
    <2> HIDE DEF to, moved
    <2>5. r \in Requests /\ r.op = req[p].op /\ r.node = req[p].node /\ r.snap = req[p].snap
          /\ r.todo = req[p].todo /\ r.obj = req[p].obj /\ r.lay = req[p].lay
      BY <1>1, <2>4 DEF Requests
    <2> HIDE DEF r
    <2>6. Shape("reb_move", r)
      BY <1>1, <2>5, MovingShape DEF MovingCalls
    <2>7. ControlOK'
      BY <2>3, <2>5, <2>6, EnterOK, CallsFacts DEF TypeInv, RebalanceCalls
    <2>8. FilesType'
      <3>1. shard(i) \in {"good", "bad"}
        BY <1>4 DEF MovedShard
      <3> HIDE DEF shard
      <3> QED
        BY <1>4, <3>1, SetFileType
    <2> QED
      BY <1>2, <2>7, <2>8, StoreStep DEF StoreType
  <1>5. Unmoved(req[p]) \subseteq Index
    BY DEF Unmoved
  <1> QED
    BY <1>3, <1>4, <1>5 DEF RebalanceMove

\* A write that fails ends the request, and is counted.
LEMMA FailType ==
  ASSUME TypeInv, NEW p \in Procs, Fail(p)
  PROVE  ControlOK' /\ CountersType'
  <1>1. CountersType'
    BY DEF TypeInv, CountersType, Fail
  <1> QED
    BY <1>1, ReturnOK DEF Fail, TypeInv

\* A step of a rebalance that changes the store, and perhaps fails.
LEMMA PersistStep ==
  ASSUME TypeInv, ControlOK', CountersType', StoreType', UNCHANGED <<raftVars, nodeVars, up>>
  PROVE  TypeInv'
  BY DEF TypeInv, NodesType, raftVars, nodeVars

LEMMA SameCounters ==
  ASSUME TypeInv, UNCHANGED counters
  PROVE  CountersType'
  BY DEF TypeInv, CountersType, counters

LEMMA RebalancePersistInv ==
  ASSUME TypeInv, NEW p \in Procs, RebalancePersist(p)
  PROVE  TypeInv'
  <1> DEFINE r == req[p]
             l == [r.lay EXCEPT !.places = r.to]
  <1>1. At(p, "reb_persist") /\ r.obj \in Objects /\ r.lay \in Real /\ r.to \in Placements
    BY MovingFacts DEF RebalancePersist, MovingCalls
  <1>2. l \in Real
    BY <1>1 DEF Real
  <1>3. FilesType' /\ RefsType' /\ MetaType' /\ UNCHANGED <<raftVars, nodeVars, up>>
    BY StoreParts DEF RebalancePersist
  <1> HIDE DEF l
  <1>4. CASE LinkObject(r.obj, l) /\ Goto(p, "reb_clean") /\ UNCHANGED counters
    <2>1. EngineType'
      BY <1>1, <1>2, <1>4, LinkType, KeptFacts
    <2>2. ControlOK' /\ CountersType'
      BY <1>1, <1>4, MovingOn, SameCounters DEF MovingCalls
    <2> QED
      BY <1>3, <2>1, <2>2, PersistStep DEF StoreType
  <1>5. CASE /\ cache' = [cache EXCEPT ![r.obj] = IF @ = r.lay THEN l ELSE @]
             /\ UNCHANGED disk /\ Fail(p)
    <2>1. EngineType'
      BY <1>1, <1>2, <1>5, KeptFacts DEF TypeInv, StoreType, EngineType
    <2> QED
      BY <1>3, <1>5, <2>1, FailType, PersistStep DEF StoreType
  <1> QED
    BY <1>4, <1>5 DEF RebalancePersist, l

LEMMA RebalanceCleanInv ==
  ASSUME TypeInv, NEW p \in Procs, RebalanceClean(p)
  PROVE  TypeInv'
  <1> DEFINE r == req[p]
             c == r.lay.hash
             kept == [i \in Index |-> IF i \in r.moved THEN "none" ELSE files[c][r.node][i]]
  <1>1. At(p, "reb_clean") /\ r.node \in Nodes /\ c \in Contents
    BY MovingFacts, KeptFacts DEF RebalanceClean, MovingCalls
  <1>2. RefsType' /\ MetaType' /\ EngineType' /\ StoreOnly /\ Goto(p, "reb_meta")
    BY StoreParts DEF RebalanceClean
  <1>3. files \in [Contents -> [Nodes -> [Index -> {"none", "good", "bad"}]]]
    BY DEF TypeInv, StoreType, FilesType
  <1>4. kept \in [Index -> {"none", "good", "bad"}]
    BY <1>1, <1>3
  <1>5. files' = files \/ files' = [files EXCEPT ![c][r.node] = kept]
    BY <1>1, <1>3 DEF RebalanceClean
  <1>6. FilesType'
    <2> DEFINE inner == [files[c] EXCEPT ![r.node] = kept]
    <2> HIDE DEF kept, c
    <2>1. inner \in [Nodes -> [Index -> {"none", "good", "bad"}]]
      BY <1>1, <1>3, <1>4
    <2>2. files' = files \/ files' = [files EXCEPT ![c] = inner]
      BY <1>1, <1>3, <1>5
    <2> HIDE DEF inner
    <2> QED
      BY <1>1, <1>3, <2>1, <2>2 DEF FilesType
  <1>7. ControlOK'
    BY <1>1, <1>2, MovingOn DEF MovingCalls
  <1> QED
    BY <1>2, <1>6, <1>7, StoreStep DEF StoreType

LEMMA RebalanceMetaInv ==
  ASSUME TypeInv, NEW p \in Procs, RebalanceMeta(p)
  PROVE  TypeInv'
  <1> DEFINE r == req[p]
             l == [r.snap[r.obj] EXCEPT !.places = r.to]
  <1>1. At(p, "reb_meta") /\ r.obj \in Objects /\ r.snap[r.obj] \in Real /\ r.to \in Placements
    BY MovingFacts DEF RebalanceMeta, MovingCalls
  <1>2. l \in Real
    BY <1>1 DEF Real
  <1>3. FilesType' /\ RefsType' /\ EngineType' /\ UNCHANGED <<raftVars, nodeVars, up>>
    BY StoreParts DEF RebalanceMeta
  <1>4. CASE meta' = [meta EXCEPT ![r.obj] = l] /\ Goto(p, "reb_ref") /\ UNCHANGED counters
    <2> HIDE DEF l
    <2>1. MetaType'
      BY <1>2, <1>4, KeptFacts DEF TypeInv, StoreType, MetaType
    <2>2. ControlOK' /\ CountersType'
      BY <1>1, <1>4, MovingOn, SameCounters DEF MovingCalls
    <2> QED
      BY <1>3, <2>1, <2>2, PersistStep DEF StoreType
  <1>5. CASE Fail(p) /\ UNCHANGED meta
    BY <1>3, <1>5, FailType, StoreParts, PersistStep DEF StoreType
  <1> QED
    BY <1>4, <1>5 DEF RebalanceMeta

LEMMA RebalanceRefInv ==
  ASSUME TypeInv, NEW p \in Procs, RebalanceRef(p)
  PROVE  TypeInv'
  <1> DEFINE r == req[p]
             c == r.snap[r.obj].hash
  <1>1. At(p, "reb_ref") /\ r.to \in Placements /\ c \in Contents
    BY MovingFacts, KeptFacts DEF RebalanceRef, MovingCalls
  <1>2. FilesType' /\ MetaType' /\ EngineType' /\ UNCHANGED <<raftVars, nodeVars, up>>
    BY StoreParts DEF RebalanceRef
  <1>3. CASE Fail(p) /\ UNCHANGED refs
    BY <1>2, <1>3, FailType, StoreParts, PersistStep DEF StoreType
  <1>4. CASE Return(p) /\ UNCHANGED refs /\ UNCHANGED counters
    BY <1>2, <1>4, ReturnOK, SameCounters, StoreParts, PersistStep DEF StoreType, TypeInv
  <1>5. CASE refs' = [refs EXCEPT ![c].places = r.to] /\ Goto(p, "reb_next") /\ UNCHANGED counters
    <2>1. RefsType'
      BY <1>1, <1>5, RefFacts DEF RefsType
    <2>2. ControlOK' /\ CountersType'
      BY <1>1, <1>5, MovingOn, SameCounters DEF MovingCalls
    <2> QED
      BY <1>2, <2>1, <2>2, PersistStep DEF StoreType
  <1> QED
    BY <1>3, <1>4, <1>5 DEF RebalanceRef

(***************************************************************************)
(* The environment and the whole specification                              *)
(***************************************************************************)
LEMMA EnvironmentInv ==
  ASSUME TypeInv, DrainMember \/ ResumeMember \/ GoDown \/ GoUp \/ LoseShard \/ Restart
  PROVE  TypeInv'
  <1>1. ASSUME NodesType', CountersType', NoRequest, UNCHANGED storeVars
        PROVE  TypeInv'
    BY <1>1 DEF TypeInv, StoreType, FilesType, RefsType, MetaType, EngineType, ControlOK, ControlType,
                NoRequest, storeVars, layoutVars
  <1>2. CASE DrainMember
    <2>1. NodesType'
      BY <1>2 DEF DrainMember, DrainStorageNode, TypeInv, NodesType, raftVars
    <2>2. CountersType'
      BY <1>2 DEF DrainMember, NewRequest, TypeInv, CountersType
    <2> QED
      BY <1>1, <1>2, <2>1, <2>2 DEF DrainMember
  <1>3. CASE ResumeMember
    <2>1. NodesType'
      BY <1>3 DEF ResumeMember, TypeInv, NodesType, raftVars
    <2>2. CountersType'
      BY <1>3 DEF ResumeMember, NewRequest, TypeInv, CountersType
    <2> QED
      BY <1>1, <1>3, <2>1, <2>2 DEF ResumeMember
  <1>4. CASE GoDown
    <2>1. NodesType'
      BY <1>4 DEF GoDown, TypeInv, NodesType, raftVars, nodeVars
    <2>2. CountersType'
      BY <1>4 DEF GoDown, TypeInv, CountersType
    <2> QED
      BY <1>1, <1>4, <2>1, <2>2 DEF GoDown
  <1>5. CASE GoUp
    <2>1. NodesType'
      BY <1>5 DEF GoUp, TypeInv, NodesType, raftVars, nodeVars
    <2>2. CountersType'
      BY <1>5, SameCounters DEF GoUp
    <2> QED
      BY <1>1, <1>5, <2>1, <2>2 DEF GoUp
  <1>6. CASE LoseShard
    <2>1. NodesType'
      BY <1>6 DEF LoseShard, TypeInv, NodesType, raftVars, nodeVars
    <2>2. CountersType'
      BY <1>6 DEF LoseShard, TypeInv, CountersType
    <2>3. FilesType'
      BY <1>6, SetFileType DEF LoseShard
    <2>4. RefsType' /\ MetaType' /\ EngineType'
      BY <1>6, StoreParts DEF LoseShard
    <2>5. ControlOK'
      BY <1>6 DEF LoseShard, NoRequest, TypeInv, ControlOK, ControlType
    <2> QED
      BY <2>1, <2>2, <2>3, <2>4, <2>5 DEF TypeInv, StoreType
  <1>7. CASE Restart
    <2>1. NodesType'
      BY <1>7, ConstantFacts DEF Restart, TypeInv, NodesType, raftVars
    <2>2. CountersType'
      BY <1>7 DEF Restart, TypeInv, CountersType
    <2>3. FilesType' /\ RefsType' /\ MetaType'
      BY <1>7, StoreParts DEF Restart
    <2>4. EngineType'
      BY <1>7, KeptFacts DEF Restart, TypeInv, StoreType, EngineType
    <2>5. ControlOK'
      BY <1>7 DEF Restart, NoRequest, TypeInv, ControlOK, ControlType
    <2> QED
      BY <2>1, <2>2, <2>3, <2>4, <2>5 DEF TypeInv, StoreType
  <1> QED
    BY <1>2, <1>3, <1>4, <1>5, <1>6, <1>7

LEMMA StutterInv ==
  ASSUME TypeInv, UNCHANGED vars
  PROVE  TypeInv'
  <1>1. Nothing /\ ControlOK'
    BY DEF vars, Nothing, StoreOnly, TypeInv, ControlOK, ControlType
  <1> QED
    BY <1>1, Quiet

LEMMA NextInv ==
  ASSUME TypeInv, [Next]_vars
  PROVE  TypeInv'
  <1>1. ASSUME NEW p \in Procs, Start(p)
        PROVE  TypeInv'
    BY <1>1, PutObjectInv, DeleteObjectInv, RepairObjectInv, ClusterBegins DEF Start
  <1>2. ASSUME NEW p \in Procs, ObjectStep(p)
        PROVE  TypeInv'
    BY <1>2, PutLoadInv, PutLoadRefInv, PutRefInv, PutPlanInv, PutWriteInv, PutLinkInv, PutRetainInv,
       PutCommitInv, DeleteLoadInv, DeleteMetaInv, DeleteLayoutInv, ReleaseRefInv, ReleaseBlobInv,
       FixHealthInv, FixReadInv, FixWriteInv
       DEF ObjectStep
  <1>3. ASSUME NEW p \in Procs, MemberStep(p)
        PROVE  TypeInv'
    BY <1>3, SyncGetInv, SyncSetInv, JoinGetInv, DecommissionGetInv, ReplaceGetInv, CheckInv, AddInv,
       RemoveInv, AllGetInv, AllAddInv, AllMidInv, AllRemoveInv
       DEF MemberStep
  <1>4. ASSUME NEW p \in Procs, RebalanceStep(p)
        PROVE  TypeInv'
    BY <1>4, DrainInv, RebalanceListInv, RebalanceNextInv, RebalanceMoveInv, RebalancePersistInv,
       RebalanceCleanInv, RebalanceMetaInv, RebalanceRefInv
       DEF RebalanceStep
  <1> QED
    BY <1>1, <1>2, <1>3, <1>4, EnvironmentInv, StutterInv DEF Next

\* Every variable keeps its type: calls find the locals they read set, the server
\* stays a registered storage node and only registered nodes are drained
\* (storage_nodes.go), with requests contending or not.
THEOREM ShardTypes == Spec => []TypeOK
  <1> QED
    BY InitInv, NextInv, TypesFollow, PTL DEF Spec

(***************************************************************************)
(* Requests in flight keep apart                                            *)
(***************************************************************************)
\* What a request touches depends on its locals only through its kind and object.
Scope(l, r) == IF l = "idle" THEN {} ELSE IF r.op \in ObjectOps THEN {r.obj} ELSE Objects

Apart == \A p, q \in Procs : p # q => Touches(p) \cap Touches(q) = {}

\* A request keeps its kind, and the object it was made for, to its end.
Within(p) ==
    /\ pc[p] # "idle"
    /\ \E l \in Calls : \E r : Enter(p, l, r) /\ (l = "idle" \/ Scope(l, r) = Touches(p))

LEMMA ScopeFacts ==
  ASSUME NEW p \in Procs
  PROVE  /\ pc[p] # "idle" => Scope(pc[p], req[p]) = Touches(p)
         /\ \A l, r : r.op = req[p].op /\ r.obj = req[p].obj /\ pc[p] # "idle" =>
                         l = "idle" \/ Scope(l, r) = Touches(p)
         /\ \A l, r : req[p].op \notin ObjectOps /\ r.op = req[p].op /\ pc[p] # "idle" =>
                         l = "idle" \/ Scope(l, r) = Touches(p)
         /\ \A r : Scope("idle", r) = {}
  BY DEF Scope, Touches

LEMMA WithinGoto ==
  ASSUME NEW p \in Procs, NEW l \in Calls, pc[p] # "idle", Goto(p, l)
  PROVE  Within(p)
  BY ScopeFacts DEF Within, Goto

LEMMA WithinReturn ==
  ASSUME NEW p \in Procs, pc[p] # "idle", Return(p)
  PROVE  Within(p)
  BY WithinGoto, CallsFacts DEF Return

LEMMA WithinEnter ==
  ASSUME NEW p \in Procs, NEW l \in Calls, NEW r, pc[p] # "idle", Enter(p, l, r), r.op = req[p].op,
         r.obj = req[p].obj \/ req[p].op \notin ObjectOps
  PROVE  Within(p)
  BY ScopeFacts DEF Within

LEMMA ObjectStepWithin ==
  ASSUME TypeInv, NEW p \in Procs, ObjectStep(p)
  PROVE  Within(p)
  <1> USE DEF At
  <1>0. req[p] \in Requests
    BY DEF TypeInv, ControlOK, ControlType
  <1>c. PutCalls \subseteq Calls /\ DeleteCalls \subseteq Calls /\ RepairCalls \subseteq Calls
    BY CallsFacts
  <1>1. CASE PutLoad(p)
    BY <1>0, <1>1, <1>c, WithinEnter DEF PutLoad, PutCalls, Requests
  <1>2. CASE PutLoadRef(p)
    BY <1>0, <1>2, <1>c, WithinEnter DEF PutLoadRef, PutCalls, Requests
  <1>3. CASE PutRef(p)
    BY <1>0, <1>3, <1>c, WithinEnter, WithinGoto DEF PutRef, PutCalls, Requests
  <1>4. CASE PutPlan(p)
    BY <1>0, <1>4, <1>c, WithinEnter, WithinReturn DEF PutPlan, PutCalls, Requests
  <1>5. CASE PutWrite(p)
    BY <1>0, <1>5, <1>c, WithinEnter, WithinGoto, WithinReturn DEF PutWrite, PutCalls, Requests
  <1>6. CASE PutLink(p)
    BY <1>0, <1>6, <1>c, WithinEnter DEF PutLink, PutCalls, Requests
  <1>7. CASE PutRetain(p)
    BY <1>0, <1>7, <1>c, WithinGoto, WithinReturn DEF PutRetain, PutCalls
  <1>8. CASE PutCommit(p)
    BY <1>0, <1>8, <1>c, WithinEnter, WithinReturn DEF PutCommit, DeleteCalls, Requests
  <1>9. CASE DeleteLoad(p)
    BY <1>0, <1>9, <1>c, WithinEnter, WithinReturn DEF DeleteLoad, DeleteCalls, Requests
  <1>10. CASE DeleteMeta(p) \/ DeleteLayout(p)
    BY <1>10, <1>c, WithinGoto DEF DeleteMeta, DeleteLayout, DeleteCalls
  <1>11. CASE ReleaseRef(p) \/ ReleaseBlob(p)
    BY <1>11, <1>c, WithinGoto, WithinReturn DEF ReleaseRef, ReleaseBlob, DeleteCalls
  <1>12. CASE FixHealth(p)
    BY <1>0, <1>12, <1>c, WithinEnter, WithinReturn DEF FixHealth, RepairCalls, Requests
  <1>13. CASE FixRead(p)
    BY <1>0, <1>13, <1>c, WithinEnter, WithinReturn DEF FixRead, RepairCalls, Requests
  <1>14. CASE FixWrite(p)
    BY <1>0, <1>14, <1>c, WithinEnter, WithinReturn DEF FixWrite, RepairCalls, Requests
  <1> QED
    BY <1>1, <1>2, <1>3, <1>4, <1>5, <1>6, <1>7, <1>8, <1>9, <1>10, <1>11, <1>12, <1>13, <1>14
       DEF ObjectStep

LEMMA ClusterStepWithin ==
  ASSUME TypeInv, NEW p \in Procs, MemberStep(p) \/ RebalanceStep(p)
  PROVE  Within(p)
  <1> USE DEF At
  <1>0. req[p] \in Requests
    BY DEF TypeInv, ControlOK, ControlType
  <1>c. MemberCalls \subseteq Calls /\ RebalanceCalls \subseteq Calls
    BY CallsFacts
  <1>a. pc[p] \in MemberCalls \cup RebalanceCalls
    BY DEF MemberStep, RebalanceStep, SyncGet, SyncSet, JoinGet, DecommissionGet, ReplaceGet, RemoveGet,
           RebalanceGet, Add, Check, Remove, AllGet, AllAdd, AllMid, AllRemove, Drain, RebalanceList,
           RebalanceNext, RebalanceMove, RebalancePersist, RebalanceClean, RebalanceMeta, RebalanceRef,
           MemberCalls, RebalanceCalls
  <1>b. pc[p] # "idle" /\ req[p].op \notin ObjectOps /\ MemberShape(pc[p], req[p])
    BY <1>a, MemberFacts DEF MemberShape, MemberCalls, RebalanceCalls
  <1>s. ASSUME NEW l \in {"idle", "drain"}, Sync(p, l) PROVE Within(p)
    BY <1>0, <1>b, <1>c, <1>s, WithinEnter DEF Sync, MemberCalls, Requests
  <1>f. ASSUME Fail(p) PROVE Within(p)
    BY <1>b, <1>f, WithinReturn DEF Fail
  <1>1. CASE SyncGet(p)
    BY <1>0, <1>1, <1>b, <1>c, WithinEnter DEF SyncGet, MemberCalls, Requests
  <1>2. CASE SyncSet(p)
    <2>1. req[p].ret \in Calls
      BY <1>0 DEF Requests
    <2> QED
      BY <1>0, <1>2, <1>b, <2>1, WithinEnter DEF SyncSet, Requests
  <1>3. CASE JoinGet(p) \/ DecommissionGet(p)
    BY <1>3, <1>b, <1>c, <1>s, WithinGoto DEF JoinGet, DecommissionGet, MemberCalls
  <1>4. CASE ReplaceGet(p)
    BY <1>0, <1>4, <1>b, <1>c, WithinEnter, WithinGoto, WithinReturn DEF ReplaceGet, MemberCalls, Requests
  <1>5. CASE RemoveGet(p) \/ RebalanceGet(p) \/ Check(p)
    BY <1>5, <1>b, <1>c, WithinGoto, WithinReturn
       DEF RemoveGet, RebalanceGet, Check, MemberCalls, RebalanceCalls
  <1>6. CASE Add(p) \/ Remove(p)
    BY <1>6, <1>b, <1>s, WithinReturn DEF Add, Remove
  <1>7. CASE AllGet(p)
    BY <1>0, <1>7, <1>b, <1>c, WithinEnter, WithinReturn DEF AllGet, MemberCalls, Requests
  <1>8. CASE AllAdd(p)
    BY <1>0, <1>8, <1>b, <1>c, WithinEnter, WithinGoto, WithinReturn DEF AllAdd, MemberCalls, Requests
  <1>9. CASE AllMid(p)
    BY <1>0, <1>9, <1>b, <1>c, WithinEnter DEF AllMid, MemberCalls, Requests
  <1>10. CASE AllRemove(p)
    BY <1>0, <1>10, <1>b, <1>c, <1>s, WithinEnter DEF AllRemove, MemberCalls, Requests
  <1>11. CASE Drain(p)
    BY <1>11, <1>b, <1>c, WithinGoto, WithinReturn DEF Drain, RebalanceCalls
  <1>12. CASE RebalanceList(p)
    BY <1>0, <1>12, <1>b, <1>c, WithinEnter DEF RebalanceList, RebalanceCalls, Requests
  <1>13. CASE RebalanceNext(p)
    <2>1. CASE Return(p)
      BY <1>b, <2>1, WithinReturn
    <2>2. CASE Enter(p, "check", [NoReq EXCEPT !.op = req[p].op, !.node = req[p].node])
      BY <1>b, <1>c, <2>2, WithinEnter DEF NoReq, MemberCalls
    <2>3. ASSUME NEW o, NEW l,
                 Enter(p, "reb_move", [req[p] EXCEPT !.todo = @ \ {o}, !.obj = o, !.lay = l,
                                                     !.to = l.places, !.moved = {}])
          PROVE  Within(p)
      BY <1>0, <1>b, <1>c, <2>3, WithinEnter DEF RebalanceCalls, Requests
    <2> QED
      BY <1>13, <2>1, <2>2, <2>3 DEF RebalanceNext
  <1>14. CASE RebalanceMove(p)
    BY <1>0, <1>14, <1>b, <1>c, WithinEnter, WithinGoto, WithinReturn
       DEF RebalanceMove, RebalanceCalls, Requests
  <1>15. CASE RebalancePersist(p) \/ RebalanceClean(p) \/ RebalanceMeta(p) \/ RebalanceRef(p)
    BY <1>15, <1>b, <1>c, <1>f, WithinGoto, WithinReturn
       DEF RebalancePersist, RebalanceClean, RebalanceMeta, RebalanceRef, RebalanceCalls
  <1> QED
    BY <1>1, <1>2, <1>3, <1>4, <1>5, <1>6, <1>7, <1>8, <1>9, <1>10, <1>11, <1>12, <1>13, <1>14, <1>15
       DEF MemberStep, RebalanceStep

\* A request begins where MayStart lets it.
LEMMA StartWithin ==
  ASSUME NEW p \in Procs, Start(p), Contend = FALSE
  PROVE  /\ pc[p] = "idle"
         /\ \E l, r : /\ Enter(p, l, r)
                      /\ \A q \in Procs : Touches(q) \cap Scope(l, r) = {}
         /\ UNCHANGED <<raftVars, nodeVars, up, storeVars, losses, outages, faults, restarts>>
  <1>1. ASSUME NEW objs, NEW l, NEW r, MayStart(p, objs), Begin(p, l, r), l # "idle",
               Scope(l, r) \subseteq objs
        PROVE  /\ pc[p] = "idle"
               /\ \E k, s : /\ Enter(p, k, s)
                            /\ \A q \in Procs : Touches(q) \cap Scope(k, s) = {}
               /\ UNCHANGED <<raftVars, nodeVars, up, storeVars, losses, outages, faults, restarts>>
    <2>1. pc[p] = "idle" /\ \A q \in Procs : Touches(q) \cap Scope(l, r) = {}
      BY <1>1 DEF MayStart
    <2> QED
      BY <1>1, <2>1 DEF Begin, NewRequest
  <1>2. ASSUME NEW l, NEW r, MayStart(p, Objects), Begin(p, l, r), l # "idle", r.op \notin ObjectOps
        PROVE  /\ pc[p] = "idle"
               /\ \E k, s : /\ Enter(p, k, s)
                            /\ \A q \in Procs : Touches(q) \cap Scope(k, s) = {}
               /\ UNCHANGED <<raftVars, nodeVars, up, storeVars, losses, outages, faults, restarts>>
    <2>1. Scope(l, r) \subseteq Objects
      BY <1>2 DEF Scope
    <2> QED
      BY <1>1, <1>2, <2>1
  <1>3. ASSUME NEW l, NEW r, NEW o, MayStart(p, {o}), Begin(p, l, r), l # "idle", r.op \in ObjectOps,
               r.obj = o
        PROVE  /\ pc[p] = "idle"
               /\ \E k, s : /\ Enter(p, k, s)
                            /\ \A q \in Procs : Touches(q) \cap Scope(k, s) = {}
               /\ UNCHANGED <<raftVars, nodeVars, up, storeVars, losses, outages, faults, restarts>>
    <2>1. Scope(l, r) \subseteq {o}
      BY <1>3 DEF Scope
    <2> QED
      BY <1>1, <1>3, <2>1
  <1>4. CASE PutObject(p)
    BY <1>3, <1>4 DEF PutObject, NoReq, ObjectOps
  <1>5. CASE DeleteObject(p) \/ RepairObject(p)
    BY <1>3, <1>5 DEF DeleteObject, RepairObject, NoReq, ObjectOps
  <1>6. CASE Join(p) \/ Decommission(p) \/ Replace(p)
    BY <1>2, <1>6 DEF Join, Decommission, Replace, NoReq, ObjectOps
  <1>7. CASE RemoveMember(p) \/ Rebalance(p)
    BY <1>2, <1>7 DEF RemoveMember, Rebalance, NoReq, ObjectOps
  <1>8. CASE SyncNodes(p) \/ SyncMembers(p)
    BY <1>2, <1>8 DEF SyncNodes, SyncMembers, NoReq, ObjectOps
  <1> QED
    BY <1>4, <1>5, <1>6, <1>7, <1>8 DEF Start

\* What the requests touch after p has moved.
LEMMA TouchesAfter ==
  ASSUME TypeInv, NEW p \in Procs, NEW l, NEW r, Enter(p, l, r)
  PROVE  /\ Touches(p)' = Scope(l, r)
         /\ pc'[p] = l /\ (l # "idle" => req'[p] = r)
         /\ \A q \in Procs : q # p => pc'[q] = pc[q] /\ req'[q] = req[q] /\ Touches(q)' = Touches(q)
  BY DEF TypeInv, ControlOK, ControlType, Enter, Touches, Scope

\* A step of a request.
Step(p) == ObjectStep(p) \/ MemberStep(p) \/ RebalanceStep(p)

LEMMA StepWithin ==
  ASSUME TypeInv, NEW p \in Procs, Step(p)
  PROVE  Within(p)
  BY ObjectStepWithin, ClusterStepWithin DEF Step

\* What a request touches stays the same on its way, until it returns.
LEMMA StepTouches ==
  ASSUME TypeInv, NEW p \in Procs, Step(p)
  PROVE  /\ pc[p] # "idle" /\ Touches(p)' = IF pc'[p] = "idle" THEN {} ELSE Touches(p)
         /\ \A q \in Procs : q # p => pc'[q] = pc[q] /\ req'[q] = req[q] /\ Touches(q)' = Touches(q)
  <1>1. PICK l \in Calls : \E r : Enter(p, l, r) /\ (l = "idle" \/ Scope(l, r) = Touches(p))
    BY StepWithin DEF Within
  <1>3. PICK r : Enter(p, l, r) /\ (l = "idle" \/ Scope(l, r) = Touches(p))
    BY <1>1
  <1>2. pc[p] # "idle"
    BY StepWithin DEF Within
  <1> QED
    <2>1. Touches(p)' = Scope(l, r) /\ pc'[p] = l
      BY <1>3, TouchesAfter
    <2>2. l = "idle" => Scope(l, r) = {}
      BY ScopeFacts
    <2>3. \A q \in Procs : q # p => pc'[q] = pc[q] /\ req'[q] = req[q] /\ Touches(q)' = Touches(q)
      BY <1>3, TouchesAfter
    <2> QED
      BY <1>2, <1>3, <2>1, <2>2, <2>3

LEMMA SameTouches ==
  ASSUME UNCHANGED <<pc, req>>
  PROVE  \A p \in Procs : Touches(p)' = Touches(p)
  BY DEF Touches

LEMMA ApartNext ==
  ASSUME TypeInv, Contend = FALSE, Apart, [Next]_vars
  PROVE  Apart'
  <1>1. ASSUME NEW p \in Procs, Start(p)
        PROVE  Apart'
    <2>1. PICK l, r : Enter(p, l, r) /\ \A q \in Procs : Touches(q) \cap Scope(l, r) = {}
      BY <1>1, StartWithin
    <2>2. Touches(p)' = Scope(l, r) /\ \A q \in Procs : q # p => Touches(q)' = Touches(q)
      BY <2>1, TouchesAfter
    <2> QED
      BY <2>1, <2>2 DEF Apart
  <1>2. ASSUME NEW p \in Procs, Step(p)
        PROVE  Apart'
    BY <1>2, StepTouches DEF Apart
  <1>3. CASE UNCHANGED <<pc, req>>
    BY <1>3, SameTouches DEF Apart
  <1> QED
    BY <1>1, <1>2, <1>3 DEF Next, Step, DrainMember, ResumeMember, GoDown, GoUp, LoseShard, Restart,
                            NoRequest, vars

(***************************************************************************)
(* Members are removed only when no object is on them                       *)
(***************************************************************************)
\* The ownership check of a request about to remove a member still holds.
CheckHolds == \A p \in Procs : At(p, "remove") => \A o \in Objects : ~Uses(meta[o], req[p].node)

RemovalInv == TypeInv /\ Apart /\ CheckHolds

\* A call on an object, or a rebalance that moves shards, is part of a request
\* that touches an object; so is a removal, if there are objects.
LEMMA WriterTouches ==
  ASSUME TypeInv, NEW p \in Procs, PutCommit(p) \/ DeleteMeta(p) \/ RebalanceMeta(p)
  PROVE  pc[p] \in {"put_commit", "del_meta", "reb_meta"} /\ req[p].obj \in Objects
         /\ req[p].obj \in Touches(p)
         /\ \A o \in Objects : o # req[p].obj => meta'[o] = meta[o]
  <1>1. pc[p] \in {"put_commit", "del_meta", "reb_meta"}
    BY DEF PutCommit, DeleteMeta, RebalanceMeta, At
  <1>2. req[p].obj \in Objects
    BY <1>1, AtFacts, ShapeParts DEF At, RebalanceShape, MovingCalls, PutCalls, DeleteCalls
  <1>3. req[p].obj \in Touches(p)
    BY <1>1, <1>2 DEF Touches
  <1>4. \A o \in Objects : o # req[p].obj => meta'[o] = meta[o]
    BY <1>2 DEF PutCommit, DeleteMeta, RebalanceMeta, TypeInv, StoreType, MetaType
  <1> QED
    BY <1>1, <1>2, <1>3, <1>4

LEMMA RemoverTouches ==
  ASSUME TypeInv, NEW p \in Procs, At(p, "remove")
  PROVE  Touches(p) = Objects
  <1>1. MemberShape("remove", req[p])
    BY MemberFacts DEF MemberCalls
  <1> QED
    BY <1>1 DEF Touches, MemberShape, At

\* Only these steps write the metadata.
LEMMA MetaWriters ==
  ASSUME NEW p \in Procs, Step(p)
  PROVE  UNCHANGED meta \/ PutCommit(p) \/ DeleteMeta(p) \/ RebalanceMeta(p)
  <1>1. CASE ObjectStep(p)
    BY <1>1 DEF ObjectStep, PutLoad, PutLoadRef, PutRef, PutPlan, PutWrite, PutLink, PutRetain, DeleteLoad,
                DeleteLayout, ReleaseRef, ReleaseBlob, FixHealth, FixRead, FixWrite, Nothing, storeVars
  <1>2. CASE MemberStep(p)
    BY <1>2 DEF MemberStep, SyncGet, SyncSet, JoinGet, DecommissionGet, ReplaceGet, RemoveGet,
                RebalanceGet, Add, Check, Remove, AllGet, AllAdd, AllMid, AllRemove, Nothing, storeVars
  <1>3. CASE RebalanceStep(p)
    BY <1>3 DEF RebalanceStep, Drain, RebalanceList, RebalanceNext, RebalanceMove, RebalancePersist,
                RebalanceClean, RebalanceRef, Nothing, storeVars
  <1> QED
    BY <1>1, <1>2, <1>3 DEF Step

\* A request arrives at the removal only from the check, for the node it checked.
LEMMA RemoveEntered ==
  ASSUME TypeInv, NEW p \in Procs, Step(p), pc'[p] = "remove"
  PROVE  Check(p) /\ req'[p] = req[p]
  <1>1. \A l, r : Enter(p, l, r) => l = "remove"
    BY TouchesAfter
  <1>2. ~Return(p) /\ ~Fail(p) /\ \A l : Goto(p, l) \/ Sync(p, l) => l = "remove" /\ ~Sync(p, l)
    BY <1>1 DEF Return, Fail, Goto, Sync
  <1>3. ~ObjectStep(p)
    <2>1. ~(PutLoad(p) \/ PutLoadRef(p) \/ PutRef(p) \/ PutPlan(p))
      BY <1>1, <1>2 DEF PutLoad, PutLoadRef, PutRef, PutPlan
    <2>2. ~(PutWrite(p) \/ PutLink(p) \/ PutRetain(p) \/ PutCommit(p))
      BY <1>1, <1>2 DEF PutWrite, PutLink, PutRetain, PutCommit
    <2>3. ~(DeleteLoad(p) \/ DeleteMeta(p) \/ DeleteLayout(p) \/ ReleaseRef(p) \/ ReleaseBlob(p))
      BY <1>1, <1>2 DEF DeleteLoad, DeleteMeta, DeleteLayout, ReleaseRef, ReleaseBlob
    <2>4. ~(FixHealth(p) \/ FixRead(p))
      BY <1>1, <1>2 DEF FixHealth, FixRead
    <2>5. ~FixWrite(p)
      BY <1>1, <1>2 DEF FixWrite
    <2> QED
      BY <2>1, <2>2, <2>3, <2>4, <2>5 DEF ObjectStep
  <1>4. ~RebalanceStep(p)
    <2>1. ~Fail(p) /\ ~Return(p) /\ ~Goto(p, "reb_list") /\ ~Goto(p, "reb_next")
          /\ ~Goto(p, "reb_persist") /\ ~Goto(p, "reb_clean") /\ ~Goto(p, "reb_meta") /\ ~Goto(p, "reb_ref")
      BY <1>2
    <2>2. \A r : ~Enter(p, "reb_next", r) /\ ~Enter(p, "check", r) /\ ~Enter(p, "reb_move", r)
      BY <1>1
    <2>3. ~(Drain(p) \/ RebalanceList(p) \/ RebalanceNext(p))
      BY <2>1, <2>2 DEF Drain, RebalanceList, RebalanceNext
    <2>4. ~RebalanceMove(p)
      BY <2>1, <2>2 DEF RebalanceMove
    <2>5. ~(RebalancePersist(p) \/ RebalanceClean(p) \/ RebalanceMeta(p) \/ RebalanceRef(p))
      BY <2>1 DEF RebalancePersist, RebalanceClean, RebalanceMeta, RebalanceRef
    <2> QED
      BY <2>3, <2>4, <2>5 DEF RebalanceStep
  <1>5. ASSUME SyncSet(p) PROVE FALSE
    <2>1. MemberShape("sync_set", req[p]) /\ req[p].ret = "remove"
      BY <1>1, <1>5, MemberFacts DEF SyncSet, MemberCalls
    <2> QED
      BY <2>1 DEF MemberShape
  <1>6. Check(p)
    BY <1>1, <1>2, <1>3, <1>4, <1>5
       DEF Step, MemberStep, SyncGet, JoinGet, DecommissionGet, ReplaceGet, RemoveGet,
           RebalanceGet, Add, Remove, AllGet, AllAdd, AllMid, AllRemove
  <1>7. Goto(p, "remove")
    BY <1>2, <1>6 DEF Check
  <1> QED
    BY <1>6, <1>7, TouchesAfter DEF Goto

\* The check of a request about to remove a member holds as long as it waits:
\* every request that could place an object would touch what this one touches.
LEMMA CheckHoldsNext ==
  ASSUME RemovalInv, Contend = FALSE, [Next]_vars
  PROVE  CheckHolds'
  <1>0. TypeInv /\ Apart /\ CheckHolds
    BY DEF RemovalInv
  <1>1. ASSUME NEW p \in Procs, Start(p)
        PROVE  CheckHolds'
    <2>1. UNCHANGED meta
      BY <1>1, StartWithin DEF storeVars
    <2>2. PICK l, r : Enter(p, l, r) /\ \A q \in Procs : Touches(q) \cap Scope(l, r) = {}
      BY <1>1, StartWithin
    <2>3. l # "remove"
      <3>1. ASSUME NEW k, NEW s, Begin(p, k, s), k # "remove"
            PROVE  pc'[p] # "remove"
        BY <1>0, <3>1, TouchesAfter DEF Begin
      <3>2. pc'[p] # "remove"
        BY <1>1, <3>1 DEF Start, PutObject, DeleteObject, RepairObject, Join, Decommission, Replace,
                          RemoveMember, Rebalance, SyncNodes, SyncMembers
      <3> QED
        BY <1>0, <2>2, <3>2, TouchesAfter
    <2>4. pc'[p] # "remove" /\ \A q \in Procs : q # p => pc'[q] = pc[q] /\ req'[q] = req[q]
      BY <1>0, <2>2, <2>3, TouchesAfter
    <2> QED
      BY <1>0, <2>1, <2>4 DEF CheckHolds, At, Uses
  <1>2. ASSUME NEW p \in Procs, Step(p)
        PROVE  CheckHolds'
    <2>1. \A q \in Procs : q # p => pc'[q] = pc[q] /\ req'[q] = req[q]
      BY <1>0, <1>2, StepTouches
    <2>2. ASSUME NEW q \in Procs, pc'[q] = "remove", NEW o \in Objects
          PROVE  ~Uses(meta'[o], req'[q].node)
      <3>1. CASE q = p
        <4>1. Check(p) /\ req'[p] = req[p]
          BY <1>0, <1>2, <2>2, <3>1, RemoveEntered
        <4>2. ~Uses(meta[o], req[p].node) /\ UNCHANGED meta
          <5>1. Nothing /\ ~Return(p) /\ At(p, "check")
            <6>1. pc' # [pc EXCEPT ![p] = "idle"]
              BY <1>0, <2>2, <3>1 DEF TypeInv, ControlOK, ControlType
            <6> QED
              BY <4>1, <6>1 DEF Check, Return, Goto, Enter
          <5> QED
            BY <4>1, <5>1 DEF Check, Nothing, storeVars
        <4> QED
          BY <3>1, <4>1, <4>2
      <3>2. CASE q # p
        <4>1. pc[q] = "remove" /\ req'[q] = req[q]
          BY <2>1, <2>2, <3>2
        <4>2. ~Uses(meta[o], req[q].node)
          BY <1>0, <4>1 DEF CheckHolds, At
        <4>3. UNCHANGED meta
          <5>1. Touches(q) = Objects /\ Touches(p) \cap Touches(q) = {}
            BY <1>0, <3>2, <4>1, RemoverTouches DEF Apart, At
          <5>2. ~(PutCommit(p) \/ DeleteMeta(p) \/ RebalanceMeta(p))
            BY <1>0, <5>1, WriterTouches
          <5> QED
            BY <1>2, <5>2, MetaWriters
        <4> QED
          BY <4>1, <4>2, <4>3
      <3> QED
        BY <3>1, <3>2
    <2> QED
      BY <2>2 DEF CheckHolds, At
  <1>3. CASE UNCHANGED <<pc, req, meta>>
    BY <1>0, <1>3 DEF CheckHolds, At, Uses
  <1> QED
    BY <1>1, <1>2, <1>3 DEF Next, Step, DrainMember, ResumeMember, GoDown, GoUp, LoseShard, Restart,
                            NoRequest, vars, storeVars

LEMMA RemovalInit == Init => RemovalInv
  <1> SUFFICES ASSUME Init PROVE RemovalInv
    OBVIOUS
  <1>1. \A p \in Procs : pc[p] = "idle"
    BY DEF Init
  <1> QED
    BY <1>1, InitInv DEF RemovalInv, Apart, CheckHolds, At, Touches

LEMMA RemovalNext ==
  ASSUME RemovalInv, Contend = FALSE, [Next]_vars
  PROVE  RemovalInv'
  <1>1. TypeInv' /\ Apart'
    BY NextInv, ApartNext DEF RemovalInv
  <1> QED
    BY <1>1, CheckHoldsNext DEF RemovalInv

\* A step that removes a member leaves the objects where they are.
LEMMA RemovalsKeepMeta ==
  ASSUME Contend = FALSE, [Next]_vars, removed' # removed
  PROVE  UNCHANGED meta
  <1>1. ASSUME NEW p \in Procs, Start(p)
        PROVE  FALSE
    BY <1>1, StartWithin DEF raftVars
  <1>2. ASSUME NEW p \in Procs, ObjectStep(p)
        PROVE  FALSE
    BY <1>2 DEF ObjectStep, PutLoad, PutLoadRef, PutRef, PutPlan, PutWrite, PutLink, PutRetain, PutCommit,
                DeleteLoad, DeleteMeta, DeleteLayout, ReleaseRef, ReleaseBlob, FixHealth, FixRead,
                FixWrite, Nothing, StoreOnly, raftVars
  <1>3. ASSUME NEW p \in Procs, MemberStep(p)
        PROVE  UNCHANGED meta
    BY <1>3 DEF MemberStep, SyncGet, SyncSet, JoinGet, DecommissionGet, ReplaceGet, RemoveGet,
                RebalanceGet, Add, Check, Remove, AllGet, AllAdd, AllMid, AllRemove, Nothing, storeVars
  <1>4. ASSUME NEW p \in Procs, RebalanceStep(p)
        PROVE  FALSE
    BY <1>4 DEF RebalanceStep, Drain, RebalanceList, RebalanceNext, RebalanceMove, RebalancePersist,
                RebalanceClean, RebalanceMeta, RebalanceRef, Nothing, StoreOnly, raftVars
  <1> QED
    BY <1>1, <1>2, <1>3, <1>4 DEF Next, DrainMember, ResumeMember, GoDown, GoUp, LoseShard, Restart, vars,
                                  raftVars, storeVars

\* A member is removed by a delete, a decommission or a replacement only when no
\* committed object is on it (ensureClusterMemberDecommissionable), for requests
\* that do not overlap on an object.
THEOREM RemovalsAreSafe ==
  ASSUME Contend = FALSE
  PROVE  Spec => SafeRemoval
  <1>1. ASSUME RemovalInv, [Next]_vars
        PROVE  \A n \in removed' \ removed :
                  (\E p \in Procs : At(p, "remove") /\ req[p].node = n) =>
                      \A o \in Objects : ~Uses(meta'[o], n)
    BY <1>1, RemovalsKeepMeta DEF RemovalInv, CheckHolds
  <1>2. RemovalInv /\ [Next]_vars => RemovalInv'
    BY RemovalNext
  <1> QED
    BY <1>1, <1>2, RemovalInit, PTL DEF Spec, SafeRemoval

(***************************************************************************)
(* The records of an object's shards, while requests are under way.  Under  *)
(* the assumptions below a content belongs to one object and an object to   *)
(* one request at a time, so what is known of an object is a matter of the  *)
(* call of the request that touches it.                                     *)
(***************************************************************************)
\* The contents of an object.
Mine(o) == {c \in Contents : <<o, c>> \in Puts}

\* No two objects have the same content.
Unshared == \A a, b \in Objects : a # b => Mine(a) \cap Mine(b) = {}

\* The shards a layout misses are no more than disks have lost.
LostIn(l, f) == {i \in Index : f[l.hash][l.places[i]][i] # "good"}
Few(l, f, n) == Cardinality(LostIn(l, f)) <= n
Sound(l, o, f, n) == l = NoLayout \/ (l.hash \in Mine(o) /\ Few(l, f, n))

\* The engine's layout of o is l, on disk and, if it is there, in the cache.
Linked(o, l) == disk[o] = l /\ cache[o] \in {l, NoLayout}

\* Of the contents of o, those in S are counted once and the others not at all.
CountsAre(o, S) == \A c \in Mine(o) : refs[c].count = IF c \in S THEN 1 ELSE 0
RefAt(l) == l # NoLayout => refs[l.hash].places = l.places

Rest(o) ==
    /\ Sound(meta[o], o, files, losses)
    /\ Linked(o, meta[o])
    /\ CountsAre(o, {meta[o].hash})
    /\ RefAt(meta[o])

\* The calls before which the records of the object differ.
Changing == {"put_retain", "put_commit", "del_layout", "rel_ref", "reb_clean", "reb_meta", "reb_ref"}

\* What a put knows at each of its calls.
PutDuring(l, r, o) ==
    /\ r.hash \in Mine(o)
    /\ l # "put_load" => r.ex = meta[o]
    /\ l \in {"put_load", "put_loadref", "put_ref", "put_plan", "put_write"} => ~r.hit
    /\ l \in {"put_plan", "put_write"} => r.hash # meta[o].hash
    /\ l = "put_write" => \A i \in Index : i < r.idx => files[r.hash][r.to[i]][i] = "good"
    /\ l \in {"put_link", "put_retain"} =>
         LET new == [hash |-> r.hash, places |-> r.to] IN
         /\ Few(new, files, losses)
         /\ IF r.hit THEN meta[o] = new ELSE r.hash # meta[o].hash
    /\ l = "put_retain" =>
         /\ r.lay = [hash |-> r.hash, places |-> r.to]
         /\ Sound(meta[o], o, files, losses) /\ Linked(o, r.lay)
         /\ CountsAre(o, {meta[o].hash}) /\ RefAt(meta[o])
    /\ l = "put_commit" =>
         /\ r.lay.hash = r.hash
         /\ Sound(meta[o], o, files, losses) /\ Sound(r.lay, o, files, losses) /\ Linked(o, r.lay)
         /\ CountsAre(o, {meta[o].hash, r.hash}) /\ RefAt(r.lay)

\* What a delete or a release knows.
DeleteDuring(l, r, o) ==
    /\ l # "del_load" => r.hash \in Mine(o)
    /\ l = "del_meta" => r.hash = meta[o].hash
    /\ l = "del_layout" => meta[o] = NoLayout /\ CountsAre(o, {r.hash})
    /\ l \in {"rel_ref", "rel_blob"} => r.hash # meta[o].hash
    /\ l = "rel_ref" =>
         /\ Sound(meta[o], o, files, losses) /\ Linked(o, meta[o]) /\ RefAt(meta[o])
         /\ CountsAre(o, {meta[o].hash, r.hash})

\* The layout a rebalance makes.
NewLayout(r) == [hash |-> r.lay.hash, places |-> r.to]

\* Which shards a rebalance has moved, all off the node.
MovedOff(r) ==
    \A i \in Index : IF i \in r.moved THEN r.lay.places[i] = r.node /\ r.to[i] # r.node
                     ELSE r.to[i] = r.lay.places[i]

MovingDuring(l, r, o) ==
    /\ r.snap[o].hash = r.lay.hash /\ Sound(NewLayout(r), o, files, losses)
    /\ l \in {"reb_move", "reb_persist", "reb_clean"} => meta[o] = r.lay /\ MovedOff(r)
    /\ l \in {"reb_clean", "reb_meta", "reb_ref"} =>
         /\ meta[o].hash = r.lay.hash /\ meta[o] # NoLayout
         /\ Linked(o, NewLayout(r)) /\ CountsAre(o, {r.lay.hash})
    /\ l = "reb_ref" => meta[o] = NewLayout(r)

RebalanceDuring(l, r, o) ==
    /\ o \in r.todo => r.snap[o] = meta[o]
    /\ l \in MovingCalls => r.obj \notin r.todo
    /\ l \in MovingCalls /\ o = r.obj => MovingDuring(l, r, o)

\* A repair works on the layout of the committed object.
RepairDuring(l, r, o) == l # "fix_health" => r.lay = meta[o]

During(l, r, o) ==
    /\ (l \notin Changing \/ (l \in MovingCalls /\ o # r.obj)) => Rest(o)
    /\ l \in PutCalls => PutDuring(l, r, o)
    /\ l \in DeleteCalls => DeleteDuring(l, r, o)
    /\ l \in RepairCalls => RepairDuring(l, r, o)
    /\ l \in {"reb_next"} \cup MovingCalls => RebalanceDuring(l, r, o)

\* Until a write of a rebalance fails, each object is at rest or as its request knows.
Known ==
    \A o \in Objects :
        /\ Settled(o) => Rest(o)
        /\ \A p \in Procs : o \in Touches(p) => During(pc[p], req[p], o)

CopiesInv == TypeInv /\ Apart /\ (faults = 0 => Known)

(***************************************************************************)
(* Missing shards                                                           *)
(***************************************************************************)
FilesSpace == [Contents -> [Nodes -> [Index -> {"none", "good", "bad"}]]]

LEMMA LostFinite ==
  ASSUME NEW l, NEW f
  PROVE  IsFiniteSet(LostIn(l, f)) /\ Cardinality(LostIn(l, f)) \in Nat
  <1>1. IsFiniteSet(Index)
    BY FS_Interval, CodingAssumption DEF Index
  <1>2. LostIn(l, f) \subseteq Index
    BY DEF LostIn
  <1> QED
    BY <1>1, <1>2, FS_Subset, FS_CardinalityType

\* Files that lose nothing a layout has keep its misses few.
LEMMA FewKept ==
  ASSUME NEW l, NEW f, NEW f2, NEW n \in Nat, Few(l, f, n),
         \A i \in Index : f[l.hash][l.places[i]][i] = "good" => f2[l.hash][l.places[i]][i] = "good"
  PROVE  Few(l, f2, n)
  <1>1. LostIn(l, f2) \subseteq LostIn(l, f)
    BY DEF LostIn
  <1>2. Cardinality(LostIn(l, f2)) <= Cardinality(LostIn(l, f))
    BY <1>1, LostFinite, FS_Subset
  <1> QED
    BY <1>2, LostFinite DEF Few

\* One file more that is lost is one miss more.
LEMMA FewLost ==
  ASSUME NEW l, NEW f, NEW f2, NEW n \in Nat, NEW j \in Index, Few(l, f, n),
         \A i \in Index \ {j} : f[l.hash][l.places[i]][i] = "good" => f2[l.hash][l.places[i]][i] = "good"
  PROVE  Few(l, f2, n + 1)
  <1>1. LostIn(l, f2) \subseteq LostIn(l, f) \cup {j}
    BY DEF LostIn
  <1>4. /\ IsFiniteSet(LostIn(l, f) \cup {j})
        /\ Cardinality(LostIn(l, f) \cup {j}) =
             IF j \in LostIn(l, f) THEN Cardinality(LostIn(l, f)) ELSE Cardinality(LostIn(l, f)) + 1
    BY LostFinite, FS_AddElement
  <1>2. /\ IsFiniteSet(LostIn(l, f) \cup {j})
        /\ Cardinality(LostIn(l, f) \cup {j}) <= Cardinality(LostIn(l, f)) + 1
        /\ Cardinality(LostIn(l, f) \cup {j}) \in Nat
    BY <1>4, LostFinite
  <1>3. Cardinality(LostIn(l, f2)) <= Cardinality(LostIn(l, f) \cup {j})
    BY <1>1, <1>2, FS_Subset
  <1> QED
    BY <1>2, <1>3, LostFinite DEF Few

\* A layout whose shards are all there misses none.
LEMMA FewNone ==
  ASSUME NEW l, NEW f, NEW n \in Nat, \A i \in Index : f[l.hash][l.places[i]][i] = "good"
  PROVE  Few(l, f, n)
  <1>1. LostIn(l, f) = {}
    BY DEF LostIn
  <1> QED
    BY <1>1, FS_EmptySet DEF Few

(***************************************************************************)
(* What a step leaves alone                                                 *)
(***************************************************************************)
\* A step changes only the records of object b and its contents.
Only(b) ==
    /\ \A o \in Objects : o # b => meta'[o] = meta[o] /\ disk'[o] = disk[o] /\ cache'[o] = cache[o]
    /\ \A c \in Contents : c \notin Mine(b) => refs'[c] = refs[c] /\ files'[c] = files[c]
    /\ losses' = losses

\* A step does no harm to the shards of o, and touches no other record of o.
Harmless(o) ==
    /\ meta'[o] = meta[o] /\ disk'[o] = disk[o] /\ cache'[o] = cache[o]
    /\ \A c \in Mine(o) : refs'[c] = refs[c] /\ files'[c] = files[c]
    /\ losses' = losses

LEMMA OnlyHarmless ==
  ASSUME Unshared, NEW b \in Objects, Only(b), NEW o \in Objects, o # b
  PROVE  Harmless(o)
  BY DEF Unshared, Only, Harmless, Mine

LEMMA UnchangedHarmless ==
  ASSUME UNCHANGED <<storeVars, losses>>
  PROVE  \A o \in Objects : Harmless(o)
  BY DEF Harmless, storeVars, layoutVars

LEMMA FewHarmless ==
  ASSUME TypeInv, NEW o \in Objects, Harmless(o), NEW l, l.hash \in Mine(o), Few(l, files, losses)
  PROVE  Few(l, files', losses')
  <1>1. losses \in Nat
    BY DEF TypeInv, CountersType
  <1> QED
    BY <1>1, FewKept DEF Harmless

LEMMA SoundHarmless ==
  ASSUME TypeInv, NEW o \in Objects, Harmless(o), NEW l, Sound(l, o, files, losses)
  PROVE  Sound(l, o, files', losses')
  BY FewHarmless DEF Sound

\* An object at rest stays at rest.
LEMMA RestHarmless ==
  ASSUME TypeInv, NEW o \in Objects, Harmless(o), Rest(o)
  PROVE  Rest(o)'
  <1>1. Sound(meta[o], o, files, losses) /\ meta'[o] = meta[o]
    BY DEF Rest, Harmless
  <1>2. Sound(meta'[o], o, files', losses')
    BY <1>1, SoundHarmless
  <1>3. RefAt(meta[o]) => RefAt(meta[o])'
    BY <1>1 DEF RefAt, Sound, Harmless
  <1> QED
    BY <1>2, <1>3 DEF Rest, Harmless, Linked, CountsAre

LEMMA DuringHarmless ==
  ASSUME TypeInv, NEW o \in Objects, Harmless(o), NEW p \in Procs, During(pc[p], req[p], o),
         pc'[p] = pc[p], req'[p] = req[p]
  PROVE  During(pc[p], req[p], o)'
  <1> DEFINE l == pc[p]
             r == req[p]
             new == [hash |-> r.hash, places |-> r.to]
  <1>1. Rest(o) => Rest(o)'
    BY RestHarmless
  <1>2. \A k : Sound(k, o, files, losses) => Sound(k, o, files', losses')
    BY SoundHarmless
  <1>3. \A k : RefAt(k) /\ Sound(k, o, files, losses) => (k # NoLayout => refs'[k.hash].places = k.places)
    BY DEF RefAt, Sound, Harmless
  <1>4. l \in PutCalls => PutDuring(pc[p], req[p], o)'
    <2> SUFFICES ASSUME l \in PutCalls PROVE PutDuring(pc[p], req[p], o)'
      OBVIOUS
    <2>1. PutDuring(l, r, o)
      BY DEF During
    <2>2. r.hash \in Mine(o)
      BY <2>1 DEF PutDuring
    <2>3. l \in {"put_link", "put_retain"} => Few(new, files', losses')
      BY <2>1, <2>2, FewHarmless DEF PutDuring
    <2>4. \A i \in Index : files'[r.hash][r.to[i]][i] = files[r.hash][r.to[i]][i]
      BY <2>2 DEF Harmless
    <2> QED
      BY <1>2, <1>3, <2>1, <2>2, <2>3, <2>4 DEF PutDuring, Harmless, Linked, CountsAre, RefAt
  <1>5. l \in DeleteCalls => DeleteDuring(pc[p], req[p], o)'
    BY <1>2, <1>3 DEF During, DeleteDuring, Harmless, Linked, CountsAre, RefAt
  <1>6. l \in {"reb_next"} \cup MovingCalls => RebalanceDuring(pc[p], req[p], o)'
    BY <1>2 DEF During, RebalanceDuring, MovingDuring, NewLayout, MovedOff, Harmless, Linked, CountsAre
  <1>7. l \in RepairCalls => RepairDuring(pc[p], req[p], o)'
    BY DEF During, RepairDuring, Harmless
  <1> QED
    BY <1>1, <1>4, <1>5, <1>6, <1>7 DEF During

(***************************************************************************)
(* A step of a request: the other objects are left alone, and its own are   *)
(* as its next call finds them, or at rest.                                 *)
(***************************************************************************)
Ends(p, o) == IF pc[p] = "idle" THEN Rest(o) ELSE During(pc[p], req[p], o)

LEMMA StepKnown ==
  ASSUME TypeInv, Apart, Known, NEW p \in Procs, Step(p),
         \A o \in Objects \ Touches(p) : Harmless(o),
         \A o \in Objects : o \in Touches(p) => Ends(p, o)'
  PROVE  Known'
  <1> SUFFICES ASSUME NEW o \in Objects
               PROVE  /\ Settled(o)' => Rest(o)'
                      /\ \A q \in Procs : (o \in Touches(q))' => During(pc[q], req[q], o)'
    BY DEF Known
  <1>1. /\ Touches(p)' = IF pc'[p] = "idle" THEN {} ELSE Touches(p)
        /\ \A q \in Procs : q # p => pc'[q] = pc[q] /\ req'[q] = req[q] /\ Touches(q)' = Touches(q)
    BY StepTouches
  <1>2. ASSUME o \in Touches(p) PROVE Settled(o)' => Rest(o)'
    <2>1. Settled(o)' => pc'[p] = "idle"
      BY <1>1, <1>2 DEF Settled
    <2> QED
      BY <1>2, <2>1 DEF Ends
  <1>3. ASSUME o \notin Touches(p) PROVE Settled(o)' => Rest(o)'
    <2>1. Settled(o)' => Settled(o)
      BY <1>1, <1>3 DEF Settled
    <2> QED
      BY <1>3, <2>1, RestHarmless DEF Known
  <1>4. ASSUME NEW q \in Procs, (o \in Touches(q))' PROVE During(pc[q], req[q], o)'
    <2>1. CASE q = p
      BY <1>1, <1>4, <2>1 DEF Ends
    <2>2. CASE q # p
      <3>1. o \in Touches(q) /\ pc'[q] = pc[q] /\ req'[q] = req[q]
        BY <1>1, <1>4, <2>2
      <3>2. o \notin Touches(p) /\ During(pc[q], req[q], o)
        BY <2>2, <3>1 DEF Apart, Known
      <3> QED
        BY <3>1, <3>2, DuringHarmless
    <2> QED
      BY <2>1, <2>2
  <1> QED
    BY <1>2, <1>3, <1>4

LEMMA ObjectTouches ==
  ASSUME TypeInv, NEW p \in Procs, ObjectStep(p)
  PROVE  /\ pc[p] \in ObjectCalls /\ req[p].obj \in Objects
         /\ Touches(p) = {req[p].obj} /\ req[p] \in Requests
  <1>1. pc[p] \in ObjectCalls
    BY DEF ObjectStep, PutLoad, PutLoadRef, PutRef, PutPlan, PutWrite, PutLink, PutRetain, PutCommit,
           DeleteLoad, DeleteMeta, DeleteLayout, ReleaseRef, ReleaseBlob, FixHealth, FixRead, FixWrite, At,
           ObjectCalls, PutCalls, DeleteCalls, RepairCalls
  <1>2. Shape(pc[p], req[p]) /\ req[p] \in Requests
    BY DEF TypeInv, ControlOK, ControlType
  <1>3. req[p].obj \in Objects
    BY <1>1, <1>2 DEF Shape
  <1>4. req[p].op \in ObjectOps /\ pc[p] # "idle"
    BY <1>1, <1>2 DEF Shape, PutShape, DeleteShape, RepairShape, ObjectOps, ObjectCalls, PutCalls,
                      DeleteCalls, RepairCalls
  <1> QED
    BY <1>1, <1>2, <1>3, <1>4 DEF Touches

LEMMA ObjectKnown ==
  ASSUME TypeInv, Apart, Known, Unshared, NEW p \in Procs, ObjectStep(p),
         NEW b \in Objects, req[p].obj = b, Only(b), Ends(p, b)'
  PROVE  Known'
  <1>1. Touches(p) = {b}
    BY ObjectTouches
  <1>2. \A o \in Objects \ Touches(p) : Harmless(o)
    BY <1>1, OnlyHarmless
  <1>3. \A o \in Objects : o \in Touches(p) => Ends(p, o)'
    BY <1>1
  <1> QED
    BY <1>2, <1>3, StepKnown DEF Step

\* Steps that read, or work on the membership, leave every record alone.
LEMMA MemberStepStays ==
  ASSUME TypeInv, NEW p \in Procs, MemberStep(p)
  PROVE  /\ UNCHANGED <<storeVars, losses, faults>>
         /\ pc[p] \in MemberCalls
         /\ pc'[p] \in MemberCalls \cup {"idle", "drain", "reb_list"}
  <1> USE DEF At, Sync, Goto, Return, Enter, Nothing, StoreOnly, counters
  <1>1. pc \in [Procs -> Calls] /\ Shape(pc[p], req[p])
    BY DEF TypeInv, ControlOK, ControlType
  <1>2. UNCHANGED <<storeVars, losses, faults>>
    BY DEF MemberStep, SyncGet, SyncSet, JoinGet, DecommissionGet, ReplaceGet, RemoveGet,
           RebalanceGet, Add, Check, Remove, AllGet, AllAdd, AllMid, AllRemove
  <1>3. pc[p] \in MemberCalls
    BY DEF MemberStep, SyncGet, SyncSet, JoinGet, DecommissionGet, ReplaceGet, RemoveGet,
           RebalanceGet, Add, Check, Remove, AllGet, AllAdd, AllMid, AllRemove, MemberCalls
  <1>4. pc'[p] \in MemberCalls \cup {"idle", "drain", "reb_list"}
    <2>1. CASE SyncSet(p)
      <3>1. pc'[p] = req[p].ret /\ req[p].ret \in {"idle", "drain"}
        BY <1>1, <2>1, MemberFacts DEF SyncSet, MemberShape, MemberCalls
      <3> QED
        BY <3>1
    <2>2. CASE ~SyncSet(p)
      BY <1>1, <2>2 DEF MemberStep, SyncGet, JoinGet, DecommissionGet, ReplaceGet, RemoveGet,
           RebalanceGet, Add, Check, Remove, AllGet, AllAdd, AllMid, AllRemove, MemberCalls
    <2> QED
      BY <2>1, <2>2
  <1> QED
    BY <1>2, <1>3, <1>4

LEMMA MemberKnown ==
  ASSUME TypeInv, Apart, Known, NEW p \in Procs, MemberStep(p)
  PROVE  Known'
  <1>1. /\ UNCHANGED <<storeVars, losses>> /\ pc[p] \in MemberCalls
        /\ pc'[p] \in MemberCalls \cup {"idle", "drain", "reb_list"}
    BY MemberStepStays
  <1>2. \A o \in Objects : Harmless(o)
    BY <1>1, UnchangedHarmless
  <1>3. ASSUME NEW o \in Objects, o \in Touches(p) PROVE Ends(p, o)'
    <2>1. Rest(o)
      BY <1>1, <1>3 DEF Known, During, Changing, MemberCalls
    <2>2. Rest(o)'
      BY <1>2, <2>1, RestHarmless
    <2> QED
      BY <1>1, <2>2 DEF Ends, During, MemberCalls, PutCalls, DeleteCalls, RepairCalls, MovingCalls
  <1> QED
    BY <1>2, <1>3, StepKnown DEF Step

(***************************************************************************)
(* Put, delete and repair                                                   *)
(***************************************************************************)
LEMMA OwnFacts ==
  ASSUME TypeInv, Known, NEW p \in Procs, NEW b \in Objects, pc[p] \in ObjectCalls, req[p].obj = b
  PROVE  /\ During(pc[p], req[p], b) /\ req[p] \in Requests /\ Shape(pc[p], req[p])
         /\ meta[b] \in Kept /\ meta \in [Objects -> Kept] /\ refs \in [Contents -> [count : Nat, places : Placements]]
         /\ files \in FilesSpace /\ losses \in Nat
  <1>1. req[p] \in Requests /\ Shape(pc[p], req[p])
    BY DEF TypeInv, ControlOK, ControlType
  <1>2. req[p].op \in ObjectOps /\ pc[p] # "idle"
    BY <1>1 DEF Shape, PutShape, DeleteShape, RepairShape, ObjectOps, ObjectCalls, PutCalls,
                DeleteCalls, RepairCalls
  <1>3. Touches(p) = {b}
    BY <1>2 DEF Touches
  <1>4. During(pc[p], req[p], b)
    BY <1>3 DEF Known
  <1> QED
    BY <1>1, <1>4 DEF TypeInv, StoreType, MetaType, RefsType, FilesType, FilesSpace, CountersType

\* What a put, a delete and a repair know of their object.
LEMMA PutKnows ==
  ASSUME TypeInv, Known, NEW p \in Procs, NEW b \in Objects, req[p].obj = b, pc[p] \in PutCalls
  PROVE  /\ pc[p] \notin {"put_retain", "put_commit"} => Rest(b)
         /\ PutDuring(pc[p], req[p], b) /\ PutShape(pc[p], req[p])
  <1>1. During(pc[p], req[p], b) /\ Shape(pc[p], req[p])
    BY OwnFacts DEF ObjectCalls
  <1>2. PutDuring(pc[p], req[p], b) /\ PutShape(pc[p], req[p])
    BY <1>1 DEF During, Shape
  <1>3. pc[p] \notin {"put_retain", "put_commit"} => pc[p] \notin Changing
    BY DEF Changing, PutCalls
  <1> QED
    BY <1>1, <1>2, <1>3 DEF During

LEMMA DeleteKnows ==
  ASSUME TypeInv, Known, NEW p \in Procs, NEW b \in Objects, req[p].obj = b, pc[p] \in DeleteCalls
  PROVE  /\ pc[p] \notin {"del_layout", "rel_ref"} => Rest(b)
         /\ DeleteDuring(pc[p], req[p], b)
  <1>1. During(pc[p], req[p], b)
    BY OwnFacts DEF ObjectCalls
  <1>2. pc[p] \notin {"del_layout", "rel_ref"} => pc[p] \notin Changing
    BY DEF Changing, DeleteCalls
  <1> QED
    BY <1>1, <1>2 DEF During

LEMMA RepairKnows ==
  ASSUME TypeInv, Known, NEW p \in Procs, NEW b \in Objects, req[p].obj = b, pc[p] \in RepairCalls
  PROVE  Rest(b) /\ RepairDuring(pc[p], req[p], b)
  <1>1. During(pc[p], req[p], b)
    BY OwnFacts DEF ObjectCalls
  <1>2. pc[p] \notin Changing
    BY DEF Changing, RepairCalls
  <1> QED
    BY <1>1, <1>2 DEF During

LEMMA EnterFacts ==
  ASSUME TypeInv, NEW p \in Procs, NEW l, NEW r, Enter(p, l, r)
  PROVE  pc'[p] = l /\ (l # "idle" => req'[p] = r)
  BY DEF TypeInv, ControlOK, ControlType, Enter

LEMMA GotoFacts ==
  ASSUME TypeInv, NEW p \in Procs, NEW l, Goto(p, l)
  PROVE  pc'[p] = l /\ (l # "idle" => req'[p] = req[p])
  BY EnterFacts DEF Goto

LEMMA ReturnFacts ==
  ASSUME TypeInv, NEW p \in Procs, Return(p)
  PROVE  pc'[p] = "idle"
  BY GotoFacts DEF Return

LEMMA QuietEnds ==
  ASSUME TypeInv, NEW b \in Objects, UNCHANGED <<storeVars, losses>>
  PROVE  Only(b) /\ (Rest(b) => Rest(b)')
  BY UnchangedHarmless, RestHarmless DEF Only, storeVars, layoutVars

LEMMA NoneFacts ==
  ASSUME NEW o \in Objects
  PROVE  /\ NoLayout.hash = None /\ None \notin Mine(o) /\ Mine(o) \subseteq Contents
         /\ \A l \in Kept : l.hash \in Mine(o) => l # NoLayout /\ l \in Real
         /\ \A l \in Real : l = [hash |-> l.hash, places |-> l.places]
  BY ConstantFacts, KeptFacts DEF NoLayout, Mine, Real

LEMMA PutLoadKnown ==
  ASSUME TypeInv, Known, NEW p \in Procs, NEW b \in Objects, req[p].obj = b, PutLoad(p)
  PROVE  Only(b) /\ Ends(p, b)'
  <1> DEFINE r == req[p]
  <1>0. r \in Requests
    BY DEF TypeInv, ControlOK, ControlType
  <1>1. pc[p] = "put_load" /\ pc[p] \in ObjectCalls /\ pc[p] \in PutCalls
    BY DEF PutLoad, At, ObjectCalls, PutCalls
  <1>k. Rest(b) /\ PutDuring(pc[p], req[p], b)
    BY <1>1, PutKnows
  <1>2. Rest(b) /\ r.hash \in Mine(b) /\ ~r.hit /\ r \in Requests
    BY <1>0, <1>1, <1>k DEF PutDuring
  <1>3. UNCHANGED <<storeVars, losses>>
    BY DEF PutLoad, Nothing, StoreOnly, counters
  <1>4. /\ pc'[p] \in {"put_ref", "put_loadref"} /\ req'[p] = [r EXCEPT !.ex = meta[r.obj]]
    BY EnterFacts DEF PutLoad
  <1>5. req'[p].hash = r.hash /\ req'[p].hit = r.hit /\ req'[p].ex = meta[b]
    BY <1>2, <1>4 DEF Requests
  <1>6. meta' = meta /\ Rest(b)' /\ Only(b)
    BY <1>2, <1>3, QuietEnds DEF storeVars
  <1>7. PutDuring(pc[p], req[p], b)'
    BY <1>2, <1>4, <1>5, <1>6 DEF PutDuring
  <1> QED
    BY <1>4, <1>6, <1>7 DEF Ends, During, PutCalls, DeleteCalls, RepairCalls, MovingCalls

LEMMA PutLoadRefKnown ==
  ASSUME TypeInv, Known, NEW p \in Procs, NEW b \in Objects, req[p].obj = b, PutLoadRef(p)
  PROVE  Only(b) /\ Ends(p, b)'
  <1> DEFINE r == req[p]
             ref == refs[r.ex.hash]
  <1>0. r \in Requests
    BY DEF TypeInv, ControlOK, ControlType
  <1>1. pc[p] = "put_loadref" /\ pc[p] \in ObjectCalls /\ pc[p] \in PutCalls
    BY DEF PutLoadRef, At, ObjectCalls, PutCalls
  <1>k. Rest(b) /\ PutDuring(pc[p], req[p], b)
    BY <1>1, PutKnows
  <1>2. Rest(b) /\ r.hash \in Mine(b) /\ ~r.hit /\ r.ex = meta[b] /\ r \in Requests
    BY <1>0, <1>1, <1>k DEF PutDuring
  <1>3. UNCHANGED <<storeVars, losses>>
    BY DEF PutLoadRef, Nothing, StoreOnly, counters
  <1>4. /\ pc'[p] = "put_ref" /\ req'[p] = [r EXCEPT !.exRef = ref.count > 0, !.exPlaces = ref.places]
    BY EnterFacts DEF PutLoadRef
  <1>5. req'[p].hash = r.hash /\ req'[p].hit = r.hit /\ req'[p].ex = meta[b]
    BY <1>2, <1>4 DEF Requests
  <1>6. meta' = meta /\ Rest(b)' /\ Only(b)
    BY <1>2, <1>3, QuietEnds DEF storeVars
  <1>7. PutDuring(pc[p], req[p], b)'
    BY <1>2, <1>4, <1>5, <1>6 DEF PutDuring
  <1> QED
    BY <1>4, <1>6, <1>7 DEF Ends, During, PutCalls, DeleteCalls, RepairCalls, MovingCalls

LEMMA PutRefKnown ==
  ASSUME TypeInv, Known, NEW p \in Procs, NEW b \in Objects, req[p].obj = b, PutRef(p)
  PROVE  Only(b) /\ Ends(p, b)'
  <1> DEFINE r == req[p]
             ref == refs[r.hash]
  <1>0. r \in Requests
    BY DEF TypeInv, ControlOK, ControlType
  <1>1. pc[p] = "put_ref" /\ pc[p] \in ObjectCalls /\ pc[p] \in PutCalls
    BY DEF PutRef, At, ObjectCalls, PutCalls
  <1>k. Rest(b) /\ PutDuring(pc[p], req[p], b)
    BY <1>1, PutKnows
  <1>2. Rest(b) /\ r.hash \in Mine(b) /\ ~r.hit /\ r.ex = meta[b] /\ r \in Requests
    BY <1>0, <1>1, <1>k DEF PutDuring
  <1>3. UNCHANGED <<storeVars, losses>>
    BY DEF PutRef, Nothing, StoreOnly, counters
  <1>4. meta' = meta /\ files' = files /\ losses' = losses /\ Rest(b)' /\ Only(b)
    BY <1>2, <1>3, QuietEnds DEF storeVars
  <1>5. meta[b] \in Kept /\ ref.count \in Nat /\ (ref.count > 0 <=> r.hash = meta[b].hash)
    <2>1. ref.count = IF r.hash = meta[b].hash THEN 1 ELSE 0
      BY <1>2 DEF Rest, CountsAre
    <2> QED
      BY <1>1, <2>1, OwnFacts
  <1>6. CASE ref.count > 0
    <2>1. pc'[p] = "put_link" /\ req'[p] = [r EXCEPT !.hit = TRUE, !.to = ref.places]
      BY <1>6, EnterFacts DEF PutRef
    <2>2. req'[p].hash = r.hash /\ req'[p].hit /\ req'[p].ex = meta[b] /\ req'[p].to = ref.places
      BY <1>2, <2>1 DEF Requests
    <2>3. meta[b] = [hash |-> r.hash, places |-> ref.places]
      <3>1. meta[b].hash = r.hash /\ meta[b] \in Real /\ meta[b] # NoLayout
        BY <1>2, <1>5, <1>6, NoneFacts
      <3>2. ref.places = meta[b].places
        BY <1>2, <3>1 DEF Rest, RefAt
      <3> QED
        BY <3>1, <3>2, NoneFacts
    <2>4. Few(meta[b], files, losses)
      <3>1. meta[b] # NoLayout
        BY <1>2, <1>5, <1>6, NoneFacts
      <3> QED
        BY <1>2, <3>1 DEF Rest, Sound
    <2>5. PutDuring(pc[p], req[p], b)'
      BY <1>2, <1>4, <2>1, <2>2, <2>3, <2>4 DEF PutDuring
    <2> QED
      BY <1>4, <2>1, <2>5 DEF Ends, During, PutCalls, DeleteCalls, RepairCalls, MovingCalls
  <1>7. CASE ~(ref.count > 0)
    <2>1. pc'[p] = "put_plan" /\ req'[p] = r
      BY <1>7, GotoFacts DEF PutRef
    <2>2. PutDuring(pc[p], req[p], b)'
      BY <1>2, <1>4, <1>5, <1>7, <2>1 DEF PutDuring
    <2> QED
      BY <1>4, <2>1, <2>2 DEF Ends, During, PutCalls, DeleteCalls, RepairCalls, MovingCalls
  <1> QED
    BY <1>4, <1>6, <1>7

LEMMA PutPlanKnown ==
  ASSUME TypeInv, Known, NEW p \in Procs, NEW b \in Objects, req[p].obj = b, PutPlan(p)
  PROVE  Only(b) /\ Ends(p, b)'
  <1> DEFINE r == req[p]
  <1>0. r \in Requests
    BY DEF TypeInv, ControlOK, ControlType
  <1>1. pc[p] = "put_plan" /\ pc[p] \in PutCalls
    BY DEF PutPlan, At, PutCalls
  <1>k. Rest(b) /\ PutDuring(pc[p], req[p], b) /\ PutShape(pc[p], req[p])
    BY <1>1, PutKnows
  <1>2. r.hash \in Mine(b) /\ ~r.hit /\ r.ex = meta[b] /\ r.hash # meta[b].hash
    BY <1>1, <1>k DEF PutDuring
  <1>i. r.idx = 0
    BY <1>1, <1>k DEF PutShape
  <1>3. UNCHANGED <<storeVars, losses>>
    BY DEF PutPlan, Nothing, StoreOnly, counters
  <1>4. meta' = meta /\ Rest(b)' /\ Only(b)
    BY <1>k, <1>3, QuietEnds DEF storeVars
  <1>5. CASE Active = {}
    BY <1>4, <1>5, ReturnFacts DEF PutPlan, Ends
  <1>6. CASE Active # {}
    <2>1. pc'[p] = "put_write" /\ req'[p] = [r EXCEPT !.to = RoundRobin(Active)]
      BY <1>6, EnterFacts DEF PutPlan
    <2>2. req'[p].hash = r.hash /\ req'[p].hit = r.hit /\ req'[p].ex = r.ex /\ req'[p].idx = 0
      BY <1>0, <1>i, <2>1 DEF Requests
    <2>3. \A i \in Index : ~(i < 0)
      BY ConstantFacts DEF Index
    <2>4. PutDuring(pc[p], req[p], b)'
      BY <1>2, <1>4, <2>1, <2>2, <2>3 DEF PutDuring
    <2> QED
      BY <1>4, <2>1, <2>4 DEF Ends, During, PutCalls, DeleteCalls, RepairCalls, MovingCalls
  <1> QED
    BY <1>4, <1>5, <1>6

LEMMA SetFileFacts ==
  ASSUME files \in FilesSpace, NEW c \in Contents, NEW n \in Nodes, NEW i \in Index, NEW s,
         SetFile(c, n, i, s)
  PROVE  /\ \A d \in Contents : d # c => files'[d] = files[d]
         /\ \A m \in Nodes : m # n => files'[c][m] = files[c][m]
         /\ files'[c][n][i] = s
         /\ \A m \in Nodes, j \in Index : j # i => files'[c][m][j] = files[c][m][j]
  BY DEF SetFile, FilesSpace

\* The files of other contents are none of an object at rest.
LEMMA RestFiles ==
  ASSUME TypeInv, NEW b \in Objects, NEW c, Rest(b), c # meta[b].hash,
         \A d \in Contents : d # c => files'[d] = files[d],
         UNCHANGED <<refs, meta, layoutVars, losses>>
  PROVE  Rest(b)'
  <1>1. losses \in Nat
    BY DEF TypeInv, CountersType
  <1>2. meta[b] = NoLayout \/ (meta[b].hash \in Contents /\ files'[meta[b].hash] = files[meta[b].hash])
    BY DEF Rest, Sound, Mine
  <1>3. Sound(meta[b], b, files', losses)
    BY <1>1, <1>2, FewKept DEF Rest, Sound
  <1> QED
    BY <1>3 DEF Rest, Linked, CountsAre, RefAt, layoutVars

LEMMA PutWriteKnown ==
  ASSUME TypeInv, Known, NEW p \in Procs, NEW b \in Objects, req[p].obj = b, PutWrite(p)
  PROVE  Only(b) /\ Ends(p, b)'
  <1> DEFINE r == req[p]
  <1>0. r \in Requests /\ files \in FilesSpace /\ losses \in Nat
    BY DEF TypeInv, ControlOK, ControlType, StoreType, FilesType, FilesSpace, CountersType
  <1>1. pc[p] = "put_write" /\ pc[p] \in PutCalls
    BY DEF PutWrite, At, PutCalls
  <1>k. Rest(b) /\ PutDuring(pc[p], req[p], b) /\ PutShape(pc[p], req[p])
    BY <1>1, PutKnows
  <1>2. /\ r.hash \in Mine(b) /\ ~r.hit /\ r.ex = meta[b] /\ r.hash # meta[b].hash
        /\ \A i \in Index : i < r.idx => files[r.hash][r.to[i]][i] = "good"
    BY <1>1, <1>k DEF PutDuring
  <1>i. r.idx \in 0 .. Total /\ Total \in Nat /\ r.hash \in Contents /\ r.to \in Placements
    BY <1>0, <1>1, <1>k, ConstantFacts DEF PutShape, Requests
  <1>3. UNCHANGED <<refs, meta, layoutVars, losses>>
    BY DEF PutWrite, StoreOnly, counters
  <1>4. ASSUME files' = files PROVE Rest(b)' /\ Only(b)
    BY <1>k, <1>3, <1>4, QuietEnds DEF storeVars
  <1>5. CASE r.idx = Total
    <2>1. pc'[p] = "put_link" /\ req'[p] = r /\ files' = files
      BY <1>5, GotoFacts DEF PutWrite
    <2>2. Few([hash |-> r.hash, places |-> r.to], files, losses)
      <3>1. \A i \in Index : i < r.idx
        BY <1>5, <1>i DEF Index
      <3> QED
        BY <1>0, <1>2, <3>1, FewNone
    <2>3. PutDuring(pc[p], req[p], b)'
      BY <1>2, <1>3, <2>1, <2>2 DEF PutDuring
    <2> QED
      BY <1>4, <2>1, <2>3 DEF Ends, During, PutCalls, DeleteCalls, RepairCalls, MovingCalls
  <1>6. CASE r.idx # Total /\ Reachable(r.to[r.idx])
    <2>1. /\ pc'[p] = "put_write" /\ req'[p] = [r EXCEPT !.idx = @ + 1]
          /\ SetFile(r.hash, r.to[r.idx], r.idx, "good")
      BY <1>6, EnterFacts DEF PutWrite
    <2>2. req'[p].hash = r.hash /\ req'[p].hit = r.hit /\ req'[p].ex = r.ex /\ req'[p].idx = r.idx + 1
          /\ req'[p].to = r.to
      BY <1>0, <2>1 DEF Requests
    <2>3. r.idx \in Index /\ r.to[r.idx] \in Nodes
      BY <1>i, <1>6 DEF Index, Placements
    <2>4. /\ \A d \in Contents : d # r.hash => files'[d] = files[d]
          /\ files'[r.hash][r.to[r.idx]][r.idx] = "good"
          /\ \A n \in Nodes, i \in Index : i # r.idx => files'[r.hash][n][i] = files[r.hash][n][i]
      BY <1>0, <1>i, <2>1, <2>3, SetFileFacts
    <2>5. Rest(b)'
      BY <1>k, <1>2, <1>3, <2>4, RestFiles
    <2>6. \A i \in Index : i < r.idx + 1 => files'[r.hash][r.to[i]][i] = "good"
      <3> SUFFICES ASSUME NEW i \in Index, i < r.idx + 1 PROVE files'[r.hash][r.to[i]][i] = "good"
        OBVIOUS
      <3>1. i = r.idx \/ i < r.idx
        BY <1>i DEF Index
      <3>2. r.to[i] \in Nodes
        BY <1>i DEF Placements
      <3>3. CASE i = r.idx
        BY <2>4, <3>3
      <3>4. CASE i < r.idx /\ i # r.idx
        BY <1>2, <2>4, <3>2, <3>4
      <3> QED
        BY <3>1, <3>3, <3>4
    <2>7. PutDuring(pc[p], req[p], b)'
      <3>1. pc'[p] = "put_write" /\ meta' = meta
        BY <1>3, <2>1
      <3> QED
        BY <1>2, <2>2, <2>6, <3>1 DEF PutDuring
    <2>8. Only(b)
      BY <1>2, <1>3, <2>4 DEF Only, layoutVars
    <2> QED
      BY <2>1, <2>5, <2>7, <2>8 DEF Ends, During, PutCalls, DeleteCalls, RepairCalls, MovingCalls
  <1>7. CASE r.idx # Total /\ ~Reachable(r.to[r.idx])
    <2>1. pc'[p] = "idle" /\ files' = files
      BY <1>7, ReturnFacts DEF PutWrite
    <2> QED
      BY <1>4, <2>1 DEF Ends
  <1> QED
    BY <1>5, <1>6, <1>7

LEMMA PutLinkKnown ==
  ASSUME TypeInv, Known, NEW p \in Procs, NEW b \in Objects, req[p].obj = b, PutLink(p)
  PROVE  Only(b) /\ Ends(p, b)'
  <1> DEFINE r == req[p]
             new == [hash |-> r.hash, places |-> r.to]
  <1>0. r \in Requests /\ cache \in [Objects -> Kept] /\ disk \in [Objects -> Kept]
    BY DEF TypeInv, ControlOK, ControlType, StoreType, EngineType
  <1>1. pc[p] = "put_link" /\ pc[p] \in PutCalls
    BY DEF PutLink, At, PutCalls
  <1>k. Rest(b) /\ PutDuring(pc[p], req[p], b)
    BY <1>1, PutKnows
  <1>2. /\ r.hash \in Mine(b) /\ r.ex = meta[b]
        /\ Few(new, files, losses)
        /\ IF r.hit THEN meta[b] = new ELSE r.hash # meta[b].hash
    BY <1>1, <1>k DEF PutDuring
  <1>3. /\ UNCHANGED <<files, refs, meta, losses>>
        /\ LinkObject(b, new)
        /\ pc'[p] = "put_retain" /\ req'[p] = [r EXCEPT !.lay = new]
    BY EnterFacts DEF PutLink, StoreOnly, counters
  <1>4. /\ req'[p].hash = r.hash /\ req'[p].hit = r.hit /\ req'[p].ex = r.ex /\ req'[p].to = r.to
        /\ req'[p].lay = new
    BY <1>0, <1>3 DEF Requests
  <1>5. disk'[b] = new /\ cache'[b] = new /\ \A o \in Objects : o # b => disk'[o] = disk[o] /\ cache'[o] = cache[o]
    BY <1>0, <1>3 DEF LinkObject
  <1>6. /\ Sound(meta[b], b, files, losses) /\ CountsAre(b, {meta[b].hash})' /\ RefAt(meta[b])'
    BY <1>k, <1>3 DEF Rest, CountsAre, RefAt
  <1>7. Linked(b, req[p].lay)'
    BY <1>4, <1>5 DEF Linked
  <1>8. PutDuring(pc[p], req[p], b)'
    BY <1>2, <1>3, <1>4, <1>6, <1>7 DEF PutDuring
  <1>9. Only(b)
    BY <1>3, <1>5 DEF Only
  <1> QED
    BY <1>3, <1>8, <1>9 DEF Ends, During, PutCalls, DeleteCalls, RepairCalls, MovingCalls, Changing

LEMMA PutRetainKnown ==
  ASSUME TypeInv, Known, NEW p \in Procs, NEW b \in Objects, req[p].obj = b, PutRetain(p)
  PROVE  Only(b) /\ Ends(p, b)'
  <1> DEFINE r == req[p]
             ref == refs[r.hash]
             new == [hash |-> r.hash, places |-> r.to]
  <1>0. r \in Requests /\ refs \in [Contents -> [count : Nat, places : Placements]]
    BY DEF TypeInv, ControlOK, ControlType, StoreType, RefsType
  <1>1. pc[p] = "put_retain" /\ pc[p] \in PutCalls
    BY DEF PutRetain, At, PutCalls
  <1>k. PutDuring(pc[p], req[p], b)
    BY <1>1, PutKnows
  <1>2. /\ r.hash \in Mine(b) /\ r.ex = meta[b]
        /\ Few(new, files, losses)
        /\ IF r.hit THEN meta[b] = new ELSE r.hash # meta[b].hash
        /\ r.lay = new
        /\ Sound(meta[b], b, files, losses) /\ Linked(b, r.lay)
        /\ CountsAre(b, {meta[b].hash}) /\ RefAt(meta[b])
    BY <1>1, <1>k DEF PutDuring
  <1>3. UNCHANGED <<files, meta, losses>> /\ Mine(b) \subseteq Contents
    BY NoneFacts DEF PutRetain, StoreOnly, counters
  <1>4. Goto(p, "put_commit") /\ UNCHANGED layoutVars
    BY <1>2 DEF PutRetain
  <1>5. pc'[p] = "put_commit" /\ req'[p] = r
    BY <1>4, GotoFacts
  <1>6. /\ \A c \in Contents : c # r.hash => refs'[c] = refs[c]
        /\ refs'[r.hash].count = 1
        /\ refs'[r.hash].places = r.to
    <2>1. CASE ~r.hit
      <3>1. ref.count = 0
        BY <1>2, <2>1 DEF CountsAre
      <3>2. refs' = [refs EXCEPT ![r.hash] = [count |-> 1, places |-> r.to]]
        BY <2>1, <3>1 DEF PutRetain
      <3> QED
        BY <1>0, <1>2, <1>3, <3>2
    <2>2. CASE r.hit
      <3>1. r.ex.hash = r.hash /\ ref.count = 1 /\ meta[b] = new
        BY <1>2, <2>2 DEF CountsAre
      <3>2. meta[b] # NoLayout
        BY <1>2, <3>1, NoneFacts
      <3>3. ref.places = r.to
        BY <1>2, <3>1, <3>2 DEF RefAt
      <3>4. refs' = refs
        BY <2>2, <3>1 DEF PutRetain
      <3> QED
        BY <3>1, <3>3, <3>4
    <2> QED
      BY <2>1, <2>2
  <1>7. CountsAre(b, {meta[b].hash, req[p].hash})'
    BY <1>2, <1>3, <1>5, <1>6 DEF CountsAre
  <1>8. Sound(new, b, files, losses)
    BY <1>2 DEF Sound
  <1>9. RefAt(req[p].lay)'
    BY <1>2, <1>5, <1>6 DEF RefAt
  <1>10. Linked(b, req[p].lay)'
    BY <1>2, <1>4, <1>5 DEF Linked, layoutVars
  <1>11. r.lay.hash = r.hash
    BY <1>2
  <1>12. PutDuring(pc[p], req[p], b)'
    BY <1>2, <1>3, <1>5, <1>7, <1>8, <1>9, <1>10, <1>11 DEF PutDuring
  <1>13. Only(b)
    BY <1>2, <1>3, <1>4, <1>6 DEF Only, layoutVars
  <1> QED
    BY <1>5, <1>12, <1>13 DEF Ends, During, PutCalls, DeleteCalls, RepairCalls, MovingCalls, Changing

LEMMA PutCommitKnown ==
  ASSUME TypeInv, Known, NEW p \in Procs, NEW b \in Objects, req[p].obj = b, PutCommit(p)
  PROVE  Only(b) /\ Ends(p, b)'
  <1> DEFINE r == req[p]
  <1>0. r \in Requests /\ meta \in [Objects -> Kept] /\ meta[b] \in Kept
    BY DEF TypeInv, ControlOK, ControlType, StoreType, MetaType
  <1>1. pc[p] = "put_commit" /\ pc[p] \in PutCalls
    BY DEF PutCommit, At, PutCalls
  <1>k. PutDuring(pc[p], req[p], b) /\ PutShape(pc[p], req[p])
    BY <1>1, PutKnows
  <1>2. /\ r.hash \in Mine(b) /\ r.ex = meta[b] /\ r.lay.hash = r.hash
        /\ Sound(meta[b], b, files, losses) /\ Sound(r.lay, b, files, losses) /\ Linked(b, r.lay)
        /\ CountsAre(b, {meta[b].hash, r.hash}) /\ RefAt(r.lay)
    BY <1>1, <1>k DEF PutDuring
  <1>3. UNCHANGED <<files, refs, layoutVars, losses>>
    BY DEF PutCommit, StoreOnly, counters
  <1>4. meta'[b] = r.lay /\ \A o \in Objects : o # b => meta'[o] = meta[o]
    BY <1>0 DEF PutCommit
  <1>5. Only(b)
    BY <1>3, <1>4 DEF Only, layoutVars
  <1>6. CASE r.ex = NoLayout \/ r.ex.hash = r.hash
    <2>1. pc'[p] = "idle"
      BY <1>6, ReturnFacts DEF PutCommit
    <2>2. CountsAre(b, {r.hash})
      <3>1. \A c \in Mine(b) : c \in {meta[b].hash, r.hash} <=> c \in {r.hash}
        BY <1>2, <1>6, NoneFacts
      <3> QED
        BY <1>2, <3>1 DEF CountsAre
    <2>3. Rest(b)'
      BY <1>2, <1>3, <1>4, <2>2 DEF Rest, Linked, RefAt, CountsAre, layoutVars
    <2> QED
      BY <1>5, <2>1, <2>3 DEF Ends
  <1>7. CASE ~(r.ex = NoLayout \/ r.ex.hash = r.hash)
    <2>1. pc'[p] = "rel_ref" /\ req'[p] = [r EXCEPT !.hash = r.ex.hash]
      BY <1>7, EnterFacts DEF PutCommit
    <2>2. req'[p].hash = meta[b].hash
      BY <1>0, <1>2, <2>1 DEF Requests
    <2>3. meta[b].hash \in Mine(b) /\ meta[b].hash # r.hash
      BY <1>2, <1>7 DEF Sound
    <2>4. CountsAre(b, {meta[b].hash, req[p].hash})'
      BY <1>2, <1>3, <1>4, <2>2 DEF CountsAre
    <2>5. /\ Sound(meta[b], b, files, losses)' /\ Linked(b, meta[b])' /\ RefAt(meta[b])'
      <3>1. Sound(meta'[b], b, files', losses')
        BY <1>2, <1>3, <1>4
      <3> QED
        BY <1>2, <1>3, <1>4, <3>1 DEF Linked, RefAt, layoutVars
    <2>6. req'[p].hash \in Mine(b) /\ req'[p].hash # meta'[b].hash
      BY <1>2, <1>4, <2>2, <2>3
    <2>7. DeleteDuring(pc[p], req[p], b)'
      BY <2>1, <2>4, <2>5, <2>6 DEF DeleteDuring
    <2> QED
      BY <1>5, <2>1, <2>7 DEF Ends, During, PutCalls, DeleteCalls, RepairCalls, MovingCalls, Changing
  <1> QED
    BY <1>6, <1>7

LEMMA DeleteLoadKnown ==
  ASSUME TypeInv, Known, NEW p \in Procs, NEW b \in Objects, req[p].obj = b, DeleteLoad(p)
  PROVE  Only(b) /\ Ends(p, b)'
  <1> DEFINE r == req[p]
  <1>0. r \in Requests
    BY DEF TypeInv, ControlOK, ControlType
  <1>1. pc[p] = "del_load" /\ pc[p] \in DeleteCalls
    BY DEF DeleteLoad, At, DeleteCalls
  <1>k. Rest(b)
    BY <1>1, DeleteKnows
  <1>3. UNCHANGED <<storeVars, losses>>
    BY DEF DeleteLoad, Nothing, StoreOnly, counters
  <1>4. meta' = meta /\ Rest(b)' /\ Only(b)
    BY <1>k, <1>3, QuietEnds DEF storeVars
  <1>5. CASE meta[b] = NoLayout
    BY <1>4, <1>5, ReturnFacts DEF DeleteLoad, Ends
  <1>6. CASE meta[b] # NoLayout
    <2>1. pc'[p] = "del_meta" /\ req'[p] = [r EXCEPT !.hash = meta[b].hash]
      BY <1>6, EnterFacts DEF DeleteLoad
    <2>2. req'[p].hash = meta[b].hash /\ meta[b].hash \in Mine(b)
      BY <1>0, <1>k, <1>6, <2>1 DEF Requests, Rest, Sound
    <2>3. DeleteDuring(pc[p], req[p], b)'
      BY <1>4, <2>1, <2>2 DEF DeleteDuring
    <2> QED
      BY <1>4, <2>1, <2>3 DEF Ends, During, PutCalls, DeleteCalls, RepairCalls, MovingCalls
  <1> QED
    BY <1>4, <1>5, <1>6

LEMMA DeleteMetaKnown ==
  ASSUME TypeInv, Known, NEW p \in Procs, NEW b \in Objects, req[p].obj = b, DeleteMeta(p)
  PROVE  Only(b) /\ Ends(p, b)'
  <1> DEFINE r == req[p]
  <1>0. meta \in [Objects -> Kept]
    BY DEF TypeInv, StoreType, MetaType
  <1>1. pc[p] = "del_meta" /\ pc[p] \in DeleteCalls
    BY DEF DeleteMeta, At, DeleteCalls
  <1>k. Rest(b) /\ DeleteDuring(pc[p], req[p], b)
    BY <1>1, DeleteKnows
  <1>2. r.hash \in Mine(b) /\ r.hash = meta[b].hash
    BY <1>1, <1>k DEF DeleteDuring
  <1>3. UNCHANGED <<files, refs, layoutVars, losses>> /\ pc'[p] = "del_layout" /\ req'[p] = r
    BY GotoFacts DEF DeleteMeta, StoreOnly, counters
  <1>4. meta'[b] = NoLayout /\ \A o \in Objects : o # b => meta'[o] = meta[o]
    BY <1>0 DEF DeleteMeta
  <1>5. Only(b)
    BY <1>3, <1>4 DEF Only, layoutVars
  <1>6. CountsAre(b, {req[p].hash})'
    BY <1>k, <1>2, <1>3 DEF Rest, CountsAre
  <1>7. DeleteDuring(pc[p], req[p], b)'
    BY <1>2, <1>3, <1>4, <1>6 DEF DeleteDuring
  <1> QED
    BY <1>3, <1>5, <1>7 DEF Ends, During, PutCalls, DeleteCalls, RepairCalls, MovingCalls, Changing

LEMMA DeleteLayoutKnown ==
  ASSUME TypeInv, Known, NEW p \in Procs, NEW b \in Objects, req[p].obj = b, DeleteLayout(p)
  PROVE  Only(b) /\ Ends(p, b)'
  <1> DEFINE r == req[p]
  <1>0. cache \in [Objects -> Kept] /\ disk \in [Objects -> Kept]
    BY DEF TypeInv, StoreType, EngineType
  <1>1. pc[p] = "del_layout" /\ pc[p] \in DeleteCalls
    BY DEF DeleteLayout, At, DeleteCalls
  <1>k. DeleteDuring(pc[p], req[p], b)
    BY <1>1, DeleteKnows
  <1>2. r.hash \in Mine(b) /\ meta[b] = NoLayout /\ CountsAre(b, {r.hash})
    BY <1>1, <1>k DEF DeleteDuring
  <1>3. UNCHANGED <<files, refs, meta, losses>> /\ pc'[p] = "rel_ref" /\ req'[p] = r
    BY GotoFacts DEF DeleteLayout, StoreOnly, counters
  <1>4. /\ disk'[b] = NoLayout /\ cache'[b] = NoLayout
        /\ \A o \in Objects : o # b => disk'[o] = disk[o] /\ cache'[o] = cache[o]
    BY <1>0 DEF DeleteLayout, DeleteObjectLayout, LinkObject
  <1>5. Only(b)
    BY <1>3, <1>4 DEF Only
  <1>6. CountsAre(b, {meta[b].hash, req[p].hash})'
    BY <1>2, <1>3, NoneFacts DEF CountsAre
  <1>7. Linked(b, meta[b])' /\ Sound(meta[b], b, files, losses)' /\ RefAt(meta[b])'
    BY <1>2, <1>3, <1>4 DEF Linked, Sound, RefAt
  <1>8. r.hash # meta[b].hash
    BY <1>2, NoneFacts
  <1>9. DeleteDuring(pc[p], req[p], b)'
    BY <1>2, <1>3, <1>6, <1>7, <1>8 DEF DeleteDuring
  <1> QED
    BY <1>3, <1>5, <1>9 DEF Ends, During, PutCalls, DeleteCalls, RepairCalls, MovingCalls, Changing

LEMMA ReleaseRefKnown ==
  ASSUME TypeInv, Known, NEW p \in Procs, NEW b \in Objects, req[p].obj = b, ReleaseRef(p)
  PROVE  Only(b) /\ Ends(p, b)'
  <1> DEFINE r == req[p]
  <1>0. refs \in [Contents -> [count : Nat, places : Placements]]
    BY DEF TypeInv, StoreType, RefsType
  <1>1. pc[p] = "rel_ref" /\ pc[p] \in DeleteCalls
    BY DEF ReleaseRef, At, DeleteCalls
  <1>k. DeleteDuring(pc[p], req[p], b)
    BY <1>1, DeleteKnows
  <1>2. /\ r.hash \in Mine(b) /\ r.hash # meta[b].hash
        /\ Sound(meta[b], b, files, losses) /\ Linked(b, meta[b]) /\ RefAt(meta[b])
        /\ CountsAre(b, {meta[b].hash, r.hash})
    BY <1>1, <1>k DEF DeleteDuring
  <1>3. r.hash \in Contents /\ Mine(b) \subseteq Contents /\ refs[r.hash].count = 1
    BY <1>2, NoneFacts DEF CountsAre
  <1>4. /\ refs' = [refs EXCEPT ![r.hash] = NoRef] /\ UNCHANGED <<files, meta, layoutVars, losses>>
        /\ pc'[p] = "rel_blob" /\ req'[p] = r
    BY <1>3, GotoFacts DEF ReleaseRef, StoreOnly, counters
  <1>5. refs'[r.hash].count = 0 /\ \A c \in Contents : c # r.hash => refs'[c] = refs[c]
    BY <1>0, <1>3, <1>4 DEF NoRef
  <1>6. Only(b)
    BY <1>2, <1>4, <1>5 DEF Only, layoutVars
  <1>7. Rest(b)'
    <2>1. CountsAre(b, {meta[b].hash})'
      BY <1>2, <1>3, <1>4, <1>5 DEF CountsAre
    <2>2. RefAt(meta[b])'
      BY <1>2, <1>3, <1>4, <1>5 DEF RefAt, Sound
    <2>3. Linked(b, meta[b])'
      BY <1>2, <1>4 DEF Linked, layoutVars
    <2>4. Sound(meta[b], b, files, losses)'
      BY <1>2, <1>4 DEF Sound, Few
    <2> QED
      BY <2>1, <2>2, <2>3, <2>4 DEF Rest
  <1>8. DeleteDuring(pc[p], req[p], b)'
    BY <1>2, <1>4 DEF DeleteDuring
  <1> QED
    BY <1>4, <1>6, <1>7, <1>8 DEF Ends, During, PutCalls, DeleteCalls, RepairCalls, MovingCalls, Changing

LEMMA ReleaseBlobKnown ==
  ASSUME TypeInv, Known, NEW p \in Procs, NEW b \in Objects, req[p].obj = b, ReleaseBlob(p)
  PROVE  Only(b) /\ Ends(p, b)'
  <1> DEFINE r == req[p]
  <1>0. files \in FilesSpace
    BY DEF TypeInv, StoreType, FilesType, FilesSpace
  <1>1. pc[p] = "rel_blob" /\ pc[p] \in DeleteCalls
    BY DEF ReleaseBlob, At, DeleteCalls
  <1>k. Rest(b) /\ DeleteDuring(pc[p], req[p], b)
    BY <1>1, DeleteKnows
  <1>2. r.hash \in Mine(b) /\ r.hash # meta[b].hash
    BY <1>1, <1>k DEF DeleteDuring
  <1>3. UNCHANGED <<refs, meta, layoutVars, losses>> /\ pc'[p] = "idle"
    BY ReturnFacts DEF ReleaseBlob, StoreOnly, counters
  <1>4. \A d \in Contents : d # r.hash => files'[d] = files[d]
    BY <1>0 DEF ReleaseBlob, DeleteBlob, FilesSpace
  <1>5. Rest(b)'
    BY <1>k, <1>2, <1>3, <1>4, RestFiles
  <1>6. Only(b)
    BY <1>2, <1>3, <1>4 DEF Only, layoutVars
  <1> QED
    BY <1>3, <1>5, <1>6 DEF Ends

\* At rest, the layout that is read is the committed one.
LEMMA ReadAtRest ==
  ASSUME NEW o \in Objects, Rest(o)
  PROVE  GetLayout(o) = meta[o]
  BY DEF Rest, Linked, GetLayout

LEMMA FixHealthKnown ==
  ASSUME TypeInv, Known, NEW p \in Procs, NEW b \in Objects, req[p].obj = b, FixHealth(p)
  PROVE  Only(b) /\ Ends(p, b)'
  <1> DEFINE r == req[p]
             bad == meta[b] = NoLayout \/ Good(meta[b]) = Index \/ Cardinality(Good(meta[b])) < Data
  <1>0. r \in Requests
    BY DEF TypeInv, ControlOK, ControlType
  <1>1. pc[p] = "fix_health" /\ pc[p] \in RepairCalls
    BY DEF FixHealth, At, RepairCalls
  <1>k. Rest(b)
    BY <1>1, RepairKnows
  <1>3. UNCHANGED <<storeVars, losses>>
    BY DEF FixHealth, Nothing, StoreOnly, counters
  <1>4. meta' = meta /\ Rest(b)' /\ Only(b)
    BY <1>k, <1>3, QuietEnds DEF storeVars
  <1>5. IF bad THEN Return(p) ELSE Enter(p, "fix_read", [r EXCEPT !.lay = meta[b]])
    BY <1>k, ReadAtRest DEF FixHealth
  <1>6. CASE bad
    BY <1>4, <1>5, <1>6, ReturnFacts DEF Ends
  <1>7. CASE ~bad
    <2>1. pc'[p] = "fix_read" /\ req'[p] = [r EXCEPT !.lay = meta[b]]
      BY <1>5, <1>7, EnterFacts
    <2>2. req'[p].lay = meta'[b]
      BY <1>0, <1>4, <2>1 DEF Requests
    <2> QED
      BY <1>4, <2>1, <2>2
         DEF Ends, During, RepairDuring, PutCalls, DeleteCalls, RepairCalls, MovingCalls
  <1> QED
    BY <1>4, <1>6, <1>7

LEMMA HeldAtRest ==
  ASSUME TypeInv, Known, NEW p \in Procs, NEW b \in Objects, req[p].obj = b,
         pc[p] \in {"fix_read", "fix_write"}
  PROVE  /\ Rest(b) /\ Held(p) = meta[b] /\ req[p].lay = meta[b]
         /\ meta[b] \in Real /\ meta[b].hash \in Mine(b)
  <1>1. pc[p] \in RepairCalls /\ pc[p] # "fix_health"
    BY DEF RepairCalls
  <1>2. Rest(b) /\ req[p].lay = meta[b]
    BY <1>1, RepairKnows DEF RepairDuring
  <1>3. meta[b] \in Real
    <2>1. Shape(pc[p], req[p])
      BY DEF TypeInv, ControlOK
    <2> QED
      BY <1>1, <1>2, <2>1 DEF Shape, RepairShape
  <1>4. Held(p) = meta[b]
    BY <1>2, ReadAtRest DEF Held
  <1>5. meta[b].hash \in Mine(b)
    BY <1>2, <1>3, KeptFacts DEF Rest, Sound
  <1> QED
    BY <1>2, <1>3, <1>4, <1>5

LEMMA FixReadKnown ==
  ASSUME TypeInv, Known, NEW p \in Procs, NEW b \in Objects, req[p].obj = b, FixRead(p)
  PROVE  Only(b) /\ Ends(p, b)'
  <1> DEFINE r == req[p]
  <1>0. r \in Requests
    BY DEF TypeInv, ControlOK, ControlType
  <1>1. pc[p] = "fix_read"
    BY DEF FixRead, At
  <1>2. Rest(b) /\ r.lay = meta[b]
    BY <1>1, HeldAtRest
  <1>3. UNCHANGED <<storeVars, losses>>
    BY DEF FixRead, Nothing, StoreOnly, counters
  <1>4. meta' = meta /\ Rest(b)' /\ Only(b)
    BY <1>2, <1>3, QuietEnds DEF storeVars
  <1>5. Return(p) \/ \E s : Enter(p, "fix_write", [r EXCEPT !.moved = s])
    BY DEF FixRead
  <1>6. CASE Return(p)
    BY <1>4, <1>6, ReturnFacts DEF Ends
  <1>7. ASSUME NEW s, Enter(p, "fix_write", [r EXCEPT !.moved = s]) PROVE Ends(p, b)'
    <2>1. pc'[p] = "fix_write" /\ req'[p] = [r EXCEPT !.moved = s]
      BY <1>7, EnterFacts
    <2>2. req'[p].lay = meta'[b]
      BY <1>0, <1>2, <1>4, <2>1 DEF Requests
    <2> QED
      BY <1>4, <2>1, <2>2
         DEF Ends, During, RepairDuring, PutCalls, DeleteCalls, RepairCalls, MovingCalls
  <1> QED
    BY <1>4, <1>5, <1>6, <1>7

LEMMA FixWriteKnown ==
  ASSUME TypeInv, Known, NEW p \in Procs, NEW b \in Objects, req[p].obj = b, FixWrite(p)
  PROVE  Only(b) /\ Ends(p, b)'
  <1> DEFINE r == req[p]
             l == meta[b]
  <1>0. r \in Requests /\ files \in FilesSpace /\ losses \in Nat
    BY DEF TypeInv, ControlOK, ControlType, StoreType, FilesType, FilesSpace, CountersType
  <1>1. pc[p] = "fix_write"
    BY DEF FixWrite, At
  <1>2. Rest(b) /\ Held(p) = l /\ r.lay = l /\ l \in Real /\ l.hash \in Mine(b)
    BY <1>1, HeldAtRest
  <1>3. UNCHANGED <<refs, meta, layoutVars, losses>>
    BY DEF FixWrite, StoreOnly, counters
  <1>4. ASSUME files' = files PROVE Rest(b)' /\ Only(b)
    BY <1>2, <1>3, <1>4, QuietEnds DEF storeVars
  <1>5. \/ Return(p) /\ files' = files
        \/ \E i \in Index : /\ SetFile(l.hash, l.places[i], i, "good")
                            /\ Enter(p, "fix_write", [r EXCEPT !.moved = @ \ {i}])
    <2>1. r.moved \subseteq Index
      BY <1>0 DEF Requests
    <2> QED
      BY <1>2, <2>1 DEF FixWrite
  <1>6. CASE Return(p) /\ files' = files
    BY <1>4, <1>6, ReturnFacts DEF Ends
  <1>7. ASSUME NEW i \in Index, SetFile(l.hash, l.places[i], i, "good"),
               Enter(p, "fix_write", [r EXCEPT !.moved = @ \ {i}])
        PROVE  Only(b) /\ Ends(p, b)'
    <2>1. pc'[p] = "fix_write" /\ req'[p] = [r EXCEPT !.moved = @ \ {i}]
      BY <1>7, EnterFacts
    <2>2. req'[p].lay = meta'[b]
      BY <1>0, <1>2, <1>3, <2>1 DEF Requests
    <2>3. l.hash \in Contents /\ l.places[i] \in Nodes /\ l.places \in [Index -> Nodes]
      BY <1>2 DEF Real, Placements
    <2>4. /\ \A d \in Contents : d # l.hash => files'[d] = files[d]
          /\ files'[l.hash][l.places[i]][i] = "good"
          /\ \A m \in Nodes, j \in Index : j # i => files'[l.hash][m][j] = files[l.hash][m][j]
      BY <1>0, <1>7, <2>3, SetFileFacts
    <2>5. \A j \in Index : files[l.hash][l.places[j]][j] = "good" => files'[l.hash][l.places[j]][j] = "good"
      <3> SUFFICES ASSUME NEW j \in Index, files[l.hash][l.places[j]][j] = "good"
                   PROVE  files'[l.hash][l.places[j]][j] = "good"
        OBVIOUS
      <3>1. l.places[j] \in Nodes
        BY <2>3
      <3>2. CASE j = i
        BY <2>4, <3>2
      <3>3. CASE j # i
        BY <2>4, <3>1, <3>3
      <3> QED
        BY <3>2, <3>3
    <2>6. Sound(l, b, files', losses)
      BY <1>0, <1>2, <2>5, FewKept DEF Rest, Sound
    <2>7. Rest(b)'
      BY <1>2, <1>3, <2>6 DEF Rest, Linked, CountsAre, RefAt, layoutVars
    <2>8. Only(b)
      BY <1>2, <1>3, <2>4 DEF Only, layoutVars
    <2> QED
      BY <2>1, <2>2, <2>7, <2>8
         DEF Ends, During, RepairDuring, PutCalls, DeleteCalls, RepairCalls, MovingCalls
  <1> QED
    BY <1>4, <1>5, <1>6, <1>7

LEMMA ObjectStepKnown ==
  ASSUME TypeInv, Apart, Known, Unshared, NEW p \in Procs, ObjectStep(p)
  PROVE  Known'
  <1>1. PICK b \in Objects : req[p].obj = b
    BY ObjectTouches
  <1>2. Only(b) /\ Ends(p, b)'
    <2>1. CASE PutLoad(p) \/ PutLoadRef(p) \/ PutRef(p) \/ PutPlan(p)
      BY <1>1, <2>1, PutLoadKnown, PutLoadRefKnown, PutRefKnown, PutPlanKnown
    <2>2. CASE PutWrite(p) \/ PutLink(p) \/ PutRetain(p) \/ PutCommit(p)
      BY <1>1, <2>2, PutWriteKnown, PutLinkKnown, PutRetainKnown, PutCommitKnown
    <2>3. CASE DeleteLoad(p) \/ DeleteMeta(p) \/ DeleteLayout(p)
      BY <1>1, <2>3, DeleteLoadKnown, DeleteMetaKnown, DeleteLayoutKnown
    <2>4. CASE ReleaseRef(p) \/ ReleaseBlob(p)
      BY <1>1, <2>4, ReleaseRefKnown, ReleaseBlobKnown
    <2>5. CASE FixHealth(p) \/ FixRead(p) \/ FixWrite(p)
      BY <1>1, <2>5, FixHealthKnown, FixReadKnown, FixWriteKnown
    <2> QED
      BY <2>1, <2>2, <2>3, <2>4, <2>5 DEF ObjectStep
  <1> QED
    BY <1>1, <1>2, ObjectKnown

(***************************************************************************)
(* Rebalance                                                                *)
(***************************************************************************)
LEMMA RebalanceTouches ==
  ASSUME TypeInv, NEW p \in Procs, RebalanceStep(p)
  PROVE  /\ pc[p] \in RebalanceCalls /\ Touches(p) = Objects
         /\ req[p] \in Requests /\ Shape(pc[p], req[p])
  <1>1. pc[p] \in RebalanceCalls
    BY DEF RebalanceStep, Drain, RebalanceList, RebalanceNext, RebalanceMove, RebalancePersist,
           RebalanceClean, RebalanceMeta, RebalanceRef, At, RebalanceCalls
  <1>2. req[p] \in Requests /\ Shape(pc[p], req[p])
    BY DEF TypeInv, ControlOK, ControlType
  <1>3. req[p].op \notin ObjectOps /\ pc[p] # "idle"
    BY <1>1, <1>2 DEF Shape, MemberShape, RebalanceCalls
  <1> QED
    BY <1>1, <1>2, <1>3 DEF Touches

\* A step that changes no record, at a call of which every object is at rest.
LEMMA RestKnown ==
  ASSUME TypeInv, Apart, Known, NEW p \in Procs, RebalanceStep(p), UNCHANGED <<storeVars, losses>>,
         \A o \in Objects : Rest(o),
         pc'[p] \in MemberCalls \cup {"idle", "drain", "reb_list"}
  PROVE  Known'
  <1>1. \A o \in Objects : Harmless(o) /\ Rest(o)'
    BY UnchangedHarmless, RestHarmless
  <1>2. \A o \in Objects : Ends(p, o)'
    BY <1>1 DEF Ends, During, MemberCalls, PutCalls, DeleteCalls, RepairCalls, MovingCalls
  <1> QED
    BY <1>1, <1>2, StepKnown DEF Step

\* A step of a rebalance on object b, or on no object.
LEMMA RebalanceGoes ==
  ASSUME TypeInv, Apart, Known, Unshared, NEW p \in Procs, RebalanceStep(p),
         NEW b \in Objects, Only(b),
         pc[p] \in {"reb_next"} \cup MovingCalls, pc[p] \in MovingCalls => req[p].obj = b,
         pc'[p] \in {"reb_next"} \cup MovingCalls, pc'[p] \in MovingCalls => req'[p].obj = b,
         req'[p].snap = req[p].snap, req'[p].todo \subseteq req[p].todo \ {b},
         pc'[p] \notin Changing => Rest(b)',
         pc'[p] \in MovingCalls => MovingDuring(pc[p], req[p], b)'
  PROVE  Known'
  <1>1. Touches(p) = Objects
    BY RebalanceTouches
  <1>2. ASSUME NEW o \in Objects, o # b PROVE Ends(p, o)'
    <2>1. Harmless(o)
      BY <1>2, OnlyHarmless
    <2>2. During(pc[p], req[p], o)
      BY <1>1 DEF Known
    <2>3. Rest(o)
      BY <1>2, <2>2 DEF During, Changing
    <2>4. o \in req[p].todo => req[p].snap[o] = meta[o]
      BY <2>2 DEF During, RebalanceDuring
    <2>5. Rest(o)' /\ meta'[o] = meta[o]
      BY <2>1, <2>3, RestHarmless DEF Harmless
    <2>6. RebalanceDuring(pc[p], req[p], o)'
      BY <1>2, <2>4, <2>5 DEF RebalanceDuring
    <2> QED
      BY <2>5, <2>6 DEF Ends, During, PutCalls, DeleteCalls, RepairCalls, MovingCalls
  <1>3. Ends(p, b)'
    <2>1. RebalanceDuring(pc[p], req[p], b)'
      BY DEF RebalanceDuring
    <2>2. pc'[p] \in MovingCalls => ~(b # req'[p].obj)
      OBVIOUS
    <2> QED
      BY <2>1, <2>2 DEF Ends, During, PutCalls, DeleteCalls, RepairCalls, MovingCalls
  <1> QED
    BY <1>1, <1>2, <1>3, StepKnown DEF Step

\* What a rebalance knows of its objects.
LEMMA RebalanceKnows ==
  ASSUME TypeInv, Known, NEW p \in Procs, RebalanceStep(p)
  PROVE  /\ pc[p] \notin Changing => \A o \in Objects : Rest(o)
         /\ pc[p] \in {"reb_next"} \cup MovingCalls => \A o \in Objects : RebalanceDuring(pc[p], req[p], o)
  <1>1. \A o \in Objects : During(pc[p], req[p], o)
    BY RebalanceTouches DEF Known
  <1> QED
    BY <1>1 DEF During

LEMMA DrainKnown ==
  ASSUME TypeInv, Apart, Known, NEW p \in Procs, Drain(p)
  PROVE  Known'
  <1>1. pc[p] = "drain" /\ RebalanceStep(p) /\ UNCHANGED <<storeVars, losses>>
    BY DEF Drain, At, RebalanceStep, counters
  <1>2. pc'[p] \in {"idle", "reb_list"}
    <2>1. Goto(p, "reb_list") \/ Return(p)
      BY DEF Drain
    <2> QED
      BY <2>1, GotoFacts, ReturnFacts
  <1>3. \A o \in Objects : Rest(o)
    BY <1>1, RebalanceKnows DEF Changing
  <1> QED
    BY <1>1, <1>2, <1>3, RestKnown

LEMMA RebalanceListKnown ==
  ASSUME TypeInv, Apart, Known, NEW p \in Procs, RebalanceList(p)
  PROVE  Known'
  <1> DEFINE r == req[p]
  <1>1. pc[p] = "reb_list" /\ RebalanceStep(p) /\ UNCHANGED <<storeVars, losses>>
    BY DEF RebalanceList, At, RebalanceStep, Nothing, StoreOnly, counters
  <1>2. r \in Requests /\ \A o \in Objects : Rest(o)
    BY <1>1, RebalanceKnows, RebalanceTouches DEF Changing
  <1>3. \A o \in Objects : Harmless(o) /\ Rest(o)' /\ meta'[o] = meta[o]
    BY <1>1, <1>2, UnchangedHarmless, RestHarmless DEF Harmless
  <1>4. pc'[p] = "reb_next" /\ req'[p].snap = meta
    <2>1. PICK s : Enter(p, "reb_next", [r EXCEPT !.snap = meta, !.todo = s])
      BY DEF RebalanceList
    <2>2. pc'[p] = "reb_next" /\ req'[p] = [r EXCEPT !.snap = meta, !.todo = s]
      BY <2>1, EnterFacts
    <2> QED
      BY <1>2, <2>2 DEF Requests
  <1>5. \A o \in Objects : Ends(p, o)'
    BY <1>3, <1>4 DEF Ends, During, RebalanceDuring, PutCalls, DeleteCalls, RepairCalls, MovingCalls
  <1> QED
    BY <1>1, <1>3, <1>5, StepKnown DEF Step

LEMMA RebalanceNextKnown ==
  ASSUME TypeInv, Apart, Known, Unshared, NEW p \in Procs, RebalanceNext(p)
  PROVE  Known'
  <1> DEFINE r == req[p]
  <1>1. pc[p] = "reb_next" /\ RebalanceStep(p) /\ UNCHANGED <<files, refs, meta, disk, losses>>
    BY DEF RebalanceNext, At, RebalanceStep, StoreOnly, counters
  <1>2. r \in Requests /\ \A o \in Objects : Rest(o) /\ RebalanceDuring(pc[p], req[p], o)
    BY <1>1, RebalanceKnows, RebalanceTouches DEF Changing
  <1>3. CASE Return(p) /\ cache' = cache
    <2>1. pc'[p] = "idle" /\ UNCHANGED <<storeVars, losses>>
      BY <1>1, <1>3, ReturnFacts DEF storeVars, layoutVars
    <2> QED
      BY <1>1, <1>2, <2>1, RestKnown
  <1>4. CASE Enter(p, "check", [NoReq EXCEPT !.op = r.op, !.node = r.node]) /\ cache' = cache
    <2>1. pc'[p] = "check" /\ UNCHANGED <<storeVars, losses>>
      BY <1>1, <1>4, EnterFacts DEF storeVars, layoutVars
    <2> QED
      BY <1>1, <1>2, <2>1, RestKnown DEF MemberCalls
  <1>5. ASSUME NEW o \in r.todo,
               LET l == GetLayout(o) IN
               /\ IF l = NoLayout THEN Return(p)
                  ELSE Enter(p, "reb_move",
                             [r EXCEPT !.todo = @ \ {o}, !.obj = o, !.lay = l, !.to = l.places,
                                       !.moved = {}])
               /\ cache' = [cache EXCEPT ![o] = l]
        PROVE  Known'
    <2> DEFINE l == meta[o]
    <2>1. o \in Objects /\ cache \in [Objects -> Kept] /\ GetLayout(o) = l
      BY <1>2, ReadAtRest DEF Requests, TypeInv, StoreType, EngineType
    <2>2. r.snap[o] = l /\ l \in Real /\ l # NoLayout
      <3>1. RebalanceShape(pc[p], req[p])
        BY <1>1, RebalanceTouches DEF Shape
      <3> QED
        BY <1>1, <1>2, <1>5, <2>1, <3>1, KeptFacts DEF RebalanceDuring, RebalanceShape
    <2>3. /\ Enter(p, "reb_move", [r EXCEPT !.todo = @ \ {o}, !.obj = o, !.lay = l, !.to = l.places,
                                           !.moved = {}])
          /\ cache' = [cache EXCEPT ![o] = l]
      BY <1>5, <2>1, <2>2
    <2>4. /\ pc'[p] = "reb_move"
          /\ req'[p] = [r EXCEPT !.todo = @ \ {o}, !.obj = o, !.lay = l, !.to = l.places, !.moved = {}]
      BY <2>3, EnterFacts
    <2>5. /\ req'[p].todo = r.todo \ {o} /\ req'[p].obj = o /\ req'[p].lay = l /\ req'[p].to = l.places
          /\ req'[p].moved = {} /\ req'[p].snap = r.snap
      BY <1>2, <2>4 DEF Requests
    <2>6. cache'[o] = l /\ \A x \in Objects : x # o => cache'[x] = cache[x]
      BY <2>1, <2>3
    <2>7. Only(o)
      BY <1>1, <2>6 DEF Only
    <2>8. Rest(o)'
      BY <1>1, <1>2, <2>1, <2>6 DEF Rest, Linked, CountsAre, RefAt
    <2>9. MovingDuring(pc[p], req[p], o)'
      <3>1. [hash |-> l.hash, places |-> l.places] = l
        BY <2>1, <2>2, NoneFacts
      <3>2. NewLayout(req'[p]) = l
        BY <2>5, <3>1 DEF NewLayout
      <3>3. Sound(l, o, files', losses')
        BY <1>1, <1>2, <2>1 DEF Rest
      <3>4. MovedOff(req'[p])
        BY <2>5 DEF MovedOff
      <3> QED
        BY <1>1, <2>2, <2>4, <2>5, <3>2, <3>3, <3>4 DEF MovingDuring
    <2> QED
      BY <1>1, <2>1, <2>4, <2>5, <2>7, <2>8, <2>9, RebalanceGoes DEF MovingCalls
  <1> QED
    BY <1>3, <1>4, <1>5 DEF RebalanceNext

\* What a rebalance knows of the object it moves.
LEMMA MovingKnows ==
  ASSUME TypeInv, Known, NEW p \in Procs, RebalanceStep(p), pc[p] \in MovingCalls
  PROVE  /\ req[p] \in Requests /\ req[p].obj \in Objects /\ req[p].obj \notin req[p].todo
         /\ req[p].lay \in Real /\ req[p].snap[req[p].obj] \in Real /\ req[p].node \in Nodes
         /\ MovingDuring(pc[p], req[p], req[p].obj) /\ req[p].lay.hash \in Mine(req[p].obj)
         /\ NewLayout(req[p]) \in Real
         /\ Few(NewLayout(req[p]), files, losses)
         /\ pc[p] \notin Changing => \A o \in Objects : Rest(o)
  <1> DEFINE r == req[p]
  <1>1. /\ RebalanceShape(pc[p], r) /\ MemberShape(pc[p], r) /\ r \in Requests /\ pc[p] \in RebalanceCalls
    BY RebalanceTouches DEF Shape, MovingCalls
  <1>2. /\ r.obj \in Objects /\ r.lay \in Real /\ r.snap[r.obj] \in Real /\ r.node \in Nodes
    BY <1>1 DEF RebalanceShape, MemberShape, NodeCalls
  <1>3. RebalanceDuring(pc[p], req[p], r.obj) /\ (pc[p] \notin Changing => \A o \in Objects : Rest(o))
    BY <1>2, RebalanceKnows
  <1>4. MovingDuring(pc[p], req[p], r.obj) /\ r.obj \notin r.todo
    BY <1>3 DEF RebalanceDuring
  <1>5. NewLayout(r) \in Real /\ NewLayout(r) # NoLayout /\ NewLayout(r).hash = r.lay.hash
    BY <1>1, <1>2, KeptFacts DEF NewLayout, Real, Requests
  <1>6. r.lay.hash \in Mine(r.obj) /\ Few(NewLayout(r), files, losses)
    BY <1>4, <1>5 DEF MovingDuring, Sound
  <1> QED
    BY <1>1, <1>2, <1>3, <1>4, <1>5, <1>6

\* A layout that misses no more than another.
LEMMA FewWithin ==
  ASSUME NEW l, NEW f, NEW l2, NEW f2, NEW n \in Nat, Few(l, f, n), LostIn(l2, f2) \subseteq LostIn(l, f)
  PROVE  Few(l2, f2, n)
  <1>1. Cardinality(LostIn(l2, f2)) <= Cardinality(LostIn(l, f))
    BY LostFinite, FS_Subset
  <1> QED
    BY <1>1, LostFinite DEF Few

\* Copying a shard off the node costs neither the old layout nor the new one a shard:
\* a shard copied empty was missing before.
LEMMA MovedShardKept ==
  ASSUME files \in FilesSpace, NEW r, r.lay \in Real, r.to \in Placements, r.node \in Nodes, MovedOff(r),
         NEW i \in Index, i \notin r.moved, r.lay.places[i] = r.node,
         NEW n \in Nodes, n # r.node, NEW s,
         s = "good" \/ files[r.lay.hash][r.node][i] # "good",
         SetFile(r.lay.hash, n, i, s)
  PROVE  /\ LostIn([hash |-> r.lay.hash, places |-> [r.to EXCEPT ![i] = n]], files')
              \subseteq LostIn(NewLayout(r), files)
         /\ LostIn(r.lay, files') \subseteq LostIn(r.lay, files)
         /\ \A d \in Contents : d # r.lay.hash => files'[d] = files[d]
  <1> DEFINE c == r.lay.hash
             to == [r.to EXCEPT ![i] = n]
  <1>1. c \in Contents /\ r.lay.places \in [Index -> Nodes] /\ r.to \in [Index -> Nodes]
    BY DEF Real, Placements
  <1>2. /\ \A d \in Contents : d # c => files'[d] = files[d]
        /\ \A m \in Nodes : m # n => files'[c][m] = files[c][m]
        /\ files'[c][n][i] = s
        /\ \A m \in Nodes, j \in Index : j # i => files'[c][m][j] = files[c][m][j]
    BY <1>1, SetFileFacts
  <1>3. r.to[i] = r.node
    BY DEF MovedOff
  <1>4. to[i] = n /\ \A j \in Index : j # i => to[j] = r.to[j] /\ r.to[j] \in Nodes
    BY <1>1
  <1>5. ASSUME NEW j \in Index, files'[c][to[j]][j] # "good" PROVE files[c][r.to[j]][j] # "good"
    <2>1. CASE j = i
      BY <1>2, <1>3, <1>4, <1>5, <2>1
    <2>2. CASE j # i
      BY <1>2, <1>4, <1>5, <2>2
    <2> QED
      BY <2>1, <2>2
  <1>6. ASSUME NEW j \in Index, files'[c][r.lay.places[j]][j] # "good"
        PROVE  files[c][r.lay.places[j]][j] # "good"
    <2>1. CASE j = i
      BY <1>2, <1>6, <2>1
    <2>2. CASE j # i
      BY <1>1, <1>2, <1>6, <2>2
    <2> QED
      BY <2>1, <2>2
  <1> HIDE DEF to, c
  <1>7. LostIn([hash |-> c, places |-> to], files') \subseteq LostIn([hash |-> c, places |-> r.to], files)
    BY <1>5 DEF LostIn
  <1>8. LostIn(r.lay, files') \subseteq LostIn(r.lay, files)
    BY <1>6 DEF LostIn, c
  <1> QED
    BY <1>2, <1>7, <1>8 DEF NewLayout, c, to

LEMMA RebalanceMoveKnown ==
  ASSUME TypeInv, Apart, Known, Unshared, NEW p \in Procs, RebalanceMove(p)
  PROVE  Known'
  <1> DEFINE r == req[p]
             candidates == Active \ {r.node}
             target(i) == Nth(candidates, i % Cardinality(candidates))
             shard(i) == MovedShard(r.lay.hash, r.node, i)
  <1>1. /\ pc[p] = "reb_move" /\ RebalanceStep(p) /\ UNCHANGED <<refs, meta, layoutVars, losses>>
        /\ pc[p] \in MovingCalls /\ pc[p] \notin Changing
    BY DEF RebalanceMove, At, RebalanceStep, StoreOnly, counters, MovingCalls, Changing
  <1>2. /\ r \in Requests /\ r.obj \in Objects /\ r.obj \notin r.todo /\ r.lay \in Real /\ r.node \in Nodes
        /\ MovingDuring(pc[p], req[p], r.obj) /\ r.lay.hash \in Mine(r.obj)
        /\ Few(NewLayout(r), files, losses) /\ \A o \in Objects : Rest(o)
    BY <1>1, MovingKnows
  <1>3. PICK b \in Objects : b = r.obj
    BY <1>2
  <1>4. r.snap[b].hash = r.lay.hash /\ meta[b] = r.lay /\ MovedOff(r)
    BY <1>1, <1>2, <1>3 DEF MovingDuring
  <1>5. CASE UNCHANGED files /\ Return(p)
    <2>1. pc'[p] = "idle" /\ UNCHANGED <<storeVars, losses>>
      BY <1>1, <1>5, ReturnFacts DEF storeVars, layoutVars
    <2> QED
      BY <1>1, <1>2, <2>1, RestKnown
  <1>6. CASE UNCHANGED files /\ (Goto(p, "reb_next") \/ Goto(p, "reb_persist"))
    <2>1. UNCHANGED <<storeVars, losses>>
      BY <1>1, <1>6 DEF storeVars, layoutVars
    <2>2. pc'[p] \in {"reb_next", "reb_persist"} /\ req'[p] = r
      BY <1>6, GotoFacts
    <2>3. Only(b) /\ Rest(b)' /\ meta' = meta /\ files' = files
      BY <1>2, <2>1, QuietEnds DEF storeVars
    <2>4. MovingDuring(pc[p], req[p], b)'
      <3>1. Sound(NewLayout(req[p]), b, files, losses)'
        BY <1>1, <1>2, <1>3, <2>2, <2>3 DEF MovingDuring
      <3> QED
        BY <1>4, <2>2, <2>3, <3>1 DEF MovingDuring
    <2> QED
      BY <1>1, <1>2, <1>3, <2>2, <2>3, <2>4, RebalanceGoes DEF MovingCalls
  <1>7. ASSUME NEW i \in Unmoved(r), candidates # {}, shard(i) # "error",
               SetFile(r.lay.hash, target(i), i, shard(i)),
               Enter(p, "reb_move", [r EXCEPT !.to[i] = target(i), !.moved = @ \cup {i}])
        PROVE  Known'
    <2> DEFINE n == target(i)
               s == shard(i)
               to == [r.to EXCEPT ![i] = n]
               new == [hash |-> r.lay.hash, places |-> to]
    <2>1. i \in Index /\ r.lay.places[i] = r.node /\ i \notin r.moved
      BY DEF Unmoved
    <2>2. n \in Nodes /\ n # r.node
      <3>1. candidates \in SUBSET Nodes
        BY DEF TypeInv, NodesType, Active
      <3>2. n \in candidates
        BY <1>7, <2>1, <3>1, TurnIn
      <3> QED
        BY <3>1, <3>2
    <2>3. s = "good" \/ files[r.lay.hash][r.node][i] # "good"
      BY <1>7 DEF MovedShard, ReadShard
    <2>4. SetFile(r.lay.hash, n, i, s) /\ Enter(p, "reb_move", [r EXCEPT !.to = to, !.moved = @ \cup {i}])
      BY <1>7
    <2> HIDE DEF n, s
    <2>5. files \in FilesSpace /\ losses \in Nat /\ r.to \in Placements
      BY <1>2 DEF TypeInv, StoreType, FilesType, FilesSpace, CountersType, Requests
    <2>6. /\ LostIn(new, files') \subseteq LostIn(NewLayout(r), files)
          /\ LostIn(r.lay, files') \subseteq LostIn(r.lay, files)
          /\ \A d \in Contents : d # r.lay.hash => files'[d] = files[d]
      BY <1>2, <1>4, <2>1, <2>2, <2>3, <2>4, <2>5, MovedShardKept
    <2>7. to \in Placements /\ to[i] = n /\ \A j \in Index : j # i => to[j] = r.to[j]
      BY <2>1, <2>2, <2>5 DEF Placements
    <2> HIDE DEF to
    <2>8. pc'[p] = "reb_move" /\ req'[p] = [r EXCEPT !.to = to, !.moved = @ \cup {i}]
      BY <2>4, EnterFacts
    <2>9. /\ req'[p].to = to /\ req'[p].moved = r.moved \cup {i} /\ req'[p].todo = r.todo
          /\ req'[p].snap = r.snap /\ req'[p].obj = r.obj /\ req'[p].lay = r.lay /\ req'[p].node = r.node
      BY <1>2, <2>8 DEF Requests
    <2>10. Only(b)
      BY <1>1, <1>2, <1>3, <2>6 DEF Only, layoutVars
    <2>11. Sound(r.lay, b, files', losses) /\ Sound(new, b, files', losses)
      <3>1. r.lay # NoLayout /\ Few(r.lay, files, losses)
        BY <1>2, <1>4, KeptFacts DEF Rest, Sound
      <3>2. Few(r.lay, files', losses) /\ Few(new, files', losses)
        BY <1>2, <2>5, <2>6, <3>1, FewWithin
      <3> QED
        BY <1>2, <1>3, <3>2 DEF Sound
    <2>12. Rest(b)'
      BY <1>1, <1>2, <1>4, <2>11 DEF Rest, Linked, CountsAre, RefAt, layoutVars
    <2>13. MovedOff(req'[p])
      BY <1>4, <2>1, <2>2, <2>7, <2>9 DEF MovedOff
    <2>14. MovingDuring(pc[p], req[p], b)'
      <3>1. NewLayout(req'[p]) = new /\ losses' = losses /\ meta' = meta
        BY <1>1, <2>9 DEF NewLayout
      <3> QED
        BY <1>4, <2>8, <2>9, <2>11, <2>13, <3>1 DEF MovingDuring
    <2> QED
      BY <1>1, <1>2, <1>3, <2>8, <2>9, <2>10, <2>12, <2>14, RebalanceGoes
  <1> QED
    BY <1>5, <1>6, <1>7 DEF RebalanceMove

LEMMA FailCounts ==
  ASSUME TypeInv, NEW p \in Procs, Fail(p)
  PROVE  faults' # 0
  BY DEF TypeInv, CountersType, Fail

LEMMA RebalancePersistKnown ==
  ASSUME TypeInv, Apart, Known, Unshared, faults' = 0, NEW p \in Procs, RebalancePersist(p)
  PROVE  Known'
  <1> DEFINE r == req[p]
             new == NewLayout(r)
  <1>1. pc[p] = "reb_persist" /\ RebalanceStep(p) /\ pc[p] \in MovingCalls /\ pc[p] \notin Changing
    BY DEF RebalancePersist, At, RebalanceStep, MovingCalls, Changing
  <1>2. /\ r \in Requests /\ r.obj \in Objects /\ r.obj \notin r.todo /\ r.lay \in Real
        /\ MovingDuring(pc[p], req[p], r.obj) /\ r.lay.hash \in Mine(r.obj)
        /\ Few(new, files, losses) /\ \A o \in Objects : Rest(o)
    BY <1>1, MovingKnows
  <1>3. PICK b \in Objects : b = r.obj
    BY <1>2
  <1>4. r.snap[b].hash = r.lay.hash /\ meta[b] = r.lay /\ MovedOff(r) /\ Sound(new, b, files, losses)
    BY <1>1, <1>2, <1>3 DEF MovingDuring
  <1>5. LinkObject(b, [r.lay EXCEPT !.places = r.to]) /\ Goto(p, "reb_clean") /\ UNCHANGED counters
    BY <1>3, FailCounts DEF RebalancePersist
  <1>6. [r.lay EXCEPT !.places = r.to] = new
    BY <1>2 DEF NewLayout, Real
  <1>7. pc'[p] = "reb_clean" /\ req'[p] = r
    BY <1>5, GotoFacts
  <1>8. UNCHANGED <<files, refs, meta, losses>>
    BY <1>5 DEF RebalancePersist, counters
  <1>9. disk'[b] = new /\ cache'[b] = new /\ \A o \in Objects : o # b => disk'[o] = disk[o] /\ cache'[o] = cache[o]
    BY <1>5, <1>6 DEF LinkObject, TypeInv, StoreType, EngineType
  <1>10. Only(b)
    BY <1>8, <1>9 DEF Only
  <1>11. MovingDuring(pc[p], req[p], b)'
    <2>1. Linked(b, NewLayout(req[p]))'
      BY <1>7, <1>9 DEF Linked
    <2>2. CountsAre(b, {req[p].lay.hash})'
      BY <1>2, <1>4, <1>7, <1>8 DEF CountsAre, Rest
    <2>3. r.lay # NoLayout
      BY <1>2, KeptFacts
    <2>4. Sound(NewLayout(req[p]), b, files, losses)'
      BY <1>4, <1>7, <1>8
    <2> QED
      BY <1>4, <1>7, <1>8, <2>1, <2>2, <2>3, <2>4 DEF MovingDuring
  <1> QED
    BY <1>1, <1>2, <1>3, <1>7, <1>10, <1>11, RebalanceGoes DEF MovingCalls, Changing

LEMMA RebalanceCleanKnown ==
  ASSUME TypeInv, Apart, Known, Unshared, NEW p \in Procs, RebalanceClean(p)
  PROVE  Known'
  <1> DEFINE r == req[p]
             new == NewLayout(r)
             c == r.lay.hash
  <1>1. pc[p] = "reb_clean" /\ RebalanceStep(p) /\ pc[p] \in MovingCalls
    BY DEF RebalanceClean, At, RebalanceStep, MovingCalls
  <1>2. /\ r \in Requests /\ r.obj \in Objects /\ r.obj \notin r.todo /\ r.lay \in Real /\ r.node \in Nodes
        /\ MovingDuring(pc[p], req[p], r.obj) /\ c \in Mine(r.obj)
        /\ Few(new, files, losses) /\ new \in Real
    BY <1>1, MovingKnows
  <1>3. PICK b \in Objects : b = r.obj
    BY <1>2
  <1>4. /\ r.snap[b].hash = c /\ meta[b] = r.lay /\ MovedOff(r)
        /\ meta[b] # NoLayout /\ Linked(b, new) /\ CountsAre(b, {c})
    BY <1>1, <1>2, <1>3 DEF MovingDuring
  <1>5. pc'[p] = "reb_meta" /\ req'[p] = r /\ UNCHANGED <<refs, meta, layoutVars, losses>>
    BY GotoFacts DEF RebalanceClean, StoreOnly, counters
  <1>6. files \in FilesSpace /\ losses \in Nat /\ c \in Contents /\ r.to \in [Index -> Nodes]
    BY <1>2 DEF TypeInv, StoreType, FilesType, FilesSpace, CountersType, Real, Requests, Placements
  <1>7. /\ \A d \in Contents : d # c => files'[d] = files[d]
        /\ \A m \in Nodes : m # r.node => files'[c][m] = files[c][m]
        /\ \A i \in Index : i \notin r.moved => files'[c][r.node][i] = files[c][r.node][i]
    <2>1. CASE files' = files
      BY <2>1
    <2>2. CASE files' = [files EXCEPT ![c][r.node] = [i \in Index |-> IF i \in r.moved THEN "none" ELSE @[i]]]
      BY <1>2, <1>6, <2>2 DEF FilesSpace
    <2> QED
      BY <2>1, <2>2 DEF RebalanceClean
  <1>8. Only(b)
    BY <1>2, <1>3, <1>5, <1>7 DEF Only, layoutVars
  <1>9. Few(new, files', losses)
    <2>1. ASSUME NEW i \in Index PROVE files'[c][r.to[i]][i] = files[c][r.to[i]][i]
      <3>1. CASE i \in r.moved
        BY <1>4, <1>6, <1>7, <3>1 DEF MovedOff
      <3>2. CASE i \notin r.moved
        BY <1>6, <1>7, <3>2
      <3> QED
        BY <3>1, <3>2
    <2>2. LostIn(new, files') \subseteq LostIn(new, files)
      BY <2>1 DEF LostIn, NewLayout
    <2> QED
      BY <1>2, <1>6, <2>2, FewWithin
  <1>10. MovingDuring(pc[p], req[p], b)'
    <2>1. Linked(b, NewLayout(req[p]))'
      BY <1>4, <1>5 DEF Linked, layoutVars
    <2>2. CountsAre(b, {req[p].lay.hash})'
      BY <1>4, <1>5 DEF CountsAre
    <2>3. Sound(new, b, files', losses)
      BY <1>2, <1>3, <1>9 DEF Sound, NewLayout
    <2>4. Sound(NewLayout(req[p]), b, files, losses)'
      BY <1>5, <2>3
    <2> QED
      BY <1>4, <1>5, <2>1, <2>2, <2>4 DEF MovingDuring
  <1> QED
    BY <1>1, <1>2, <1>3, <1>5, <1>8, <1>10, RebalanceGoes DEF MovingCalls, Changing

LEMMA RebalanceMetaKnown ==
  ASSUME TypeInv, Apart, Known, Unshared, faults' = 0, NEW p \in Procs, RebalanceMeta(p)
  PROVE  Known'
  <1> DEFINE r == req[p]
             new == NewLayout(r)
             c == r.lay.hash
  <1>1. pc[p] = "reb_meta" /\ RebalanceStep(p) /\ pc[p] \in MovingCalls
    BY DEF RebalanceMeta, At, RebalanceStep, MovingCalls
  <1>2. /\ r \in Requests /\ r.obj \in Objects /\ r.obj \notin r.todo /\ r.snap[r.obj] \in Real
        /\ MovingDuring(pc[p], req[p], r.obj) /\ c \in Mine(r.obj)
        /\ Few(new, files, losses) /\ new \in Real
    BY <1>1, MovingKnows
  <1>3. PICK b \in Objects : b = r.obj
    BY <1>2
  <1>4. /\ r.snap[b].hash = c /\ Linked(b, new) /\ CountsAre(b, {c}) /\ Sound(new, b, files, losses)
    BY <1>1, <1>2, <1>3 DEF MovingDuring
  <1>5. /\ meta' = [meta EXCEPT ![b] = [r.snap[b] EXCEPT !.places = r.to]] /\ Goto(p, "reb_ref")
        /\ UNCHANGED counters
    BY <1>3, FailCounts DEF RebalanceMeta
  <1>6. [r.snap[b] EXCEPT !.places = r.to] = new
    BY <1>2, <1>3, <1>4 DEF NewLayout, Real
  <1>7. pc'[p] = "reb_ref" /\ req'[p] = r
    BY <1>5, GotoFacts
  <1>8. UNCHANGED <<files, refs, layoutVars, losses>>
    BY <1>5 DEF RebalanceMeta, counters
  <1>9. meta'[b] = new /\ \A o \in Objects : o # b => meta'[o] = meta[o]
    BY <1>5, <1>6 DEF TypeInv, StoreType, MetaType
  <1>10. Only(b)
    BY <1>8, <1>9 DEF Only, layoutVars
  <1>11. MovingDuring(pc[p], req[p], b)'
    <2>1. Linked(b, NewLayout(req[p]))'
      BY <1>4, <1>7, <1>8 DEF Linked, layoutVars
    <2>2. CountsAre(b, {req[p].lay.hash})'
      BY <1>4, <1>7, <1>8 DEF CountsAre
    <2>3. Sound(NewLayout(req[p]), b, files, losses)'
      BY <1>4, <1>7, <1>8
    <2>4. new # NoLayout /\ new.hash = c
      BY <1>2, KeptFacts DEF NewLayout
    <2> QED
      BY <1>4, <1>7, <1>9, <2>1, <2>2, <2>3, <2>4 DEF MovingDuring
  <1> QED
    BY <1>1, <1>2, <1>3, <1>7, <1>10, <1>11, RebalanceGoes DEF MovingCalls, Changing

LEMMA RebalanceRefKnown ==
  ASSUME TypeInv, Apart, Known, Unshared, faults' = 0, NEW p \in Procs, RebalanceRef(p)
  PROVE  Known'
  <1> DEFINE r == req[p]
             new == NewLayout(r)
             c == r.lay.hash
  <1>1. pc[p] = "reb_ref" /\ RebalanceStep(p) /\ pc[p] \in MovingCalls
    BY DEF RebalanceRef, At, RebalanceStep, MovingCalls
  <1>2. /\ r \in Requests /\ r.obj \in Objects /\ r.obj \notin r.todo /\ r.lay \in Real
        /\ MovingDuring(pc[p], req[p], r.obj) /\ c \in Mine(r.obj)
    BY <1>1, MovingKnows
  <1>3. PICK b \in Objects : b = r.obj
    BY <1>2
  <1>4. /\ r.snap[b].hash = c /\ meta[b] = new /\ Linked(b, new) /\ CountsAre(b, {c})
        /\ Sound(new, b, files, losses)
    BY <1>1, <1>2, <1>3 DEF MovingDuring
  <1>5. c \in Contents /\ refs[c].count = 1 /\ refs \in [Contents -> [count : Nat, places : Placements]]
    BY <1>2, <1>3, <1>4 DEF CountsAre, Mine, TypeInv, StoreType, RefsType
  <1>6. refs' = [refs EXCEPT ![c].places = r.to] /\ Goto(p, "reb_next") /\ UNCHANGED counters
    BY <1>3, <1>4, <1>5, FailCounts DEF RebalanceRef
  <1>7. pc'[p] = "reb_next" /\ req'[p] = r
    BY <1>6, GotoFacts
  <1>8. UNCHANGED <<files, meta, layoutVars, losses>>
    BY <1>6 DEF RebalanceRef, counters
  <1>9. /\ refs'[c].places = r.to /\ refs'[c].count = 1
        /\ \A d \in Contents : d # c => refs'[d] = refs[d]
    BY <1>5, <1>6
  <1>10. Only(b)
    BY <1>2, <1>3, <1>8, <1>9 DEF Only, layoutVars
  <1>11. Rest(b)'
    <2>1. new.hash = c /\ new.places = r.to
      BY DEF NewLayout
    <2>2. Linked(b, meta[b])'
      BY <1>4, <1>8 DEF Linked, layoutVars
    <2>3. CountsAre(b, {meta[b].hash})'
      BY <1>4, <1>8, <1>9, <2>1, NoneFacts DEF CountsAre
    <2>4. RefAt(meta[b])'
      BY <1>4, <1>8, <1>9, <2>1 DEF RefAt
    <2>5. Sound(meta[b], b, files, losses)'
      BY <1>4, <1>8
    <2> QED
      BY <2>2, <2>3, <2>4, <2>5 DEF Rest
  <1> QED
    BY <1>1, <1>2, <1>3, <1>7, <1>10, <1>11, RebalanceGoes DEF MovingCalls, Changing

LEMMA RebalanceStepKnown ==
  ASSUME TypeInv, Apart, Known, Unshared, faults' = 0, NEW p \in Procs, RebalanceStep(p)
  PROVE  Known'
  BY DrainKnown, RebalanceListKnown, RebalanceNextKnown, RebalanceMoveKnown, RebalancePersistKnown,
     RebalanceCleanKnown, RebalanceMetaKnown, RebalanceRefKnown DEF RebalanceStep

(***************************************************************************)
(* Requests begin                                                           *)
(***************************************************************************)
LEMMA StartCalls ==
  ASSUME TypeInv, NEW p \in Procs, Start(p)
  PROVE  /\ pc'[p] \in MemberCalls \cup {"del_load", "fix_health", "put_load"}
         /\ pc'[p] = "put_load" => <<req'[p].obj, req'[p].hash>> \in Puts /\ ~req'[p].hit
  <1>1. ASSUME NEW l \in MemberCalls \cup {"del_load", "fix_health"}, NEW r, Begin(p, l, r)
        PROVE  /\ pc'[p] \in MemberCalls \cup {"del_load", "fix_health", "put_load"}
               /\ pc'[p] = "put_load" => <<req'[p].obj, req'[p].hash>> \in Puts /\ ~req'[p].hit
    <2>1. pc'[p] = l
      BY <1>1, EnterFacts DEF Begin
    <2> QED
      BY <2>1 DEF MemberCalls
  <1>2. CASE PutObject(p)
    <2>1. PICK x \in Puts : Enter(p, "put_load", [NoReq EXCEPT !.op = "put", !.obj = x[1], !.hash = x[2]])
      BY <1>2 DEF PutObject, Begin
    <2>2. pc'[p] = "put_load" /\ req'[p] = [NoReq EXCEPT !.op = "put", !.obj = x[1], !.hash = x[2]]
      BY <2>1, EnterFacts
    <2>3. req'[p].obj = x[1] /\ req'[p].hash = x[2] /\ ~req'[p].hit
      BY <2>2 DEF NoReq
    <2>4. x = <<x[1], x[2]>>
      BY RequestsAssumption
    <2> QED
      BY <2>2, <2>3, <2>4
  <1>3. CASE DeleteObject(p) \/ RepairObject(p)
    BY <1>1, <1>3 DEF DeleteObject, RepairObject
  <1>4. CASE Join(p) \/ Decommission(p) \/ Replace(p)
    BY <1>1, <1>4 DEF Join, Decommission, Replace, MemberCalls
  <1>5. CASE RemoveMember(p) \/ Rebalance(p) \/ SyncNodes(p)
    BY <1>1, <1>5 DEF RemoveMember, Rebalance, SyncNodes, MemberCalls
  <1>6. CASE SyncMembers(p)
    BY <1>1, <1>6 DEF SyncMembers, MemberCalls
  <1> QED
    BY <1>2, <1>3, <1>4, <1>5, <1>6 DEF Start

\* A request begins on objects at rest.
LEMMA StartKnown ==
  ASSUME TypeInv, TypeInv', Known, Contend = FALSE, NEW p \in Procs, Start(p)
  PROVE  Known'
  <1> SUFFICES ASSUME NEW o \in Objects
               PROVE  /\ Settled(o)' => Rest(o)'
                      /\ \A q \in Procs : (o \in Touches(q))' => During(pc[q], req[q], o)'
    BY DEF Known
  <1>1. pc[p] = "idle" /\ UNCHANGED <<storeVars, losses>>
    BY StartWithin
  <1>2. PICK l, r : Enter(p, l, r) /\ \A q \in Procs : Touches(q) \cap Scope(l, r) = {}
    BY StartWithin
  <1>3. /\ Touches(p)' = Scope(l, r) /\ Touches(p) = {}
        /\ \A q \in Procs : q # p => pc'[q] = pc[q] /\ req'[q] = req[q] /\ Touches(q)' = Touches(q)
    BY <1>1, <1>2, TouchesAfter DEF Touches
  <1>4. Harmless(o) /\ (Rest(o) => Rest(o)')
    BY <1>1, UnchangedHarmless, RestHarmless
  <1>5. Settled(o)' => Settled(o)
    BY <1>3 DEF Settled
  <1>6. ASSUME NEW q \in Procs, (o \in Touches(q))' PROVE During(pc[q], req[q], o)'
    <2>1. CASE q # p
      <3>1. o \in Touches(q) /\ pc'[q] = pc[q] /\ req'[q] = req[q]
        BY <1>3, <1>6, <2>1
      <3>2. During(pc[q], req[q], o)
        BY <3>1 DEF Known
      <3> QED
        BY <1>4, <3>1, <3>2, DuringHarmless
    <2>2. CASE q = p
      <3>1. Settled(o)
        BY <1>2, <1>3, <1>6, <2>2 DEF Settled
      <3>2. Rest(o)'
        BY <1>4, <3>1 DEF Known
      <3>3. /\ pc'[p] \in MemberCalls \cup {"del_load", "fix_health", "put_load"}
            /\ pc'[p] = "put_load" => <<req'[p].obj, req'[p].hash>> \in Puts /\ ~req'[p].hit
        BY StartCalls
      <3>4. pc'[p] = "put_load" => req'[p].obj = o
        <4>1. ASSUME pc'[p] = "put_load" PROVE req'[p].op \in ObjectOps
          <5>1. Shape(pc[p], req[p])'
            BY DEF TypeInv, ControlOK
          <5> QED
            BY <4>1, <5>1 DEF Shape, PutShape, PutCalls, ObjectOps
        <4> QED
          BY <1>6, <2>2, <4>1 DEF Touches
      <3>5. pc'[p] = "put_load" => req'[p].hash \in Mine(o)
        BY <3>3, <3>4, RequestsAssumption DEF Mine
      <3>6. pc'[p] = "put_load" => PutDuring(pc[p], req[p], o)'
        BY <3>3, <3>5 DEF PutDuring
      <3>7. pc'[p] = "del_load" => DeleteDuring(pc[p], req[p], o)'
        BY DEF DeleteDuring
      <3> QED
        BY <2>2, <3>2, <3>3, <3>6, <3>7
           DEF During, RepairDuring, MemberCalls, PutCalls, DeleteCalls, RepairCalls, MovingCalls
    <2> QED
      BY <2>1, <2>2
  <1> QED
    BY <1>4, <1>5, <1>6 DEF Known

(***************************************************************************)
(* The environment                                                          *)
(***************************************************************************)
LEMMA QuietKnown ==
  ASSUME TypeInv, Known, UNCHANGED <<storeVars, losses, pc, req>>
  PROVE  Known'
  <1> SUFFICES ASSUME NEW o \in Objects
               PROVE  /\ Settled(o)' => Rest(o)'
                      /\ \A q \in Procs : (o \in Touches(q))' => During(pc[q], req[q], o)'
    BY DEF Known
  <1>1. Harmless(o) /\ (Rest(o) => Rest(o)')
    BY UnchangedHarmless, RestHarmless
  <1>2. \A q \in Procs : Touches(q)' = Touches(q) /\ pc'[q] = pc[q] /\ req'[q] = req[q]
    BY SameTouches
  <1>3. Settled(o)' => Rest(o)'
    BY <1>1, <1>2 DEF Settled, Known
  <1>4. ASSUME NEW q \in Procs, (o \in Touches(q))' PROVE During(pc[q], req[q], o)'
    <2>1. During(pc[q], req[q], o)
      BY <1>2, <1>4 DEF Known
    <2> QED
      BY <1>1, <1>2, <2>1, DuringHarmless
  <1> QED
    BY <1>3, <1>4

LEMMA RestartKnown ==
  ASSUME TypeInv, Known, Restart
  PROVE  Known'
  <1>1. /\ UNCHANGED <<files, refs, meta, disk, losses, pc, req>>
        /\ cache' = [o \in Objects |-> NoLayout] /\ \A p \in Procs : pc[p] = "idle"
    BY DEF Restart, NoRequest
  <1>2. \A o \in Objects : Settled(o) /\ \A p \in Procs : Touches(p)' = {}
    BY <1>1 DEF Settled, Touches
  <1>3. ASSUME NEW o \in Objects PROVE Rest(o)'
    <2>1. Rest(o)
      BY <1>2 DEF Known
    <2>2. Linked(o, meta[o])'
      BY <1>1, <2>1 DEF Rest, Linked
    <2>3. Sound(meta[o], o, files, losses)' /\ RefAt(meta[o])' /\ CountsAre(o, {meta[o].hash})'
      BY <1>1, <2>1 DEF Rest, RefAt, CountsAre
    <2> QED
      BY <2>2, <2>3 DEF Rest
  <1> QED
    BY <1>2, <1>3 DEF Known

\* A committed object has a content of its own.
LEMMA CommittedMine ==
  ASSUME TypeInv, Known, NEW o \in Objects, meta[o] # NoLayout
  PROVE  meta[o] \in Real /\ meta[o].hash \in Mine(o)
  <1>1. meta[o] \in Real
    BY KeptFacts DEF TypeInv, StoreType, MetaType
  <1>2. CASE Rest(o)
    BY <1>1, <1>2 DEF Rest, Sound
  <1>3. ASSUME NEW p \in Procs, o \in Touches(p), ~Rest(o)
        PROVE  meta[o].hash \in Mine(o)
    <2>1. During(pc[p], req[p], o)
      BY <1>3 DEF Known
    <2>2. pc[p] \in Changing /\ ~(pc[p] \in MovingCalls /\ o # req[p].obj)
      BY <1>3, <2>1 DEF During
    <2>3. CASE pc[p] \in {"put_retain", "put_commit"}
      <3>1. PutDuring(pc[p], req[p], o)
        BY <2>1, <2>3 DEF During, PutCalls
      <3> QED
        BY <2>3, <3>1 DEF PutDuring, Sound
    <2>4. CASE pc[p] \in {"del_layout", "rel_ref"}
      <3>1. DeleteDuring(pc[p], req[p], o)
        BY <2>1, <2>4 DEF During, DeleteCalls
      <3> QED
        BY <2>4, <3>1 DEF DeleteDuring, Sound
    <2>5. CASE pc[p] \in {"reb_clean", "reb_meta", "reb_ref"}
      <3>1. RebalanceDuring(pc[p], req[p], o) /\ o = req[p].obj /\ pc[p] \in MovingCalls
        BY <2>1, <2>2, <2>5 DEF During, MovingCalls
      <3>2. MovingDuring(pc[p], req[p], o)
        BY <3>1 DEF RebalanceDuring
      <3>3. meta[o].hash = req[p].lay.hash /\ Sound(NewLayout(req[p]), o, files, losses)
        BY <2>5, <3>2 DEF MovingDuring
      <3>4. NewLayout(req[p]).hash = meta[o].hash /\ NewLayout(req[p]) # NoLayout
        BY <1>1, <3>3, NoneFacts, ConstantFacts DEF NewLayout, Real
      <3> QED
        BY <3>3, <3>4 DEF Sound
    <2> QED
      BY <2>2, <2>3, <2>4, <2>5 DEF Changing
  <1> QED
    BY <1>1, <1>2, <1>3 DEF Known, Settled

\* A lost shard is one miss more, for any layout.
LEMMA SoundLost ==
  ASSUME TypeInv, NEW c \in Contents, NEW n \in Nodes, NEW j \in Index, NEW s, SetFile(c, n, j, s),
         NEW o \in Objects, NEW l, l.places \in Placements
  PROVE  /\ l.hash \in Mine(o) /\ Few(l, files, losses) => Few(l, files', losses + 1)
         /\ Sound(l, o, files, losses) => Sound(l, o, files', losses + 1)
  <1>1. files \in FilesSpace /\ losses \in Nat
    BY DEF TypeInv, StoreType, FilesType, FilesSpace, CountersType
  <1>2. /\ \A d \in Contents : d # c => files'[d] = files[d]
        /\ \A m \in Nodes, i \in Index : i # j => files'[c][m][i] = files[c][m][i]
    BY <1>1, SetFileFacts
  <1>3. ASSUME l.hash \in Mine(o), NEW i \in Index \ {j}
        PROVE  files'[l.hash][l.places[i]][i] = files[l.hash][l.places[i]][i]
    <2>1. l.places[i] \in Nodes /\ l.hash \in Contents
      BY <1>3 DEF Placements, Mine
    <2> QED
      BY <1>2, <1>3, <2>1
  <1>4. l.hash \in Mine(o) /\ Few(l, files, losses) => Few(l, files', losses + 1)
    BY <1>1, <1>3, FewLost
  <1> QED
    BY <1>4 DEF Sound

LEMMA LoseShardKnown ==
  ASSUME TypeInv, Known, Unshared, LoseShard
  PROVE  Known'
  <1>1. PICK a \in Objects, j \in Index, s \in {"none", "bad"} :
          /\ meta[a] # NoLayout /\ SetFile(meta[a].hash, meta[a].places[j], j, s)
    BY DEF LoseShard
  <1> DEFINE c == meta[a].hash
             n == meta[a].places[j]
  <1>2. losses' = losses + 1 /\ UNCHANGED <<refs, meta, cache, disk, pc, req>>
    BY DEF LoseShard, NoRequest, layoutVars
  <1>3. c \in Contents /\ n \in Nodes /\ c \in Mine(a) /\ files \in FilesSpace
    BY <1>1, CommittedMine, KeptFacts
       DEF Real, Placements, TypeInv, StoreType, FilesType, FilesSpace
  <1>4. SetFile(c, n, j, s)
    BY <1>1
  <1> HIDE DEF c, n
  <1>5. \A d \in Contents : d # c => files'[d] = files[d]
    BY <1>3, <1>4, SetFileFacts
  <1> SUFFICES ASSUME NEW o \in Objects
               PROVE  /\ Settled(o)' => Rest(o)'
                      /\ \A q \in Procs : (o \in Touches(q))' => During(pc[q], req[q], o)'
    BY DEF Known
  <1>6. \A l : l.places \in Placements =>
            /\ l.hash \in Mine(o) /\ Few(l, files, losses) => Few(l, files', losses')
            /\ Sound(l, o, files, losses) => Sound(l, o, files', losses')
    BY <1>2, <1>3, <1>4, SoundLost
  <1>7. meta[o].places \in Placements
    BY KeptFacts DEF TypeInv, StoreType, MetaType
  <1>8. Rest(o) => Rest(o)'
    BY <1>2, <1>6, <1>7 DEF Rest, Linked, CountsAre, RefAt
  <1>9. \A q \in Procs : Touches(q)' = Touches(q) /\ pc'[q] = pc[q] /\ req'[q] = req[q]
    BY <1>2, SameTouches
  <1>10. Settled(o)' => Rest(o)'
    BY <1>8, <1>9 DEF Settled, Known
  <1>11. ASSUME NEW p \in Procs, (o \in Touches(p))' PROVE During(pc[p], req[p], o)'
    <2> DEFINE l == pc[p]
               r == req[p]
               new == [hash |-> r.hash, places |-> r.to]
    <2>1. During(l, r, o)
      BY <1>9, <1>11 DEF Known
    <2>2. r \in Requests /\ r.to \in Placements /\ r.lay.places \in Placements
      BY DEF TypeInv, ControlOK, ControlType, Requests, Layouts
    <2>3. l \in PutCalls => PutDuring(pc[p], req[p], o)'
      <3> SUFFICES ASSUME l \in PutCalls PROVE PutDuring(pc[p], req[p], o)'
        OBVIOUS
      <3>1. PutDuring(l, r, o)
        BY <2>1 DEF During
      <3>2. r.hash \in Mine(o)
        BY <3>1 DEF PutDuring
      <3>3. l \in {"put_link", "put_retain"} => Few(new, files', losses')
        BY <1>6, <2>2, <3>1, <3>2 DEF PutDuring
      <3>4. l = "put_write" => files'[r.hash] = files[r.hash]
        <4>1. l = "put_write" => r.hash # meta[o].hash
          BY <3>1 DEF PutDuring
        <4>2. o # a => r.hash # c
          BY <1>3, <3>2 DEF Unshared
        <4>3. l = "put_write" => r.hash # c
          BY <4>1, <4>2 DEF c
        <4> QED
          BY <1>5, <3>2, <4>3 DEF Mine
      <3>5. /\ Sound(meta[o], o, files, losses) => Sound(meta[o], o, files', losses')
            /\ Sound(r.lay, o, files, losses) => Sound(r.lay, o, files', losses')
        BY <1>6, <1>7, <2>2
      <3> QED
        BY <1>2, <3>1, <3>2, <3>3, <3>4, <3>5 DEF PutDuring, Linked, CountsAre, RefAt
    <2>4. l \in DeleteCalls => DeleteDuring(pc[p], req[p], o)'
      BY <1>2, <1>6, <1>7, <2>1 DEF During, DeleteDuring, Linked, CountsAre, RefAt
    <2>5. l \in {"reb_next"} \cup MovingCalls => RebalanceDuring(pc[p], req[p], o)'
      <3>1. NewLayout(r).places \in Placements
        BY <2>2 DEF NewLayout
      <3>2. Sound(NewLayout(r), o, files, losses) => Sound(NewLayout(r), o, files', losses')
        BY <1>6, <3>1
      <3> QED
        BY <1>2, <2>1, <3>2 DEF During, RebalanceDuring, MovingDuring, MovedOff, Linked, CountsAre
    <2>6. l \in RepairCalls => RepairDuring(pc[p], req[p], o)'
      BY <1>2, <2>1 DEF During, RepairDuring
    <2> QED
      BY <1>2, <1>8, <2>1, <2>3, <2>4, <2>5, <2>6 DEF During
  <1> QED
    BY <1>10, <1>11

(***************************************************************************)
(* The theorems on the copies                                               *)
(***************************************************************************)
LEMMA FaultsStay ==
  ASSUME TypeInv, [Next]_vars, faults' = 0
  PROVE  faults = 0
  <1>1. faults \in Nat
    BY DEF TypeInv, CountersType
  <1>2. ASSUME NEW p \in Procs, Start(p) PROVE faults = 0
    BY <1>2 DEF Start, PutObject, DeleteObject, RepairObject, Join, Decommission, Replace, RemoveMember,
                Rebalance, SyncNodes, SyncMembers, Begin, NewRequest
  <1>3. ASSUME NEW p \in Procs, ObjectStep(p) PROVE faults = 0
    BY <1>3 DEF ObjectStep, PutLoad, PutLoadRef, PutRef, PutPlan, PutWrite, PutLink, PutRetain, PutCommit,
                DeleteLoad, DeleteMeta, DeleteLayout, ReleaseRef, ReleaseBlob, FixHealth, FixRead, FixWrite,
                Nothing, StoreOnly, counters
  <1>4. ASSUME NEW p \in Procs, MemberStep(p) PROVE faults = 0
    BY <1>4, MemberStepStays
  <1>5. ASSUME NEW p \in Procs, RebalanceStep(p) PROVE faults = 0
    <2>1. Fail(p) => faults' # 0
      BY FailCounts
    <2> QED
      BY <1>5, <2>1 DEF RebalanceStep, Drain, RebalanceList, RebalanceNext, RebalanceMove, RebalancePersist,
                  RebalanceClean, RebalanceMeta, RebalanceRef, Nothing, StoreOnly, counters
  <1> QED
    BY <1>2, <1>3, <1>4, <1>5
       DEF Next, DrainMember, ResumeMember, GoDown, GoUp, LoseShard, Restart, NewRequest, vars, counters

LEMMA CopiesInit == Init => CopiesInv
  <1> SUFFICES ASSUME Init PROVE CopiesInv
    OBVIOUS
  <1>1. TypeInv /\ Apart
    BY RemovalInit DEF RemovalInv
  <1>2. \A p \in Procs : Touches(p) = {}
    BY DEF Init, Touches
  <1>3. ASSUME NEW o \in Objects PROVE Rest(o)
    <2>1. meta[o] = NoLayout /\ disk[o] = NoLayout /\ cache[o] = NoLayout
      BY DEF Init
    <2>2. \A c \in Mine(o) : refs[c].count = 0 /\ c # NoLayout.hash
      BY NoneFacts DEF Init, NoRef
    <2> QED
      BY <2>1, <2>2 DEF Rest, Sound, Linked, CountsAre, RefAt
  <1> QED
    BY <1>1, <1>2, <1>3 DEF CopiesInv, Known

LEMMA KnownNext ==
  ASSUME TypeInv, Apart, Known, Unshared, Contend = FALSE, [Next]_vars, faults' = 0
  PROVE  Known'
  <1>1. ASSUME NEW p \in Procs, Start(p) PROVE Known'
    BY <1>1, StartKnown, NextInv
  <1>2. ASSUME NEW p \in Procs, ObjectStep(p) \/ MemberStep(p) \/ RebalanceStep(p) PROVE Known'
    BY <1>2, ObjectStepKnown, MemberKnown, RebalanceStepKnown
  <1>3. CASE DrainMember \/ ResumeMember \/ GoDown \/ GoUp
    BY <1>3, QuietKnown DEF DrainMember, ResumeMember, GoDown, GoUp, NewRequest, NoRequest, counters
  <1>4. CASE LoseShard \/ Restart
    BY <1>4, LoseShardKnown, RestartKnown
  <1>5. CASE UNCHANGED vars
    BY <1>5, QuietKnown DEF vars, counters
  <1> QED
    BY <1>1, <1>2, <1>3, <1>4, <1>5 DEF Next

LEMMA CopiesNext ==
  ASSUME CopiesInv, Unshared, Contend = FALSE, [Next]_vars
  PROVE  CopiesInv'
  <1>1. TypeInv' /\ Apart'
    BY NextInv, ApartNext DEF CopiesInv
  <1>2. faults' = 0 => Known'
    BY FaultsStay, KnownNext DEF CopiesInv
  <1> QED
    BY <1>1, <1>2 DEF CopiesInv

\* Between requests an object's layout, metadata and blob ref name the same nodes
\* (PutObject, DeleteObject, RebalanceNode), for requests that do not overlap on an
\* object and contents that no two objects share, until a rebalance fails to write.
THEOREM RecordsAgree ==
  ASSUME Contend = FALSE, Unshared
  PROVE  Spec => []CopiesAgree
  <1>1. CopiesInv => CopiesAgree
    <2> SUFFICES ASSUME CopiesInv, NEW o \in Committed, Settled(o), faults = 0
                 PROVE  /\ GetLayout(o) = meta[o]
                        /\ disk[o] = meta[o]
                        /\ refs[meta[o].hash].places = meta[o].places
      BY DEF CopiesAgree
    <2>1. o \in Objects /\ meta[o] # NoLayout /\ Rest(o)
      BY DEF CopiesInv, Known, Committed
    <2> QED
      BY <2>1, ReadAtRest DEF Rest, Linked, RefAt
  <1>2. CopiesInv /\ [Next]_vars => CopiesInv'
    BY CopiesNext
  <1> QED
    BY <1>1, <1>2, CopiesInit, PTL DEF Spec

\* Puts, deletes, repairs, rebalances and changes of the members cost a committed
\* object no shard: its layout misses no more than disks have lost (rebalance.go,
\* repair.go, placement.go), under the same assumptions.
THEOREM ShardsSurvive ==
  ASSUME Contend = FALSE, Unshared
  PROVE  Spec => []LostOnlyByLoss
  <1>1. CopiesInv => LostOnlyByLoss
    <2> SUFFICES ASSUME CopiesInv, NEW o \in Committed, Settled(o), faults = 0
                 PROVE  /\ GetLayout(o).hash = meta[o].hash
                        /\ Cardinality(LostShards(GetLayout(o))) <= losses
      BY DEF LostOnlyByLoss
    <2>1. o \in Objects /\ meta[o] # NoLayout /\ Rest(o)
      BY DEF CopiesInv, Known, Committed
    <2>2. GetLayout(o) = meta[o]
      BY <2>1, ReadAtRest
    <2>3. Cardinality(LostIn(meta[o], files)) <= losses
      BY <2>1 DEF Rest, Sound, Few
    <2>4. LostShards(meta[o]) = LostIn(meta[o], files)
      BY DEF LostShards, LostIn
    <2> QED
      BY <2>2, <2>3, <2>4
  <1>2. CopiesInv /\ [Next]_vars => CopiesInv'
    BY CopiesNext
  <1> QED
    BY <1>1, <1>2, CopiesInit, PTL DEF Spec

=============================================================================
