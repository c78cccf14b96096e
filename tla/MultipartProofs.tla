--------------------------- MODULE MultipartProofs ---------------------------
(***************************************************************************)
(* Multipart uploads for any number of clients, uploads, parts, contents   *)
(* and faults: types, what the properties of the run say, and the step     *)
(* simulation of UploadContract.  All of it rests on MultipartInv, which   *)
(* says what a request that holds the mutex has read and written, and how  *)
(* the files of an upload agree with its metadata meanwhile.               *)
(***************************************************************************)
EXTENDS Multipart, TLAPS

(* The steps at which a request holds the mutex. *)
Holding == {"created", "receiving", "renamed"}

MutexHeld == \A c \in Clients : req[c].at \in Holding <=> mu = c

(* What the locals of a request are at each of its steps. *)
Locals(r) ==
    /\ r.at = "idle" <=> r.op = "none"
    /\ r.op = "none" => r = NoRequest
    /\ r.op = "list" => r.at = "waiting"
    /\ r.at = "waiting" /\ r.op # "initiate" => r.up \in Uploads
    /\ r.at = "created" => r.up \in Uploads
    /\ r.at \in {"receiving", "renamed"} =>
          /\ r.up \in Uploads
          /\ r.num \in PartNumbers
          /\ r.body \in Contents
          /\ r.upload \in Metadata
    /\ r.at = "renamed" => Len(r.value) = 1
    /\ r.at = "assembled" =>
          /\ r.target \in Targets
          /\ r.value \in Seq(Contents)
          /\ Len(r.value) = Len(r.want)
          /\ \A i \in DOMAIN r.value : r.want[i] \in {None, r.value[i]}
    /\ r.at \in {"assembled", "removing"} => r.up \in Uploads

LocalsOK == \A c \in Clients : Locals(req[c])

(* Nothing is on disk of an id that was not given out. *)
Unused(u) ==
    /\ meta[u] = None
    /\ file[u] = NoParts
    /\ acked[u] = NoParts
    /\ u \notin ended

FreshOK ==
    /\ \A u \in Uploads \ issued : Unused(u)
    /\ \A c \in Clients : req[c].at = "created" =>
          req[c].up \in dir /\ Unused(req[c].up)

(* A part upload that holds the mutex has loaded the current metadata, and *)
(* once it has renamed the file, the file holds its body.                  *)
LoadedOK ==
    \A c \in Clients :
       /\ req[c].at \in {"receiving", "renamed"} => meta[req[c].up] = req[c].upload
       /\ req[c].at = "renamed" => file[req[c].up][req[c].num] = req[c].body

Replaced(u, n) ==
    \E c \in Clients : req[c].at = "renamed" /\ req[c].up = u /\ req[c].num = n

(* The metadata of an upload lists what was answered, in its directory,    *)
(* and the files of the parts are those the tags are of.                   *)
TagsOK ==
    \A u \in Uploads : meta[u] # None =>
       /\ u \in dir
       /\ meta[u].parts = acked[u]
       /\ \A n \in PartNumbers : acked[u][n] # None =>
             file[u][n] = acked[u][n] \/ <<u, n>> \in torn \/ Replaced(u, n)

EndedOK == \A u \in ended : meta[u] = None /\ file[u] = NoParts /\ u \notin dir

DirsOK ==
    \A u \in dir : \/ meta[u] # None
                   \/ faults > 0
                   \/ \E c \in Clients : req[c].at = "created" /\ req[c].up = u

MultipartInv ==
    /\ MultipartTypeOK
    /\ MutexHeld
    /\ LocalsOK
    /\ FreshOK
    /\ LoadedOK
    /\ TagsOK
    /\ EndedOK
    /\ DirsOK
    /\ CommittedAsListed

(***************************************************************************)
(* Facts about requests                                                    *)
(***************************************************************************)
\* The locals of a request that is over.
LEMMA NoRequestLocals == NoRequest \in Request /\ Locals(NoRequest)
  BY DEF NoRequest, Request, Locals

\* The invariant holds at the start.
LEMMA InitInv == Init => MultipartInv
  <1> SUFFICES ASSUME Init PROVE MultipartInv
    OBVIOUS
  <1> USE MultipartAssumption
  <1>1. \A c \in Clients : req[c] = NoRequest
    BY DEF Init
  <1>2. NoParts \in Tags
    BY DEF NoParts, Tags
  <1>3. MultipartTypeOK
    BY <1>2, NoRequestLocals DEF Init, MultipartTypeOK
  <1>4. MutexHeld /\ LocalsOK /\ FreshOK /\ LoadedOK
    BY <1>1, NoRequestLocals DEF Init, MutexHeld, LocalsOK, FreshOK, LoadedOK, NoRequest,
                               Holding, Unused
  <1>5. TagsOK /\ EndedOK /\ DirsOK /\ CommittedAsListed
    BY DEF Init, TagsOK, EndedOK, DirsOK, CommittedAsListed
  <1> QED
    BY <1>3, <1>4, <1>5 DEF MultipartInv

\* What the invariant says of one request.
LEMMA RequestFacts ==
  ASSUME MultipartInv, NEW c \in Clients
  PROVE  /\ req[c] \in Request /\ Locals(req[c])
         /\ mu \in Clients \cup {None}
         /\ req[c].at \in Holding <=> mu = c
         /\ mu = None => req[c].at \notin Holding
  <1>1. req \in [Clients -> Request] /\ mu \in Clients \cup {None}
    BY DEF MultipartInv, MultipartTypeOK
  <1>2. Locals(req[c]) /\ (req[c].at \in Holding <=> mu = c)
    BY DEF MultipartInv, LocalsOK, MutexHeld
  <1>3. None \notin Clients
    BY MultipartAssumption
  <1> QED
    BY <1>1, <1>2, <1>3

(* A request moves on without touching an upload: it gets, keeps or gives  *)
(* back the mutex as its next step needs it.                               *)
Moves(c, r) ==
    /\ r \in Request /\ Locals(r)
    /\ req' = [req EXCEPT ![c] = r]
    /\ UNCHANGED <<dir, meta, file, issued, faults, acked, ended, torn>>
    /\ \/ UNCHANGED <<object, origin>>
       \/ /\ object' \in [Targets -> {None} \cup Seq(Contents)]
          /\ origin' \in [Targets -> {None} \cup Seq(Contents \cup {None})]
          /\ CommittedAsListed'
    /\ mu' \in Clients \cup {None}
    /\ r.at \in Holding <=> mu' = c
    /\ \A d \in Clients \ {c} : mu' = d <=> mu = d
    /\ {req[c].at, r.at} \cap {"created", "renamed"} = {}
    /\ r.at = "receiving" => meta[r.up] = r.upload

LEMMA MoveInv ==
  ASSUME MultipartInv, NEW c \in Clients, NEW r, Moves(c, r)
  PROVE  MultipartInv'
  <1>1. /\ req'[c] = r
        /\ \A d \in Clients \ {c} : req'[d] = req[d]
    BY DEF MultipartInv, MultipartTypeOK, Moves
  <1>2. /\ \A d \in Clients : req'[d].at \in {"created", "renamed"} => req'[d] = req[d]
        /\ \A d \in Clients : req[d].at \in {"created", "renamed"} => req'[d] = req[d]
    BY <1>1 DEF Moves
  <1>3. UNCHANGED <<dir, meta, file, issued, faults, acked, ended, torn>>
    BY DEF Moves
  <1>4. MultipartTypeOK'
    BY <1>3 DEF MultipartInv, MultipartTypeOK, Moves
  <1>5. MutexHeld' /\ LocalsOK'
    BY <1>1 DEF MultipartInv, MutexHeld, LocalsOK, Moves
  <1>6. FreshOK'
    BY <1>2, <1>3 DEF MultipartInv, FreshOK, Unused
  <1>7. LoadedOK'
    BY <1>1, <1>3 DEF MultipartInv, LoadedOK, Moves
  <1>8. \A u, n : Replaced(u, n) => Replaced(u, n)'
    BY <1>2 DEF Replaced
  <1>9. TagsOK' /\ EndedOK'
    BY <1>3, <1>8 DEF MultipartInv, TagsOK, EndedOK
  <1>10. DirsOK'
    BY <1>2, <1>3 DEF MultipartInv, DirsOK
  <1>11. CommittedAsListed'
    BY DEF MultipartInv, CommittedAsListed, Moves
  <1> QED
    BY <1>4, <1>5, <1>6, <1>7, <1>9, <1>10, <1>11 DEF MultipartInv

\* A request is answered without touching the disk.
LEMMA AnswerInv ==
  ASSUME MultipartInv, NEW c \in Clients, Answer(c),
         UNCHANGED <<dir, meta, file, object, issued, faults, history>>,
         req[c].at \notin {"created", "renamed"},
         mu' = IF mu = c THEN None ELSE mu
  PROVE  MultipartInv'
  <1>1. NoRequest.at = "idle"
    BY DEF NoRequest
  <1>2. /\ mu' \in Clients \cup {None}
        /\ mu' # c
        /\ \A d \in Clients \ {c} : mu' = d <=> mu = d
    BY RequestFacts, MultipartAssumption
  <1>3. UNCHANGED <<dir, meta, file, object, issued, faults, acked, ended, origin, torn>>
    BY DEF history
  <1>4. Moves(c, NoRequest)
    BY <1>1, <1>2, <1>3, NoRequestLocals DEF Answer, Holding, Moves
  <1> QED
    BY <1>4, MoveInv

(* The locals of a request that has just arrived, or that only has to      *)
(* remove the upload.                                                      *)
Asked(op, u, at) == [NoRequest EXCEPT !.op = op, !.up = u, !.at = at]

LEMMA AskedLocals ==
  ASSUME NEW op \in {"initiate", "put", "complete", "abort", "list"},
         NEW u \in Uploads \cup {None}, u = None => op = "initiate",
         NEW at \in {"waiting", "removing"}, op = "list" => at = "waiting",
         u = None => at = "waiting"
  PROVE  Asked(op, u, at) \in Request /\ Locals(Asked(op, u, at)) /\ Asked(op, u, at).at = at
  <1> DEFINE r == Asked(op, u, at)
  <1>1. r \in Request
    BY NoRequestLocals DEF Request, Asked
  <1>2. r.op = op /\ r.up = u /\ r.at = at
    BY DEF NoRequest, Asked
  <1> HIDE DEF r
  <1>3. Locals(r)
    BY <1>2 DEF Locals
  <1> QED
    BY <1>1, <1>2, <1>3 DEF r

LEMMA AskInv ==
  ASSUME MultipartInv, NEW c \in Clients, NEW op \in {"initiate", "put", "complete", "abort", "list"},
         NEW u \in Uploads \cup {None}, u = None => op = "initiate", Ask(c, op, u)
  PROVE  MultipartInv'
  <1> DEFINE at == IF op = "abort" THEN "removing" ELSE "waiting"
             r == Asked(op, u, at)
  <1>1. /\ req' = [req EXCEPT ![c] = r] /\ req[c] = NoRequest
        /\ UNCHANGED <<dir, meta, file, object, mu, issued, faults, history>>
    BY DEF Ask, Arrives, Asked
  <1>2. /\ at \in {"waiting", "removing"}
        /\ op = "list" => at = "waiting"
        /\ u = None => at = "waiting"
    OBVIOUS
  <1> HIDE DEF at
  <1>3. r \in Request /\ Locals(r) /\ r.at = at
    BY <1>2, AskedLocals
  <1> HIDE DEF r
  <1>4. req[c].at = "idle" /\ mu' = mu
    BY <1>1 DEF NoRequest
  <1>5. req[c].at \notin Holding
    BY <1>4 DEF Holding
  <1>6. mu # c /\ mu \in Clients \cup {None}
    BY <1>5, RequestFacts
  <1>7. Moves(c, r)
    BY <1>1, <1>2, <1>3, <1>4, <1>6 DEF Moves, Holding, history
  <1> QED
    BY <1>7, MoveInv

(***************************************************************************)
(* Steps after which nobody holds the mutex                                *)
(***************************************************************************)
Released ==
    /\ req' \in [Clients -> Request]
    /\ mu' = None
    /\ \A d \in Clients : Locals(req'[d]) /\ req'[d].at \notin Holding

LEMMA AnswerReleases ==
  ASSUME MultipartInv, NEW c \in Clients, Answer(c), mu \in {None, c}, mu' = None
  PROVE  Released
  <1>1. req \in [Clients -> Request]
    BY DEF MultipartInv, MultipartTypeOK
  <1>2. req' \in [Clients -> Request] /\ req'[c] = NoRequest
        /\ \A d \in Clients \ {c} : req'[d] = req[d]
    BY <1>1, NoRequestLocals DEF Answer
  <1>3. NoRequest.at \notin Holding
    BY DEF NoRequest, Holding
  <1>4. \A d \in Clients \ {c} : Locals(req[d]) /\ req[d].at \notin Holding
    BY RequestFacts, MultipartAssumption
  <1> QED
    BY <1>2, <1>3, <1>4, NoRequestLocals DEF Released

LEMMA ReleasedInv ==
  ASSUME Released
  PROVE  /\ MutexHeld' /\ LocalsOK' /\ LoadedOK'
         /\ mu' \in Clients \cup {None}
         /\ \A d \in Clients : req'[d].at \notin {"created", "receiving", "renamed"}
  <1>1. \A d \in Clients : req'[d].at \notin {"created", "receiving", "renamed"}
    BY DEF Released, Holding
  <1>2. MutexHeld' /\ LocalsOK'
    BY MultipartAssumption DEF Released, MutexHeld, LocalsOK
  <1>3. LoadedOK'
    BY <1>1 DEF LoadedOK
  <1> QED
    BY <1>1, <1>2, <1>3 DEF Released

\* While nobody holds the mutex, no request is in the middle of its writes.
LEMMA FreeFacts ==
  ASSUME MultipartInv, mu = None
  PROVE  \A d \in Clients : req[d].at \notin {"created", "receiving", "renamed"}
  BY RequestFacts DEF Holding

(* A step of the request that has the mutex, or of the server, that ends   *)
(* with the mutex free and changes what is on disk of the uploads U only.  *)
Changes(U) ==
    /\ Released
    /\ U \subseteq issued
    /\ \A d \in Clients : req[d].at \in {"created", "renamed"} => req[d].up \in U
    /\ UNCHANGED <<object, issued, origin>>
    /\ meta' \in [Uploads -> {None} \cup Metadata]
    /\ file' \in [Uploads -> Tags]
    /\ acked' \in [Uploads -> Tags]
    /\ dir' \subseteq issued /\ ended' \subseteq issued
    /\ torn' \subseteq Uploads \X PartNumbers
    /\ faults' \in 0 .. MaxFaults /\ faults' >= faults
    /\ \A v \in Uploads \ U :
          /\ meta'[v] = meta[v] /\ file'[v] = file[v] /\ acked'[v] = acked[v]
          /\ (v \in dir' <=> v \in dir) /\ (v \in ended' <=> v \in ended)
          /\ \A n \in PartNumbers : <<v, n>> \in torn => <<v, n>> \in torn'
    /\ \A u \in U :
          /\ meta'[u] # None =>
                /\ u \in dir' /\ meta'[u].parts = acked'[u]
                /\ \A n \in PartNumbers : acked'[u][n] # None =>
                      file'[u][n] = acked'[u][n] \/ <<u, n>> \in torn'
          /\ u \in ended' => meta'[u] = None /\ file'[u] = NoParts /\ u \notin dir'
          /\ u \in dir' => meta'[u] # None \/ faults' > 0

LEMMA ChangesInv ==
  ASSUME MultipartInv, NEW U, Changes(U)
  PROVE  MultipartInv'
  <1>1. /\ MutexHeld' /\ LocalsOK' /\ LoadedOK' /\ mu' \in Clients \cup {None}
        /\ \A d \in Clients : req'[d].at \notin {"created", "receiving", "renamed"}
        /\ req' \in [Clients -> Request]
    BY ReleasedInv DEF Changes, Released
  <1>2. MultipartTypeOK'
    BY <1>1 DEF MultipartInv, MultipartTypeOK, Changes
  <1>3. FreshOK'
    <2>1. ASSUME NEW v \in Uploads \ issued'
          PROVE  Unused(v)'
      BY <2>1 DEF Changes, MultipartInv, FreshOK, Unused
    <2> QED
      BY <1>1, <2>1 DEF FreshOK
  <1>4. TagsOK'
    <2> SUFFICES ASSUME NEW v \in Uploads, meta'[v] # None
                 PROVE  /\ v \in dir'
                        /\ meta'[v].parts = acked'[v]
                        /\ \A n \in PartNumbers : acked'[v][n] # None =>
                              \/ file'[v][n] = acked'[v][n]
                              \/ <<v, n>> \in torn' \/ Replaced(v, n)'
      BY DEF TagsOK
    <2>1. CASE v \in U
      BY <2>1 DEF Changes
    <2>2. CASE v \notin U
      <3>1. /\ meta'[v] = meta[v] /\ file'[v] = file[v] /\ acked'[v] = acked[v]
            /\ (v \in dir' <=> v \in dir)
            /\ \A n \in PartNumbers : <<v, n>> \in torn => <<v, n>> \in torn'
        BY <2>2 DEF Changes
      <3>2. \A n \in PartNumbers : ~Replaced(v, n)
        BY <2>2 DEF Changes, Replaced
      <3> QED
        BY <3>1, <3>2 DEF MultipartInv, TagsOK
    <2> QED
      BY <2>1, <2>2
  <1>5. EndedOK'
    <2> SUFFICES ASSUME NEW v \in ended'
                 PROVE  meta'[v] = None /\ file'[v] = NoParts /\ v \notin dir'
      BY DEF EndedOK
    <2>1. v \in Uploads
      BY DEF Changes, MultipartInv, MultipartTypeOK
    <2> QED
      BY <2>1 DEF Changes, MultipartInv, EndedOK
  <1>6. DirsOK'
    <2> SUFFICES ASSUME NEW v \in dir'
                 PROVE  meta'[v] # None \/ faults' > 0
      BY DEF DirsOK
    <2>1. v \in Uploads
      BY DEF Changes, MultipartInv, MultipartTypeOK
    <2>2. CASE v \in U
      BY <2>2 DEF Changes
    <2>3. CASE v \notin U
      <3>1. v \in dir /\ meta'[v] = meta[v]
        BY <2>1, <2>3 DEF Changes
      <3>2. meta[v] # None \/ faults > 0
        BY <3>1, <2>3 DEF MultipartInv, DirsOK, Changes
      <3> QED
        BY <3>1, <3>2 DEF Changes, MultipartInv, MultipartTypeOK
    <2> QED
      BY <2>2, <2>3
  <1>7. CommittedAsListed'
    BY DEF MultipartInv, CommittedAsListed, Changes
  <1> QED
    BY <1>1, <1>2, <1>3, <1>4, <1>5, <1>6, <1>7 DEF MultipartInv

\* The types of the state, one by one.
LEMMA StateTypes ==
  ASSUME MultipartInv
  PROVE  /\ dir \subseteq issued /\ issued \subseteq Uploads /\ ended \subseteq issued
         /\ meta \in [Uploads -> {None} \cup Metadata]
         /\ file \in [Uploads -> Tags] /\ acked \in [Uploads -> Tags]
         /\ object \in [Targets -> {None} \cup Seq(Contents)]
         /\ origin \in [Targets -> {None} \cup Seq(Contents \cup {None})]
         /\ faults \in 0 .. MaxFaults /\ MaxFaults \in Nat
         /\ torn \subseteq Uploads \X PartNumbers
         /\ req \in [Clients -> Request] /\ mu \in Clients \cup {None}
  <1>1. MultipartTypeOK /\ MaxFaults \in Nat
    BY MultipartAssumption DEF MultipartInv
  <1> QED
    BY <1>1, Zenon DEF MultipartTypeOK

\* A fault counts.
LEMMA FaultCounted ==
  ASSUME MultipartInv, Fault
  PROVE  faults' \in 0 .. MaxFaults /\ faults' > 0 /\ faults' >= faults
  <1>1. faults \in 0 .. MaxFaults /\ MaxFaults \in Nat
    BY StateTypes
  <1> QED
    BY <1>1 DEF Fault

\* Only the holder of the mutex is in the middle of its writes.
LEMMA HolderOnly ==
  ASSUME MultipartInv, NEW c \in Clients, mu = c
  PROVE  \A d \in Clients : req[d].at \in {"created", "receiving", "renamed"} => d = c
  BY RequestFacts DEF Holding

(***************************************************************************)
(* Initiate                                                                *)
(***************************************************************************)
LEMMA InitiateExhaustedInv ==
  ASSUME MultipartInv, NEW c \in Clients, InitiateExhausted(c)
  PROVE  MultipartInv'
  <1>1. /\ req[c].at = "waiting" /\ Answer(c) /\ mu' = mu
        /\ UNCHANGED <<dir, meta, file, object, issued, faults, history>>
    BY DEF InitiateExhausted
  <1>2. mu # c
    BY <1>1, RequestFacts DEF Holding
  <1> QED
    BY <1>1, <1>2, AnswerInv

LEMMA InitiateSaveInv ==
  ASSUME MultipartInv, NEW c \in Clients, InitiateSave(c)
  PROVE  MultipartInv'
  <1> DEFINE u == req[c].up
  <1>1. /\ req[c].at = "created" /\ Answer(c) /\ mu' = None
        /\ UNCHANGED <<dir, file, object, issued, acked, ended, origin, torn>>
    BY DEF InitiateSave, Unlock, history
  <1>2. mu = c /\ u \in Uploads /\ u \in dir /\ Unused(u)
    BY <1>1, RequestFacts DEF Holding, Locals, MultipartInv, FreshOK
  <1>3. Released
    BY <1>1, <1>2, AnswerReleases
  <1>4. \A d \in Clients : req[d].at \in {"created", "renamed"} => req[d].up = u
    BY <1>2, HolderOnly
  <1>5. \/ /\ \E t \in Targets : meta' = [meta EXCEPT ![u] = [target |-> t, parts |-> NoParts]]
           /\ faults' = faults
        \/ meta' = meta /\ faults' \in 0 .. MaxFaults /\ faults' > 0 /\ faults' >= faults
    <2>1. Fault => faults' \in 0 .. MaxFaults /\ faults' > 0 /\ faults' >= faults
      BY FaultCounted
    <2> QED
      BY <2>1, Zenon DEF InitiateSave
  <1>6. \A t \in Targets : [target |-> t, parts |-> NoParts] \in Metadata
    BY DEF NoParts, Tags, Metadata
  <1>7. /\ meta' \in [Uploads -> {None} \cup Metadata]
        /\ \A v \in Uploads \ {u} : meta'[v] = meta[v]
        /\ meta'[u] # None => meta'[u].parts = NoParts
        /\ meta'[u] # None \/ faults' > 0
        /\ faults' \in 0 .. MaxFaults /\ faults' >= faults
    <2>1. CASE meta' = meta /\ faults' \in 0 .. MaxFaults /\ faults' > 0 /\ faults' >= faults
      BY <2>1, <1>2, StateTypes DEF Unused
    <2>2. ASSUME NEW t \in Targets, faults' = faults,
                 meta' = [meta EXCEPT ![u] = [target |-> t, parts |-> NoParts]]
          PROVE  /\ meta' \in [Uploads -> {None} \cup Metadata]
                 /\ \A v \in Uploads \ {u} : meta'[v] = meta[v]
                 /\ meta'[u] # None => meta'[u].parts = NoParts
                 /\ meta'[u] # None \/ faults' > 0
                 /\ faults' \in 0 .. MaxFaults /\ faults' >= faults
      <3>1. meta'[u] = [target |-> t, parts |-> NoParts]
        BY <1>2, <2>2, StateTypes
      <3>2. meta'[u] # None
        BY <3>1, <1>6, NoneAssumption
      <3>3. meta' \in [Uploads -> {None} \cup Metadata]
        BY <1>2, <1>6, <2>2, StateTypes
      <3>4. faults' \in 0 .. MaxFaults /\ faults' >= faults
        BY <2>2, StateTypes
      <3> QED
        BY <1>2, <2>2, <3>1, <3>2, <3>3, <3>4, StateTypes
    <2> QED
      BY <1>5, <2>1, <2>2
  <1>8. Changes({u})
    BY <1>1, <1>2, <1>3, <1>4, <1>7, StateTypes DEF Changes, Unused, NoParts
  <1> QED
    BY <1>8, ChangesInv

\* The request of an initiation that has made its directory.
LEMMA CreatedRequest ==
  ASSUME MultipartInv, NEW c \in Clients, NEW u \in Uploads, req[c].op = "initiate",
         req' = [req EXCEPT ![c].at = "created", ![c].up = u]
  PROVE  /\ req' \in [Clients -> Request] /\ Locals(req'[c])
         /\ req'[c].at = "created" /\ req'[c].up = u
         /\ \A d \in Clients \ {c} : req'[d] = req[d]
  <1> DEFINE r == [req[c] EXCEPT !.at = "created", !.up = u]
  <1>1. req \in [Clients -> Request]
    BY StateTypes
  <1>2. req' = [req EXCEPT ![c] = r]
    BY <1>1
  <1>3. r \in Request /\ r.at = "created" /\ r.up = u /\ r.op = "initiate"
    BY <1>1 DEF Request
  <1> HIDE DEF r
  <1>4. Locals(r)
    BY <1>3 DEF Locals
  <1> QED
    BY <1>1, <1>2, <1>3, <1>4

LEMMA InitiateDirInv ==
  ASSUME MultipartInv, NEW c \in Clients, InitiateDir(c)
  PROVE  MultipartInv'
  <1>1. PICK u \in Uploads \ issued :
           /\ issued' = issued \cup {u}
           /\ dir' = dir \cup {u}
           /\ req' = [req EXCEPT ![c].at = "created", ![c].up = u]
    BY DEF InitiateDir
  <1>2. /\ mu = None /\ mu' = c /\ req[c].op = "initiate"
        /\ UNCHANGED <<meta, file, object, faults, acked, ended, origin, torn>>
    BY DEF InitiateDir, Lock, history
  <1>3. /\ req' \in [Clients -> Request] /\ Locals(req'[c])
        /\ req'[c].at = "created" /\ req'[c].up = u
        /\ \A d \in Clients \ {c} : req'[d] = req[d]
    BY <1>1, <1>2, CreatedRequest
  <1>4. \A d \in Clients : req[d].at \notin {"created", "receiving", "renamed"}
    BY <1>2, FreeFacts
  <1>5. \A d \in Clients \ {c} : req'[d].at \notin {"created", "receiving", "renamed"}
    BY <1>3, <1>4
  <1>6. MultipartTypeOK'
    BY <1>1, <1>2, <1>3 DEF MultipartInv, MultipartTypeOK
  <1>7. MutexHeld'
    BY <1>2, <1>3, <1>5, MultipartAssumption DEF MutexHeld, Holding
  <1>8. LocalsOK'
    BY <1>3 DEF MultipartInv, LocalsOK
  <1>9. Unused(u) /\ \A v \in Uploads : Unused(v)' <=> Unused(v)
    BY <1>1, <1>2 DEF MultipartInv, FreshOK, Unused
  <1>10. FreshOK'
    BY <1>1, <1>3, <1>5, <1>9 DEF MultipartInv, FreshOK
  <1>11. LoadedOK'
    BY <1>3, <1>5 DEF LoadedOK
  <1>12. TagsOK'
    BY <1>1, <1>2, <1>4 DEF MultipartInv, TagsOK, Replaced
  <1>13. EndedOK'
    BY <1>1, <1>2, <1>9 DEF MultipartInv, EndedOK, Unused
  <1>14. DirsOK'
    BY <1>1, <1>2, <1>3, <1>4 DEF MultipartInv, DirsOK
  <1>15. CommittedAsListed'
    BY <1>2 DEF MultipartInv, CommittedAsListed
  <1> QED
    BY <1>6, <1>7, <1>8, <1>10, <1>11, <1>12, <1>13, <1>14, <1>15 DEF MultipartInv

(***************************************************************************)
(* Upload of a part                                                        *)
(***************************************************************************)
LEMMA PutPartLoadInv ==
  ASSUME MultipartInv, NEW c \in Clients, NEW t \in Targets, NEW n \in PartNumbers,
         NEW b \in Contents, PutPartLoad(c, t, n, b)
  PROVE  MultipartInv'
  <1> DEFINE u == req[c].up
  <1>1. /\ req[c].op = "put" /\ req[c].at = "waiting"
        /\ UNCHANGED <<dir, meta, file, object, issued, faults, history>>
    BY DEF PutPartLoad
  <1>2. u \in Uploads /\ mu # c
    BY <1>1, RequestFacts DEF Locals, Holding
  <1>3. CASE meta[u] = None \/ meta[u].target # t
    <2>1. mu' = mu /\ Answer(c)
      BY <1>3 DEF PutPartLoad, Locked
    <2> QED
      BY <1>1, <1>2, <2>1, AnswerInv
  <1>4. CASE ~(meta[u] = None \/ meta[u].target # t)
    <2> DEFINE r == [req[c] EXCEPT !.at = "receiving", !.upload = meta[u], !.num = n, !.body = b]
    <2>1. /\ mu = None /\ mu' = c
          /\ req' = [req EXCEPT ![c].at = "receiving", ![c].upload = meta[u],
                                ![c].num = n, ![c].body = b]
      BY <1>4 DEF PutPartLoad, Lock
    <2>2. req \in [Clients -> Request] /\ meta[u] \in Metadata
      BY <1>2, <1>4, StateTypes
    <2>3. req' = [req EXCEPT ![c] = r]
      BY <2>1, <2>2
    <2>4. /\ r \in Request /\ r.at = "receiving" /\ r.upload = meta[u] /\ r.num = n
          /\ r.body = b /\ r.up = u /\ r.op = "put"
      BY <1>1, <2>2 DEF Request
    <2> HIDE DEF r
    <2>5. Locals(r)
      BY <1>2, <2>2, <2>4 DEF Locals
    <2>6. \A d \in Clients \ {c} : mu' = d <=> mu = d
      BY <2>1, MultipartAssumption
    <2>7. r.at \in Holding /\ {req[c].at, r.at} \cap {"created", "renamed"} = {}
      BY <1>1, <2>4 DEF Holding
    <2>8. UNCHANGED <<dir, meta, file, object, issued, faults, acked, ended, origin, torn>>
      BY <1>1 DEF history
    <2>9. Moves(c, r)
      BY <2>1, <2>3, <2>4, <2>5, <2>6, <2>7, <2>8 DEF Moves
    <2> QED
      BY <2>9, MoveInv
  <1> QED
    BY <1>3, <1>4

LEMMA WritePartFailsInv ==
  ASSUME MultipartInv, NEW c \in Clients, WritePartFails(c)
  PROVE  MultipartInv'
  <1>1. /\ req[c].at = "receiving" /\ mu' = None /\ Answer(c)
        /\ UNCHANGED <<dir, meta, file, object, issued, faults, history>>
    BY DEF WritePartFails, Unlock
  <1>2. mu = c
    BY <1>1, RequestFacts DEF Holding
  <1> QED
    BY <1>1, <1>2, AnswerInv

\* The request of a part upload that has renamed its file.
LEMMA RenamedRequest ==
  ASSUME MultipartInv, NEW c \in Clients, req[c].at = "receiving",
         NEW old \in Contents \cup {None},
         req' = [req EXCEPT ![c].at = "renamed", ![c].value = <<old>>]
  PROVE  /\ req' \in [Clients -> Request] /\ Locals(req'[c])
         /\ req'[c].at = "renamed" /\ req'[c].up = req[c].up /\ req'[c].num = req[c].num
         /\ req'[c].body = req[c].body /\ req'[c].upload = req[c].upload
         /\ req'[c].value = <<old>>
         /\ \A d \in Clients \ {c} : req'[d] = req[d]
  <1> DEFINE r == [req[c] EXCEPT !.at = "renamed", !.value = <<old>>]
  <1>1. req \in [Clients -> Request] /\ Locals(req[c])
    BY StateTypes, RequestFacts
  <1>2. req' = [req EXCEPT ![c] = r]
    BY <1>1
  <1>3. <<old>> \in Seq(Contents \cup {None}) /\ Len(<<old>>) = 1
    OBVIOUS
  <1>4. /\ r \in Request /\ r.at = "renamed" /\ r.up = req[c].up /\ r.num = req[c].num
        /\ r.body = req[c].body /\ r.upload = req[c].upload /\ r.op = req[c].op
        /\ r.value = <<old>>
    BY <1>1, <1>3 DEF Request
  <1> HIDE DEF r
  <1>5. Locals(r)
    BY <1>1, <1>3, <1>4 DEF Locals
  <1> QED
    BY <1>1, <1>2, <1>4, <1>5

\* A part upload that holds the mutex works on an open upload.
LEMMA PartFacts ==
  ASSUME MultipartInv, NEW c \in Clients, req[c].at \in {"receiving", "renamed"}
  PROVE  /\ mu = c
         /\ req[c].up \in Uploads /\ req[c].num \in PartNumbers /\ req[c].body \in Contents
         /\ meta[req[c].up] = req[c].upload /\ meta[req[c].up] \in Metadata
         /\ meta[req[c].up] # None
         /\ req[c].up \in dir /\ req[c].up \in issued /\ req[c].up \notin ended
         /\ meta[req[c].up].parts = acked[req[c].up]
         /\ req[c].at = "renamed" => file[req[c].up][req[c].num] = req[c].body
  <1>1. /\ req[c].up \in Uploads /\ req[c].num \in PartNumbers /\ req[c].body \in Contents
        /\ req[c].upload \in Metadata /\ mu = c
    BY RequestFacts DEF Locals, Holding
  <1>2. /\ meta[req[c].up] = req[c].upload
        /\ req[c].at = "renamed" => file[req[c].up][req[c].num] = req[c].body
    BY DEF MultipartInv, LoadedOK
  <1>3. meta[req[c].up] # None
    BY <1>1, <1>2, NoneAssumption
  <1>4. req[c].up \in dir /\ meta[req[c].up].parts = acked[req[c].up]
    BY <1>1, <1>3 DEF MultipartInv, TagsOK
  <1>5. req[c].up \in issued /\ req[c].up \notin ended
    BY <1>3, <1>4, StateTypes DEF MultipartInv, EndedOK
  <1> QED
    BY <1>1, <1>2, <1>3, <1>4, <1>5

LEMMA WritePartInv ==
  ASSUME MultipartInv, NEW c \in Clients, WritePart(c)
  PROVE  MultipartInv'
  <1> DEFINE u == req[c].up
             n == req[c].num
             b == req[c].body
  <1>1. /\ req[c].at = "receiving"
        /\ file' = [file EXCEPT ![u][n] = b]
        /\ req' = [req EXCEPT ![c].at = "renamed", ![c].value = <<file[u][n]>>]
        /\ UNCHANGED <<dir, meta, object, mu, issued, faults, acked, ended, origin, torn>>
    BY DEF WritePart, history
  <1>2. /\ mu = c /\ u \in Uploads /\ n \in PartNumbers /\ b \in Contents
        /\ meta[u] = req[c].upload /\ meta[u] # None
        /\ u \in dir /\ u \in issued /\ u \notin ended
    BY <1>1, PartFacts
  <1>3. file \in [Uploads -> Tags] /\ file[u] \in Tags /\ file[u][n] \in Contents \cup {None}
    BY <1>2, StateTypes DEF Tags
  <1>4. /\ req' \in [Clients -> Request] /\ Locals(req'[c])
        /\ req'[c].at = "renamed" /\ req'[c].up = u /\ req'[c].num = n
        /\ req'[c].body = b /\ req'[c].upload = req[c].upload
        /\ \A d \in Clients \ {c} : req'[d] = req[d]
    BY <1>1, <1>3, RenamedRequest
  <1>5. \A d \in Clients \ {c} : req'[d].at \notin {"created", "receiving", "renamed"}
    BY <1>2, <1>4, HolderOnly
  <1>6. /\ file' \in [Uploads -> Tags] /\ file'[u][n] = b
        /\ \A v \in Uploads \ {u} : file'[v] = file[v]
        /\ \A m \in PartNumbers \ {n} : file'[u][m] = file[u][m]
    <2>1. [file[u] EXCEPT ![n] = b] \in Tags
      BY <1>2, <1>3 DEF Tags
    <2>2. file' = [file EXCEPT ![u] = [file[u] EXCEPT ![n] = b]]
      BY <1>1
    <2>3. file'[u] = [file[u] EXCEPT ![n] = b]
      BY <2>2, <1>2, <1>3
    <2>4. file'[u][n] = b /\ \A m \in PartNumbers \ {n} : file'[u][m] = file[u][m]
      BY <2>3, <1>2, <1>3 DEF Tags
    <2> QED
      BY <2>1, <2>2, <2>4, <1>2, <1>3
  <1>7. MultipartTypeOK'
    BY <1>1, <1>4, <1>6 DEF MultipartInv, MultipartTypeOK
  <1>8. MutexHeld'
    BY <1>1, <1>2, <1>4, <1>5 DEF MutexHeld, Holding
  <1>9. LocalsOK'
    BY <1>4 DEF MultipartInv, LocalsOK
  <1>10. FreshOK'
    BY <1>1, <1>2, <1>4, <1>5, <1>6 DEF MultipartInv, FreshOK, Unused
  <1>11. LoadedOK'
    BY <1>1, <1>2, <1>4, <1>5, <1>6 DEF LoadedOK
  <1>12. TagsOK'
    <2> SUFFICES ASSUME NEW v \in Uploads, meta'[v] # None
                 PROVE  /\ v \in dir'
                        /\ meta'[v].parts = acked'[v]
                        /\ \A m \in PartNumbers : acked'[v][m] # None =>
                              \/ file'[v][m] = acked'[v][m]
                              \/ <<v, m>> \in torn' \/ Replaced(v, m)'
      BY DEF TagsOK
    <2>1. \A k \in PartNumbers : v = u /\ k = n => Replaced(v, k)'
      BY <1>4 DEF Replaced
    <2>2. \A m \in PartNumbers : ~Replaced(v, m)
      BY <1>1, <1>2, HolderOnly DEF Replaced
    <2>3. /\ v \in dir /\ meta[v].parts = acked[v]
          /\ \A m \in PartNumbers : acked[v][m] # None =>
                file[v][m] = acked[v][m] \/ <<v, m>> \in torn
      BY <1>1, <2>2 DEF MultipartInv, TagsOK
    <2>4. ASSUME NEW m \in PartNumbers, acked[v][m] # None
          PROVE  file'[v][m] = acked[v][m] \/ <<v, m>> \in torn \/ Replaced(v, m)'
      <3>1. CASE v = u /\ m = n
        BY <2>1, <3>1
      <3>2. CASE ~(v = u /\ m = n)
        BY <1>6, <2>3, <2>4, <3>2
      <3> QED
        BY <3>1, <3>2
    <2> QED
      BY <1>1, <2>3, <2>4
  <1>13. EndedOK'
    BY <1>1, <1>2, <1>6, StateTypes DEF MultipartInv, EndedOK
  <1>14. DirsOK'
    BY <1>1, <1>2, <1>4, HolderOnly DEF MultipartInv, DirsOK
  <1>15. CommittedAsListed'
    BY <1>1 DEF MultipartInv, CommittedAsListed
  <1> QED
    BY <1>7, <1>8, <1>9, <1>10, <1>11, <1>12, <1>13, <1>14, <1>15 DEF MultipartInv

LEMMA PutPartSaveInv ==
  ASSUME MultipartInv, NEW c \in Clients, PutPartSave(c)
  PROVE  MultipartInv'
  <1> DEFINE u == req[c].up
             n == req[c].num
             b == req[c].body
             m == [req[c].upload EXCEPT !.parts[n] = b]
  <1>1. /\ req[c].at = "renamed" /\ mu' = None /\ Answer(c)
        /\ UNCHANGED <<file, object, issued, ended, origin>>
    BY DEF PutPartSave, Unlock
  <1>2. /\ mu = c /\ u \in Uploads /\ n \in PartNumbers /\ b \in Contents
        /\ meta[u] = req[c].upload /\ meta[u] \in Metadata /\ meta[u] # None
        /\ u \in dir /\ u \in issued /\ u \notin ended
        /\ meta[u].parts = acked[u] /\ file[u][n] = b
    BY <1>1, PartFacts
  <1>3. Released
    BY <1>1, <1>2, AnswerReleases
  <1>4. \A d \in Clients : req[d].at \in {"created", "renamed"} => d = c
    BY <1>2, HolderOnly
  <1>5. \A k \in PartNumbers \ {n} : acked[u][k] # None =>
           file[u][k] = acked[u][k] \/ <<u, k>> \in torn
    <2>1. \A k \in PartNumbers \ {n} : ~Replaced(u, k)
      BY <1>4 DEF Replaced
    <2> QED
      BY <2>1, <1>2 DEF MultipartInv, TagsOK
  <1>6. \/ /\ meta' = [meta EXCEPT ![u] = m]
           /\ dir' = dir \cup {u}
           /\ acked' = [acked EXCEPT ![u][n] = b]
           /\ torn' = torn \ {<<u, n>>}
           /\ UNCHANGED faults
        \/ /\ Fault
           /\ torn' = torn \cup {<<u, n>>}
           /\ UNCHANGED <<dir, meta, acked>>
    BY DEF PutPartSave
  <1>7. CASE /\ meta' = [meta EXCEPT ![u] = m]
             /\ dir' = dir \cup {u}
             /\ acked' = [acked EXCEPT ![u][n] = b]
             /\ torn' = torn \ {<<u, n>>}
             /\ UNCHANGED faults
    <2>1. m \in Metadata /\ m.parts = [acked[u] EXCEPT ![n] = b]
      <3>1. m = [req[c].upload EXCEPT !.parts = [req[c].upload.parts EXCEPT ![n] = b]]
        BY <1>2 DEF Metadata
      <3>2. [acked[u] EXCEPT ![n] = b] \in Tags
        BY <1>2, StateTypes DEF Tags
      <3> QED
        BY <1>2, <3>1, <3>2 DEF Metadata
    <2> HIDE DEF m
    <2>2. /\ acked' \in [Uploads -> Tags] /\ acked'[u][n] = b
          /\ acked'[u] = [acked[u] EXCEPT ![n] = b]
          /\ \A v \in Uploads \ {u} : acked'[v] = acked[v]
          /\ \A k \in PartNumbers \ {n} : acked'[u][k] = acked[u][k]
      <3>1. acked \in [Uploads -> Tags] /\ acked[u] \in Tags
        BY <1>2, StateTypes
      <3>2. [acked[u] EXCEPT ![n] = b] \in Tags
        BY <1>2, <3>1 DEF Tags
      <3>3. acked' = [acked EXCEPT ![u] = [acked[u] EXCEPT ![n] = b]]
        BY <1>7
      <3>4. acked'[u] = [acked[u] EXCEPT ![n] = b]
        BY <3>3, <1>2, <3>1
      <3>5. acked'[u][n] = b /\ \A k \in PartNumbers \ {n} : acked'[u][k] = acked[u][k]
        BY <3>4, <1>2, <3>1 DEF Tags
      <3> QED
        BY <3>1, <3>2, <3>3, <3>4, <3>5, <1>2
    <2>3. /\ meta' \in [Uploads -> {None} \cup Metadata] /\ meta'[u] = m
          /\ \A v \in Uploads \ {u} : meta'[v] = meta[v]
      BY <1>2, <1>7, <2>1, StateTypes
    <2>4. /\ torn' \subseteq Uploads \X PartNumbers
          /\ \A v \in Uploads \ {u} : \A k \in PartNumbers :
                <<v, k>> \in torn => <<v, k>> \in torn'
          /\ \A k \in PartNumbers \ {n} : <<u, k>> \in torn => <<u, k>> \in torn'
      BY <1>7, StateTypes
    <2>5. dir' = dir /\ faults' \in 0 .. MaxFaults /\ faults' >= faults
      BY <1>2, <1>7, StateTypes
    <2>6. m # None
      BY <2>1, NoneAssumption
    <2>7. \A k \in PartNumbers : acked'[u][k] # None =>
             file'[u][k] = acked'[u][k] \/ <<u, k>> \in torn'
      BY <1>1, <1>2, <1>5, <2>2, <2>4
    <2>8. Changes({u})
      BY <1>1, <1>2, <1>3, <1>4, <2>1, <2>2, <2>3, <2>4, <2>5, <2>6, <2>7, StateTypes
         DEF Changes
    <2> QED
      BY <2>8, ChangesInv
  <1>8. CASE /\ Fault
             /\ torn' = torn \cup {<<u, n>>}
             /\ UNCHANGED <<dir, meta, acked>>
    <2>1. faults' \in 0 .. MaxFaults /\ faults' > 0 /\ faults' >= faults
      BY <1>8, FaultCounted
    <2>2. /\ torn' \subseteq Uploads \X PartNumbers
          /\ <<u, n>> \in torn' /\ \A p \in torn : p \in torn'
      BY <1>2, <1>8, StateTypes
    <2>3. \A k \in PartNumbers : acked'[u][k] # None =>
             file'[u][k] = acked'[u][k] \/ <<u, k>> \in torn'
      BY <1>1, <1>5, <1>8, <2>2
    <2>4. Changes({u})
      BY <1>1, <1>2, <1>3, <1>4, <1>8, <2>1, <2>2, <2>3, StateTypes DEF Changes
    <2> QED
      BY <2>4, ChangesInv
  <1> QED
    BY <1>6, <1>7, <1>8

(***************************************************************************)
(* Completion                                                              *)
(***************************************************************************)
\* A function on 1 .. k is a sequence of length k.
LEMMA SequenceOf ==
  ASSUME NEW S, NEW k \in Nat, NEW f \in [1 .. k -> S]
  PROVE  f \in Seq(S) /\ Len(f) = k
  OBVIOUS

\* What a completion copies: of every listed part, its file, which is the
\* listed content unless a fault tore the part.
LEMMA AssembledParts ==
  ASSUME MultipartInv, mu = None, NEW u \in Uploads, meta[u] # None,
         NEW list \in PartLists, completeParts(meta[u], list),
         \A i \in DOMAIN list : file[u][list[i].num] # None,
         NEW value, value = [i \in DOMAIN list |-> file[u][list[i].num]],
         NEW want, want = [i \in DOMAIN list |->
                             IF <<u, list[i].num>> \in torn THEN None ELSE list[i].etag]
  PROVE  /\ value \in Seq(Contents) /\ want \in Seq(Contents \cup {None})
         /\ Len(value) = Len(want)
         /\ \A i \in DOMAIN value : want[i] \in {None, value[i]}
  <1>1. PICK k \in Nat : list \in [1 .. k -> ListItem]
    <2>1. \E k \in 0 .. MaxList : list \in [1 .. k -> ListItem]
      BY Zenon DEF PartLists
    <2>2. 0 .. MaxList \subseteq Nat
      BY MultipartAssumption
    <2> QED
      BY <2>1, <2>2
  <1>2. DOMAIN list = 1 .. k /\ \A i \in 1 .. k : list[i] \in ListItem
    BY <1>1
  <1>3. \A i \in 1 .. k : list[i].num \in PartNumbers /\ list[i].etag \in Contents \cup {None}
    BY <1>2 DEF ListItem
  <1>4. /\ file[u] \in Tags /\ acked[u] \in Tags /\ meta[u].parts = acked[u]
        /\ \A n \in PartNumbers : ~Replaced(u, n)
    <2>1. \A n \in PartNumbers : ~Replaced(u, n)
      BY FreeFacts DEF Replaced
    <2>2. meta[u].parts = acked[u]
      BY DEF MultipartInv, TagsOK
    <2> QED
      BY <2>1, <2>2, StateTypes
  <1>5. \A i \in 1 .. k : file[u][list[i].num] \in Contents
    BY <1>2, <1>3, <1>4 DEF Tags
  <1>6. value \in [1 .. k -> Contents]
    BY <1>2, <1>5
  <1>7. want \in [1 .. k -> Contents \cup {None}]
    BY <1>2, <1>3
  <1>8. ASSUME NEW i \in 1 .. k
        PROVE  want[i] \in {None, value[i]}
    <2>1. CASE <<u, list[i].num>> \in torn
      BY <2>1, <1>2
    <2>2. CASE <<u, list[i].num>> \notin torn
      <3>1. acked[u][list[i].num] # None /\ list[i].etag \in {None, acked[u][list[i].num]}
        BY <1>2, <1>4 DEF completeParts, etagMatches
      <3>2. file[u][list[i].num] = acked[u][list[i].num]
        BY <1>3, <1>4, <2>2, <3>1 DEF MultipartInv, TagsOK
      <3> QED
        BY <1>2, <2>2, <3>1, <3>2
    <2> QED
      BY <2>1, <2>2
  <1>9. value \in Seq(Contents) /\ Len(value) = k
    BY <1>6, SequenceOf, Zenon
  <1>10. want \in Seq(Contents \cup {None}) /\ Len(want) = k
    BY <1>7, SequenceOf, Zenon
  <1>11. DOMAIN value = 1 .. k
    BY <1>6
  <1> QED
    BY <1>8, <1>9, <1>10, <1>11, Zenon

LEMMA AssembleInv ==
  ASSUME MultipartInv, NEW c \in Clients, NEW list \in PartLists, Assemble(c, list)
  PROVE  MultipartInv'
  <1> DEFINE u == req[c].up
             value == [i \in DOMAIN list |-> file[u][list[i].num]]
             want == [i \in DOMAIN list |->
                        IF <<u, list[i].num>> \in torn THEN None ELSE list[i].etag]
             accepted == /\ meta[u] # None
                         /\ completeParts(meta[u], list)
                         /\ \A i \in DOMAIN list : file[u][list[i].num] # None
  <1>1. /\ req[c].op = "complete" /\ req[c].at = "waiting" /\ mu = None /\ mu' = mu
        /\ UNCHANGED <<dir, meta, file, object, issued, faults, history>>
    BY DEF Assemble, Locked
  <1>2. u \in Uploads /\ mu # c
    BY <1>1, RequestFacts DEF Locals, Holding
  <1>3. CASE ~accepted
    <2>1. Answer(c)
      BY <1>3 DEF Assemble
    <2> QED
      BY <1>1, <1>2, <2>1, AnswerInv
  <1>4. CASE accepted
    <2>1. req' = [req EXCEPT ![c].at = "assembled", ![c].target = meta[u].target,
                             ![c].value = value, ![c].want = want]
      BY <1>4 DEF Assemble
    <2>2. /\ value \in Seq(Contents) /\ want \in Seq(Contents \cup {None})
          /\ Len(value) = Len(want)
          /\ \A i \in DOMAIN value : want[i] \in {None, value[i]}
      BY <1>1, <1>2, <1>4, AssembledParts
    <2> HIDE DEF value, want
    <2>3. req \in [Clients -> Request] /\ meta[u].target \in Targets
      BY <1>2, <1>4, StateTypes DEF Metadata
    <2>4. value \in Seq(Contents \cup {None})
      BY <2>2
    <2> DEFINE r == [req[c] EXCEPT !.at = "assembled", !.target = meta[u].target,
                                   !.value = value, !.want = want]
    <2>5. req' = [req EXCEPT ![c] = r]
      BY <2>1, <2>3
    <2>6. /\ r \in Request /\ r.at = "assembled" /\ r.target = meta[u].target
          /\ r.value = value /\ r.want = want /\ r.up = u /\ r.op = "complete"
      BY <1>1, <2>2, <2>3, <2>4 DEF Request
    <2> HIDE DEF r
    <2>7. Locals(r)
      BY <1>2, <2>2, <2>3, <2>6 DEF Locals
    <2>8. mu' \in Clients \cup {None} /\ mu' # c /\ \A d \in Clients \ {c} : mu' = d <=> mu = d
      BY <1>1, <1>2
    <2>9. r.at \notin Holding /\ {req[c].at, r.at} \cap {"created", "renamed"} = {}
      BY <1>1, <2>6 DEF Holding
    <2>10. UNCHANGED <<dir, meta, file, object, issued, faults, acked, ended, origin, torn>>
      BY <1>1 DEF history
    <2>11. Moves(c, r)
      BY <2>5, <2>6, <2>7, <2>8, <2>9, <2>10 DEF Moves
    <2> QED
      BY <2>11, MoveInv
  <1> QED
    BY <1>3, <1>4

LEMMA PutAssembledInv ==
  ASSUME MultipartInv, NEW c \in Clients, PutAssembled(c)
  PROVE  MultipartInv'
  <1> DEFINE t == req[c].target
             r == Asked("complete", req[c].up, "removing")
  <1>1. /\ req[c].at = "assembled"
        /\ object' = [object EXCEPT ![t] = req[c].value]
        /\ origin' = [origin EXCEPT ![t] = req[c].want]
        /\ req' = [req EXCEPT ![c] = r]
        /\ UNCHANGED <<dir, meta, file, mu, issued, faults, acked, ended, torn>>
    BY DEF PutAssembled, Asked
  <1>2. /\ t \in Targets /\ req[c].value \in Seq(Contents) /\ req[c].up \in Uploads
        /\ Len(req[c].value) = Len(req[c].want)
        /\ \A i \in DOMAIN req[c].value : req[c].want[i] \in {None, req[c].value[i]}
        /\ req[c].want \in Seq(Contents \cup {None})
        /\ mu # c /\ mu \in Clients \cup {None}
    BY <1>1, RequestFacts DEF Locals, Holding, Request
  <1>3. /\ object' \in [Targets -> {None} \cup Seq(Contents)]
        /\ origin' \in [Targets -> {None} \cup Seq(Contents \cup {None})]
        /\ object'[t] = req[c].value /\ origin'[t] = req[c].want
        /\ \A s \in Targets \ {t} : object'[s] = object[s] /\ origin'[s] = origin[s]
    BY <1>1, <1>2, StateTypes
  <1>4. CommittedAsListed'
    <2> SUFFICES ASSUME NEW s \in Targets, object'[s] # None
                 PROVE  /\ Len(object'[s]) = Len(origin'[s])
                        /\ \A i \in DOMAIN object'[s] : origin'[s][i] \in {None, object'[s][i]}
      BY DEF CommittedAsListed
    <2>1. CASE s = t
      BY <2>1, <1>2, <1>3
    <2>2. CASE s # t
      BY <2>2, <1>3 DEF MultipartInv, CommittedAsListed
    <2> QED
      BY <2>1, <2>2
  <1>5. r \in Request /\ Locals(r) /\ r.at = "removing"
    <2> DEFINE op == "complete"
               at == "removing"
    <2>1. req[c].up \in Uploads \cup {None} /\ req[c].up # None
      <3>1. req[c].up \in Uploads
        BY <1>2
      <3>2. None \notin Uploads
        BY MultipartAssumption
      <3> QED
        BY <3>1, <3>2
    <2>2. /\ op \in {"initiate", "put", "complete", "abort", "list"} /\ op # "list"
          /\ at \in {"waiting", "removing"}
      OBVIOUS
    <2> HIDE DEF op, at
    <2>3. Asked(op, req[c].up, at) \in Request /\ Locals(Asked(op, req[c].up, at))
          /\ Asked(op, req[c].up, at).at = at
      BY <2>1, <2>2, AskedLocals
    <2> QED
      BY <2>3 DEF op, at
  <1> HIDE DEF r
  <1>6. r.at \notin Holding /\ {req[c].at, r.at} \cap {"created", "renamed"} = {}
    BY <1>1, <1>5 DEF Holding
  <1>7. Moves(c, r)
    BY <1>1, <1>2, <1>3, <1>4, <1>5, <1>6 DEF Moves
  <1> QED
    BY <1>7, MoveInv

\* A request that is answered without a change while it does not hold the
\* mutex.
LEMMA GivenUpInv ==
  ASSUME MultipartInv, NEW c \in Clients, Answer(c),
         req[c].at \in {"waiting", "assembled", "removing"}, mu' = mu,
         UNCHANGED <<dir, meta, file, object, issued, faults, acked, ended, origin, torn>>
  PROVE  MultipartInv'
  <1>1. mu # c /\ req[c].at \notin {"created", "renamed"}
    BY RequestFacts DEF Holding
  <1>2. UNCHANGED <<dir, meta, file, object, issued, faults, history>>
    BY DEF history
  <1> QED
    BY <1>1, <1>2, AnswerInv

(***************************************************************************)
(* Removal                                                                 *)
(***************************************************************************)
LEMMA RemoveInv ==
  ASSUME MultipartInv, NEW c \in Clients, Remove(c)
  PROVE  MultipartInv'
  <1> DEFINE u == req[c].up
  <1>1. /\ req[c].at = "removing" /\ mu = None /\ mu' = mu /\ Answer(c)
        /\ UNCHANGED <<object, issued, faults, origin>>
    BY DEF Remove, Locked
  <1>2. u \in Uploads
    BY <1>1, RequestFacts DEF Locals
  <1>3. CASE meta[u] = None
    <2>1. UNCHANGED <<dir, meta, file, ended, acked, torn>>
      BY <1>3 DEF Remove
    <2> QED
      BY <1>1, <2>1, GivenUpInv
  <1>4. CASE meta[u] # None
    <2>1. /\ dir' = dir \ {u}
          /\ meta' = [meta EXCEPT ![u] = None]
          /\ file' = [file EXCEPT ![u] = NoParts]
          /\ ended' = ended \cup {u}
          /\ acked' = [acked EXCEPT ![u] = NoParts]
          /\ torn' = torn \ ({u} \X PartNumbers)
      BY <1>4 DEF Remove
    <2>2. u \in dir /\ u \in issued
      BY <1>2, <1>4, StateTypes DEF MultipartInv, TagsOK
    <2>3. Released
      BY <1>1, AnswerReleases
    <2>4. \A d \in Clients : req[d].at \notin {"created", "receiving", "renamed"}
      BY <1>1, FreeFacts
    <2>5. NoParts \in Tags
      BY DEF NoParts, Tags
    <2>6. /\ meta' \in [Uploads -> {None} \cup Metadata] /\ meta'[u] = None
          /\ file' \in [Uploads -> Tags] /\ file'[u] = NoParts
          /\ acked' \in [Uploads -> Tags]
          /\ \A v \in Uploads \ {u} :
                meta'[v] = meta[v] /\ file'[v] = file[v] /\ acked'[v] = acked[v]
      BY <1>2, <2>1, <2>5, StateTypes
    <2>7. /\ torn' \subseteq Uploads \X PartNumbers
          /\ \A v \in Uploads \ {u} : \A n \in PartNumbers :
                <<v, n>> \in torn => <<v, n>> \in torn'
      BY <2>1, StateTypes
    <2>8. /\ dir' \subseteq issued /\ ended' \subseteq issued /\ u \notin dir'
          /\ \A v \in Uploads \ {u} : (v \in dir' <=> v \in dir) /\ (v \in ended' <=> v \in ended)
      BY <2>1, <2>2, StateTypes
    <2>9. faults' \in 0 .. MaxFaults /\ faults' >= faults
      BY <1>1, StateTypes
    <2>10. Changes({u})
      BY <1>1, <2>2, <2>3, <2>4, <2>6, <2>7, <2>8, <2>9 DEF Changes
    <2> QED
      BY <2>10, ChangesInv
  <1> QED
    BY <1>3, <1>4

\* A removal that stops half way leaves the invariant in place.
LEMMA PartlyRemovedInv ==
  ASSUME MultipartInv, mu = None, Released, NEW u \in Uploads, PartlyRemoved(u), Fault,
         UNCHANGED <<object, issued, acked, ended, origin>>
  PROVE  MultipartInv'
  <1>1. PICK kept \in SUBSET PartNumbers, m \in {None, meta[u]} :
          /\ meta' = [meta EXCEPT ![u] = m]
          /\ file' = [file EXCEPT ![u] =
                         [n \in PartNumbers |->
                            IF n \in kept THEN file[u][n] ELSE None]]
          /\ torn' = torn \cup {<<u, n>> : n \in PartNumbers \ kept}
    BY DEF PartlyRemoved
  <1>2. meta[u] # None /\ dir' = dir
    BY DEF PartlyRemoved
  <1>3. /\ u \in dir /\ u \in issued /\ meta[u].parts = acked[u] /\ u \notin ended
        /\ meta[u] \in Metadata
    <2>1. u \in dir /\ meta[u].parts = acked[u]
      BY <1>2 DEF MultipartInv, TagsOK
    <2>2. u \notin ended
      BY <1>2 DEF MultipartInv, EndedOK
    <2> QED
      BY <1>2, <2>1, <2>2, StateTypes
  <1>4. \A d \in Clients : req[d].at \notin {"created", "receiving", "renamed"}
    BY FreeFacts
  <1>5. \A n \in PartNumbers : acked[u][n] # None =>
           file[u][n] = acked[u][n] \/ <<u, n>> \in torn
    <2>1. \A n \in PartNumbers : ~Replaced(u, n)
      BY <1>4 DEF Replaced
    <2> QED
      BY <1>2, <2>1 DEF MultipartInv, TagsOK
  <1>6. /\ meta' \in [Uploads -> {None} \cup Metadata] /\ meta'[u] = m
        /\ \A v \in Uploads \ {u} : meta'[v] = meta[v]
    BY <1>1, <1>3, StateTypes
  <1> DEFINE row == [n \in PartNumbers |-> IF n \in kept THEN file[u][n] ELSE None]
  <1>7. row \in Tags /\ \A n \in kept : row[n] = file[u][n]
    BY StateTypes DEF Tags
  <1>8. /\ file' \in [Uploads -> Tags] /\ file'[u] = row
        /\ \A v \in Uploads \ {u} : file'[v] = file[v]
    <2>1. file' = [file EXCEPT ![u] = row]
      BY <1>1
    <2> HIDE DEF row
    <2> QED
      BY <1>7, <2>1, StateTypes
  <1> HIDE DEF row
  <1>9. /\ torn' \subseteq Uploads \X PartNumbers /\ \A p \in torn : p \in torn'
        /\ \A n \in PartNumbers \ kept : <<u, n>> \in torn'
    BY <1>1, StateTypes
  <1>10. faults' \in 0 .. MaxFaults /\ faults' > 0 /\ faults' >= faults
    BY FaultCounted
  <1>11. \A n \in PartNumbers : acked'[u][n] # None =>
            file'[u][n] = acked'[u][n] \/ <<u, n>> \in torn'
    BY <1>5, <1>7, <1>8, <1>9
  <1>12. Changes({u})
    BY <1>2, <1>3, <1>4, <1>6, <1>8, <1>9, <1>10, <1>11, StateTypes DEF Changes
  <1> QED
    BY <1>12, ChangesInv

LEMMA RemoveFailsInv ==
  ASSUME MultipartInv, NEW c \in Clients, RemoveFails(c)
  PROVE  MultipartInv'
  <1>1. /\ req[c].at = "removing" /\ mu = None /\ mu' = mu /\ Answer(c) /\ Fault
        /\ PartlyRemoved(req[c].up)
        /\ UNCHANGED <<object, issued, acked, ended, origin>>
    BY DEF RemoveFails, Locked
  <1>2. req[c].up \in Uploads
    BY <1>1, RequestFacts DEF Locals
  <1>3. Released
    BY <1>1, AnswerReleases
  <1> QED
    BY <1>1, <1>2, <1>3, PartlyRemovedInv

LEMMA ReadUploadsInv ==
  ASSUME MultipartInv, NEW c \in Clients, ReadUploads(c)
  PROVE  MultipartInv'
  <1>1. /\ req[c].op = "list" /\ mu' = mu /\ Answer(c)
        /\ UNCHANGED <<dir, meta, file, object, issued, faults, acked, ended, origin, torn>>
    BY DEF ReadUploads, Locked, history
  <1>2. req[c].at = "waiting"
    BY <1>1, RequestFacts DEF Locals
  <1> QED
    BY <1>1, <1>2, GivenUpInv

(***************************************************************************)
(* Crash                                                                   *)
(***************************************************************************)
LEMMA CrashInv ==
  ASSUME MultipartInv, Crash
  PROVE  MultipartInv'
  <1>1. /\ Fault /\ mu' = None /\ req' = [c \in Clients |-> NoRequest]
        /\ UNCHANGED <<object, issued, acked, ended, origin>>
    BY DEF Crash
  <1>2. Released
    <2>1. NoRequest.at \notin Holding
      BY DEF NoRequest, Holding
    <2> QED
      BY <1>1, <2>1, NoRequestLocals DEF Released
  <1>3. CASE \E c \in Clients : /\ req[c].at = "removing"
                                /\ mu = None
                                /\ PartlyRemoved(req[c].up)
    <2>1. PICK c \in Clients : req[c].at = "removing" /\ mu = None /\ PartlyRemoved(req[c].up)
      BY <1>3
    <2>2. req[c].up \in Uploads
      BY <2>1, RequestFacts DEF Locals
    <2> QED
      BY <1>1, <1>2, <2>1, <2>2, PartlyRemovedInv
  <1>4. CASE /\ torn' = torn \cup {<<req[c].up, req[c].num>> :
                                 c \in {d \in Clients : req[d].at = "renamed"}}
             /\ UNCHANGED <<dir, meta, file>>
    <2> DEFINE U == {u \in issued : \E d \in Clients :
                        req[d].at \in {"created", "renamed"} /\ req[d].up = u}
    <2>1. \A d \in Clients : req[d].at \in {"created", "renamed"} => req[d].up \in issued
      <3>1. \A d \in Clients : req[d].at = "renamed" => req[d].up \in issued
        BY PartFacts
      <3>2. \A d \in Clients : req[d].at = "created" => req[d].up \in issued
        BY StateTypes DEF MultipartInv, FreshOK
      <3> QED
        BY <3>1, <3>2
    <2>2. /\ torn' \subseteq Uploads \X PartNumbers /\ \A p \in torn : p \in torn'
          /\ \A d \in Clients : req[d].at = "renamed" => <<req[d].up, req[d].num>> \in torn'
      <3>1. \A d \in Clients : req[d].at = "renamed" =>
               req[d].up \in Uploads /\ req[d].num \in PartNumbers
        BY PartFacts
      <3> QED
        BY <1>4, <3>1, StateTypes
    <2>3. faults' \in 0 .. MaxFaults /\ faults' > 0 /\ faults' >= faults
      BY <1>1, FaultCounted
    <2>4. ASSUME NEW u \in U, meta[u] # None
          PROVE  /\ u \in dir /\ meta[u].parts = acked[u]
                 /\ \A n \in PartNumbers : acked[u][n] # None =>
                       file[u][n] = acked[u][n] \/ <<u, n>> \in torn'
      <3>1. u \in Uploads
        BY StateTypes
      <3>2. /\ u \in dir /\ meta[u].parts = acked[u]
            /\ \A n \in PartNumbers : acked[u][n] # None =>
                  file[u][n] = acked[u][n] \/ <<u, n>> \in torn \/ Replaced(u, n)
        BY <2>4, <3>1 DEF MultipartInv, TagsOK
      <3>3. \A n \in PartNumbers : Replaced(u, n) => <<u, n>> \in torn'
        BY <2>2 DEF Replaced
      <3> QED
        BY <2>2, <3>2, <3>3
    <2>5. \A u \in ended : meta[u] = None /\ file[u] = NoParts /\ u \notin dir
      BY DEF MultipartInv, EndedOK
    <2>6. U \subseteq issued /\ \A d \in Clients : req[d].at \in {"created", "renamed"} => req[d].up \in U
      BY <2>1
    <2> HIDE DEF U
    <2>7. Changes(U)
      BY <1>1, <1>2, <1>4, <2>2, <2>3, <2>4, <2>5, <2>6, StateTypes DEF Changes
    <2> QED
      BY <2>7, ChangesInv
  <1> QED
    BY <1>3, <1>4 DEF Crash

(***************************************************************************)
(* Every step keeps the invariant                                          *)
(***************************************************************************)
LEMMA NextInv ==
  ASSUME MultipartInv, [Next]_vars
  PROVE  MultipartInv'
  <1>1. CASE UNCHANGED vars
    BY <1>1 DEF vars, MultipartInv, MultipartTypeOK, MutexHeld, LocalsOK, FreshOK, Unused,
                LoadedOK, TagsOK, Replaced, EndedOK, DirsOK, CommittedAsListed
  <1>2. CASE Crash
    BY <1>2, CrashInv
  <1>3. ASSUME NEW c \in Clients, Step(c)
        PROVE  MultipartInv'
    <2>1. CASE InitiateDir(c) \/ InitiateExhausted(c) \/ InitiateSave(c)
      BY <2>1, InitiateDirInv, InitiateExhaustedInv, InitiateSaveInv
    <2>2. CASE \E t \in Targets, n \in PartNumbers, b \in Contents : PutPartLoad(c, t, n, b)
      BY <2>2, PutPartLoadInv
    <2>3. CASE WritePart(c) \/ PutPartSave(c)
      BY <2>3, WritePartInv, PutPartSaveInv
    <2>4. CASE \E list \in PartLists : Assemble(c, list)
      BY <2>4, AssembleInv
    <2>5. CASE PutAssembled(c) \/ Remove(c) \/ ReadUploads(c)
      BY <2>5, PutAssembledInv, RemoveInv, ReadUploadsInv
    <2> QED
      BY <1>3, <2>1, <2>2, <2>3, <2>4, <2>5 DEF Step
  <1>4. ASSUME NEW c \in Clients, WritePartFails(c) \/ RemoveFails(c)
        PROVE  MultipartInv'
    BY <1>4, WritePartFailsInv, RemoveFailsInv
  <1>5. ASSUME NEW c \in Clients, PutAssembledFails(c) \/ RemoveSkipped(c)
        PROVE  MultipartInv'
    <2>1. /\ req[c].at \in {"waiting", "assembled", "removing"} /\ Answer(c) /\ mu' = mu
          /\ UNCHANGED <<dir, meta, file, object, issued, faults, acked, ended, origin, torn>>
      BY <1>5 DEF PutAssembledFails, RemoveSkipped, history
    <2> QED
      BY <2>1, GivenUpInv
  <1>6. ASSUME NEW c \in Clients, Ask(c, "initiate", None)
        PROVE  MultipartInv'
    BY <1>6, AskInv
  <1>7. ASSUME NEW c \in Clients, NEW op \in {"put", "complete", "abort", "list"},
               NEW u \in Uploads, Ask(c, op, u)
        PROVE  MultipartInv'
    <2>1. u # None
      BY MultipartAssumption
    <2> QED
      BY <1>7, <2>1, AskInv
  <1> QED
    BY <1>1, <1>2, <1>3, <1>4, <1>5, <1>6, <1>7 DEF Next

\* What a request holding the mutex has read and written, and how the files
\* of every upload agree with its metadata, at every moment.
THEOREM MultipartInvariant == Spec => []MultipartInv
  <1>1. MultipartInv /\ [Next]_vars => MultipartInv'
    BY NextInv
  <1> QED
    BY InitInv, <1>1, PTL DEF Spec

\* The types of the files, the mutex and the requests.
THEOREM MultipartTypes == Spec => []MultipartTypeOK
  <1>1. MultipartInv => MultipartTypeOK
    BY DEF MultipartInv
  <1> QED
    BY MultipartInvariant, <1>1, PTL

\* A completed object holds the bytes whose ETags its completion listed,
\* whatever happened to the parts meanwhile, unless a fault tore a part.
THEOREM CompletedAsListed == Spec => []CommittedAsListed
  <1>1. MultipartInv => CommittedAsListed
    BY DEF MultipartInv
  <1> QED
    BY MultipartInvariant, <1>1, PTL

\* An answered part stays in the metadata of its upload with the bytes that
\* were answered, unless a fault tore it or it is being replaced.
THEOREM PartsKept == Spec => []AckedPartKept
  <1>1. MultipartInv => AckedPartKept
    <2> SUFFICES ASSUME MultipartInv, NEW u \in Uploads, NEW n \in PartNumbers,
                        meta[u] # None, acked[u][n] # None
                 PROVE  /\ meta[u].parts[n] = acked[u][n]
                        /\ \/ file[u][n] = acked[u][n]
                           \/ <<u, n>> \in torn
                           \/ \E c \in Clients : /\ mu = c
                                                 /\ req[c].at = "renamed"
                                                 /\ req[c].up = u
                                                 /\ req[c].num = n
      BY DEF AckedPartKept
    <2>1. /\ meta[u].parts = acked[u]
          /\ file[u][n] = acked[u][n] \/ <<u, n>> \in torn \/ Replaced(u, n)
      BY DEF MultipartInv, TagsOK
    <2>2. \A c \in Clients : req[c].at = "renamed" => mu = c
      BY RequestFacts DEF Holding
    <2> QED
      BY <2>1, <2>2 DEF Replaced
  <1> QED
    BY MultipartInvariant, <1>1, PTL

\* Nothing is left of an upload whose end was answered, and no request that
\* was under way brings it back.
THEOREM NothingLeft == Spec => []NothingLeftBehind
  <1>1. MultipartInv => NothingLeftBehind
    <2> SUFFICES ASSUME MultipartInv PROVE NothingLeftBehind
      OBVIOUS
    <2>1. \A c \in Clients : req[c].at = "created" => mu = c
      BY RequestFacts DEF Holding
    <2> QED
      BY <2>1 DEF MultipartInv, EndedOK, DirsOK, NothingLeftBehind
  <1> QED
    BY MultipartInvariant, <1>1, PTL

(***************************************************************************)
(* The contract.  What it sees of an upload depends on the upload's        *)
(* metadata, its files and the request that is writing them.               *)
(***************************************************************************)
Seen(d) == req[d].at \in {"created", "renamed"}

SameUpload(v) ==
    /\ meta'[v] = meta[v] /\ file'[v] = file[v]
    /\ v \in issued' <=> v \in issued
    /\ \A d \in Clients :
          \/ req'[d] = req[d]
          \/ /\ Seen(d) => req[d].up # v
             /\ Seen(d)' => req'[d].up # v

LEMMA SameView ==
  ASSUME NEW v \in Uploads, SameUpload(v)
  PROVE  /\ statusOf(v)' = statusOf(v) /\ targetOf(v)' = targetOf(v)
         /\ tagOf(v)' = tagOf(v) /\ bytesOf(v)' = bytesOf(v)
  <1>1. targetOf(v)' = targetOf(v) /\ tagOf(v)' = tagOf(v)
    BY DEF SameUpload, targetOf, tagOf, NoParts
  <1>2. statusOf(v)' = statusOf(v)
    BY DEF SameUpload, Seen, statusOf
  <1>3. ASSUME NEW n \in PartNumbers
        PROVE  /\ Replacing(v, n)' = Replacing(v, n)
               /\ \A d \in Replacing(v, n) : req'[d] = req[d]
    BY DEF SameUpload, Seen, Replacing
  <1>4. ASSUME NEW n \in PartNumbers
        PROVE  bytesOf(v)'[n] = bytesOf(v)[n]
    <2>1. CASE meta[v] = None \/ Replacing(v, n) = {}
      BY <2>1, <1>3 DEF bytesOf, SameUpload
    <2>2. CASE meta[v] # None /\ Replacing(v, n) # {}
      <3> DEFINE d == CHOOSE c \in Replacing(v, n) : TRUE
      <3>1. d \in Replacing(v, n)
        BY <2>2
      <3>2. bytesOf(v)[n] = req[d].value[1]
        BY <2>2 DEF bytesOf
      <3>3. bytesOf(v)'[n] = req'[d].value[1]
        BY <2>2, <1>3 DEF bytesOf, SameUpload
      <3> HIDE DEF d
      <3> QED
        BY <3>1, <3>2, <3>3, <1>3
    <2> QED
      BY <2>1, <2>2
  <1>5. bytesOf(v)' = bytesOf(v)
    BY <1>4 DEF bytesOf
  <1> QED
    BY <1>1, <1>2, <1>5

\* An open upload none of whose parts is being replaced shows its files.
LEMMA OpenView ==
  ASSUME NEW v \in Uploads, meta[v] # None, file[v] \in Tags,
         \A d \in Clients : req[d].at = "renamed" => req[d].up # v
  PROVE  /\ statusOf(v) = "open" /\ bytesOf(v) = file[v]
         /\ targetOf(v) = meta[v].target /\ tagOf(v) = meta[v].parts
  <1>1. \A n \in PartNumbers : Replacing(v, n) = {}
    BY DEF Replacing
  <1>2. \A n \in PartNumbers : bytesOf(v)[n] = file[v][n]
    BY <1>1 DEF bytesOf
  <1>3. bytesOf(v) = file[v]
    BY <1>2 DEF bytesOf, Tags
  <1> QED
    BY <1>3 DEF statusOf, targetOf, tagOf

\* An upload without metadata shows no parts.
LEMMA ClosedView ==
  ASSUME NEW v \in Uploads, meta[v] = None
  PROVE  /\ bytesOf(v) = NoParts /\ targetOf(v) = None /\ tagOf(v) = NoParts
         /\ statusOf(v) \in {"new", "gone"}
         /\ statusOf(v) = "new" <=>
               \/ v \notin issued
               \/ \E c \in Clients : req[c].at = "created" /\ req[c].up = v
  BY DEF bytesOf, NoParts, targetOf, tagOf, statusOf

(* A step the contract does not see. *)
Quiet ==
    /\ UNCHANGED <<meta, file, issued, object>>
    /\ \A d \in Clients :
          \/ req'[d] = req[d]
          \/ {req[d].at, req'[d].at} \cap {"created", "renamed", "assembled"} = {}

\* What the contract sees of a completion depends on its own request.
LEMMA SameStaged ==
  ASSUME NEW d \in Clients,
         req'[d] = req[d] \/ (req[d].at # "assembled" /\ req'[d].at # "assembled")
  PROVE  stagedOf(d)' = stagedOf(d)
  BY DEF stagedOf

LEMMA QuietStep ==
  ASSUME Quiet
  PROVE  UNCHANGED Contract!vars
  <1>1. \A v \in Uploads : SameUpload(v)
    BY DEF Quiet, SameUpload, Seen
  <1>2. \A v \in Uploads : /\ statusOf(v)' = statusOf(v) /\ targetOf(v)' = targetOf(v)
                           /\ tagOf(v)' = tagOf(v) /\ bytesOf(v)' = bytesOf(v)
    BY <1>1, SameView
  <1>3. \A d \in Clients : stagedOf(d)' = stagedOf(d)
    BY SameStaged DEF Quiet
  <1>4. UNCHANGED <<uploadStatus, uploadTarget, uploadTag, uploadBytes, stagedObject, object>>
    BY <1>2, <1>3 DEF uploadStatus, uploadTarget, uploadTag, uploadBytes, stagedObject, Quiet
  <1> QED
    BY <1>4 DEF Contract!vars

(* A step that shows in one upload: the uploads' new views differ from the *)
(* old ones at u only.                                                     *)
LEMMA OneUpload ==
  ASSUME NEW u \in Uploads, \A v \in Uploads \ {u} : SameUpload(v)
  PROVE  /\ \A s : statusOf(u)' = s => uploadStatus' = [uploadStatus EXCEPT ![u] = s]
         /\ \A t : targetOf(u)' = t => uploadTarget' = [uploadTarget EXCEPT ![u] = t]
         /\ \A g : tagOf(u)' = g => uploadTag' = [uploadTag EXCEPT ![u] = g]
         /\ \A b : bytesOf(u)' = b => uploadBytes' = [uploadBytes EXCEPT ![u] = b]
         /\ statusOf(u)' = statusOf(u) => uploadStatus' = uploadStatus
         /\ targetOf(u)' = targetOf(u) => uploadTarget' = uploadTarget
         /\ tagOf(u)' = tagOf(u) => uploadTag' = uploadTag
         /\ bytesOf(u)' = bytesOf(u) => uploadBytes' = uploadBytes
         /\ uploadStatus[u] = statusOf(u) /\ uploadTarget[u] = targetOf(u)
         /\ uploadTag[u] = tagOf(u) /\ uploadBytes[u] = bytesOf(u)
         /\ uploadBytes'[u] = bytesOf(u)'
  <1>1. \A v \in Uploads \ {u} : /\ statusOf(v)' = statusOf(v) /\ targetOf(v)' = targetOf(v)
                                 /\ tagOf(v)' = tagOf(v) /\ bytesOf(v)' = bytesOf(v)
    BY SameView
  <1>2. /\ \A s : statusOf(u)' = s => uploadStatus' = [uploadStatus EXCEPT ![u] = s]
        /\ statusOf(u)' = statusOf(u) => uploadStatus' = uploadStatus
        /\ uploadStatus[u] = statusOf(u)
    BY <1>1 DEF uploadStatus
  <1>3. /\ \A t : targetOf(u)' = t => uploadTarget' = [uploadTarget EXCEPT ![u] = t]
        /\ targetOf(u)' = targetOf(u) => uploadTarget' = uploadTarget
        /\ uploadTarget[u] = targetOf(u)
    BY <1>1 DEF uploadTarget
  <1>4. /\ \A g : tagOf(u)' = g => uploadTag' = [uploadTag EXCEPT ![u] = g]
        /\ tagOf(u)' = tagOf(u) => uploadTag' = uploadTag
        /\ uploadTag[u] = tagOf(u)
    BY <1>1 DEF uploadTag
  <1>5. /\ \A b : bytesOf(u)' = b => uploadBytes' = [uploadBytes EXCEPT ![u] = b]
        /\ bytesOf(u)' = bytesOf(u) => uploadBytes' = uploadBytes
        /\ uploadBytes[u] = bytesOf(u) /\ uploadBytes'[u] = bytesOf(u)'
    BY <1>1 DEF uploadBytes
  <1> QED
    BY <1>2, <1>3, <1>4, <1>5

\* No completion shows a change.
LEMMA StagedKept ==
  ASSUME \A d \in Clients :
            req'[d] = req[d] \/ (req[d].at # "assembled" /\ req'[d].at # "assembled")
  PROVE  stagedObject' = stagedObject
  BY SameStaged DEF stagedObject

\* The initial states are initial states of the contract.
LEMMA ContractInit == Init => Contract!Init
  <1> SUFFICES ASSUME Init PROVE Contract!Init
    OBVIOUS
  <1>1. \A c \in Clients : req[c].at = "idle"
    BY DEF Init, NoRequest
  <1>2. \A u \in Uploads : meta[u] = None /\ u \notin issued
    BY DEF Init
  <1>3. \A u \in Uploads : /\ statusOf(u) = "new" /\ targetOf(u) = None
                           /\ tagOf(u) = NoParts /\ bytesOf(u) = NoParts
    BY <1>2, ClosedView
  <1>4. \A c \in Clients : stagedOf(c) = None
    BY <1>1 DEF stagedOf
  <1>5. object = [t \in Targets |-> None] /\ Contract!NoParts = NoParts
    BY DEF Init, Contract!NoParts, NoParts
  <1> QED
    BY <1>3, <1>4, <1>5 DEF Contract!Init, uploadStatus, uploadTarget, uploadTag,
                            uploadBytes, stagedObject

(***************************************************************************)
(* One step of the contract, or none, for every step of the handlers.      *)
(***************************************************************************)
ContractStep == [Contract!Next]_(Contract!vars)

\* Answering a request that staged nothing and wrote nothing is not seen.
LEMMA AnswerUnseen ==
  ASSUME MultipartInv, NEW c \in Clients, Answer(c),
         req[c].at \in {"waiting", "receiving", "removing"},
         UNCHANGED <<meta, file, issued, object>>
  PROVE  ContractStep
  <1>1. req'[c] = NoRequest /\ \A d \in Clients \ {c} : req'[d] = req[d]
    BY StateTypes DEF Answer
  <1>2. NoRequest.at = "idle"
    BY DEF NoRequest
  <1>3. Quiet
    BY <1>1, <1>2 DEF Quiet
  <1> QED
    BY <1>3, QuietStep DEF ContractStep

LEMMA AskStep ==
  ASSUME MultipartInv, NEW c \in Clients, NEW op, NEW u, Ask(c, op, u)
  PROVE  ContractStep
  <1> DEFINE at == IF op = "abort" THEN "removing" ELSE "waiting"
             r == Asked(op, u, at)
  <1>1. /\ req' = [req EXCEPT ![c] = r] /\ req[c] = NoRequest
        /\ UNCHANGED <<meta, file, issued, object>>
    BY DEF Ask, Arrives, Asked
  <1>2. at \in {"waiting", "removing"}
    OBVIOUS
  <1>3. r.at = at /\ NoRequest.at = "idle"
    BY DEF Asked, NoRequest
  <1> HIDE DEF at, r
  <1>4. req'[c] = r /\ \A d \in Clients \ {c} : req'[d] = req[d]
    BY <1>1, StateTypes
  <1>5. Quiet
    BY <1>1, <1>2, <1>3, <1>4 DEF Quiet
  <1> QED
    BY <1>5, QuietStep DEF ContractStep

\* The id of an initiation under way is new until its metadata is saved.
LEMMA InitiateDirStep ==
  ASSUME MultipartInv, NEW c \in Clients, InitiateDir(c)
  PROVE  ContractStep
  <1>1. PICK u \in Uploads \ issued :
           /\ issued' = issued \cup {u}
           /\ req' = [req EXCEPT ![c].at = "created", ![c].up = u]
    BY DEF InitiateDir
  <1>2. /\ mu = None /\ req[c].op = "initiate" /\ req[c].at = "waiting"
        /\ UNCHANGED <<meta, file, object>>
    BY DEF InitiateDir, Lock
  <1>3. /\ req'[c].at = "created" /\ req'[c].up = u
        /\ \A d \in Clients \ {c} : req'[d] = req[d]
    BY <1>1, <1>2, CreatedRequest
  <1>4. \A v \in Uploads \ {u} : SameUpload(v)
    BY <1>1, <1>2, <1>3 DEF SameUpload, Seen
  <1>5. meta[u] = None /\ meta'[u] = None
    BY <1>1, <1>2 DEF MultipartInv, FreshOK, Unused
  <1>6. statusOf(u) = "new" /\ statusOf(u)' = "new"
    BY <1>1, <1>3, <1>5 DEF statusOf
  <1>7. targetOf(u)' = targetOf(u) /\ tagOf(u)' = tagOf(u) /\ bytesOf(u)' = bytesOf(u)
    BY <1>5 DEF targetOf, tagOf, bytesOf, NoParts
  <1>8. stagedObject' = stagedObject
    BY <1>2, <1>3, StagedKept
  <1>9. UNCHANGED <<uploadStatus, uploadTarget, uploadTag, uploadBytes, stagedObject, object>>
    BY <1>2, <1>4, <1>6, <1>7, <1>8, OneUpload
  <1> QED
    BY <1>9 DEF ContractStep, Contract!vars

LEMMA InitiateSaveStep ==
  ASSUME MultipartInv, NEW c \in Clients, InitiateSave(c)
  PROVE  ContractStep
  <1>1. PICK u \in Uploads : u = req[c].up /\ u \in issued /\ Unused(u)
    BY RequestFacts, StateTypes DEF InitiateSave, Locals, MultipartInv, FreshOK
  <1>2. /\ req[c].at = "created" /\ Answer(c) /\ mu' = None
        /\ UNCHANGED <<file, object, issued>>
    BY DEF InitiateSave, Unlock
  <1>3. /\ req'[c] = NoRequest /\ NoRequest.at = "idle"
        /\ \A d \in Clients \ {c} : req'[d] = req[d]
    BY <1>2, StateTypes DEF Answer, NoRequest
  <1>4. \A d \in Clients : req'[d].at \notin {"created", "receiving", "renamed"}
    <2>1. mu = c
      BY <1>2, RequestFacts DEF Holding
    <2> QED
      BY <1>3, <2>1, HolderOnly
  <1>5. stagedObject' = stagedObject
    BY <1>2, <1>3, StagedKept
  <1>6. meta[u] = None /\ file[u] = NoParts /\ file[u] \in Tags
    BY <1>1, StateTypes DEF Unused
  <1>7. /\ statusOf(u) = "new" /\ targetOf(u) = None /\ tagOf(u) = NoParts
        /\ bytesOf(u) = NoParts
    BY <1>1, <1>2, <1>6, ClosedView
  <1>8. ASSUME NEW t \in Targets, meta' = [meta EXCEPT ![u] = [target |-> t, parts |-> NoParts]]
        PROVE  Contract!Next
    <2> DEFINE m == [target |-> t, parts |-> NoParts]
    <2>1. m \in Metadata /\ m.target = t /\ m.parts = NoParts
      BY DEF Metadata, Tags, NoParts
    <2>2. m # None
      BY <2>1, NoneAssumption
    <2> HIDE DEF m
    <2>3. meta'[u] = m /\ \A v \in Uploads \ {u} : meta'[v] = meta[v]
      BY <1>8, StateTypes DEF m
    <2>4. \A v \in Uploads \ {u} : SameUpload(v)
      BY <1>1, <1>2, <1>3, <2>3 DEF SameUpload, Seen
    <2>5. statusOf(u)' = "open" /\ targetOf(u)' = t /\ tagOf(u)' = NoParts
      BY <2>1, <2>2, <2>3 DEF statusOf, targetOf, tagOf
    <2>6. bytesOf(u)' = NoParts
      <3>1. \A n \in PartNumbers : Replacing(u, n)' = {}
        BY <1>4 DEF Replacing
      <3> QED
        BY <1>2, <1>6, <2>2, <2>3, <3>1 DEF bytesOf, NoParts
    <2>7. Contract!Open(u, t)
      BY <1>2, <1>5, <1>7, <2>4, <2>5, <2>6, OneUpload DEF Contract!Open
    <2> QED
      BY <2>7 DEF Contract!Next
  <1>9. CASE meta' = meta
    <2>1. \A v \in Uploads \ {u} : SameUpload(v)
      BY <1>1, <1>2, <1>3, <1>9 DEF SameUpload, Seen
    <2>2. statusOf(u)' = "gone"
      BY <1>1, <1>2, <1>4, <1>6, <1>9 DEF statusOf
    <2>3. targetOf(u)' = targetOf(u) /\ tagOf(u)' = tagOf(u) /\ bytesOf(u)' = bytesOf(u)
      BY <1>6, <1>9 DEF targetOf, tagOf, bytesOf, NoParts
    <2>4. Contract!Forget(u)
      BY <1>2, <1>5, <1>7, <2>1, <2>2, <2>3, OneUpload DEF Contract!Forget
    <2> QED
      BY <2>4 DEF Contract!Next, ContractStep
  <1> QED
    BY <1>1, <1>8, <1>9 DEF ContractStep, InitiateSave

LEMMA PutPartLoadStep ==
  ASSUME MultipartInv, NEW c \in Clients, NEW t, NEW n \in PartNumbers,
         NEW b \in Contents, PutPartLoad(c, t, n, b)
  PROVE  ContractStep
  <1>1. req[c].at = "waiting" /\ UNCHANGED <<meta, file, issued, object>>
    BY DEF PutPartLoad
  <1>2. CASE Answer(c)
    BY <1>1, <1>2, AnswerUnseen
  <1>3. CASE ~Answer(c)
    <2>1. req' = [req EXCEPT ![c].at = "receiving", ![c].upload = meta[req[c].up],
                             ![c].num = n, ![c].body = b]
      BY <1>3 DEF PutPartLoad
    <2>2. req'[c].at = "receiving" /\ \A d \in Clients \ {c} : req'[d] = req[d]
      BY <2>1, StateTypes DEF Request
    <2>3. Quiet
      BY <1>1, <2>2 DEF Quiet
    <2> QED
      BY <2>3, QuietStep DEF ContractStep
  <1> QED
    BY <1>2, <1>3

\* Renaming the new file over the old one is not seen: the part shows its
\* former bytes until its tag is saved.
LEMMA WritePartStep ==
  ASSUME MultipartInv, NEW c \in Clients, WritePart(c)
  PROVE  ContractStep
  <1>1. PICK u \in Uploads, n \in PartNumbers, b \in Contents :
           /\ u = req[c].up /\ n = req[c].num /\ b = req[c].body /\ mu = c /\ meta[u] # None
    BY PartFacts DEF WritePart
  <1>2. /\ req[c].at = "receiving"
        /\ file' = [file EXCEPT ![u][n] = b]
        /\ req' = [req EXCEPT ![c].at = "renamed", ![c].value = <<file[u][n]>>]
        /\ UNCHANGED <<meta, issued, object>>
    BY <1>1 DEF WritePart
  <1>3. file \in [Uploads -> Tags] /\ file[u] \in Tags /\ file[u][n] \in Contents \cup {None}
    BY <1>1, StateTypes DEF Tags
  <1>4. /\ req'[c].at = "renamed" /\ req'[c].up = u /\ req'[c].num = n
        /\ req'[c].value = <<file[u][n]>>
        /\ \A d \in Clients \ {c} : req'[d] = req[d]
    BY <1>1, <1>2, <1>3, RenamedRequest
  <1>5. \A d \in Clients \ {c} : req[d].at \notin {"created", "receiving", "renamed"}
    BY <1>1, HolderOnly
  <1>6. /\ \A v \in Uploads \ {u} : file'[v] = file[v]
        /\ \A k \in PartNumbers \ {n} : file'[u][k] = file[u][k]
    <2>1. file' = [file EXCEPT ![u] = [file[u] EXCEPT ![n] = b]]
      BY <1>2
    <2>2. file'[u] = [file[u] EXCEPT ![n] = b] /\ \A v \in Uploads \ {u} : file'[v] = file[v]
      BY <2>1, <1>3
    <2> QED
      BY <2>2, <1>3 DEF Tags
  <1>7. \A v \in Uploads \ {u} : SameUpload(v)
    BY <1>1, <1>2, <1>4, <1>6 DEF SameUpload, Seen
  <1>8. bytesOf(u) = file[u]
    BY <1>1, <1>2, <1>3, <1>5, OpenView
  <1>9. ASSUME NEW k \in PartNumbers
        PROVE  bytesOf(u)'[k] = file[u][k]
    <2>1. CASE k = n
      <3>1. Replacing(u, n)' = {c}
        BY <1>4, <1>5 DEF Replacing
      <3>2. bytesOf(u)'[n] = req'[c].value[1]
        BY <1>1, <1>2, <3>1 DEF bytesOf
      <3> QED
        BY <2>1, <3>2, <1>4
    <2>2. CASE k # n
      <3>1. Replacing(u, k)' = {}
        BY <1>4, <1>5, <2>2 DEF Replacing
      <3> QED
        BY <1>1, <1>2, <1>6, <2>2, <3>1 DEF bytesOf
    <2> QED
      BY <2>1, <2>2
  <1>10. bytesOf(u)' = bytesOf(u)
    BY <1>3, <1>8, <1>9 DEF bytesOf, Tags
  <1>11. statusOf(u)' = statusOf(u) /\ targetOf(u)' = targetOf(u) /\ tagOf(u)' = tagOf(u)
    BY <1>1, <1>2 DEF statusOf, targetOf, tagOf
  <1>12. stagedObject' = stagedObject
    BY <1>2, <1>4, StagedKept
  <1>13. UNCHANGED <<uploadStatus, uploadTarget, uploadTag, uploadBytes, stagedObject, object>>
    BY <1>2, <1>7, <1>10, <1>11, <1>12, OneUpload
  <1> QED
    BY <1>13 DEF ContractStep, Contract!vars

\* While a part of u is replaced, the rest of u shows its files.
LEMMA ReplacedView ==
  ASSUME MultipartInv, NEW c \in Clients, req[c].at = "renamed"
  PROVE  /\ statusOf(req[c].up) = "open" /\ tagOf(req[c].up) = meta[req[c].up].parts
         /\ targetOf(req[c].up) = meta[req[c].up].target
         /\ \A k \in PartNumbers \ {req[c].num} :
               bytesOf(req[c].up)[k] = file[req[c].up][k]
  <1>1. mu = c /\ meta[req[c].up] # None
    BY PartFacts
  <1>2. \A d \in Clients \ {c} : req[d].at # "renamed"
    BY <1>1, HolderOnly
  <1>3. \A k \in PartNumbers \ {req[c].num} : Replacing(req[c].up, k) = {}
    BY <1>2 DEF Replacing
  <1> QED
    BY <1>1, <1>3 DEF statusOf, tagOf, targetOf, bytesOf

LEMMA PutPartSaveStep ==
  ASSUME MultipartInv, NEW c \in Clients, PutPartSave(c)
  PROVE  ContractStep
  <1>1. PICK u \in Uploads, n \in PartNumbers, b \in Contents :
           /\ u = req[c].up /\ n = req[c].num /\ b = req[c].body /\ mu = c
           /\ meta[u] # None /\ meta[u] \in Metadata /\ meta[u] = req[c].upload
           /\ file[u][n] = b
    BY PartFacts DEF PutPartSave
  <1>2. /\ req[c].at = "renamed" /\ Answer(c) /\ UNCHANGED <<file, object, issued>>
    BY DEF PutPartSave
  <1>3. /\ req'[c] = NoRequest /\ NoRequest.at = "idle"
        /\ \A d \in Clients \ {c} : req'[d] = req[d]
    BY <1>2, StateTypes DEF Answer, NoRequest
  <1>4. \A d \in Clients : req'[d].at \notin {"created", "receiving", "renamed"}
    BY <1>1, <1>3, HolderOnly
  <1>5. stagedObject' = stagedObject
    BY <1>2, <1>3, StagedKept
  <1>6. /\ statusOf(u) = "open" /\ tagOf(u) = meta[u].parts /\ targetOf(u) = meta[u].target
        /\ \A k \in PartNumbers \ {n} : bytesOf(u)[k] = file[u][k]
    BY <1>1, <1>2, ReplacedView
  <1>7. file[u] \in Tags /\ file'[u] = file[u]
    BY <1>2, StateTypes
  <1>8. ASSUME meta' = [meta EXCEPT ![u] = [req[c].upload EXCEPT !.parts[n] = b]]
        PROVE  Contract!Next
    <2> DEFINE m == [meta[u] EXCEPT !.parts = [meta[u].parts EXCEPT ![n] = b]]
    <2>1. meta' = [meta EXCEPT ![u] = m]
      BY <1>1, <1>8 DEF Metadata
    <2>2. /\ m \in Metadata /\ m.target = meta[u].target
          /\ m.parts = [meta[u].parts EXCEPT ![n] = b]
      BY <1>1 DEF Metadata, Tags
    <2> HIDE DEF m
    <2>3. m # None
      BY <2>2, NoneAssumption
    <2>4. meta'[u] = m /\ \A v \in Uploads \ {u} : meta'[v] = meta[v]
      BY <2>1, StateTypes
    <2>5. \A v \in Uploads \ {u} : SameUpload(v)
      BY <1>1, <1>2, <1>3, <2>4 DEF SameUpload, Seen
    <2>6. /\ statusOf(u)' = "open" /\ targetOf(u)' = m.target /\ tagOf(u)' = m.parts
          /\ bytesOf(u)' = file[u]
      <3>1. \A k \in PartNumbers : Replacing(u, k)' = {}
        BY <1>4 DEF Replacing
      <3>2. bytesOf(u)' = file[u]
        BY <1>7, <2>3, <2>4, <3>1 DEF bytesOf, Tags
      <3> QED
        BY <2>3, <2>4, <3>2 DEF statusOf, targetOf, tagOf
    <2>7. file[u] = [bytesOf(u) EXCEPT ![n] = b]
      BY <1>1, <1>6, <1>7 DEF bytesOf, Tags
    <2>8. uploadTag' = [uploadTag EXCEPT ![u][n] = b]
      BY <1>6, <2>2, <2>5, <2>6, OneUpload
    <2>9. uploadBytes' = [uploadBytes EXCEPT ![u][n] = b]
      BY <2>5, <2>6, <2>7, OneUpload
    <2>10. UNCHANGED <<uploadStatus, uploadTarget>> /\ uploadStatus[u] = "open"
      BY <1>6, <2>2, <2>5, <2>6, OneUpload
    <2>11. Contract!Store(u, n, b)
      BY <1>2, <1>5, <2>8, <2>9, <2>10 DEF Contract!Store
    <2> QED
      BY <2>11 DEF Contract!Next
  <1>9. ASSUME meta' = meta
        PROVE  Contract!Next
    <2>1. \A v \in Uploads \ {u} : SameUpload(v)
      BY <1>1, <1>2, <1>3, <1>9 DEF SameUpload, Seen
    <2>2. /\ statusOf(u)' = "open" /\ targetOf(u)' = targetOf(u) /\ tagOf(u)' = tagOf(u)
          /\ bytesOf(u)' = file[u]
      <3>1. \A k \in PartNumbers : Replacing(u, k)' = {}
        BY <1>4 DEF Replacing
      <3>2. bytesOf(u)' = file[u]
        BY <1>1, <1>7, <1>9, <3>1 DEF bytesOf, Tags
      <3> QED
        BY <1>1, <1>9, <3>2 DEF statusOf, targetOf, tagOf
    <2>3. /\ uploadBytes'[u] = file[u] /\ uploadBytes' = [uploadBytes EXCEPT ![u] = file[u]]
          /\ UNCHANGED <<uploadStatus, uploadTarget, uploadTag>> /\ uploadStatus[u] = "open"
      BY <1>6, <2>1, <2>2, OneUpload
    <2>4. Contract!Damage(u)
      BY <1>2, <1>5, <1>7, <2>3 DEF Contract!Damage, Tags
    <2> QED
      BY <2>4 DEF Contract!Next
  <1> QED
    BY <1>1, <1>8, <1>9 DEF ContractStep, PutPartSave

\* A step of one request that leaves the uploads alone.
LEMMA UploadsKept ==
  ASSUME NEW c \in Clients, UNCHANGED <<meta, file, issued>>,
         \A d \in Clients \ {c} : req'[d] = req[d],
         {req[c].at, req'[c].at} \cap {"created", "renamed"} = {}
  PROVE  UNCHANGED <<uploadStatus, uploadTarget, uploadTag, uploadBytes>>
  <1>1. \A v \in Uploads : SameUpload(v)
    BY DEF SameUpload, Seen
  <1>2. \A v \in Uploads : /\ statusOf(v)' = statusOf(v) /\ targetOf(v)' = targetOf(v)
                           /\ tagOf(v)' = tagOf(v) /\ bytesOf(v)' = bytesOf(v)
    BY <1>1, SameView
  <1> QED
    BY <1>2 DEF uploadStatus, uploadTarget, uploadTag, uploadBytes

\* The staged object of one client changes.
LEMMA OneStaged ==
  ASSUME NEW c \in Clients, \A d \in Clients \ {c} : req'[d] = req[d], NEW s, stagedOf(c)' = s
  PROVE  /\ stagedObject' = [stagedObject EXCEPT ![c] = s]
         /\ stagedObject[c] = stagedOf(c) /\ stagedObject'[c] = s
  <1>1. \A d \in Clients \ {c} : stagedOf(d)' = stagedOf(d)
    BY SameStaged
  <1> QED
    BY <1>1 DEF stagedObject

\* A list the handler accepts is acceptable to the contract.
LEMMA AcceptedList ==
  ASSUME NEW u \in Uploads, NEW list \in PartLists, completeParts(meta[u], list),
         \A i \in DOMAIN list : file[u][list[i].num] # None,
         uploadTag[u] = meta[u].parts, uploadBytes[u] = file[u]
  PROVE  list \in Contract!PartLists /\ Contract!Acceptable(u, list)
  <1>1. PICK k \in 0 .. MaxList : list \in [1 .. k -> ListItem]
    BY Zenon DEF PartLists
  <1>2. k \in Nat /\ k <= MaxList /\ MaxList \in Nat
    BY MultipartAssumption
  <1>3. list \in Seq(ListItem) /\ Len(list) = k
    BY <1>1, <1>2, SequenceOf
  <1>4. DOMAIN list = 1 .. k
    BY <1>1
  <1>5. list # <<>>
    BY DEF completeParts
  <1>6. k # 0
    BY <1>3, <1>5
  <1>7. k \in 1 .. MaxList
    BY <1>2, <1>6
  <1>8. ListItem = [num : PartNumbers, etag : Contents \cup {None}]
    BY DEF ListItem
  <1>9. list \in Contract!PartLists
    BY <1>1, <1>7, <1>8, Zenon DEF Contract!PartLists
  <1>10. ASSUME NEW i \in DOMAIN list
         PROVE  /\ uploadTag[u][list[i].num] # None
                /\ list[i].etag \in {None, uploadTag[u][list[i].num]}
                /\ uploadBytes[u][list[i].num] # None
    BY DEF completeParts, etagMatches
  <1>11. ASSUME NEW i \in 1 .. Len(list) - 1
         PROVE  list[i].num < list[i + 1].num
    <2>1. i + 1 \in DOMAIN list /\ i + 1 > 1 /\ (i + 1) - 1 = i
      BY <1>2, <1>3, <1>4
    <2>2. list[i + 1].num > list[(i + 1) - 1].num
      BY <2>1 DEF completeParts
    <2>3. i \in 1 .. k /\ i + 1 \in 1 .. k
      BY <1>2, <1>3, <1>4, <2>1
    <2>4. list[i].num \in PartNumbers /\ list[i + 1].num \in PartNumbers
      BY <1>1, <2>3 DEF ListItem
    <2>5. list[i].num \in Int /\ list[i + 1].num \in Int
      <3>1. PartNumbers \subseteq Int
        BY MultipartAssumption
      <3> QED
        BY <2>4, <3>1
    <2> QED
      BY <2>1, <2>2, <2>5
  <1>12. \A i \in 1 .. Len(list) - 1 : uploadTag[u][list[i].num] \notin Small
    BY DEF completeParts
  <1>13. Contract!Acceptable(u, list)
    BY <1>5, <1>10, <1>11, <1>12, Zenon DEF Contract!Acceptable
  <1> QED
    BY <1>9, <1>13

\* A completion stages the bytes its parts have together, at the moment it
\* reads them under the mutex.
LEMMA AssembleStep ==
  ASSUME MultipartInv, NEW c \in Clients, NEW list \in PartLists, Assemble(c, list)
  PROVE  ContractStep
  <1>1. /\ req[c].at = "waiting" /\ req[c].op = "complete" /\ mu = None
        /\ UNCHANGED <<meta, file, issued, object>>
    BY DEF Assemble, Locked
  <1> DEFINE u == req[c].up
             value == [i \in DOMAIN list |-> file[u][list[i].num]]
             want == [i \in DOMAIN list |->
                        IF <<u, list[i].num>> \in torn THEN None ELSE list[i].etag]
             accepted == /\ meta[u] # None
                         /\ completeParts(meta[u], list)
                         /\ \A i \in DOMAIN list : file[u][list[i].num] # None
  <1>2. u \in Uploads
    BY <1>1, RequestFacts DEF Locals
  <1>3. CASE ~accepted
    <2>1. Answer(c)
      BY <1>3 DEF Assemble
    <2> QED
      BY <1>1, <2>1, AnswerUnseen
  <1>4. CASE accepted
    <2>1. req' = [req EXCEPT ![c].at = "assembled", ![c].target = meta[u].target,
                             ![c].value = value, ![c].want = want]
      BY <1>4 DEF Assemble
    <2>2. value \in Seq(Contents)
      BY <1>1, <1>2, <1>4, AssembledParts
    <2>3. /\ statusOf(u) = "open" /\ bytesOf(u) = file[u]
          /\ targetOf(u) = meta[u].target /\ tagOf(u) = meta[u].parts
      <3>1. \A d \in Clients : req[d].at = "renamed" => req[d].up # u
        BY <1>1, FreeFacts
      <3>2. file[u] \in Tags
        BY <1>2, StateTypes
      <3> QED
        BY <1>2, <1>4, <3>1, <3>2, OpenView
    <2>4. /\ uploadStatus[u] = "open" /\ uploadBytes[u] = file[u]
          /\ uploadTarget[u] = meta[u].target /\ uploadTag[u] = meta[u].parts
      BY <1>2, <2>3 DEF uploadStatus, uploadBytes, uploadTarget, uploadTag
    <2>5. list \in Contract!PartLists /\ Contract!Acceptable(u, list)
      BY <1>2, <1>4, <2>4, AcceptedList
    <2>6. value = [i \in DOMAIN list |-> uploadBytes[u][list[i].num]]
      BY <2>4
    <2> HIDE DEF value, want
    <2>7. /\ req'[c].at = "assembled" /\ req'[c].target = meta[u].target
          /\ req'[c].value = value
          /\ \A d \in Clients \ {c} : req'[d] = req[d]
      BY <2>1, StateTypes DEF Request
    <2> DEFINE s == [target |-> meta[u].target, value |-> value]
    <2>8. stagedOf(c)' = s /\ stagedOf(c) = None
      BY <1>1, <2>7 DEF stagedOf
    <2>9. s # None
      <3>1. meta[u].target \in Targets
        BY <1>2, <1>4, StateTypes DEF Metadata
      <3>2. s \in [target : Targets, value : Seq(Contents)]
        BY <2>2, <3>1
      <3> HIDE DEF s
      <3> QED
        BY <3>2, NoneAssumption
    <2>10. s = [target |-> uploadTarget[u],
                value |-> [i \in DOMAIN list |-> uploadBytes[u][list[i].num]]]
      BY <2>4, <2>6
    <2> HIDE DEF s
    <2>11. /\ stagedObject' = [stagedObject EXCEPT ![c] = s]
           /\ stagedObject[c] = None /\ stagedObject'[c] = s
      BY <2>7, <2>8, OneStaged
    <2>12. UNCHANGED <<uploadStatus, uploadTarget, uploadTag, uploadBytes>>
      BY <1>1, <2>7, UploadsKept
    <2>13. Contract!Stage(c, u, list)
      BY <1>1, <2>4, <2>5, <2>10, <2>11, <2>12 DEF Contract!Stage
    <2>14. Contract!Next
      BY <1>2, <2>5, <2>9, <2>11, <2>13, Zenon DEF Contract!Next
    <2> QED
      BY <2>14 DEF ContractStep
  <1> QED
    BY <1>3, <1>4

LEMMA PutAssembledStep ==
  ASSUME MultipartInv, NEW c \in Clients, PutAssembled(c)
  PROVE  ContractStep
  <1> DEFINE r == Asked("complete", req[c].up, "removing")
             s == [target |-> req[c].target, value |-> req[c].value]
  <1>1. /\ req[c].at = "assembled"
        /\ object' = [object EXCEPT ![req[c].target] = req[c].value]
        /\ req' = [req EXCEPT ![c] = r]
        /\ UNCHANGED <<meta, file, issued>>
    BY DEF PutAssembled, Asked
  <1>2. r.at = "removing"
    BY DEF Asked, NoRequest
  <1> HIDE DEF r
  <1>3. req'[c] = r /\ \A d \in Clients \ {c} : req'[d] = req[d]
    BY <1>1, StateTypes
  <1>4. req[c].target \in Targets /\ req[c].value \in Seq(Contents)
    BY <1>1, RequestFacts DEF Locals
  <1>5. stagedOf(c) = s /\ stagedOf(c)' = None
    BY <1>1, <1>2, <1>3 DEF stagedOf
  <1>6. s \in [target : Targets, value : Seq(Contents)]
    BY <1>4
  <1>7. s.target = req[c].target /\ s.value = req[c].value
    OBVIOUS
  <1> HIDE DEF s
  <1>8. s # None
    BY <1>6, NoneAssumption
  <1>9. stagedObject' = [stagedObject EXCEPT ![c] = None] /\ stagedObject[c] = s
    BY <1>3, <1>5, OneStaged
  <1>10. UNCHANGED <<uploadStatus, uploadTarget, uploadTag, uploadBytes>>
    BY <1>1, <1>2, <1>3, UploadsKept
  <1>11. Contract!Publish(c)
    BY <1>1, <1>7, <1>8, <1>9, <1>10 DEF Contract!Publish
  <1> QED
    BY <1>11 DEF Contract!Next, ContractStep

LEMMA PutAssembledFailsStep ==
  ASSUME MultipartInv, NEW c \in Clients, PutAssembledFails(c)
  PROVE  ContractStep
  <1>1. /\ req[c].at = "assembled" /\ Answer(c)
        /\ UNCHANGED <<meta, file, issued, object>>
    BY DEF PutAssembledFails
  <1>2. /\ req'[c] = NoRequest /\ NoRequest.at = "idle"
        /\ \A d \in Clients \ {c} : req'[d] = req[d]
    BY <1>1, StateTypes DEF Answer, NoRequest
  <1>3. stagedOf(c)' = None /\ \A d \in Clients \ {c} : stagedOf(d)' = stagedOf(d)
    BY <1>2, SameStaged DEF stagedOf
  <1>4. stagedObject' = [d \in Clients |-> IF d \in {c} THEN None ELSE stagedObject[d]]
    BY <1>3 DEF stagedObject
  <1>5. UNCHANGED <<uploadStatus, uploadTarget, uploadTag, uploadBytes>>
    BY <1>1, <1>2, UploadsKept
  <1>6. Contract!GiveUp({c})
    BY <1>1, <1>4, <1>5 DEF Contract!GiveUp
  <1> QED
    BY <1>6 DEF Contract!Next, ContractStep

(* What the contract sees of the removal of an upload, and of one that     *)
(* left its metadata.                                                      *)
Closed(u) ==
    /\ uploadStatus[u] = "open"
    /\ uploadStatus' = [uploadStatus EXCEPT ![u] = "gone"]
    /\ uploadTag' = [uploadTag EXCEPT ![u] = NoParts]
    /\ uploadBytes' = [uploadBytes EXCEPT ![u] = NoParts]
    /\ uploadTarget' = [uploadTarget EXCEPT ![u] = None]

Damaged(u) ==
    /\ uploadStatus[u] = "open"
    /\ uploadBytes'[u] \in Tags
    /\ uploadBytes' = [uploadBytes EXCEPT ![u] = uploadBytes'[u]]
    /\ UNCHANGED <<uploadStatus, uploadTarget, uploadTag>>

\* Of an upload that no request is writing, removing the metadata closes it,
\* and keeping the metadata changes at most its bytes.
LEMMA RemovalSeen ==
  ASSUME MultipartInv, NEW u \in Uploads, meta[u] # None,
         \A d \in Clients : ~Seen(d) /\ ~Seen(d)',
         UNCHANGED issued,
         \A v \in Uploads \ {u} : meta'[v] = meta[v] /\ file'[v] = file[v],
         file'[u] \in Tags
  PROVE  /\ meta'[u] = None => Closed(u)
         /\ meta'[u] = meta[u] => Damaged(u)
  <1>1. \A v \in Uploads \ {u} : SameUpload(v)
    BY DEF SameUpload
  <1>2. u \in issued
    BY StateTypes DEF MultipartInv, TagsOK
  <1>3. statusOf(u) = "open"
    BY DEF statusOf
  <1>4. \A d \in Clients : req'[d].at \notin {"created", "renamed"}
    BY DEF Seen
  <1>5. CASE meta'[u] = None
    <2>1. /\ bytesOf(u)' = NoParts /\ targetOf(u)' = None /\ tagOf(u)' = NoParts
      BY <1>5 DEF bytesOf, targetOf, tagOf, NoParts
    <2>2. statusOf(u)' = "gone"
      BY <1>2, <1>4, <1>5 DEF statusOf
    <2>3. Closed(u)
      BY <1>1, <1>3, <2>1, <2>2, OneUpload DEF Closed
    <2> QED
      BY <1>5, <2>3
  <1>6. CASE meta'[u] = meta[u]
    <2>1. targetOf(u)' = targetOf(u) /\ tagOf(u)' = tagOf(u) /\ statusOf(u)' = statusOf(u)
      BY <1>6, <1>3 DEF targetOf, tagOf, statusOf
    <2>2. \A n \in PartNumbers : Replacing(u, n)' = {}
      BY <1>4 DEF Replacing
    <2>3. bytesOf(u)' = file'[u]
      BY <1>6, <2>2 DEF bytesOf, Tags
    <2>4. /\ uploadBytes'[u] = file'[u] /\ uploadBytes' = [uploadBytes EXCEPT ![u] = file'[u]]
          /\ UNCHANGED <<uploadStatus, uploadTarget, uploadTag>> /\ uploadStatus[u] = "open"
      BY <1>1, <1>3, <2>1, <2>3, OneUpload
    <2>5. Damaged(u)
      BY <2>4 DEF Damaged
    <2> QED
      BY <1>6, <2>5, NoneAssumption
  <1> QED
    BY <1>5, <1>6

LEMMA PartlyRemovedSeen ==
  ASSUME MultipartInv, mu = None, NEW u \in Uploads, PartlyRemoved(u), UNCHANGED issued,
         \A d \in Clients : ~Seen(d)'
  PROVE  Closed(u) \/ Damaged(u)
  <1>1. PICK kept \in SUBSET PartNumbers, m \in {None, meta[u]} :
          /\ meta' = [meta EXCEPT ![u] = m]
          /\ file' = [file EXCEPT ![u] =
                         [n \in PartNumbers |->
                            IF n \in kept THEN file[u][n] ELSE None]]
    BY DEF PartlyRemoved
  <1>2. meta[u] # None
    BY DEF PartlyRemoved
  <1>3. \A d \in Clients : ~Seen(d)
    BY FreeFacts DEF Seen
  <1>4. m \in {None, meta[u]} /\ meta'[u] = m /\ \A v \in Uploads \ {u} : meta'[v] = meta[v]
    BY <1>1, StateTypes
  <1> DEFINE row == [n \in PartNumbers |-> IF n \in kept THEN file[u][n] ELSE None]
  <1>5. row \in Tags
    BY StateTypes DEF Tags
  <1>6. file' = [file EXCEPT ![u] = row]
    BY <1>1
  <1> HIDE DEF row
  <1>7. file'[u] \in Tags /\ \A v \in Uploads \ {u} : file'[v] = file[v]
    BY <1>5, <1>6, StateTypes
  <1>8. /\ meta'[u] = None => Closed(u)
        /\ meta'[u] = meta[u] => Damaged(u)
    BY <1>2, <1>3, <1>4, <1>7, RemovalSeen
  <1> QED
    BY <1>4, <1>8

\* What is closed or damaged, with nothing staged or published meanwhile.
LEMMA ClosedStep ==
  ASSUME NEW u \in Uploads, Closed(u) \/ Damaged(u), UNCHANGED <<stagedObject, object>>
  PROVE  ContractStep
  <1>1. Contract!NoParts = NoParts
    BY DEF Contract!NoParts, NoParts
  <1>2. CASE Closed(u)
    <2>1. Contract!Close(u)
      BY <1>1, <1>2 DEF Closed, Contract!Close
    <2> QED
      BY <2>1 DEF Contract!Next, ContractStep
  <1>3. CASE Damaged(u)
    <2>1. Contract!Damage(u)
      BY <1>3 DEF Damaged, Contract!Damage, Tags
    <2> QED
      BY <2>1 DEF Contract!Next, ContractStep
  <1> QED
    BY <1>2, <1>3

\* Answering a removal shows nothing but what it removed.
LEMMA RemovalAnswered ==
  ASSUME MultipartInv, NEW c \in Clients, Answer(c), req[c].at = "removing", mu = None
  PROVE  stagedObject' = stagedObject /\ \A d \in Clients : ~Seen(d)'
  <1>1. /\ req'[c] = NoRequest /\ NoRequest.at = "idle"
        /\ \A d \in Clients \ {c} : req'[d] = req[d]
    BY StateTypes DEF Answer, NoRequest
  <1>2. stagedObject' = stagedObject
    BY <1>1, StagedKept
  <1>3. \A d \in Clients : ~Seen(d)'
    BY <1>1, FreeFacts DEF Seen
  <1> QED
    BY <1>2, <1>3

LEMMA RemoveStep ==
  ASSUME MultipartInv, NEW c \in Clients, Remove(c)
  PROVE  ContractStep
  <1>1. PICK u \in Uploads : u = req[c].up
    BY RequestFacts DEF Remove, Locals
  <1>2. /\ req[c].at = "removing" /\ mu = None /\ Answer(c)
        /\ UNCHANGED <<object, issued>>
    BY DEF Remove, Locked
  <1>3. CASE meta[u] = None
    <2>1. UNCHANGED <<meta, file>>
      BY <1>1, <1>3 DEF Remove
    <2> QED
      BY <1>2, <2>1, AnswerUnseen
  <1>4. CASE meta[u] # None
    <2>1. /\ meta' = [meta EXCEPT ![u] = None]
          /\ file' = [file EXCEPT ![u] = NoParts]
      BY <1>1, <1>4 DEF Remove
    <2>2. NoParts \in Tags
      BY DEF NoParts, Tags
    <2>3. /\ meta'[u] = None /\ file'[u] \in Tags
          /\ \A v \in Uploads \ {u} : meta'[v] = meta[v] /\ file'[v] = file[v]
      BY <2>1, <2>2, StateTypes
    <2>4. stagedObject' = stagedObject /\ \A d \in Clients : ~Seen(d)'
      BY <1>2, RemovalAnswered
    <2>5. \A d \in Clients : ~Seen(d)
      BY <1>2, FreeFacts DEF Seen
    <2>6. Closed(u)
      BY <1>2, <1>4, <2>3, <2>4, <2>5, RemovalSeen
    <2> QED
      BY <1>2, <2>4, <2>6, ClosedStep
  <1> QED
    BY <1>3, <1>4

LEMMA RemoveFailsStep ==
  ASSUME MultipartInv, NEW c \in Clients, RemoveFails(c)
  PROVE  ContractStep
  <1>1. PICK u \in Uploads : u = req[c].up
    BY RequestFacts DEF RemoveFails, Locals
  <1>2. /\ req[c].at = "removing" /\ mu = None /\ Answer(c) /\ PartlyRemoved(u)
        /\ UNCHANGED <<object, issued>>
    BY <1>1 DEF RemoveFails, Locked
  <1>3. stagedObject' = stagedObject /\ \A d \in Clients : ~Seen(d)'
    BY <1>2, RemovalAnswered
  <1>4. Closed(u) \/ Damaged(u)
    BY <1>2, <1>3, PartlyRemovedSeen
  <1> QED
    BY <1>2, <1>3, <1>4, ClosedStep

\* A crash loses what was staged, and shows in one upload at most: the one
\* that was being removed, or the one of the request that had the mutex.
LEMMA CrashStep ==
  ASSUME MultipartInv, Crash
  PROVE  ContractStep
  <1>1. req' = [c \in Clients |-> NoRequest] /\ UNCHANGED <<object, issued>>
    BY DEF Crash
  <1>2. \A d \in Clients : req'[d].at = "idle"
    BY <1>1 DEF NoRequest
  <1>3. \A d \in Clients : ~Seen(d)'
    BY <1>2 DEF Seen
  <1>4. stagedObject' = [c \in Clients |-> None]
    BY <1>2 DEF stagedObject, stagedOf
  <1>5. Contract!NoParts = NoParts
    BY DEF Contract!NoParts, NoParts
  <1> DEFINE Shown(u) ==
         \/ Closed(u) \/ Damaged(u)
         \/ /\ uploadStatus[u] = "new"
            /\ uploadStatus' = [uploadStatus EXCEPT ![u] = "gone"]
            /\ uploadTag' = [uploadTag EXCEPT ![u] = NoParts]
            /\ uploadBytes' = [uploadBytes EXCEPT ![u] = NoParts]
            /\ uploadTarget' = [uploadTarget EXCEPT ![u] = None]
  <1>6. \/ UNCHANGED <<uploadStatus, uploadTarget, uploadTag, uploadBytes>>
        \/ \E u \in Uploads : Shown(u)
    <2>1. CASE \E c \in Clients : /\ req[c].at = "removing"
                                  /\ mu = None
                                  /\ PartlyRemoved(req[c].up)
      <3>1. PICK c \in Clients, u \in Uploads :
               u = req[c].up /\ mu = None /\ PartlyRemoved(u)
        BY <2>1, RequestFacts DEF Locals
      <3>2. Closed(u) \/ Damaged(u)
        BY <1>1, <1>3, <3>1, PartlyRemovedSeen
      <3> QED
        BY <3>2
    <2>2. CASE UNCHANGED <<dir, meta, file>>
      <3>1. CASE \A d \in Clients : ~Seen(d)
        <4>1. \A v \in Uploads : SameUpload(v)
          BY <1>1, <1>3, <2>2, <3>1 DEF SameUpload
        <4>2. \A v \in Uploads : /\ statusOf(v)' = statusOf(v) /\ targetOf(v)' = targetOf(v)
                                 /\ tagOf(v)' = tagOf(v) /\ bytesOf(v)' = bytesOf(v)
          BY <4>1, SameView
        <4> QED
          BY <4>2 DEF uploadStatus, uploadTarget, uploadTag, uploadBytes
      <3>2. ASSUME NEW c \in Clients, Seen(c)
            PROVE  \E u \in Uploads : Shown(u)
        <4>1. mu = c /\ req[c].at \in {"created", "renamed"}
          BY <3>2, RequestFacts DEF Seen, Holding
        <4>2. PICK u \in Uploads : u = req[c].up
          BY <4>1, RequestFacts DEF Locals
        <4>3. \A d \in Clients \ {c} : ~Seen(d)
          BY <4>1, HolderOnly DEF Seen
        <4>4. \A v \in Uploads \ {u} : SameUpload(v)
          BY <1>1, <1>3, <2>2, <4>2, <4>3 DEF SameUpload
        <4>5. CASE req[c].at = "created"
          <5>1. meta[u] = None /\ u \in issued
            BY <4>2, <4>5, StateTypes DEF MultipartInv, FreshOK, Unused
          <5>2. statusOf(u) = "new" /\ statusOf(u)' = "gone"
            BY <1>1, <1>2, <2>2, <4>2, <4>5, <5>1 DEF statusOf
          <5>3. bytesOf(u)' = NoParts /\ targetOf(u)' = None /\ tagOf(u)' = NoParts
            BY <2>2, <5>1 DEF bytesOf, targetOf, tagOf, NoParts
          <5> QED
            BY <4>4, <5>2, <5>3, OneUpload
        <4>6. CASE req[c].at = "renamed"
          <5>1. meta[u] # None
            BY <4>2, <4>6, PartFacts
          <5>2. file[u] \in Tags
            BY StateTypes
          <5>3. statusOf(u) = "open" /\ statusOf(u)' = statusOf(u)
                /\ targetOf(u)' = targetOf(u) /\ tagOf(u)' = tagOf(u)
            BY <2>2, <5>1 DEF statusOf, targetOf, tagOf
          <5>4. \A n \in PartNumbers : Replacing(u, n)' = {}
            BY <1>2 DEF Replacing
          <5>5. bytesOf(u)' = file[u]
            BY <2>2, <5>1, <5>2, <5>4 DEF bytesOf, Tags
          <5>6. /\ uploadBytes'[u] = file[u] /\ uploadBytes' = [uploadBytes EXCEPT ![u] = file[u]]
                /\ UNCHANGED <<uploadStatus, uploadTarget, uploadTag>>
                /\ uploadStatus[u] = "open"
            BY <4>4, <5>3, <5>5, OneUpload
          <5>7. Damaged(u)
            BY <5>2, <5>6 DEF Damaged
          <5> QED
            BY <5>7
        <4> QED
          BY <4>1, <4>5, <4>6
      <3> QED
        BY <3>1, <3>2
    <2> QED
      BY <2>1, <2>2 DEF Crash
  <1>7. ASSUME NEW u \in Uploads, Shown(u)
        PROVE  Contract!Stop
    <2>1. CASE Damaged(u)
      BY <1>1, <1>4, <2>1 DEF Damaged, Contract!Stop, Tags
    <2>2. CASE Closed(u)
      BY <1>1, <1>4, <1>5, <2>2 DEF Closed, Contract!Stop
    <2>3. CASE ~Damaged(u) /\ ~Closed(u)
      BY <1>1, <1>4, <1>5, <1>7, <2>3 DEF Contract!Stop
    <2> QED
      BY <2>1, <2>2, <2>3
  <1>8. UNCHANGED <<uploadStatus, uploadTarget, uploadTag, uploadBytes>> => Contract!Stop
    BY <1>1, <1>4 DEF Contract!Stop
  <1>9. Contract!Stop
    BY <1>6, <1>7, <1>8
  <1> QED
    BY <1>9 DEF Contract!Next, ContractStep

\* Every step of the handlers is one step of the contract or none.
LEMMA NextContract ==
  ASSUME MultipartInv, [Next]_vars
  PROVE  ContractStep
  <1>1. CASE UNCHANGED vars
    <2>1. Quiet
      BY <1>1 DEF vars, Quiet
    <2> QED
      BY <2>1, QuietStep DEF ContractStep
  <1>2. CASE Crash
    BY <1>2, CrashStep
  <1>3. ASSUME NEW c \in Clients, Step(c)
        PROVE  ContractStep
    <2>1. CASE InitiateExhausted(c)
      <3>1. /\ req[c].at = "waiting" /\ Answer(c)
            /\ UNCHANGED <<meta, file, issued, object>>
        BY <2>1 DEF InitiateExhausted
      <3> QED
        BY <3>1, AnswerUnseen
    <2>2. CASE InitiateDir(c) \/ InitiateSave(c)
      BY <2>2, InitiateDirStep, InitiateSaveStep
    <2>3. CASE \E t \in Targets, n \in PartNumbers, b \in Contents : PutPartLoad(c, t, n, b)
      BY <2>3, PutPartLoadStep
    <2>4. CASE WritePart(c) \/ PutPartSave(c)
      BY <2>4, WritePartStep, PutPartSaveStep
    <2>5. CASE \E list \in PartLists : Assemble(c, list)
      BY <2>5, AssembleStep
    <2>6. CASE PutAssembled(c) \/ Remove(c)
      BY <2>6, PutAssembledStep, RemoveStep
    <2>7. CASE ReadUploads(c)
      <3>1. /\ req[c].at = "waiting" /\ Answer(c)
            /\ UNCHANGED <<meta, file, issued, object>>
        BY <2>7, RequestFacts DEF ReadUploads, Locals
      <3> QED
        BY <3>1, AnswerUnseen
    <2> QED
      BY <1>3, <2>1, <2>2, <2>3, <2>4, <2>5, <2>6, <2>7 DEF Step
  <1>4. ASSUME NEW c \in Clients, WritePartFails(c) \/ RemoveSkipped(c)
        PROVE  ContractStep
    <2>1. /\ req[c].at \in {"waiting", "receiving", "removing"} /\ Answer(c)
          /\ UNCHANGED <<meta, file, issued, object>>
      BY <1>4 DEF WritePartFails, RemoveSkipped
    <2> QED
      BY <2>1, AnswerUnseen
  <1>5. ASSUME NEW c \in Clients, PutAssembledFails(c) \/ RemoveFails(c)
        PROVE  ContractStep
    BY <1>5, PutAssembledFailsStep, RemoveFailsStep
  <1>6. ASSUME NEW c \in Clients, NEW op, NEW u, Ask(c, op, u)
        PROVE  ContractStep
    BY <1>6, AskStep
  <1> QED
    BY <1>1, <1>2, <1>3, <1>4, <1>5, <1>6 DEF Next

\* The files, the mutex and the handlers' steps implement the contract of
\* multipart uploads, for any number of clients, uploads, parts and faults.
THEOREM UploadsImplementContract == Spec => ImplementsContract
  <1>1. MultipartInv /\ [Next]_vars => [Contract!Next]_(Contract!vars)
    BY NextContract DEF ContractStep
  <1> QED
    BY MultipartInvariant, ContractInit, <1>1, PTL
       DEF Spec, ImplementsContract, Contract!Spec
=============================================================================
