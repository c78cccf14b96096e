------------------------------ MODULE Multipart ------------------------------
(***************************************************************************)
(* S3 multipart uploads (internal/s3/multipart*.go).                       *)
(*                                                                         *)
(* The state of an upload is a directory: metadata.json, which lists the   *)
(* parts with their digests, and one file per part.  Every operation on it *)
(* takes the store's only mutex.  A completion takes the mutex twice, once *)
(* to assemble the object's bytes and once to remove the upload, and       *)
(* writes the object in between without it.                                *)
(*                                                                         *)
(* A request is one record in req, its fields the handler's locals.  It    *)
(* waits, runs the handler's steps and becomes NoRequest when answered.    *)
(* A digest is injective: the content itself stands for its ETag.  Small   *)
(* holds the contents below minMultipartPartSize.  The object write        *)
(* (object.Service.PutObject) succeeds or fails as a whole here; its own   *)
(* steps are those of ObjectStore.                                         *)
(***************************************************************************)
EXTENDS Integers, Sequences, FiniteSets

CONSTANTS Clients, Uploads, Targets, PartNumbers, Contents, Small, None,
          MaxList,     \* the longest part list a completion names
          MaxFaults    \* crashes and failing file operations

(* multipartUpload: the target and the digests of the parts. *)
Tags == [PartNumbers -> Contents \cup {None}]
Metadata == [target : Targets, parts : Tags]

ASSUME MultipartAssumption ==
    /\ PartNumbers \subseteq 1 .. 10000
    /\ Small \subseteq Contents
    /\ None \notin Contents \cup Targets \cup Uploads \cup Clients
    /\ MaxList \in Nat
    /\ MaxFaults \in Nat

(* None is neither the metadata of an upload nor an assembled object. *)
ASSUME NoneAssumption ==
    /\ None \notin Metadata
    /\ None \notin [target : Targets, value : Seq(Contents)]

VARIABLES
    dir,       \* uploads whose directory exists
    meta,      \* metadata.json: None, or the upload's target and part tags
    file,      \* the part files' contents
    object,    \* the committed objects
    mu,        \* holder of multipartStore.mu, or None
    req,       \* the request each client has in flight
    issued,    \* upload ids ever given out by newUploadID
    faults,    \* faults so far
    \* history, never read by an action's guard:
    acked,     \* contents of an upload's parts that were answered
    ended,     \* uploads whose abort or completion was answered
    origin,    \* ETags a committed object's completion listed, None for
               \* one left empty or of a torn part
    torn       \* parts whose file and tag were separated by a fault

vars == <<dir, meta, file, object, mu, req, issued, faults,
          acked, ended, origin, torn>>
history == <<acked, ended, origin, torn>>

NoParts == [n \in PartNumbers |-> None]
NoRequest == [op |-> "none", at |-> "idle", up |-> None, target |-> None,
              num |-> 0, body |-> None, upload |-> None, want |-> <<>>,
              value |-> <<>>]

(* completeMultipartPart: a part number and an ETag, which may be empty. *)
ListItem == [num : PartNumbers, etag : Contents \cup {None}]
PartLists == UNION {[1 .. k -> ListItem] : k \in 0 .. MaxList}

Init ==
    /\ dir = {}
    /\ meta = [u \in Uploads |-> None]
    /\ file = [u \in Uploads |-> NoParts]
    /\ object = [t \in Targets |-> None]
    /\ mu = None
    /\ req = [c \in Clients |-> NoRequest]
    /\ issued = {}
    /\ faults = 0
    /\ acked = [u \in Uploads |-> NoParts]
    /\ ended = {}
    /\ origin = [t \in Targets |-> None]
    /\ torn = {}

(***************************************************************************)
(* Requests arrive, their bodies buffered by the HTTP server, and wait for *)
(* the mutex.  What a request carries is chosen by the step that first     *)
(* looks at it.                                                            *)
(***************************************************************************)
Arrives(c, r) ==
    /\ req[c] = NoRequest
    /\ req' = [req EXCEPT ![c] = r]
    /\ UNCHANGED <<dir, meta, file, object, mu, issued, faults, history>>

Ask(c, op, u) ==
    Arrives(c, [NoRequest EXCEPT !.op = op, !.up = u,
                   !.at = IF op = "abort" THEN "removing" ELSE "waiting"])

(* The request is answered. *)
Answer(c) == req' = [req EXCEPT ![c] = NoRequest]

Fault == faults < MaxFaults /\ faults' = faults + 1

(* m.mu: taken by a step that keeps it, or taken and released by one step. *)
Lock(c) == mu = None /\ mu' = c
Unlock == mu' = None
Locked == mu = None /\ UNCHANGED mu

(***************************************************************************)
(* initiate: under the mutex, a fresh id, its directory, then saveLocked.  *)
(* The bucket's existence is not looked at.                                *)
(***************************************************************************)
InitiateDir(c) ==
    /\ req[c].op = "initiate"
    /\ req[c].at = "waiting"
    /\ Lock(c)
    /\ \E u \in Uploads \ issued :
          /\ issued' = issued \cup {u}
          /\ dir' = dir \cup {u}
          /\ req' = [req EXCEPT ![c].at = "created", ![c].up = u]
    /\ UNCHANGED <<meta, file, object, faults, history>>

(* No id is left to give out: the bound Uploads, not the code, ends it. *)
InitiateExhausted(c) ==
    /\ req[c].op = "initiate"
    /\ req[c].at = "waiting"
    /\ Uploads \subseteq issued
    /\ Answer(c)
    /\ UNCHANGED <<dir, meta, file, object, mu, issued, faults, history>>

InitiateSave(c) ==
    /\ req[c].at = "created"
    /\ Unlock
    /\ Answer(c)
    /\ \/ /\ \E t \in Targets :
                meta' = [meta EXCEPT ![req[c].up] = [target |-> t, parts |-> NoParts]]
          /\ UNCHANGED faults
       \/ Fault /\ UNCHANGED meta
    /\ UNCHANGED <<dir, file, object, issued, history>>

(***************************************************************************)
(* putPart: load and compare the target under the mutex, copy the body to  *)
(* a temporary file, rename it over the part's file, then save the         *)
(* metadata with the new tag.                                              *)
(***************************************************************************)
\* Mutant: the mutex is released once the metadata is loaded.
PutPartLoadUnlocked(c, t, n, b) ==
    LET u == req[c].up IN
    /\ req[c].op = "put"
    /\ req[c].at = "waiting"
    /\ IF meta[u] = None \/ meta[u].target # t
         THEN Locked /\ Answer(c)                      \* errNoSuchUpload
         ELSE /\ Locked
              /\ req' = [req EXCEPT ![c].at = "receiving", ![c].upload = meta[u],
                                    ![c].num = n, ![c].body = b]
    /\ UNCHANGED <<dir, meta, file, object, issued, faults, history>>

\* Mutant: the early return for an unknown upload keeps the mutex.
PutPartLoadKeepsMutex(c, t, n, b) ==
    LET u == req[c].up IN
    /\ req[c].op = "put"
    /\ req[c].at = "waiting"
    /\ IF meta[u] = None \/ meta[u].target # t
         THEN Lock(c) /\ Answer(c)
         ELSE /\ Lock(c)
              /\ req' = [req EXCEPT ![c].at = "receiving", ![c].upload = meta[u],
                                    ![c].num = n, ![c].body = b]
    /\ UNCHANGED <<dir, meta, file, object, issued, faults, history>>

PutPartLoad(c, t, n, b) ==
    LET u == req[c].up IN
    /\ req[c].op = "put"
    /\ req[c].at = "waiting"
    /\ IF meta[u] = None \/ meta[u].target # t
         THEN Locked /\ Answer(c)                      \* errNoSuchUpload
         ELSE /\ Lock(c)
              /\ req' = [req EXCEPT ![c].at = "receiving", ![c].upload = meta[u],
                                    ![c].num = n, ![c].body = b]
    /\ UNCHANGED <<dir, meta, file, object, issued, faults, history>>

WritePart(c) ==
    LET r == req[c] IN
    /\ r.at = "receiving"
    /\ file' = [file EXCEPT ![r.up][r.num] = r.body]
    /\ req' = [req EXCEPT ![c].at = "renamed", ![c].value = <<file[r.up][r.num]>>]
    /\ UNCHANGED <<dir, meta, object, mu, issued, faults, history>>

(* The copy of the body, the temporary file or the rename fails. *)
WritePartFails(c) ==
    /\ req[c].at = "receiving"
    /\ Unlock
    /\ Answer(c)
    /\ UNCHANGED <<dir, meta, file, object, issued, faults, history>>

PutPartSave(c) ==
    LET r == req[c] IN
    /\ r.at = "renamed"
    /\ Unlock
    /\ Answer(c)
    /\ \/ /\ meta' = [meta EXCEPT ![r.up] = [r.upload EXCEPT !.parts[r.num] = r.body]]
          /\ dir' = dir \cup {r.up}
          /\ acked' = [acked EXCEPT ![r.up][r.num] = r.body]
          /\ torn' = torn \ {<<r.up, r.num>>}
          /\ UNCHANGED faults
       \/ /\ Fault
          /\ torn' = torn \cup {<<r.up, r.num>>}
          /\ UNCHANGED <<dir, meta, acked>>
    /\ UNCHANGED <<file, object, issued, ended, origin>>

(***************************************************************************)
(* Completion.  completeParts checks the list against the metadata,        *)
(* assembleLocked copies the part files in the list's order.               *)
(***************************************************************************)
etagMatches(stored, requested) == requested \in {None, stored}

\* Mutant: the ETags of the list are not compared.
completePartsAnyETag(m, list) ==
    /\ list # <<>>
    /\ \A i \in DOMAIN list :
          /\ i > 1 => list[i].num > list[i - 1].num
          /\ m.parts[list[i].num] # None
    /\ \A i \in 1 .. Len(list) - 1 : m.parts[list[i].num] \notin Small

\* Mutant: the size check stops one part early.
completePartsAnySize(m, list) ==
    /\ list # <<>>
    /\ \A i \in DOMAIN list :
          /\ i > 1 => list[i].num > list[i - 1].num
          /\ m.parts[list[i].num] # None
          /\ etagMatches(m.parts[list[i].num], list[i].etag)
    /\ \A i \in 1 .. Len(list) - 2 : m.parts[list[i].num] \notin Small

completeParts(m, list) ==
    /\ list # <<>>
    /\ \A i \in DOMAIN list :
          /\ i > 1 => list[i].num > list[i - 1].num
          /\ m.parts[list[i].num] # None
          /\ etagMatches(m.parts[list[i].num], list[i].etag)
    /\ \A i \in 1 .. Len(list) - 1 : m.parts[list[i].num] \notin Small

\* Mutant: a part file that cannot be opened is skipped.
AssembleMissing(c, list) ==
    LET u == req[c].up
        m == meta[u]
    IN
    /\ req[c].op = "complete"
    /\ req[c].at = "waiting"
    /\ Locked
    /\ IF /\ m # None
          /\ completeParts(m, list)
         THEN req' = [req EXCEPT
                 ![c].at = "assembled",
                 ![c].target = m.target,
                 ![c].value = [i \in DOMAIN list |-> file[u][list[i].num]],
                 ![c].want = [i \in DOMAIN list |->
                                IF <<u, list[i].num>> \in torn THEN None
                                ELSE list[i].etag]]
         ELSE Answer(c)
    /\ UNCHANGED <<dir, meta, file, object, issued, faults, history>>

Assemble(c, list) ==
    LET u == req[c].up
        m == meta[u]
    IN
    /\ req[c].op = "complete"
    /\ req[c].at = "waiting"
    /\ Locked
    /\ IF /\ m # None
          /\ completeParts(m, list)
          /\ \A i \in DOMAIN list : file[u][list[i].num] # None
         THEN req' = [req EXCEPT
                 ![c].at = "assembled",
                 ![c].target = m.target,
                 ![c].value = [i \in DOMAIN list |-> file[u][list[i].num]],
                 ![c].want = [i \in DOMAIN list |->
                                IF <<u, list[i].num>> \in torn THEN None
                                ELSE list[i].etag]]
         ELSE Answer(c)
    /\ UNCHANGED <<dir, meta, file, object, issued, faults, history>>

(* PutObject, without the mutex.  Once it has committed, the upload is     *)
(* removed next.                                                           *)
PutAssembled(c) ==
    LET r == req[c] IN
    /\ r.at = "assembled"
    /\ object' = [object EXCEPT ![r.target] = r.value]
    /\ origin' = [origin EXCEPT ![r.target] = r.want]
    /\ req' = [req EXCEPT ![c] =
                  [NoRequest EXCEPT !.op = "complete", !.at = "removing",
                                    !.up = r.up]]
    /\ UNCHANGED <<dir, meta, file, mu, issued, faults, acked, ended, torn>>

PutAssembledFails(c) ==
    /\ req[c].at = "assembled"
    /\ Answer(c)
    /\ UNCHANGED <<dir, meta, file, object, mu, issued, faults, history>>

(***************************************************************************)
(* abort, the whole of AbortMultipartUpload and the end of a completion:   *)
(* NoSuchUpload without metadata, otherwise the directory goes.            *)
(***************************************************************************)
\* Mutant: the upload's files are removed, its directory is not.
RemoveFilesOnly(c) ==
    LET u == req[c].up IN
    /\ req[c].at = "removing"
    /\ Locked
    /\ Answer(c)
    /\ IF meta[u] = None
         THEN UNCHANGED <<dir, meta, file, ended, acked, torn>>
         ELSE /\ UNCHANGED dir
              /\ meta' = [meta EXCEPT ![u] = None]
              /\ file' = [file EXCEPT ![u] = NoParts]
              /\ ended' = ended \cup {u}
              /\ acked' = [acked EXCEPT ![u] = NoParts]
              /\ torn' = torn \ ({u} \X PartNumbers)
    /\ UNCHANGED <<object, issued, faults, origin>>

Remove(c) ==
    LET u == req[c].up IN
    /\ req[c].at = "removing"
    /\ Locked
    /\ Answer(c)
    /\ IF meta[u] = None
         THEN UNCHANGED <<dir, meta, file, ended, acked, torn>>
         ELSE /\ dir' = dir \ {u}
              /\ meta' = [meta EXCEPT ![u] = None]
              /\ file' = [file EXCEPT ![u] = NoParts]
              /\ ended' = ended \cup {u}
              /\ acked' = [acked EXCEPT ![u] = NoParts]
              /\ torn' = torn \ ({u} \X PartNumbers)
    /\ UNCHANGED <<object, issued, faults, origin>>

(* The request's context was cancelled before abort started (contextError) *)
(* or the assembly could not be closed: the upload stays.                  *)
RemoveSkipped(c) ==
    /\ req[c].at = "removing"
    /\ Answer(c)
    /\ UNCHANGED <<dir, meta, file, object, mu, issued, faults, history>>

(* What a RemoveAll that stops half way may leave of upload u: any of the  *)
(* part files, with or without the metadata, in a directory.               *)
PartlyRemoved(u) ==
    /\ meta[u] # None
    /\ \E kept \in SUBSET PartNumbers, m \in {None, meta[u]} :
          /\ meta' = [meta EXCEPT ![u] = m]
          /\ file' = [file EXCEPT ![u] =
                         [n \in PartNumbers |->
                            IF n \in kept THEN file[u][n] ELSE None]]
          /\ torn' = torn \cup {<<u, n>> : n \in PartNumbers \ kept}
    /\ UNCHANGED dir

RemoveFails(c) ==
    /\ req[c].at = "removing"
    /\ Locked
    /\ Fault
    /\ Answer(c)
    /\ PartlyRemoved(req[c].up)
    /\ UNCHANGED <<object, issued, acked, ended, origin>>

(* ListParts and ListMultipartUploads read the metadata under the mutex.   *)
ReadUploads(c) ==
    /\ req[c].op = "list"
    /\ Locked
    /\ Answer(c)
    /\ UNCHANGED <<dir, meta, file, object, issued, faults, history>>

(***************************************************************************)
(* The server stops and starts again.  Files stay as they are: a part      *)
(* whose file was renamed and whose tag was not saved is torn, and a       *)
(* removal may have been cut short.                                        *)
(***************************************************************************)
Crash ==
    /\ Fault
    /\ mu' = None
    /\ req' = [c \in Clients |-> NoRequest]
    /\ \/ /\ torn' = torn \cup {<<req[c].up, req[c].num>> :
                                 c \in {d \in Clients : req[d].at = "renamed"}}
          /\ UNCHANGED <<dir, meta, file>>
       \/ \E c \in Clients :
             /\ req[c].at = "removing"
             /\ mu = None
             /\ PartlyRemoved(req[c].up)
    /\ UNCHANGED <<object, issued, acked, ended, origin>>

Step(c) ==
    \/ InitiateDir(c)
    \/ InitiateExhausted(c)
    \/ InitiateSave(c)
    \/ \E t \in Targets, n \in PartNumbers, b \in Contents : PutPartLoad(c, t, n, b)
    \/ WritePart(c)
    \/ PutPartSave(c)
    \/ \E list \in PartLists : Assemble(c, list)
    \/ PutAssembled(c)
    \/ Remove(c)
    \/ ReadUploads(c)

Next ==
    \/ \E c \in Clients :
          \/ Ask(c, "initiate", None)
          \/ \E op \in {"put", "complete", "abort", "list"}, u \in Uploads : Ask(c, op, u)
          \/ Step(c)
          \/ WritePartFails(c)
          \/ PutAssembledFails(c)
          \/ RemoveSkipped(c)
          \/ RemoveFails(c)
    \/ Crash

Spec == Init /\ [][Next]_vars

(* Handlers run: their bodies are in memory, and a blocked sync.Mutex      *)
(* waiter gets the mutex in the end (starvation mode).                     *)
FairSpec == Spec /\ \A c \in Clients : SF_vars(Step(c))

-----------------------------------------------------------------------------
Request ==
    [op : {"none", "initiate", "put", "complete", "abort", "list"},
     at : {"idle", "waiting", "created", "receiving", "renamed",
           "assembled", "removing"},
     up : Uploads \cup {None},
     target : Targets \cup {None},
     num : PartNumbers \cup {0},
     body : Contents \cup {None},
     upload : {None} \cup Metadata,
     want : Seq(Contents \cup {None}),
     value : Seq(Contents \cup {None})]

(* Type correctness of the files, the mutex and the requests.              *)
MultipartTypeOK ==
    /\ dir \subseteq issued
    /\ issued \subseteq Uploads
    /\ meta \in [Uploads -> {None} \cup Metadata]
    /\ file \in [Uploads -> Tags]
    /\ object \in [Targets -> {None} \cup Seq(Contents)]
    /\ mu \in Clients \cup {None}
    /\ req \in [Clients -> Request]
    /\ faults \in 0 .. MaxFaults
    /\ acked \in [Uploads -> Tags]
    /\ ended \subseteq issued
    /\ origin \in [Targets -> {None} \cup Seq(Contents \cup {None})]
    /\ torn \subseteq Uploads \X PartNumbers

(* CommittedAsListed: a completed object holds, part by part, the bytes    *)
(* whose ETags its completion listed, whatever parts were uploaded again,  *)
(* aborted or completed meanwhile, unless a fault had torn that very part. *)
CommittedAsListed ==
    \A t \in Targets : object[t] # None =>
       /\ Len(object[t]) = Len(origin[t])
       /\ \A i \in DOMAIN object[t] : origin[t][i] \in {None, object[t][i]}

(* AckedPartKept: as long as an upload exists, every part whose upload was *)
(* answered is in its metadata with the last answered ETag, and its file   *)
(* holds those bytes unless a fault tore it or it is being replaced.       *)
AckedPartKept ==
    \A u \in Uploads, n \in PartNumbers :
       meta[u] # None /\ acked[u][n] # None =>
          /\ meta[u].parts[n] = acked[u][n]
          /\ \/ file[u][n] = acked[u][n]
             \/ <<u, n>> \in torn
             \/ \E c \in Clients : /\ mu = c
                                   /\ req[c].at = "renamed"
                                   /\ req[c].up = u
                                   /\ req[c].num = n

(* NothingLeftBehind: after an abort or a completion was answered, nothing *)
(* of the upload is left on disk, and no request that was under way when   *)
(* it ended brings it back; and a directory without metadata, which no     *)
(* operation can find or remove any more, exists only while an initiation  *)
(* holds the mutex or after a fault.                                       *)
NothingLeftBehind ==
    /\ \A u \in ended : meta[u] = None /\ file[u] = NoParts /\ u \notin dir
    /\ \A u \in dir : \/ meta[u] # None
                      \/ faults > 0
                      \/ \E c \in Clients : mu = c /\ req[c].up = u

(* RequestsAnswered: every request is answered in the end, so no path      *)
(* through a handler keeps the mutex.                                      *)
RequestsAnswered ==
    \A c \in Clients : []<>(req[c] = NoRequest)

(* The files and requests seen as the contract's uploads: a part that is   *)
(* being replaced still has its former bytes.                              *)
Replacing(u, n) ==
    {c \in Clients : req[c].at = "renamed" /\ req[c].up = u /\ req[c].num = n}

statusOf(u) ==
    IF meta[u] # None THEN "open"
    ELSE IF \/ u \notin issued
            \/ \E c \in Clients : req[c].at = "created" /\ req[c].up = u
         THEN "new" ELSE "gone"

targetOf(u) == IF meta[u] = None THEN None ELSE meta[u].target

tagOf(u) == IF meta[u] = None THEN NoParts ELSE meta[u].parts

bytesOf(u) ==
    [n \in PartNumbers |->
       IF meta[u] = None THEN None
       ELSE IF Replacing(u, n) = {} THEN file[u][n]
       ELSE req[CHOOSE c \in Replacing(u, n) : TRUE].value[1]]

stagedOf(c) ==
    IF req[c].at = "assembled"
    THEN [target |-> req[c].target, value |-> req[c].value]
    ELSE None

uploadStatus == [u \in Uploads |-> statusOf(u)]
uploadTarget == [u \in Uploads |-> targetOf(u)]
uploadTag == [u \in Uploads |-> tagOf(u)]
uploadBytes == [u \in Uploads |-> bytesOf(u)]
stagedObject == [c \in Clients |-> stagedOf(c)]

Contract ==
    INSTANCE UploadContract WITH
       status <- uploadStatus,
       target <- uploadTarget,
       tag <- uploadTag,
       bytes <- uploadBytes,
       staged <- stagedObject

(* ImplementsContract: the files, the mutex and the handlers' steps        *)
(* implement the multipart contract; in particular a completion publishes  *)
(* bytes its parts had together at one moment while the upload was open.   *)
ImplementsContract == Contract!Spec
=============================================================================
