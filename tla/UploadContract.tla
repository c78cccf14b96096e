--------------------------- MODULE UploadContract ---------------------------
(***************************************************************************)
(* What the S3 multipart interface promises, without files, mutexes or     *)
(* requests.  An upload is open between its initiation and its end.  Each  *)
(* of its parts has a tag, the digest the server answered with, and the    *)
(* bytes that would be copied if the part were assembled now.  A           *)
(* completion stages, in one instant at which the upload is open, the      *)
(* bytes of the listed parts, and may publish what it staged later.        *)
(*                                                                         *)
(* Tags and bytes agree unless the part is damaged: Damage is the only     *)
(* step that changes bytes without changing the tag, and it stands for a   *)
(* server or a disk that failed between the two writes of a part upload,   *)
(* or inside the removal of an upload.                                     *)
(***************************************************************************)
EXTENDS Integers, Sequences

CONSTANTS Uploads, Clients, Targets, PartNumbers, Contents, Small, None,
          MaxList  \* the longest part list a completion names

VARIABLES status,   \* [Uploads -> {"new", "open", "gone"}]
          target,   \* [Uploads -> Targets \cup {None}]
          tag,      \* [Uploads -> [PartNumbers -> Contents \cup {None}]]
          bytes,    \* [Uploads -> [PartNumbers -> Contents \cup {None}]]
          staged,   \* [Clients -> None or a record of target and value]
          object    \* [Targets -> None or a sequence of Contents]

vars == <<status, target, tag, bytes, staged, object>>

NoParts == [n \in PartNumbers |-> None]

Init ==
    /\ status = [u \in Uploads |-> "new"]
    /\ target = [u \in Uploads |-> None]
    /\ tag = [u \in Uploads |-> NoParts]
    /\ bytes = [u \in Uploads |-> NoParts]
    /\ staged = [c \in Clients |-> None]
    /\ object = [t \in Targets |-> None]

(* Initiate: a new upload for one target, without parts. *)
Open(u, t) ==
    /\ status[u] = "new"
    /\ status' = [status EXCEPT ![u] = "open"]
    /\ target' = [target EXCEPT ![u] = t]
    /\ UNCHANGED <<tag, bytes, staged, object>>

(* An upload that is never answered: its id is not used again. *)
Forget(u) ==
    /\ status[u] = "new"
    /\ status' = [status EXCEPT ![u] = "gone"]
    /\ UNCHANGED <<target, tag, bytes, staged, object>>

(* UploadPart: tag and bytes change together, and no other part does. *)
Store(u, n, b) ==
    /\ status[u] = "open"
    /\ tag' = [tag EXCEPT ![u][n] = b]
    /\ bytes' = [bytes EXCEPT ![u][n] = b]
    /\ UNCHANGED <<status, target, staged, object>>

(* A failure between the two writes of a part, or inside a removal, leaves *)
(* some of an open upload's bytes different from what their tags say.      *)
Damage(u) ==
    /\ status[u] = "open"
    /\ bytes'[u] \in [PartNumbers -> Contents \cup {None}]
    /\ bytes' = [bytes EXCEPT ![u] = bytes'[u]]
    /\ UNCHANGED <<status, target, tag, staged, object>>

(* The part list of a completion is accepted by an open upload: ascending  *)
(* numbers of stored parts whose tags match where one is given, none but   *)
(* the last smaller than the minimum.                                      *)
Acceptable(u, list) ==
    /\ list # <<>>
    /\ \A i \in 1 .. Len(list) - 1 : list[i].num < list[i + 1].num
    /\ \A i \in DOMAIN list :
          /\ tag[u][list[i].num] # None
          /\ list[i].etag \in {None, tag[u][list[i].num]}
          /\ bytes[u][list[i].num] # None
    /\ \A i \in 1 .. Len(list) - 1 : tag[u][list[i].num] \notin Small

(* Complete, first half: the listed bytes, taken in one instant. *)
Stage(c, u, list) ==
    /\ status[u] = "open"
    /\ staged[c] = None
    /\ Acceptable(u, list)
    /\ staged' = [staged EXCEPT ![c] =
          [target |-> target[u],
           value |-> [i \in DOMAIN list |-> bytes[u][list[i].num]]]]
    /\ UNCHANGED <<status, target, tag, bytes, object>>

(* Complete, second half: the object becomes exactly what was staged, or   *)
(* the completion gives up.                                                *)
Publish(c) ==
    /\ staged[c] # None
    /\ object' = [object EXCEPT ![staged[c].target] = staged[c].value]
    /\ staged' = [staged EXCEPT ![c] = None]
    /\ UNCHANGED <<status, target, tag, bytes>>

GiveUp(C) ==
    /\ staged' = [c \in Clients |-> IF c \in C THEN None ELSE staged[c]]
    /\ UNCHANGED <<status, target, tag, bytes, object>>

(* The end of an upload, by an abort or by a completion. *)
Close(u) ==
    /\ status[u] = "open"
    /\ status' = [status EXCEPT ![u] = "gone"]
    /\ tag' = [tag EXCEPT ![u] = NoParts]
    /\ bytes' = [bytes EXCEPT ![u] = NoParts]
    /\ target' = [target EXCEPT ![u] = None]
    /\ UNCHANGED <<staged, object>>

(* The server stops: what was staged is lost, and the one upload it was    *)
(* working on may be left damaged, closed or never opened.                 *)
Stop ==
    /\ staged' = [c \in Clients |-> None]
    /\ UNCHANGED object
    /\ \/ UNCHANGED <<status, target, tag, bytes>>
       \/ \E u \in Uploads :
             \/ /\ status[u] = "open"
                /\ bytes'[u] \in [PartNumbers -> Contents \cup {None}]
                /\ bytes' = [bytes EXCEPT ![u] = bytes'[u]]
                /\ UNCHANGED <<status, target, tag>>
             \/ /\ status[u] \in {"new", "open"}
                /\ status' = [status EXCEPT ![u] = "gone"]
                /\ tag' = [tag EXCEPT ![u] = NoParts]
                /\ bytes' = [bytes EXCEPT ![u] = NoParts]
                /\ target' = [target EXCEPT ![u] = None]

(* Lists of numbered parts a completion may name. *)
PartLists ==
    UNION {[1 .. k -> [num : PartNumbers, etag : Contents \cup {None}]] :
           k \in 1 .. MaxList}

Next ==
    \/ \E u \in Uploads, t \in Targets : Open(u, t)
    \/ \E u \in Uploads : Forget(u) \/ Damage(u) \/ Close(u)
    \/ \E u \in Uploads, n \in PartNumbers, b \in Contents : Store(u, n, b)
    \/ \E c \in Clients, u \in Uploads :
          /\ staged[c] = None
          /\ staged'[c] # None
          /\ \E list \in PartLists : Stage(c, u, list)
    \/ \E c \in Clients : Publish(c)
    \/ \E C \in SUBSET Clients : GiveUp(C)
    \/ Stop

Spec == Init /\ [][Next]_vars
=============================================================================
