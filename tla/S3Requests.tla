---------------------------- MODULE S3Requests ----------------------------
(***************************************************************************)
(* S3 requests that read or write more than one thing (internal/s3): a     *)
(* client pages through the objects of a bucket, the multipart uploads of  *)
(* a bucket or the parts of an upload, reads an object or a byte range of  *)
(* it, copies an object, or deletes a list of objects, while others write  *)
(* and delete between its calls.                                           *)
(*                                                                         *)
(* The object service is what its callers see of it: PutObject,            *)
(* DeleteObject and each listing are atomic, GetObject loads the metadata  *)
(* and then the body (ObjectStore has their steps).  Keys are numbered in  *)
(* lexical order; GroupOf is the common prefix of a key up to the          *)
(* delimiter.  A content is its size.  An upload is a key and an id, both  *)
(* numbered in lexical order; 0 stands for the empty string.               *)
(***************************************************************************)
EXTENDS Integers, Sequences, FiniteSets

CONSTANTS
    Keys,          \* object keys, and part numbers
    GroupOf,       \* the common prefix of a key, 0 for none
    Uploads,       \* <<key, upload id>>
    Sizes,         \* object contents
    DefaultMax,    \* the default, and for uploads and parts largest, page: 1000
    MaxAsked,      \* the largest page size, and offset of a range, asked for
    MaxChanges     \* writes and deletes by others, and failing calls, per session

None == -1

\* A group is a run of consecutive keys, as keys with a common prefix are.
ASSUME S3Assumption ==
    /\ Keys \subseteq Nat \ {0} /\ IsFiniteSet(Keys)
    /\ GroupOf \in [Keys -> Nat]
    /\ \A i, j, k \in Keys :
          i < j /\ j < k /\ GroupOf[i] = GroupOf[k] /\ GroupOf[i] # 0
             => GroupOf[j] = GroupOf[i]
    /\ Uploads \subseteq (Nat \ {0}) \X (Nat \ {0}) /\ IsFiniteSet(Uploads)
    /\ Sizes \subseteq Nat
    /\ {DefaultMax, MaxAsked, MaxChanges} \subseteq Nat
    /\ DefaultMax > 0

VARIABLES
    obj,       \* the bucket: a content or None for each key
    uploads,   \* the bucket's uploads in progress
    parts,     \* the parts of one upload
    s,         \* the client's request or paging session
    stable,    \* what has been there since the session began
    ever,      \* what has been there at some time since
    changes

vars == <<obj, uploads, parts, s, stable, ever, changes>>

NoSession ==
    [op |-> "none", at |-> "idle", max |-> 0, delim |-> FALSE, cursor |-> 0,
     listed |-> <<>>, prefixes |-> {}, truncated |-> FALSE,
     range |-> <<>>, key |-> 0, to |-> 0, size |-> None,
     status |-> 0, bytes |-> {}, length |-> 0,
     todo |-> <<>>, want |-> {}, deleted |-> {}, errors |-> {}]

Present == {k \in Keys : obj[k] # None}

\* Any bucket, any uploads or any parts: no request looks at two of these, so
\* the others may as well be empty, and one session per behaviour is enough.
Init ==
    /\ \/ obj \in [Keys -> {None} \cup Sizes] /\ uploads = {} /\ parts = {}
       \/ obj = [k \in Keys |-> None] /\ uploads \in SUBSET Uploads /\ parts = {}
       \/ obj = [k \in Keys |-> None] /\ uploads = {} /\ parts \in SUBSET Keys
    /\ s = NoSession
    /\ stable = {} /\ ever = {}
    /\ changes = 0

(***************************************************************************)
(* Pages of objects                                                        *)
(***************************************************************************)
\* The two front ends read max-keys: the second takes 0 for no answer.
maxKeysV2(asked) == IF asked < 0 THEN DefaultMax ELSE asked
normalizeHTTPXMaxKeys(asked) == IF asked <= 0 THEN DefaultMax ELSE asked

\* Mutant: a common prefix does not become the token.
addObjectContentsToken(page, k, delim, max, cursor) ==
    LET group == IF delim THEN GroupOf[k] ELSE 0 IN
    IF page.truncated \/ k <= cursor \/ (group # 0 /\ group \in page.prefixes) THEN page
    ELSE IF page.count >= max THEN [page EXCEPT !.truncated = TRUE]
    ELSE IF group # 0 THEN [page EXCEPT !.count = @ + 1, !.prefixes = @ \cup {group}]
    ELSE [page EXCEPT !.count = @ + 1, !.next = k, !.items = Append(@, k)]

\* addObject: a key after the cursor becomes an entry unless its common prefix
\* is on the page already; the first entry that finds no room ends the page.
addObject(page, k, delim, max, cursor) ==
    LET group == IF delim THEN GroupOf[k] ELSE 0 IN
    IF page.truncated \/ k <= cursor \/ (group # 0 /\ group \in page.prefixes) THEN page
    ELSE IF page.count >= max THEN [page EXCEPT !.truncated = TRUE]
    ELSE [page EXCEPT !.count = @ + 1, !.next = k,
            !.items = IF group = 0 THEN Append(@, k) ELSE @,
            !.prefixes = IF group = 0 THEN @ ELSE @ \cup {group}]

EmptyPage == [items |-> <<>>, prefixes |-> {}, count |-> 0, truncated |-> FALSE, next |-> 0]

\* The elements of S in the order of Below.
InOrder(S, Below(_, _)) ==
    [i \in 1 .. Cardinality(S) |->
        CHOOSE x \in S : Cardinality({y \in S : Below(y, x)}) = i - 1]

Sorted(S) == InOrder(S, <)

\* The page after the loop over the objects.
PageAfter(objects, delim, max, cursor) ==
    LET page[i \in 0 .. Len(objects)] ==
          IF i = 0 THEN EmptyPage
          ELSE addObject(page[i - 1], objects[i], delim, max, cursor)
    IN page[Len(objects)]

\* Mutant: the token is the key the page stopped before.
paginateObjectsV2NextKey(delim, max, cursor) ==
    LET page == PageAfter(Sorted(Present), delim, max, cursor)
        rest == {k \in Present : k > page.next} IN
    IF page.truncated /\ rest # {}
    THEN [page EXCEPT !.next = CHOOSE k \in rest : \A j \in rest : k <= j]
    ELSE page

\* paginateObjectsV2: the token is the last key that became an entry.
paginateObjectsV2(delim, max, cursor) ==
    PageAfter(Sorted(Present), delim, max, cursor)

listObjectsV1Result == [EmptyPage EXCEPT !.items = Sorted(Present)]

(***************************************************************************)
(* Pages of uploads and parts                                              *)
(***************************************************************************)
multipartUploadAfterMarker(u, marker) ==
    \/ marker[1] = 0
    \/ u[1] > marker[1]
    \/ u[1] = marker[1] /\ marker[2] # 0 /\ u[2] > marker[2]

SortedUploads(S) ==
    InOrder(S, LAMBDA x, y : x[1] < y[1] \/ (x[1] = y[1] /\ x[2] < y[2]))

\* The first max of a filtered, sorted list, and the last of them as the next
\* marker when there are more.
FirstPage(seq, max, noMarker) ==
    LET more == Len(seq) > max
        page == IF more THEN SubSeq(seq, 1, max) ELSE seq IN
    [EmptyPage EXCEPT !.items = page, !.truncated = more,
                      !.next = IF more THEN page[max] ELSE noMarker]

paginateMultipartUploads(max, marker) ==
    FirstPage(SortedUploads({u \in uploads : multipartUploadAfterMarker(u, marker)}),
              max, <<0, 0>>)

\* Mutant: the part at the marker is listed again.
paginateMultipartPartsFrom(max, marker) ==
    FirstPage(Sorted({n \in parts : n >= marker}), max, 0)

paginateMultipartParts(max, marker) ==
    FirstPage(Sorted({n \in parts : n > marker}), max, 0)

(***************************************************************************)
(* A paging session: the client asks for pages until one is not truncated, *)
(* or is truncated without a token to go on from.                          *)
(***************************************************************************)
Begin(r, there) ==
    /\ s.op = "none"
    /\ s' = r
    /\ stable' = there
    /\ ever' = there
    /\ changes' = 0
    /\ UNCHANGED <<obj, uploads, parts>>

StartListObjects ==
    \E asked \in -1 .. MaxAsked, front \in {"http", "httpx"}, delim \in BOOLEAN,
       after \in {0} \cup Keys :
       Begin([NoSession EXCEPT !.op = "objects", !.at = "paging", !.delim = delim,
                !.cursor = after,
                !.max = IF front = "httpx" THEN normalizeHTTPXMaxKeys(asked) ELSE maxKeysV2(asked)],
             {k \in Present : k > after})

StartListObjectsV1 ==
    Begin([NoSession EXCEPT !.op = "objects_v1", !.at = "paging"], Present)

\* max-uploads and max-parts below 1 are refused, large ones cut.
StartListUploads ==
    \E asked \in 1 .. MaxAsked :
       Begin([NoSession EXCEPT !.op = "uploads", !.at = "paging",
                !.max = IF asked > DefaultMax THEN DefaultMax ELSE asked,
                !.cursor = <<0, 0>>],
             uploads)

StartListParts ==
    \E asked \in 1 .. MaxAsked :
       Begin([NoSession EXCEPT !.op = "parts", !.at = "paging",
                !.max = IF asked > DefaultMax THEN DefaultMax ELSE asked],
             parts)

PageNow ==
    IF s.op = "objects" THEN paginateObjectsV2(s.delim, s.max, s.cursor)
    ELSE IF s.op = "objects_v1" THEN listObjectsV1Result
    ELSE IF s.op = "uploads" THEN paginateMultipartUploads(s.max, s.cursor)
    ELSE paginateMultipartParts(s.max, s.cursor)

NextPage ==
    /\ s.at = "paging"
    /\ LET page == PageNow
           goOn == page.truncated /\ (page.items # <<>> \/ page.prefixes # {}) IN
       s' = [s EXCEPT !.listed = @ \o page.items, !.prefixes = @ \cup page.prefixes,
                      !.truncated = page.truncated,
                      !.cursor = IF goOn THEN page.next ELSE @,
                      !.at = IF goOn THEN "paging" ELSE "done"]
    /\ UNCHANGED <<obj, uploads, parts, stable, ever, changes>>

(***************************************************************************)
(* Byte ranges (internal/bytesrange).  A header is <<>>, <<"from", a>>,    *)
(* <<"range", a, b>>, <<"suffix", n>> or <<"bad">>; a spec is the first    *)
(* and last byte, and whether it is partial.                               *)
(***************************************************************************)
Invalid == [ok |-> FALSE, start |-> 0, end |-> 0, partial |-> FALSE]

Bounds(first, last) == [ok |-> TRUE, start |-> first, end |-> last, partial |-> TRUE]

AtMost(a, b) == IF a < b THEN a ELSE b

\* Mutant: a suffix longer than the object starts before it.
suffixBoundsUnclamped(n, size) ==
    IF n = 0 THEN Invalid ELSE Bounds(size - n, size - 1)

suffixBounds(n, size) ==
    IF n = 0 THEN Invalid
    ELSE IF n >= size THEN Bounds(0, size - 1)
    ELSE Bounds(size - n, size - 1)

\* Mutant: a range behind the end of the object is not refused.
parseBoundsPastEnd(first, last, size) ==
    IF last < first THEN Invalid ELSE Bounds(first, AtMost(last, size - 1))

parseBounds(first, last, size) ==
    IF first >= size \/ last < first THEN Invalid
    ELSE Bounds(first, AtMost(last, size - 1))

Parse(header, size) ==
    IF header = <<>> THEN [ok |-> TRUE, start |-> 0, end |-> size - 1, partial |-> FALSE]
    ELSE IF size = 0 \/ header[1] = "bad" THEN Invalid
    ELSE IF header[1] = "from" THEN parseBounds(header[2], size - 1, size)
    ELSE IF header[1] = "range" THEN parseBounds(header[2], header[3], size)
    ELSE suffixBounds(header[2], size)

\* The data has n bytes, which need not be the size the spec was parsed for.
Slice(spec, n) ==
    IF ~spec.partial THEN 0 .. n - 1
    ELSE IF spec.start >= n THEN {}
    ELSE spec.start .. AtMost(spec.end, n - 1)

Headers ==
    {<<>>, <<"bad">>} \cup {<<"from", a>> : a \in 0 .. MaxAsked}
       \cup {<<"range", a, b>> : a, b \in 0 .. MaxAsked}
       \cup {<<"suffix", n>> : n \in 0 .. MaxAsked}

(***************************************************************************)
(* GetObject with a range, and CopyObject                                  *)
(***************************************************************************)
Contents(k) == IF obj[k] = None THEN {} ELSE {obj[k]}

StartGet ==
    \E k \in Keys, header \in Headers :
       Begin([NoSession EXCEPT !.op = "get", !.at = "meta", !.key = k, !.range = header],
             Contents(k))

\* The source and the target of a copy may be the same.
StartCopy ==
    \E k, t \in Keys :
       Begin([NoSession EXCEPT !.op = "copy", !.at = "meta", !.key = k, !.to = t],
             Contents(k))

Answered(status) == [s EXCEPT !.at = "done", !.status = status]

GetMeta ==
    /\ s.at = "meta"
    /\ s' = IF obj[s.key] = None THEN Answered(404)
            ELSE [s EXCEPT !.at = "body", !.size = obj[s.key]]
    /\ UNCHANGED <<obj, uploads, parts, stable, ever, changes>>

\* The body is the content there is by now; the range and the length sent are
\* those of the metadata.
GetBody ==
    LET n == obj[s.key]
        spec == Parse(s.range, s.size) IN
    /\ s.at = "body"
    /\ s.op = "get"
    /\ s' = IF n = None THEN Answered(404)
            ELSE IF ~spec.ok THEN Answered(416)
            ELSE [Answered(IF spec.partial THEN 206 ELSE 200) EXCEPT
                    !.bytes = Slice(spec, n), !.length = spec.end - spec.start + 1]
    /\ UNCHANGED <<obj, uploads, parts, stable, ever, changes>>

CopyBody ==
    /\ s.at = "body"
    /\ s.op = "copy"
    /\ s' = IF obj[s.key] = None THEN Answered(404)
            ELSE [s EXCEPT !.at = "put", !.size = obj[s.key]]
    /\ UNCHANGED <<obj, uploads, parts, stable, ever, changes>>

CopyPut ==
    /\ s.at = "put"
    /\ obj' = [obj EXCEPT ![s.to] = s.size]
    /\ s' = Answered(200)
    /\ UNCHANGED <<uploads, parts, stable, ever, changes>>

(***************************************************************************)
(* DeleteObjects: one after the other; a key that is not there counts as   *)
(* deleted, a failure is reported and the rest goes on.                    *)
(***************************************************************************)
StartDelete ==
    \E first, second \in {0} \cup Keys :
       Begin([NoSession EXCEPT !.op = "delete", !.at = "deleting",
                !.todo = <<first, second>>, !.want = {first, second}],
             {k \in {first, second} \cap Keys : obj[k] # None})

\* Mutant: the first error ends the request.
deleteObjectItemStops ==
    /\ s.at = "deleting"
    /\ LET k == Head(s.todo) IN
       \/ /\ k \in Keys
          /\ obj' = [obj EXCEPT ![k] = None]
          /\ s' = [s EXCEPT !.todo = Tail(@), !.deleted = @ \cup {k},
                            !.at = IF Len(s.todo) = 1 THEN "done" ELSE @]
          /\ UNCHANGED ever
       \/ /\ k = 0
          /\ s' = [s EXCEPT !.todo = <<>>, !.errors = @ \cup {k}, !.at = "done"]
          /\ UNCHANGED <<obj, ever>>
    /\ UNCHANGED <<uploads, parts, stable, changes>>

deleteObjectItem ==
    /\ s.at = "deleting"
    /\ LET k == Head(s.todo)
           rest(r) == [r EXCEPT !.todo = Tail(@), !.at = IF Len(s.todo) = 1 THEN "done" ELSE @]
       IN
       \/ /\ k \in Keys
          /\ obj' = [obj EXCEPT ![k] = None]
          /\ s' = rest([s EXCEPT !.deleted = @ \cup {k}])
          /\ stable' = stable \ {k}
          /\ UNCHANGED changes
       \/ /\ k = 0
          /\ s' = rest([s EXCEPT !.errors = @ \cup {k}])
          /\ UNCHANGED <<obj, stable, changes>>
       \/ /\ k \in Keys                                       \* DeleteObject fails
          /\ changes < MaxChanges
          /\ changes' = changes + 1
          /\ s' = rest([s EXCEPT !.errors = @ \cup {k}])
          /\ obj' \in {obj, [obj EXCEPT ![k] = None]}
          /\ UNCHANGED stable
    /\ UNCHANGED <<uploads, parts, ever>>

(***************************************************************************)
(* Others write and delete while the session lasts.                        *)
(***************************************************************************)
Others ==
    /\ s.at \notin {"idle", "done"}
    /\ changes < MaxChanges
    /\ changes' = changes + 1
    /\ UNCHANGED s

OthersWrite ==
    /\ s.op \in {"objects", "objects_v1", "get", "copy", "delete"}
    /\ Others
    /\ \E k \in Keys, c \in {None} \cup Sizes :
          /\ c # obj[k]
          /\ obj' = [obj EXCEPT ![k] = c]
          /\ IF s.op \in {"get", "copy"}
             THEN /\ stable' = IF k = s.key THEN {} ELSE stable
                  /\ ever' = IF k = s.key /\ c # None THEN ever \cup {c} ELSE ever
             ELSE /\ stable' = IF c = None THEN stable \ {k} ELSE stable
                  /\ ever' = IF c = None THEN ever ELSE ever \cup {k}
    /\ UNCHANGED <<uploads, parts>>

OthersInitiateOrEnd ==
    /\ s.op = "uploads"
    /\ Others
    /\ \E u \in Uploads :
          \/ /\ u \in uploads
             /\ uploads' = uploads \ {u} /\ stable' = stable \ {u} /\ UNCHANGED ever
          \/ /\ u \notin uploads
             /\ uploads' = uploads \cup {u} /\ ever' = ever \cup {u} /\ UNCHANGED stable
    /\ UNCHANGED <<obj, parts>>

OthersUploadPart ==
    /\ s.op = "parts"
    /\ Others
    /\ \E n \in Keys \ parts : parts' = parts \cup {n} /\ ever' = ever \cup {n}
    /\ UNCHANGED <<obj, uploads, stable>>

Done == s.at = "done" /\ UNCHANGED vars

Progress ==
    \/ NextPage \/ GetMeta \/ GetBody \/ CopyBody \/ CopyPut \/ deleteObjectItem

Next ==
    \/ StartListObjects \/ StartListObjectsV1 \/ StartListUploads \/ StartListParts
    \/ StartGet \/ StartCopy \/ StartDelete
    \/ Progress
    \/ OthersWrite \/ OthersInitiateOrEnd \/ OthersUploadPart
    \/ Done

Spec == Init /\ [][Next]_vars

\* A client reads on as long as it is told to, and handlers return.
FairSpec == Spec /\ WF_vars(Progress)

-----------------------------------------------------------------------------
\* Type correctness of the bucket and of the session.
S3TypeOK ==
    /\ obj \in [Keys -> {None} \cup Sizes]
    /\ uploads \subseteq Uploads
    /\ parts \subseteq Keys
    /\ s.at \in {"idle", "paging", "meta", "body", "put", "deleting", "done"}
    /\ s.size \in {None} \cup Sizes
    /\ s.status \in {0, 200, 206, 404, 416}
    /\ s.length \in Nat
    /\ changes \in 0 .. MaxChanges

Listing == s.op \in {"objects", "objects_v1", "uploads", "parts"}

Listed == {s.listed[i] : i \in DOMAIN s.listed}

\* ListedOnce: no page repeats what an earlier one listed, and nothing is
\* listed that was never there, whatever comes and goes between the pages.
ListedOnce ==
    Listing =>
        /\ \A i, j \in DOMAIN s.listed : s.listed[i] = s.listed[j] => i = j
        /\ Listed \subseteq ever

\* ListingComplete: a session that ends with a page that is not truncated has
\* listed everything that was there all the time, a key in a common prefix
\* through its prefix.
ListingComplete ==
    Listing /\ s.at = "done" /\ ~s.truncated =>
        \A x \in stable :
            x \in Listed \/ (s.op = "objects" /\ s.delim /\ GroupOf[x] \in s.prefixes)

\* The bytes that a header asks for in an object of a size.
Asked(header, size) ==
    {i \in 0 .. size - 1 :
       \/ header = <<>>
       \/ /\ header # <<>>
          /\ \/ header[1] = "from" /\ i >= header[2]
             \/ header[1] = "range" /\ header[2] <= i /\ i <= header[3]
             \/ header[1] = "suffix" /\ i >= size - header[2]}

\* RangeAnswered: an object nobody touches is answered with exactly the bytes
\* asked for and their number, or refused when there are none; the bytes sent
\* are bytes of the body even if it is not the one whose size was parsed.
RangeAnswered ==
    s.op = "get" /\ s.at = "done" =>
        /\ \A c \in stable :
              LET asked == Asked(s.range, c) IN
              IF s.range # <<>> /\ asked = {} THEN s.status = 416
              ELSE /\ s.status = IF s.range = <<>> THEN 200 ELSE 206
                   /\ s.bytes = asked
                   /\ s.length = Cardinality(asked)
        /\ \E c \in ever \cup {0} : s.bytes \subseteq 0 .. c - 1

\* DeleteTold: when a request to delete a list of objects ends, each of them
\* is reported, as deleted only if it was gone at some time during the request.
DeleteTold ==
    s.op = "delete" /\ s.at = "done" =>
        /\ s.want = s.deleted \cup s.errors
        /\ s.deleted \cap stable = {}

\* SessionEnds: paging comes to an end although others keep adding keys.
SessionEnds == s.at # "idle" ~> s.at = "done"
=============================================================================
