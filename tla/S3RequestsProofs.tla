--------------------------- MODULE S3RequestsProofs ---------------------------
(***************************************************************************)
(* Listings, ranged reads and batch deletes for any keys, uploads, sizes,   *)
(* page sizes and changes by others: types, and what a client may conclude  *)
(* from a session that has ended.  They rest on S3Inv: how far a session    *)
(* that is not over has got with what is there.                             *)
(***************************************************************************)
EXTENDS S3Requests, FiniteSetTheorems, TLAPS

(***************************************************************************)
(* Byte ranges                                                             *)
(***************************************************************************)
\* What parsing a header for an object of size c and slicing c bytes gives is
\* what the header asks for; a refusal means that it asks for nothing.
RangeRight(header, c) ==
    LET spec == Parse(header, c)
        asked == Asked(header, c) IN
    /\ spec.start \in Nat /\ spec.end \in Int
    /\ spec.ok =>
          /\ spec.partial = IF header = <<>> THEN FALSE ELSE TRUE
          /\ Slice(spec, c) = asked
          /\ spec.end - spec.start + 1 = Cardinality(asked)
          /\ header # <<>> => asked # {}
    /\ ~spec.ok => header # <<>> /\ asked = {}

\* The number of bytes of a range.
LEMMA IntervalSize ==
  ASSUME NEW a \in Int, NEW b \in Int, a <= b + 1
  PROVE  Cardinality(a .. b) = b - a + 1 /\ b - a + 1 \in Nat
  <1>1. Cardinality(a .. b) = IF a > b THEN 0 ELSE b - a + 1
    BY FS_Interval
  <1> QED
    BY <1>1

\* Without a header the whole object is sent.
LEMMA WholeRight ==
  ASSUME NEW c \in Nat
  PROVE  RangeRight(<<>>, c)
  <1> DEFINE spec == Parse(<<>>, c)
  <1>1. spec.ok /\ spec.start = 0 /\ spec.end = c - 1 /\ ~spec.partial /\ spec.partial = FALSE
    BY DEF Parse
  <1>2. Asked(<<>>, c) = 0 .. c - 1
    BY DEF Asked
  <1>3. Slice(spec, c) = 0 .. c - 1
    BY <1>1 DEF Slice
  <1>4. Cardinality(0 .. c - 1) = c - 1 - 0 + 1
    BY IntervalSize
  <1>5. spec.start \in Nat /\ spec.end \in Int
    BY <1>1
  <1>6. spec.partial = IF <<>> = <<>> THEN FALSE ELSE TRUE
    BY <1>1
  <1>7. spec.end - spec.start + 1 = Cardinality(Asked(<<>>, c))
    BY <1>1, <1>2, <1>4
  <1>8. Slice(spec, c) = Asked(<<>>, c)
    BY <1>2, <1>3
  <1>9. spec.ok /\ (<<>> # <<>> => Asked(<<>>, c) # {})
    BY <1>1, <1>4
  <1> HIDE DEF spec
  <1> QED
    BY <1>5, <1>6, <1>7, <1>8, <1>9 DEF RangeRight, spec

\* A refusal is right when nothing is asked for.
LEMMA RefusalRight ==
  ASSUME NEW header, header # <<>>, NEW c \in Nat, Parse(header, c) = Invalid, Asked(header, c) = {}
  PROVE  RangeRight(header, c)
  BY DEF RangeRight, Invalid

\* Bounds within the object are right when they are what is asked for.
LEMMA BoundsRight ==
  ASSUME NEW header, header # <<>>, NEW c \in Nat, NEW a \in Nat, NEW b \in Nat, a <= b, b < c,
         Parse(header, c) = Bounds(a, b), Asked(header, c) = a .. b
  PROVE  RangeRight(header, c)
  <1> DEFINE spec == Parse(header, c)
  <1>1. spec.ok /\ spec.start = a /\ spec.end = b /\ spec.partial /\ spec.partial = TRUE
    BY DEF Bounds
  <1>2. Slice(spec, c) = a .. b
    BY <1>1 DEF Slice, AtMost
  <1>3. Cardinality(a .. b) = b - a + 1
    BY IntervalSize
  <1>4. a \in a .. b
    OBVIOUS
  <1>5. spec.start \in Nat /\ spec.end \in Int
    BY <1>1
  <1>6. spec.partial = IF header = <<>> THEN FALSE ELSE TRUE
    BY <1>1
  <1>7. spec.end - spec.start + 1 = Cardinality(Asked(header, c))
    BY <1>1, <1>3
  <1>8. Slice(spec, c) = Asked(header, c)
    BY <1>2
  <1>9. spec.ok /\ (header # <<>> => Asked(header, c) # {})
    BY <1>1, <1>4
  <1> HIDE DEF spec
  <1> QED
    BY <1>5, <1>6, <1>7, <1>8, <1>9 DEF RangeRight, spec

\* An object without bytes has no range, and a header that cannot be read
\* asks for none.
LEMMA NothingRight ==
  ASSUME NEW header \in Headers, header # <<>>, NEW c \in Nat, c = 0 \/ header[1] = "bad"
  PROVE  RangeRight(header, c)
  <1>1. Parse(header, c) = Invalid
    BY DEF Parse
  <1>2. Asked(header, c) = {}
    BY DEF Asked
  <1> QED
    BY <1>1, <1>2, RefusalRight

\* bytes=a- asks for what follows.
LEMMA FromRight ==
  ASSUME NEW a \in Nat, NEW c \in Nat, c > 0, NEW header, header = <<"from", a>>
  PROVE  RangeRight(header, c)
  <1>1. header # <<>> /\ header[1] = "from" /\ header[2] = a
    OBVIOUS
  <1>2. Parse(header, c) = parseBounds(a, c - 1, c)
    BY <1>1 DEF Parse
  <1>3. Asked(header, c) = {i \in 0 .. c - 1 : i >= a}
    BY <1>1 DEF Asked
  <1>4. CASE a >= c
    <2>1. Parse(header, c) = Invalid
      BY <1>2, <1>4 DEF parseBounds
    <2>2. Asked(header, c) = {}
      BY <1>3, <1>4
    <2> QED
      BY <1>1, <2>1, <2>2, RefusalRight
  <1>5. CASE a < c
    <2>1. Parse(header, c) = Bounds(a, c - 1)
      BY <1>2, <1>5 DEF parseBounds, AtMost
    <2>2. Asked(header, c) = a .. c - 1
      <3>1. ASSUME NEW i \in Int
            PROVE  i \in 0 .. c - 1 /\ i >= a <=> i \in a .. c - 1
        OBVIOUS
      <3>2. 0 .. c - 1 \subseteq Int /\ a .. c - 1 \subseteq Int
        OBVIOUS
      <3>3. {i \in 0 .. c - 1 : i >= a} = a .. c - 1
        BY <3>1, <3>2, Zenon
      <3> QED
        BY <1>3, <3>3
    <2> QED
      BY <1>1, <1>5, <2>1, <2>2, BoundsRight
  <1> QED
    BY <1>4, <1>5

\* bytes=a-b asks for what is between, as far as there is any.
LEMMA BetweenRight ==
  ASSUME NEW a \in Nat, NEW b \in Nat, NEW c \in Nat, c > 0, NEW header, header = <<"range", a, b>>
  PROVE  RangeRight(header, c)
  <1>1. header # <<>> /\ header[1] = "range" /\ header[2] = a /\ header[3] = b
    OBVIOUS
  <1>2. Parse(header, c) = parseBounds(a, b, c)
    BY <1>1 DEF Parse
  <1>3. Asked(header, c) = {i \in 0 .. c - 1 : a <= i /\ i <= b}
    BY <1>1 DEF Asked
  <1>4. CASE a >= c \/ b < a
    <2>1. Parse(header, c) = Invalid
      BY <1>2, <1>4 DEF parseBounds
    <2>2. Asked(header, c) = {}
      BY <1>3, <1>4
    <2> QED
      BY <1>1, <2>1, <2>2, RefusalRight
  <1>5. CASE a < c /\ a <= b
    <2> DEFINE e == AtMost(b, c - 1)
    <2>1. Parse(header, c) = Bounds(a, e)
      BY <1>2, <1>5 DEF parseBounds
    <2>2. e \in Nat /\ a <= e /\ e < c /\ e <= b /\ (e = b \/ e = c - 1)
      BY <1>5 DEF AtMost
    <2>3. Asked(header, c) = a .. e
      <3>1. ASSUME NEW i \in Int
            PROVE  i \in 0 .. c - 1 /\ a <= i /\ i <= b <=> i \in a .. e
        BY <2>2
      <3>2. 0 .. c - 1 \subseteq Int /\ a .. e \subseteq Int
        BY <2>2
      <3>3. {i \in 0 .. c - 1 : a <= i /\ i <= b} = a .. e
        BY <3>1, <3>2, Zenon
      <3> QED
        BY <1>3, <3>3
    <2> HIDE DEF e
    <2> QED
      BY <1>1, <1>5, <2>1, <2>2, <2>3, BoundsRight
  <1> QED
    BY <1>4, <1>5

\* bytes=-n asks for the last n bytes, or for all when there are not as many.
LEMMA SuffixRight ==
  ASSUME NEW n \in Nat, NEW c \in Nat, c > 0, NEW header, header = <<"suffix", n>>
  PROVE  RangeRight(header, c)
  <1>1. header # <<>> /\ header[1] = "suffix" /\ header[2] = n
    OBVIOUS
  <1>2. Parse(header, c) = suffixBounds(n, c)
    BY <1>1 DEF Parse
  <1>3. Asked(header, c) = {i \in 0 .. c - 1 : i >= c - n}
    BY <1>1 DEF Asked
  <1>4. CASE n = 0
    <2>1. Parse(header, c) = Invalid
      BY <1>2, <1>4 DEF suffixBounds
    <2>2. Asked(header, c) = {}
      BY <1>3, <1>4
    <2> QED
      BY <1>1, <2>1, <2>2, RefusalRight
  <1>5. CASE n > 0
    <2> DEFINE a == IF n >= c THEN 0 ELSE c - n
    <2>1. Parse(header, c) = Bounds(a, c - 1)
      BY <1>2, <1>5 DEF suffixBounds
    <2>2. a \in Nat /\ a <= c - 1 /\ c - 1 \in Nat
      BY <1>5
    <2>3. Asked(header, c) = a .. c - 1
      <3>1. ASSUME NEW i \in Int
            PROVE  i \in 0 .. c - 1 /\ i >= c - n <=> i \in a .. c - 1
        BY <1>5
      <3>2. 0 .. c - 1 \subseteq Int /\ a .. c - 1 \subseteq Int
        BY <2>2
      <3>3. {i \in 0 .. c - 1 : i >= c - n} = a .. c - 1
        BY <3>1, <3>2, Zenon
      <3> QED
        BY <1>3, <3>3
    <2> HIDE DEF a
    <2> QED
      BY <1>1, <2>1, <2>2, <2>3, BoundsRight
  <1> QED
    BY <1>4, <1>5

\* Parse, Slice and the length sent agree with what any header asks for in an
\* object of any size (internal/bytesrange).
LEMMA RangesRight ==
  ASSUME NEW header \in Headers, NEW c \in Nat
  PROVE  RangeRight(header, c)
  <1>1. CASE header = <<>>
    BY <1>1, WholeRight
  <1>2. CASE header # <<>> /\ (c = 0 \/ header[1] = "bad")
    BY <1>2, NothingRight
  <1>3. CASE header # <<>> /\ c # 0 /\ header[1] # "bad"
    <2>1. \/ \E a \in 0 .. MaxAsked : header = <<"from", a>>
          \/ \E a, b \in 0 .. MaxAsked : header = <<"range", a, b>>
          \/ \E n \in 0 .. MaxAsked : header = <<"suffix", n>>
      BY <1>3 DEF Headers
    <2>2. \A a \in 0 .. MaxAsked : a \in Nat
      OBVIOUS
    <2>3. c > 0
      BY <1>3
    <2> QED
      BY <2>1, <2>2, <2>3, FromRight, BetweenRight, SuffixRight
  <1> QED
    BY <1>1, <1>2, <1>3

\* Whatever bounds were parsed, only bytes of the body are sent.
LEMMA SliceWithin ==
  ASSUME NEW spec, spec.start \in Nat, NEW n \in Nat, spec.end \in Int
  PROVE  Slice(spec, n) \subseteq 0 .. n - 1
  BY DEF Slice, AtMost

(***************************************************************************)
(* Sorted lists                                                            *)
(***************************************************************************)
\* R is a strict total order of S.
StrictOrder(S, R) ==
    /\ \A x \in S : <<x, x>> \notin R
    /\ \A x, y, z \in S : <<x, y>> \in R /\ <<y, z>> \in R => <<x, z>> \in R
    /\ \A x, y \in S : x = y \/ <<x, y>> \in R \/ <<y, x>> \in R

Rank(S, R, x) == Cardinality({y \in S : <<y, x>> \in R})

\* seq lists the elements of S in the order of R.
Lists(seq, S, R) ==
    /\ seq \in Seq(S)
    /\ \A x \in S : \E i \in 1 .. Len(seq) : seq[i] = x
    /\ \A i, j \in 1 .. Len(seq) : i < j => <<seq[i], seq[j]>> \in R

\* Smaller elements have smaller ranks.
LEMMA RankMonotone ==
  ASSUME NEW S, NEW R, IsFiniteSet(S), StrictOrder(S, R),
         NEW x \in S, NEW y \in S, <<x, y>> \in R
  PROVE  /\ Rank(S, R, x) \in Nat
         /\ Rank(S, R, x) < Rank(S, R, y)
         /\ Rank(S, R, y) < Cardinality(S)
  <1> DEFINE X == {z \in S : <<z, x>> \in R}
             Y == {z \in S : <<z, y>> \in R}
  <1>1. X \subseteq Y /\ x \in Y /\ x \notin X /\ Y \subseteq S /\ y \notin Y
    BY DEF StrictOrder
  <1>2. IsFiniteSet(Y) /\ IsFiniteSet(X)
    BY <1>1, FS_Subset
  <1>3. Cardinality(X) \in Nat /\ Cardinality(Y) \in Nat /\ Cardinality(S) \in Nat
    BY <1>2, FS_CardinalityType
  <1>4. Cardinality(X) < Cardinality(Y)
    <2>1. Cardinality(X) <= Cardinality(Y) /\ Cardinality(X) # Cardinality(Y)
      BY <1>1, <1>2, FS_Subset
    <2> QED
      BY <1>3, <2>1
  <1>5. Cardinality(Y) < Cardinality(S)
    <2>1. Cardinality(Y) <= Cardinality(S) /\ Cardinality(Y) # Cardinality(S)
      BY <1>1, FS_Subset
    <2> QED
      BY <1>3, <2>1
  <1> QED
    BY <1>3, <1>4, <1>5 DEF Rank

\* The ranks of n elements are 0 .. n - 1, and tell the order.
LEMMA RanksFill ==
  ASSUME NEW S, NEW R, IsFiniteSet(S), StrictOrder(S, R)
  PROVE  /\ Cardinality(S) \in Nat
         /\ \A x \in S : Rank(S, R, x) \in 0 .. Cardinality(S) - 1
         /\ \A i \in 1 .. Cardinality(S) : \E x \in S : Rank(S, R, x) = i - 1
         /\ \A x, y \in S : Rank(S, R, x) < Rank(S, R, y) => <<x, y>> \in R
         /\ \A x, y \in S : Rank(S, R, x) = Rank(S, R, y) => x = y
  <1> DEFINE n == Cardinality(S)
             T == 0 .. n - 1
             rank == [x \in S |-> Rank(S, R, x)]
  <1>1. n \in Nat
    BY FS_CardinalityType
  <1>2. ASSUME NEW x \in S
        PROVE  Rank(S, R, x) \in Nat /\ Rank(S, R, x) < n
    <2> DEFINE X == {z \in S : <<z, x>> \in R}
    <2>1. X \subseteq S /\ x \notin X
      BY DEF StrictOrder
    <2>2. IsFiniteSet(X) /\ Cardinality(X) <= n /\ Cardinality(X) # n
      BY <2>1, FS_Subset
    <2>3. Cardinality(X) \in Nat
      BY <2>2, FS_CardinalityType
    <2> QED
      BY <1>1, <2>2, <2>3 DEF Rank
  <1>3. ASSUME NEW x \in S, NEW y \in S, Rank(S, R, x) < Rank(S, R, y)
        PROVE  <<x, y>> \in R
    <2>1. Rank(S, R, x) \in Nat /\ Rank(S, R, y) \in Nat
      BY <1>2
    <2>2. x # y
      BY <1>3, <2>1
    <2>3. ASSUME <<y, x>> \in R
          PROVE  FALSE
      <3>1. Rank(S, R, y) < Rank(S, R, x)
        BY <2>3, RankMonotone
      <3> QED
        BY <1>3, <2>1, <3>1
    <2> QED
      BY <2>2, <2>3 DEF StrictOrder
  <1>4. ASSUME NEW x \in S, NEW y \in S, Rank(S, R, x) = Rank(S, R, y), x # y
        PROVE  FALSE
    <2>1. Rank(S, R, x) < Rank(S, R, y) \/ Rank(S, R, y) < Rank(S, R, x)
      BY <1>4, RankMonotone DEF StrictOrder
    <2>2. Rank(S, R, x) \in Nat
      BY <1>2
    <2> QED
      BY <1>4, <2>1, <2>2
  <1>5. \A i \in 1 .. n : \E x \in S : Rank(S, R, x) = i - 1
    <2>1. rank \in Injection(S, T)
      <3>1. rank \in [S -> T]
        BY <1>1, <1>2
      <3>2. \A x, y \in S : rank[x] = rank[y] => x = y
        BY <1>4
      <3> QED
        BY <3>1, <3>2 DEF Injection, IsInjective
    <2>2. IsFiniteSet(T) /\ Cardinality(T) = n
      <3>1. IsFiniteSet(T) /\ Cardinality(T) = IF 0 > n - 1 THEN 0 ELSE n - 1 - 0 + 1
        BY <1>1, FS_Interval
      <3> QED
        BY <1>1, <3>1
    <2>3. rank \in Surjection(S, T)
      BY <2>1, <2>2, FS_Injection
    <2>4. \A t \in T : \E x \in S : Rank(S, R, x) = t
      BY <2>3 DEF Surjection
    <2>5. \A i \in 1 .. n : i - 1 \in T
      BY <1>1
    <2> QED
      BY <2>4, <2>5
  <1> QED
    BY <1>1, <1>2, <1>3, <1>4, <1>5

\* Every place of the list has an element.
LEMMA RankReached ==
  ASSUME NEW S, NEW R, IsFiniteSet(S), StrictOrder(S, R), NEW i \in 1 .. Cardinality(S)
  PROVE  \E x \in S : Rank(S, R, x) = i - 1
  BY RanksFill

\* Taking the element of each rank in turn lists a finite set in order.
LEMMA RankedLists ==
  ASSUME NEW S, NEW R, IsFiniteSet(S), StrictOrder(S, R),
         NEW seq \in [1 .. Cardinality(S) -> S],
         \A i \in 1 .. Cardinality(S) : Rank(S, R, seq[i]) = i - 1
  PROVE  Lists(seq, S, R)
  <1>1. Cardinality(S) \in Nat
    BY RanksFill
  <1>2. \A i \in 1 .. Cardinality(S) : seq[i] \in S /\ Rank(S, R, seq[i]) = i - 1
    OBVIOUS
  <1>3. seq \in Seq(S) /\ Len(seq) = Cardinality(S)
    BY <1>1, <1>2
  <1>4. ASSUME NEW x \in S
        PROVE  \E i \in 1 .. Len(seq) : seq[i] = x
    <2> DEFINE i == Rank(S, R, x) + 1
    <2>1. Rank(S, R, x) \in 0 .. Cardinality(S) - 1
      BY RanksFill
    <2>2. i \in 1 .. Cardinality(S) /\ i - 1 = Rank(S, R, x)
      BY <1>1, <2>1
    <2>3. seq[i] = x
      BY <1>2, <2>2, RanksFill
    <2> QED
      BY <1>3, <2>2, <2>3
  <1>5. ASSUME NEW i \in 1 .. Len(seq), NEW j \in 1 .. Len(seq), i < j
        PROVE  <<seq[i], seq[j]>> \in R
    <2>1. i - 1 < j - 1
      BY <1>1, <1>3, <1>5
    <2>2. Rank(S, R, seq[i]) < Rank(S, R, seq[j]) /\ seq[i] \in S /\ seq[j] \in S
      BY <1>2, <1>3, <2>1
    <2> QED
      BY <2>2, RanksFill
  <1> QED
    BY <1>3, <1>4, <1>5 DEF Lists

NumberOrder(S) == {p \in S \X S : p[1] < p[2]}

UploadBelow(x, y) == x[1] < y[1] \/ (x[1] = y[1] /\ x[2] < y[2])
UploadOrder(S) == {p \in S \X S : UploadBelow(p[1], p[2])}

\* Keys and part numbers are listed in ascending order.
LEMMA SortedLists ==
  ASSUME NEW S, S \subseteq Nat, IsFiniteSet(S)
  PROVE  Lists(Sorted(S), S, NumberOrder(S))
  <1> PICK R : R = NumberOrder(S)
    OBVIOUS
  <1> DEFINE seq == [i \in 1 .. Cardinality(S) |->
                          CHOOSE x \in S : Cardinality({y \in S : y < x}) = i - 1]
  <1>1. \A x, y \in S : <<x, y>> \in R <=> x < y
    BY DEF NumberOrder
  <1>2. StrictOrder(S, R)
    <2>1. \A x \in S : x \in Int
      OBVIOUS
    <2>2. \A x \in S : <<x, x>> \notin R
      BY <1>1, <2>1
    <2>3. ASSUME NEW x \in S, NEW y \in S
          PROVE  x = y \/ <<x, y>> \in R \/ <<y, x>> \in R
      <3>1. x \in Int /\ y \in Int
        BY <2>1
      <3>2. x = y \/ x < y \/ y < x
        BY <3>1
      <3> QED
        BY <1>1, <3>2
    <2>4. ASSUME NEW x \in S, NEW y \in S, NEW z \in S, <<x, y>> \in R, <<y, z>> \in R
          PROVE  <<x, z>> \in R
      <3>1. x < y /\ y < z /\ x \in Int /\ y \in Int /\ z \in Int
        BY <1>1, <2>1, <2>4
      <3>2. x < z
        BY <3>1
      <3> QED
        BY <1>1, <3>2
    <2> QED
      BY <2>2, <2>3, <2>4 DEF StrictOrder
  <1>3. ASSUME NEW x \in S
        PROVE  Cardinality({y \in S : y < x}) = Rank(S, R, x)
    <2>1. {y \in S : y < x} = {y \in S : <<y, x>> \in R}
      BY <1>1
    <2> QED
      BY <2>1 DEF Rank
  <1>4. ASSUME NEW i \in 1 .. Cardinality(S)
        PROVE  seq[i] \in S /\ Rank(S, R, seq[i]) = i - 1
    <2>1. \E x \in S : Rank(S, R, x) = i - 1
      BY <1>2, RankReached
    <2>2. \E x \in S : Cardinality({y \in S : y < x}) = i - 1
      BY <1>3, <2>1
    <2>3. seq[i] = CHOOSE x \in S : Cardinality({y \in S : y < x}) = i - 1
      OBVIOUS
    <2>4. seq[i] \in S /\ Cardinality({y \in S : y < seq[i]}) = i - 1
      BY <2>2, <2>3
    <2> QED
      BY <1>3, <2>4
  <1>5. seq \in [1 .. Cardinality(S) -> S]
    BY <1>4
  <1>6. Sorted(S) = seq
    BY DEF Sorted, InOrder
  <1> HIDE DEF seq
  <1>7. Lists(seq, S, R)
    BY <1>2, <1>4, <1>5, RankedLists
  <1> QED
    BY <1>6, <1>7

\* Uploads are listed by key and then by id.
LEMMA SortedUploadsLists ==
  ASSUME NEW S, S \subseteq Nat \X Nat, IsFiniteSet(S)
  PROVE  Lists(SortedUploads(S), S, UploadOrder(S))
  <1> DEFINE R == UploadOrder(S)
             seq == [i \in 1 .. Cardinality(S) |->
                       CHOOSE x \in S : Cardinality({y \in S : UploadBelow(y, x)}) = i - 1]
  <1>1. \A x, y \in S : <<x, y>> \in R <=> UploadBelow(x, y)
    BY DEF UploadOrder
  <1>2. StrictOrder(S, R)
    <2> HIDE DEF R
    <2>1. \A x \in S : x[1] \in Int /\ x[2] \in Int /\ x = <<x[1], x[2]>>
      OBVIOUS
    <2>2. \A x \in S : <<x, x>> \notin R
      BY <1>1, <2>1 DEF UploadBelow
    <2>3. ASSUME NEW x \in S, NEW y \in S
          PROVE  x = y \/ <<x, y>> \in R \/ <<y, x>> \in R
      <3>1. PICK a \in Nat, b \in Nat : x = <<a, b>>
        OBVIOUS
      <3>2. PICK c \in Nat, d \in Nat : y = <<c, d>>
        OBVIOUS
      <3>3. x = y \/ UploadBelow(x, y) \/ UploadBelow(y, x)
        BY <3>1, <3>2 DEF UploadBelow
      <3> QED
        BY <1>1, <3>3
    <2>4. ASSUME NEW x \in S, NEW y \in S, NEW z \in S, <<x, y>> \in R, <<y, z>> \in R
          PROVE  <<x, z>> \in R
      <3>1. UploadBelow(x, y) /\ UploadBelow(y, z)
        BY <1>1, <2>4
      <3>2. UploadBelow(x, z)
        BY <2>1, <3>1 DEF UploadBelow
      <3> QED
        BY <1>1, <3>2
    <2> QED
      BY <2>2, <2>3, <2>4 DEF StrictOrder
  <1>3. ASSUME NEW x \in S
        PROVE  Cardinality({y \in S : UploadBelow(y, x)}) = Rank(S, R, x)
    <2>1. {y \in S : UploadBelow(y, x)} = {y \in S : <<y, x>> \in R}
      BY <1>1
    <2> QED
      BY <2>1 DEF Rank
  <1> HIDE DEF R
  <1>4. ASSUME NEW i \in 1 .. Cardinality(S)
        PROVE  seq[i] \in S /\ Rank(S, R, seq[i]) = i - 1
    <2>1. \E x \in S : Rank(S, R, x) = i - 1
      BY <1>2, RanksFill
    <2>2. \E x \in S : Cardinality({y \in S : UploadBelow(y, x)}) = i - 1
      BY <1>3, <2>1
    <2>3. seq[i] = CHOOSE x \in S : Cardinality({y \in S : UploadBelow(y, x)}) = i - 1
      OBVIOUS
    <2>4. seq[i] \in S /\ Cardinality({y \in S : UploadBelow(y, seq[i])}) = i - 1
      BY <2>2, <2>3
    <2> QED
      BY <1>3, <2>4
  <1>5. seq \in [1 .. Cardinality(S) -> S]
    BY <1>4
  <1>6. SortedUploads(S) = seq
    BY DEF SortedUploads, InOrder, UploadBelow
  <1> HIDE DEF seq
  <1>7. Lists(seq, S, R)
    BY <1>2, <1>4, <1>5, RankedLists
  <1> QED
    BY <1>6, <1>7 DEF R

(***************************************************************************)
(* Pages of objects                                                        *)
(***************************************************************************)
\* A set of numbers up to a limit that is not empty has a least member.
LEMMA LeastNumber ==
  ASSUME NEW n \in Nat, NEW T \in SUBSET (0 .. n), T # {}
  PROVE  \E x \in T : \A y \in T : x <= y
  <1> DEFINE upTo(x) == {y \in T : y <= x}
             family == {upTo(x) : x \in T}
  <1>1. IsFiniteSet(T)
    <2>1. IsFiniteSet(0 .. n)
      BY FS_Interval
    <2> QED
      BY <2>1, FS_Subset
  <1>2. IsWellFoundedOn(StrictSubsetOrdering(T), SUBSET T)
    <2>1. FiniteSubsetsOf(T) = SUBSET T
      BY <1>1, FS_FiniteSubsetsOfFinite
    <2>2. IsWellFoundedOn(StrictSubsetOrdering(T), FiniteSubsetsOf(T))
      BY FS_StrictSubsetOrderingWellFounded
    <2> QED
      BY <2>1, <2>2
  <1>3. family \subseteq SUBSET T /\ family # {}
    OBVIOUS
  <1>4. PICK m \in family : \A t \in family : ~(<<t, m>> \in StrictSubsetOrdering(T))
    BY <1>2, <1>3, WFMin
  <1>5. PICK x \in T : m = upTo(x)
    OBVIOUS
  <1>6. \A z \in T : z \in Int
    OBVIOUS
  <1>7. ASSUME NEW y \in T, y < x
        PROVE  FALSE
    <2>1. \A z \in T : z <= y => z <= x
      BY <1>6, <1>7
    <2>2. x <= x /\ ~(x <= y)
      BY <1>6, <1>7
    <2>3. upTo(y) \subseteq upTo(x) /\ x \in upTo(x) /\ x \notin upTo(y)
      BY <2>1, <2>2
    <2>4. <<upTo(y), upTo(x)>> \in StrictSubsetOrdering(T)
      BY <2>3 DEF StrictSubsetOrdering
    <2> QED
      BY <1>4, <1>5, <2>4
  <1> QED
    BY <1>6, <1>7

\* f[i] is the page after the first i objects.
PagesUpTo(f, k, objects, delim, max, cursor) ==
    f = [i \in 0 .. k |->
           IF i = 0 THEN EmptyPage
           ELSE addObject(f[i - 1], objects[i], delim, max, cursor)]

\* The loop of paginateObjectsV2 has a page after each object.
LEMMA PagesExist ==
  ASSUME NEW n \in Nat, NEW objects, NEW delim, NEW max, NEW cursor
  PROVE  \E f : PagesUpTo(f, n, objects, delim, max, cursor)
  <1> DEFINE Has(k) == \E f : PagesUpTo(f, k, objects, delim, max, cursor)
             T == {k \in 0 .. n : ~Has(k)}
  <1>1. SUFFICES ASSUME T # {}
                 PROVE  FALSE
    <2>1. n \in 0 .. n
      OBVIOUS
    <2> QED
      BY <1>1, <2>1
  <1>2. PICK k \in T : \A y \in T : k <= y
    <2>1. T \in SUBSET (0 .. n)
      OBVIOUS
    <2> HIDE DEF T
    <2> QED
      BY <1>1, <2>1, LeastNumber
  <1>3. k \in 0 .. n /\ ~Has(k)
    OBVIOUS
  <1>4. CASE k = 0
    <2> DEFINE f == [i \in 0 .. 0 |-> EmptyPage]
    <2>1. f = [i \in 0 .. 0 |->
                 IF i = 0 THEN EmptyPage
                 ELSE addObject(f[i - 1], objects[i], delim, max, cursor)]
      OBVIOUS
    <2> QED
      BY <1>3, <1>4, <2>1 DEF PagesUpTo
  <1>5. CASE k # 0
    <2>1. k - 1 \in 0 .. n /\ ~(k <= k - 1)
      BY <1>3, <1>5
    <2>2. Has(k - 1)
      BY <1>2, <2>1
    <2>3. PICK f : PagesUpTo(f, k - 1, objects, delim, max, cursor)
      BY <2>2
    <2> DEFINE g == [i \in 0 .. k |->
                       IF i = k THEN addObject(f[k - 1], objects[k], delim, max, cursor)
                       ELSE f[i]]
    <2>4. \A i \in 0 .. k - 1 :
             f[i] = IF i = 0 THEN EmptyPage
                    ELSE addObject(f[i - 1], objects[i], delim, max, cursor)
      BY <2>3 DEF PagesUpTo
    <2>5. ASSUME NEW i \in 0 .. k
          PROVE  g[i] = IF i = 0 THEN EmptyPage
                        ELSE addObject(g[i - 1], objects[i], delim, max, cursor)
      <3>1. CASE i = k
        <4>1. k - 1 \in 0 .. k /\ k - 1 # k
          BY <1>3, <1>5
        <4>2. g[i - 1] = f[k - 1]
          BY <3>1, <4>1
        <4> QED
          BY <1>5, <3>1, <4>2
      <3>2. CASE i # k /\ i = 0
        BY <1>3, <2>4, <3>2
      <3>3. CASE i # k /\ i # 0
        <4>1. i \in 0 .. k - 1 /\ i - 1 \in 0 .. k /\ i - 1 # k
          BY <1>3, <3>3
        <4>2. g[i - 1] = f[i - 1] /\ g[i] = f[i]
          BY <3>3, <4>1
        <4> QED
          BY <2>4, <3>3, <4>1, <4>2
      <3> QED
        BY <3>1, <3>2, <3>3
    <2>6. g = [i \in 0 .. k |-> g[i]]
      OBVIOUS
    <2> HIDE DEF g
    <2>7. g = [i \in 0 .. k |->
                 IF i = 0 THEN EmptyPage
                 ELSE addObject(g[i - 1], objects[i], delim, max, cursor)]
      BY <2>5, <2>6
    <2> QED
      BY <1>3, <2>7 DEF PagesUpTo
  <1> QED
    BY <1>4, <1>5

\* PageAfter is the last of these pages.
LEMMA PageAfterLast ==
  ASSUME NEW objects, Len(objects) \in Nat, NEW delim, NEW max, NEW cursor
  PROVE  \E f : /\ PagesUpTo(f, Len(objects), objects, delim, max, cursor)
                /\ PageAfter(objects, delim, max, cursor) = f[Len(objects)]
  <1> DEFINE N == Len(objects)
             f == CHOOSE f : PagesUpTo(f, N, objects, delim, max, cursor)
  <1>1. PagesUpTo(f, N, objects, delim, max, cursor)
    BY PagesExist
  <1>2. PageAfter(objects, delim, max, cursor) = f[N]
    BY DEF PageAfter, PagesUpTo
  <1> QED
    BY <1>1, <1>2

Entries(page) == page.items # <<>> \/ page.prefixes # {}

\* A key is on a page, or its common prefix is.
OnPage(page, delim, x) ==
    \/ \E a \in 1 .. Len(page.items) : page.items[a] = x
    \/ delim /\ GroupOf[x] \in page.prefixes

Pages(S) ==
    [items : Seq(S), prefixes : SUBSET Nat, count : Nat, truncated : BOOLEAN, next : Nat]

\* What a page has of the first i objects, which are members of S.
PageOK(page, i, objects, S, delim, cursor) ==
    /\ page \in Pages(S)
    /\ page.next = 0 \/ \E j \in 1 .. i : page.next = objects[j]
    /\ Entries(page) => page.next > cursor
    /\ \A a \in 1 .. Len(page.items) : cursor < page.items[a] /\ page.items[a] <= page.next
    /\ \A a, b \in 1 .. Len(page.items) : a < b => page.items[a] < page.items[b]
    /\ \A j \in 1 .. i :
          objects[j] > cursor /\ (page.truncated => objects[j] <= page.next)
             => OnPage(page, delim, objects[j])

\* addObject keeps the page right, whether the key is skipped, ends the page,
\* becomes an entry or is in the common prefix of one.
LEMMA AddObjectOK ==
  ASSUME NEW S, S \subseteq Keys, NEW objects, Lists(objects, S, NumberOrder(S)),
         NEW delim \in BOOLEAN, NEW max \in Nat, NEW cursor \in Nat,
         NEW i \in 1 .. Len(objects), NEW page, PageOK(page, i - 1, objects, S, delim, cursor)
  PROVE  PageOK(addObject(page, objects[i], delim, max, cursor), i, objects, S, delim, cursor)
  <1> DEFINE k == objects[i]
             group == IF delim THEN GroupOf[k] ELSE 0
  <1>1. k \in S /\ k \in Nat /\ k > 0 /\ group \in Nat /\ S \subseteq Nat
    <2>1. S \subseteq Nat \ {0} /\ GroupOf \in [Keys -> Nat]
      BY S3Assumption
    <2>2. k \in S
      BY DEF Lists
    <2> HIDE DEF k
    <2>3. k \in Keys /\ k \in Nat \ {0} /\ k > 0
      <3>1. k \in Keys /\ k \in Nat \ {0}
        BY <2>1, <2>2, Zenon
      <3> QED
        BY <3>1
    <2>4. GroupOf[k] \in Nat
      BY <2>1, <2>3
    <2> QED
      BY <2>1, <2>2, <2>3, <2>4
  <1>2. Len(objects) \in Nat /\ i \in Nat /\ i - 1 \in Nat
    BY DEF Lists
  <1>3. \A j \in 1 .. i - 1 : objects[j] \in Nat /\ objects[j] < k
    <2>1. \A j \in 1 .. i - 1 : j \in 1 .. Len(objects) /\ j < i
      BY <1>2
    <2> QED
      BY <2>1, <1>1 DEF Lists, NumberOrder
  <1>4. page \in Pages(S)
    BY DEF PageOK
  <1>5. page.next < k /\ page.next \in Nat
    BY <1>1, <1>3, <1>4 DEF PageOK, Pages
  <1>6. \A j \in 1 .. i : j \in 1 .. i - 1 \/ j = i
    BY <1>2
  <1> HIDE DEF k, group
  <1>7. CASE page.truncated \/ k <= cursor \/ (group # 0 /\ group \in page.prefixes)
    <2>1. addObject(page, k, delim, max, cursor) = page
      BY <1>7 DEF addObject, group
    <2>2. k > cursor /\ (page.truncated => k <= page.next) => OnPage(page, delim, k)
      BY <1>1, <1>5, <1>7 DEF OnPage, group
    <2>3. PageOK(page, i, objects, S, delim, cursor)
      BY <1>2, <1>6, <2>2 DEF PageOK, k
    <2> QED
      BY <2>1, <2>3 DEF k
  <1>8. CASE /\ ~(page.truncated \/ k <= cursor \/ (group # 0 /\ group \in page.prefixes))
             /\ page.count >= max
    <2> DEFINE after == [page EXCEPT !.truncated = TRUE]
    <2>1. addObject(page, k, delim, max, cursor) = after
      BY <1>8 DEF addObject, group
    <2>2. /\ after \in Pages(S) /\ after.items = page.items /\ after.prefixes = page.prefixes
          /\ after.next = page.next /\ after.truncated
      BY <1>4 DEF Pages
    <2>3. ~(k <= after.next)
      BY <1>1, <1>5, <2>2
    <2> HIDE DEF after
    <2>4. \A j \in 1 .. i : objects[j] > cursor /\ objects[j] <= after.next
                              => OnPage(after, delim, objects[j])
      BY <1>6, <1>8, <2>2, <2>3 DEF PageOK, OnPage, k
    <2>5. PageOK(after, i, objects, S, delim, cursor)
      BY <1>6, <2>2, <2>4 DEF PageOK, Entries
    <2> QED
      BY <2>1, <2>5 DEF k
  <1>9. CASE /\ ~(page.truncated \/ k <= cursor \/ (group # 0 /\ group \in page.prefixes))
             /\ ~(page.count >= max)
    <2> DEFINE after == [page EXCEPT !.count = @ + 1, !.next = k,
                           !.items = IF group = 0 THEN Append(@, k) ELSE @,
                           !.prefixes = IF group = 0 THEN @ ELSE @ \cup {group}]
    <2>1. addObject(page, k, delim, max, cursor) = after
      BY <1>9 DEF addObject, group
    <2>2. /\ after.next = k /\ after.truncated = page.truncated
          /\ after.items = IF group = 0 THEN Append(page.items, k) ELSE page.items
          /\ after.prefixes = IF group = 0 THEN page.prefixes ELSE page.prefixes \cup {group}
      BY <1>4 DEF Pages
    <2>3. after \in Pages(S)
      <3>1. (IF group = 0 THEN Append(page.items, k) ELSE page.items) \in Seq(S)
        BY <1>1, <1>4 DEF Pages
      <3>2. page.count + 1 \in Nat
        BY <1>4 DEF Pages
      <3> QED
        BY <1>1, <1>4, <3>1, <3>2 DEF Pages
    <2> HIDE DEF after
    <2>4. after.next > cursor
      BY <1>1, <1>9, <2>2
    <2>5. page.items \in Seq(S) /\ Len(page.items) \in Nat
      BY <1>4 DEF Pages
    <2>6. \A a \in 1 .. Len(page.items) :
             page.items[a] \in Nat /\ cursor < page.items[a] /\ page.items[a] < k
      <3>1. ASSUME NEW a \in 1 .. Len(page.items)
            PROVE  page.items[a] \in Nat /\ cursor < page.items[a] /\ page.items[a] < k
        <4>1. page.items[a] \in Nat
          <5>1. page.items[a] \in S
            BY <2>5
          <5> QED
            BY <1>1, <5>1, Zenon
        <4>2. cursor < page.items[a] /\ page.items[a] <= page.next
          BY DEF PageOK
        <4> QED
          BY <1>1, <1>5, <4>1, <4>2
      <3> QED
        BY <3>1
    <2>7. \A a \in 1 .. Len(after.items) :
             \/ a \in 1 .. Len(page.items) /\ after.items[a] = page.items[a]
             \/ after.items[a] = k /\ a = Len(page.items) + 1
      BY <2>2, <2>5
    <2>8. \A a \in 1 .. Len(after.items) : cursor < after.items[a] /\ after.items[a] <= k
      <3>1. ASSUME NEW a \in 1 .. Len(after.items)
            PROVE  cursor < after.items[a] /\ after.items[a] <= k
        <4>1. CASE a \in 1 .. Len(page.items) /\ after.items[a] = page.items[a]
          BY <1>1, <2>6, <4>1
        <4>2. CASE after.items[a] = k
          BY <1>1, <1>9, <4>2
        <4> QED
          BY <2>7, <4>1, <4>2
      <3> QED
        BY <3>1
    <2>9. \A a, b \in 1 .. Len(after.items) : a < b => after.items[a] < after.items[b]
      <3>1. ASSUME NEW a \in 1 .. Len(after.items), NEW b \in 1 .. Len(after.items), a < b
            PROVE  after.items[a] < after.items[b]
        <4>1. a \in 1 .. Len(page.items) /\ after.items[a] = page.items[a]
          BY <2>5, <2>7, <3>1
        <4>2. CASE b \in 1 .. Len(page.items) /\ after.items[b] = page.items[b]
          BY <3>1, <4>1, <4>2 DEF PageOK
        <4>3. CASE after.items[b] = k
          BY <2>6, <4>1, <4>3
        <4> QED
          BY <2>7, <4>2, <4>3
      <3> QED
        BY <3>1
    <2>10. OnPage(after, delim, k)
      <3>1. CASE group = 0
        <4>1. Len(page.items) + 1 \in 1 .. Len(after.items)
              /\ after.items[Len(page.items) + 1] = k
          BY <2>2, <2>5, <3>1
        <4> QED
          BY <4>1 DEF OnPage
      <3>2. CASE group # 0
        BY <2>2, <3>2 DEF OnPage, group
      <3> QED
        BY <3>1, <3>2
    <2>11. ASSUME NEW x, OnPage(page, delim, x)
           PROVE  OnPage(after, delim, x)
      <3>1. \A a \in 1 .. Len(page.items) :
               a \in 1 .. Len(after.items) /\ after.items[a] = page.items[a]
        BY <2>2, <2>5
      <3>2. page.prefixes \subseteq after.prefixes
        BY <2>2
      <3> QED
        BY <2>11, <3>1, <3>2 DEF OnPage
    <2>12. \A j \in 1 .. i : objects[j] > cursor => OnPage(after, delim, objects[j])
      BY <1>6, <1>9, <2>10, <2>11 DEF PageOK, k
    <2>13. \E j \in 1 .. i : after.next = objects[j]
      BY <1>2, <2>2 DEF k
    <2>14. PageOK(after, i, objects, S, delim, cursor)
      BY <2>2, <2>3, <2>4, <2>8, <2>9, <2>12, <2>13 DEF PageOK
    <2> QED
      BY <2>1, <2>14 DEF k
  <1> QED
    BY <1>7, <1>8, <1>9

\* The page of paginateObjectsV2 is right for all objects of the bucket.
LEMMA PageAfterOK ==
  ASSUME NEW S, S \subseteq Keys, NEW objects, Lists(objects, S, NumberOrder(S)),
         NEW delim \in BOOLEAN, NEW max \in Nat, NEW cursor \in Nat
  PROVE  PageOK(PageAfter(objects, delim, max, cursor), Len(objects), objects, S, delim, cursor)
  <1>1. Len(objects) \in Nat
    BY DEF Lists
  <1>2. PICK f : /\ PagesUpTo(f, Len(objects), objects, delim, max, cursor)
                 /\ PageAfter(objects, delim, max, cursor) = f[Len(objects)]
    BY <1>1, PageAfterLast
  <1>3. \A i \in 0 .. Len(objects) :
           f[i] = IF i = 0 THEN EmptyPage
                  ELSE addObject(f[i - 1], objects[i], delim, max, cursor)
    BY <1>2 DEF PagesUpTo
  <1> DEFINE T == {i \in 0 .. Len(objects) : ~PageOK(f[i], i, objects, S, delim, cursor)}
  <1>4. ASSUME T # {}
        PROVE  FALSE
    <2>1. PICK k \in T : \A j \in T : k <= j
      <3>1. T \in SUBSET (0 .. Len(objects))
        OBVIOUS
      <3> HIDE DEF T
      <3> QED
        BY <1>1, <1>4, <3>1, LeastNumber
    <2>2. k \in 0 .. Len(objects) /\ ~PageOK(f[k], k, objects, S, delim, cursor)
      OBVIOUS
    <2>3. CASE k = 0
      <3>1. f[k] = EmptyPage
        BY <1>3, <2>2, <2>3
      <3>2. EmptyPage \in Pages(S)
        BY DEF EmptyPage, Pages
      <3>3. PageOK(EmptyPage, 0, objects, S, delim, cursor)
        BY <3>2 DEF PageOK, EmptyPage, Entries
      <3> QED
        BY <2>2, <2>3, <3>1, <3>3
    <2>4. CASE k # 0
      <3>1. k - 1 \in 0 .. Len(objects) /\ k \in 1 .. Len(objects) /\ ~(k <= k - 1)
        BY <1>1, <2>2, <2>4
      <3>2. PageOK(f[k - 1], k - 1, objects, S, delim, cursor)
        BY <2>1, <3>1
      <3>3. PageOK(addObject(f[k - 1], objects[k], delim, max, cursor), k, objects, S, delim,
                   cursor)
        BY <3>1, <3>2, AddObjectOK
      <3> QED
        BY <1>3, <2>2, <2>4, <3>3
    <2> QED
      BY <2>3, <2>4
  <1>5. Len(objects) \in 0 .. Len(objects)
    BY <1>1
  <1> QED
    BY <1>2, <1>4, <1>5

(***************************************************************************)
(* What a page of any listing gives                                        *)
(***************************************************************************)
\* x comes after a token or marker.
After(op, x, c) == IF op = "uploads" THEN multipartUploadAfterMarker(x, c) ELSE x > c

Cursors(op) == IF op = "uploads" THEN {<<0, 0>>} \cup Uploads ELSE Nat
Entities(op) == IF op = "uploads" THEN Uploads ELSE Keys

\* The page after c has what comes after c, once, up to its own token if it
\* has one and else all of it.
PageGood(page, op, delim, there, c) ==
    /\ page.items \in Seq(there) /\ page.prefixes \subseteq Nat /\ page.truncated \in BOOLEAN
    /\ \A a \in 1 .. Len(page.items) : After(op, page.items[a], c)
    /\ \A a, b \in 1 .. Len(page.items) : page.items[a] = page.items[b] => a = b
    /\ ~page.truncated => \A x \in there : After(op, x, c) => OnPage(page, delim, x)
    /\ page.truncated /\ Entries(page) =>
          /\ page.next \in Cursors(op)
          /\ \A a \in 1 .. Len(page.items) : ~After(op, page.items[a], page.next)
          /\ \A x \in there :
                After(op, x, c) /\ ~After(op, x, page.next) => OnPage(page, delim, x)
          /\ \A x \in Entities(op) : After(op, x, page.next) => After(op, x, c)

\* A page of objects is a good page.
LEMMA ObjectsPageGood ==
  ASSUME NEW S, S \subseteq Keys, NEW delim \in BOOLEAN, NEW max \in Nat, NEW c \in Nat
  PROVE  PageGood(PageAfter(Sorted(S), delim, max, c), "objects", delim, S, c)
  <1> PICK page : page = PageAfter(Sorted(S), delim, max, c)
    OBVIOUS
  <1> PICK objects : objects = Sorted(S)
    OBVIOUS
  <1>1. S \subseteq Nat /\ IsFiniteSet(S) /\ Keys \subseteq Nat
    BY S3Assumption, FS_Subset
  <1>2. Lists(objects, S, NumberOrder(S))
    BY <1>1, SortedLists
  <1>3. PageOK(page, Len(objects), objects, S, delim, c)
    BY <1>2, PageAfterOK
  <1>4. page.items \in Seq(S) /\ page.prefixes \subseteq Nat /\ page.truncated \in BOOLEAN
        /\ page.next \in Nat
    BY <1>3 DEF PageOK, Pages
  <1>5. Len(page.items) \in Nat /\ \A a \in 1 .. Len(page.items) : page.items[a] \in S
    BY <1>4
  <1>6. \A a \in 1 .. Len(page.items) : page.items[a] \in Int
    <2>1. S \subseteq Int
      BY <1>1
    <2> QED
      BY <1>5, <2>1, Zenon
  <1>7. \A a \in 1 .. Len(page.items) : page.items[a] > c /\ ~(page.items[a] > page.next)
    BY <1>3, <1>4, <1>6 DEF PageOK
  <1>8. ASSUME NEW a \in 1 .. Len(page.items), NEW b \in 1 .. Len(page.items),
               page.items[a] = page.items[b], a # b
        PROVE  FALSE
    <2>1. a < b \/ b < a
      BY <1>5, <1>8
    <2>2. page.items[a] < page.items[b] \/ page.items[b] < page.items[a]
      BY <1>3, <2>1 DEF PageOK
    <2> QED
      BY <1>6, <1>8, <2>2
  <1>9. ASSUME NEW x \in S, x > c, page.truncated => ~(x > page.next)
        PROVE  OnPage(page, delim, x)
    <2>1. PICK j \in 1 .. Len(objects) : objects[j] = x
      BY <1>2 DEF Lists
    <2>2. x \in Int
      BY <1>1
    <2>3. page.truncated => x <= page.next
      BY <1>4, <1>9, <2>2
    <2> QED
      BY <1>3, <1>9, <2>1, <2>3 DEF PageOK
  <1>10. Entries(page) => page.next > c
    BY <1>3 DEF PageOK
  <1>11. ASSUME Entries(page), NEW x \in Keys, x > page.next
         PROVE  x > c
    <2>1. x \in Int
      BY <1>1
    <2> QED
      BY <1>4, <1>10, <1>11, <2>1
  <1>12. \A x : After("objects", x, c) = (x > c)
    BY DEF After
  <1>13. \A x : After("objects", x, page.next) = (x > page.next)
    BY DEF After
  <1>14. Cursors("objects") = Nat /\ Entities("objects") = Keys
    BY DEF Cursors, Entities
  <1>15. PageGood(page, "objects", delim, S, c)
    BY <1>4, <1>7, <1>8, <1>9, <1>11, <1>12, <1>13, <1>14 DEF PageGood
  <1> QED
    BY <1>15

\* The page of FirstPage is a start of the list.
LEMMA FirstPageFacts ==
  ASSUME NEW S, NEW R, NEW seq, Lists(seq, S, R), NEW max \in Nat, max > 0, NEW none, NEW page,
         page = FirstPage(seq, max, none)
  PROVE  /\ page.items \in Seq(S) /\ page.prefixes = {} /\ page.truncated \in BOOLEAN
         /\ Len(page.items) \in 0 .. Len(seq) /\ Len(seq) \in Nat
         /\ \A a \in 1 .. Len(page.items) : page.items[a] = seq[a]
         /\ ~page.truncated => Len(page.items) = Len(seq)
         /\ page.truncated => Len(page.items) > 0 /\ page.next = seq[Len(page.items)]
  <1>1. seq \in Seq(S) /\ Len(seq) \in Nat
    BY DEF Lists
  <1>2. CASE Len(seq) > max
    <2> DEFINE start == SubSeq(seq, 1, max)
    <2>1. start = [a \in 1 .. max |-> seq[a]]
      BY <1>1, <1>2
    <2>2. \A a \in 1 .. max : seq[a] \in S
      BY <1>1, <1>2
    <2>3. start \in Seq(S) /\ Len(start) = max /\ \A a \in 1 .. max : start[a] = seq[a]
      <3> HIDE DEF start
      <3> QED
        BY <2>1, <2>2
    <2>4. page = [EmptyPage EXCEPT !.items = start, !.truncated = TRUE, !.next = start[max]]
      <3>1. (Len(seq) > max) = TRUE
        BY <1>2
      <3> QED
        BY <3>1 DEF FirstPage
    <2>5. page.items = start /\ page.prefixes = {} /\ page.truncated = TRUE
          /\ page.next = start[max]
      <3> HIDE DEF start
      <3> QED
        BY <2>4 DEF EmptyPage
    <2> HIDE DEF start
    <2>6. max \in 1 .. max /\ max \in 0 .. Len(seq)
      BY <1>1, <1>2
    <2> QED
      BY <1>1, <2>3, <2>5, <2>6
  <1>3. CASE ~(Len(seq) > max)
    <2>1. page = [EmptyPage EXCEPT !.items = seq, !.truncated = FALSE, !.next = none]
      <3>1. (Len(seq) > max) = FALSE
        BY <1>1, <1>3
      <3> QED
        BY <3>1 DEF FirstPage
    <2>2. page.items = seq /\ page.prefixes = {} /\ page.truncated = FALSE
      BY <2>1 DEF EmptyPage
    <2>3. page.items \in Seq(S) /\ Len(page.items) \in 0 .. Len(seq)
      BY <1>1, <2>2
    <2> QED
      BY <1>1, <2>2, <2>3
  <1> QED
    BY <1>2, <1>3

\* A page of a filtered and sorted listing is a good page when what is below
\* in the order comes before as a marker too.
LEMMA FirstPageGood ==
  ASSUME NEW op, NEW there, NEW c, NEW S, S = {x \in there : After(op, x, c)}, NEW R,
         NEW seq, Lists(seq, S, R), NEW max \in Nat, max > 0, NEW none,
         \A x \in S : ~After(op, x, x) /\ x \in Cursors(op),
         \A x, y \in S : <<x, y>> \in R => After(op, y, x) /\ ~After(op, x, y),
         \A x \in S, y \in Entities(op) : After(op, y, x) => After(op, y, c)
  PROVE  PageGood(FirstPage(seq, max, none), op, FALSE, there, c)
  <1> PICK page : page = FirstPage(seq, max, none)
    OBVIOUS
  <1>1. /\ page.items \in Seq(S) /\ page.prefixes = {} /\ page.truncated \in BOOLEAN
        /\ Len(page.items) \in 0 .. Len(seq) /\ Len(seq) \in Nat
        /\ \A a \in 1 .. Len(page.items) : page.items[a] = seq[a]
        /\ ~page.truncated => Len(page.items) = Len(seq)
        /\ page.truncated => Len(page.items) > 0 /\ page.next = seq[Len(page.items)]
    BY FirstPageFacts
  <1>2. S \subseteq there
    OBVIOUS
  <1> DEFINE L == Len(page.items)
  <1>3. L \in Nat /\ \A a \in 1 .. L : a \in 1 .. Len(seq) /\ seq[a] \in S
    <2>1. L \in 0 .. Len(seq) /\ Len(seq) \in Nat
      BY <1>1
    <2>2. \A a \in 1 .. Len(seq) : seq[a] \in S
      BY DEF Lists
    <2> HIDE DEF L
    <2> QED
      BY <2>1, <2>2
  <1>4. \A a, b \in 1 .. Len(seq) :
           a < b => After(op, seq[b], seq[a]) /\ ~After(op, seq[a], seq[b])
    <2>1. ASSUME NEW a \in 1 .. Len(seq), NEW b \in 1 .. Len(seq), a < b
          PROVE  After(op, seq[b], seq[a]) /\ ~After(op, seq[a], seq[b])
      <3>1. seq[a] \in S /\ seq[b] \in S /\ <<seq[a], seq[b]>> \in R
        BY <2>1 DEF Lists
      <3> QED
        BY <3>1
    <2> QED
      BY <2>1
  <1>5. page.items \in Seq(there)
    BY <1>1, <1>2
  <1>6. \A a \in 1 .. L : After(op, page.items[a], c)
    BY <1>1, <1>3
  <1>7. ASSUME NEW a \in 1 .. L, NEW b \in 1 .. L, page.items[a] = page.items[b], a # b
        PROVE  FALSE
    <2>1. a < b \/ b < a
      BY <1>3, <1>7
    <2>2. After(op, seq[b], seq[a]) \/ After(op, seq[a], seq[b])
      BY <1>3, <1>4, <2>1
    <2>3. seq[a] = seq[b] /\ ~After(op, seq[a], seq[a])
      BY <1>1, <1>3, <1>7
    <2> QED
      BY <2>2, <2>3
  <1>8. ASSUME NEW x \in there, After(op, x, c), ~page.truncated \/ ~After(op, x, page.next)
        PROVE  OnPage(page, FALSE, x)
    <2>1. PICK i \in 1 .. Len(seq) : seq[i] = x
      BY <1>8 DEF Lists
    <2>2. i \in 1 .. L
      <3>1. CASE ~page.truncated
        BY <1>1, <3>1
      <3>2. CASE page.truncated /\ ~After(op, x, page.next)
        <4>1. L \in 1 .. Len(seq) /\ page.next = seq[L]
          BY <1>1, <3>2
        <4>2. ~(L < i)
          BY <1>4, <2>1, <3>2, <4>1
        <4> QED
          BY <1>1, <4>1, <4>2
      <3> QED
        BY <1>8, <3>1, <3>2
    <2> QED
      BY <1>1, <2>1, <2>2 DEF OnPage
  <1>9. ASSUME page.truncated
        PROVE  /\ page.next \in S
               /\ \A a \in 1 .. L : ~After(op, page.items[a], page.next)
    <2>1. L \in 1 .. L /\ page.next = seq[L] /\ page.next \in S
      BY <1>1, <1>3, <1>9
    <2>2. \A a \in 1 .. L : a = L \/ a < L
      BY <1>3
    <2>3. \A a \in 1 .. L : page.items[a] = page.next \/ ~After(op, page.items[a], page.next)
      BY <1>1, <1>3, <1>4, <2>1, <2>2
    <2> QED
      BY <2>1, <2>3
  <1>10. PageGood(page, op, FALSE, there, c)
    BY <1>1, <1>5, <1>6, <1>7, <1>8, <1>9 DEF PageGood
  <1> QED
    BY <1>10

\* paginateMultipartParts gives a good page of the parts of an upload.
LEMMA PartsPageGood ==
  ASSUME NEW there, there \subseteq Keys, NEW max \in Nat, max > 0, NEW c \in Nat
  PROVE  PageGood(FirstPage(Sorted({n \in there : n > c}), max, 0), "parts", FALSE, there, c)
  <1> PICK S : S = {n \in there : n > c}
    OBVIOUS
  <1>1. \A x, m : After("parts", x, m) <=> x > m
    BY DEF After
  <1>2. S \subseteq Nat /\ IsFiniteSet(S) /\ Keys \subseteq Nat
    BY S3Assumption, FS_Subset
  <1>3. Lists(Sorted(S), S, NumberOrder(S))
    BY <1>2, SortedLists
  <1>4. S = {x \in there : After("parts", x, c)}
    BY <1>1
  <1>5. Cursors("parts") = Nat /\ Entities("parts") = Keys
    BY DEF Cursors, Entities
  <1>6. ASSUME NEW x \in S
        PROVE  ~After("parts", x, x) /\ x \in Cursors("parts")
    <2>1. x \in Nat /\ ~(x > x)
      BY <1>2
    <2> QED
      BY <1>1, <1>5, <2>1
  <1>7. ASSUME NEW x \in S, NEW y \in S, <<x, y>> \in NumberOrder(S)
        PROVE  After("parts", y, x) /\ ~After("parts", x, y)
    <2>1. x \in Int /\ y \in Int /\ x < y
      BY <1>2, <1>7 DEF NumberOrder
    <2>2. y > x /\ ~(x > y)
      BY <2>1
    <2> QED
      BY <1>1, <2>2
  <1>8. ASSUME NEW x \in S, NEW y \in Entities("parts"), After("parts", y, x)
        PROVE  After("parts", y, c)
    <2>1. x \in Int /\ y \in Int
      <3>1. x \in Nat /\ y \in Nat
        BY <1>2, <1>5, Zenon
      <3> QED
        BY <3>1
    <2>2. x > c /\ y > x
      BY <1>1, <1>8
    <2>3. y > c
      BY <2>1, <2>2
    <2> QED
      BY <1>1, <2>3
  <1>9. PageGood(FirstPage(Sorted(S), max, 0), "parts", FALSE, there, c)
    BY <1>3, <1>4, <1>6, <1>7, <1>8, FirstPageGood
  <1> QED
    BY <1>9

\* paginateMultipartUploads gives a good page of the uploads of a bucket.
LEMMA UploadsPageGood ==
  ASSUME NEW there, there \subseteq Uploads, NEW max \in Nat, max > 0,
         NEW c \in {<<0, 0>>} \cup Uploads
  PROVE  PageGood(FirstPage(SortedUploads({u \in there : multipartUploadAfterMarker(u, c)}),
                            max, <<0, 0>>), "uploads", FALSE, there, c)
  <1> PICK S : S = {u \in there : multipartUploadAfterMarker(u, c)}
    OBVIOUS
  <1>1. \A x, m : After("uploads", x, m) <=> multipartUploadAfterMarker(x, m)
    BY DEF After
  <1>2. S \subseteq Nat \X Nat /\ IsFiniteSet(S) /\ S \subseteq Uploads
    BY S3Assumption, FS_Subset
  <1>3. \A u \in Uploads : u[1] \in Nat /\ u[2] \in Nat /\ u[1] # 0 /\ u[2] # 0
    BY S3Assumption
  <1>4. Lists(SortedUploads(S), S, UploadOrder(S))
    BY <1>2, SortedUploadsLists
  <1>5. S = {x \in there : After("uploads", x, c)}
    BY <1>1
  <1>6. Cursors("uploads") = {<<0, 0>>} \cup Uploads /\ Entities("uploads") = Uploads
    BY DEF Cursors, Entities
  <1>7. ASSUME NEW x \in S
        PROVE  ~After("uploads", x, x) /\ x \in Cursors("uploads")
    <2>1. x[1] \in Nat /\ x[2] \in Nat /\ x[1] # 0
      BY <1>2, <1>3
    <2>2. ~multipartUploadAfterMarker(x, x)
      BY <2>1 DEF multipartUploadAfterMarker
    <2> QED
      BY <1>1, <1>2, <1>6, <2>2
  <1>8. ASSUME NEW x \in S, NEW y \in S, <<x, y>> \in UploadOrder(S)
        PROVE  After("uploads", y, x) /\ ~After("uploads", x, y)
    <2>1. x[1] \in Nat /\ x[2] \in Nat /\ x[1] # 0 /\ x[2] # 0
      BY <1>2, <1>3
    <2>2. y[1] \in Nat /\ y[2] \in Nat /\ y[1] # 0 /\ y[2] # 0
      BY <1>2, <1>3
    <2>3. UploadBelow(x, y)
      BY <1>8 DEF UploadOrder
    <2>4. multipartUploadAfterMarker(y, x) /\ ~multipartUploadAfterMarker(x, y)
      BY <2>1, <2>2, <2>3 DEF UploadBelow, multipartUploadAfterMarker
    <2> QED
      BY <1>1, <2>4
  <1>9. ASSUME NEW x \in S, NEW y \in Entities("uploads"), After("uploads", y, x)
        PROVE  After("uploads", y, c)
    <2>1. x[1] \in Nat /\ x[2] \in Nat /\ x[1] # 0 /\ x[2] # 0
      BY <1>2, <1>3
    <2>2. y[1] \in Nat /\ y[2] \in Nat
      BY <1>3, <1>6
    <2>3. c[1] \in Nat /\ c[2] \in Nat
      BY <1>3
    <2>4. multipartUploadAfterMarker(y, x) /\ multipartUploadAfterMarker(x, c)
      BY <1>1, <1>9
    <2>5. multipartUploadAfterMarker(y, c)
      BY <2>1, <2>2, <2>3, <2>4 DEF multipartUploadAfterMarker
    <2> QED
      BY <1>1, <2>5
  <1>10. PageGood(FirstPage(SortedUploads(S), max, <<0, 0>>), "uploads", FALSE, there, c)
    BY <1>4, <1>5, <1>7, <1>8, <1>9, FirstPageGood
  <1> QED
    BY <1>10

\* The first version of the listing gives one good page, all objects.
LEMMA WholeListGood ==
  ASSUME NEW S, S \subseteq Keys, NEW page, page = [EmptyPage EXCEPT !.items = Sorted(S)]
  PROVE  PageGood(page, "objects_v1", FALSE, S, 0) /\ ~page.truncated
  <1> PICK seq : seq = Sorted(S)
    OBVIOUS
  <1>1. S \subseteq Nat \ {0} /\ S \subseteq Int /\ IsFiniteSet(S)
    BY S3Assumption, FS_Subset
  <1>2. Lists(seq, S, NumberOrder(S))
    BY <1>1, SortedLists
  <1>3. page.items = seq /\ page.prefixes = {} /\ page.truncated = FALSE
    BY DEF EmptyPage
  <1>4. seq \in Seq(S) /\ Len(seq) \in Nat /\ \A a \in 1 .. Len(seq) : seq[a] \in S
    BY <1>2 DEF Lists
  <1>5. \A x \in S : After("objects_v1", x, 0)
    BY <1>1 DEF After
  <1>6. ASSUME NEW a \in 1 .. Len(seq), NEW b \in 1 .. Len(seq), seq[a] = seq[b], a # b
        PROVE  FALSE
    <2>1. a < b \/ b < a
      BY <1>4, <1>6
    <2>2. seq[a] < seq[b] \/ seq[b] < seq[a]
      BY <1>2, <2>1 DEF Lists, NumberOrder
    <2>3. seq[a] \in Int
      BY <1>1, <1>4, Zenon
    <2> QED
      BY <1>6, <2>2, <2>3
  <1>7. \A x \in S : OnPage(page, FALSE, x)
    BY <1>2, <1>3 DEF Lists, OnPage
  <1> QED
    BY <1>3, <1>4, <1>5, <1>6, <1>7 DEF PageGood

(***************************************************************************)
(* How far a session has got                                               *)
(***************************************************************************)
Listings == {"objects", "objects_v1", "uploads", "parts"}

Operations == {"none", "get", "copy", "delete"} \cup Listings
Steps == {"idle", "paging", "meta", "body", "put", "deleting", "done"}
Tokens == Nat \cup (Nat \X Nat)
ListedSeqs == Seq(Keys \cup Uploads)
Groups == SUBSET Nat
Metas == {None} \cup Sizes
Statuses == {0, 200, 206, 404, 416}
ByteSets == SUBSET Int
Named == {0} \cup Keys          \* a key in a request, 0 for the empty one
NamedSeqs == Seq(Named)
NamedSets == SUBSET Named

Sessions ==
    [op : Operations, at : Steps, max : Nat, delim : BOOLEAN, cursor : Tokens,
     listed : ListedSeqs, prefixes : Groups, truncated : BOOLEAN,
     range : Headers, key : Named, to : Named, size : Metas,
     status : Statuses, bytes : ByteSets, length : Nat,
     todo : NamedSeqs, want : NamedSets, deleted : NamedSets, errors : NamedSets]

\* The steps of each operation, and what they have read.
StepOK(r) ==
    /\ r.op = "none" => r.at = "idle"
    /\ r.op \in Listings => r.at \in {"paging", "done"} /\ r.cursor \in Cursors(r.op)
    /\ r.op = "objects_v1" => r.cursor = 0
    /\ r.op \in {"uploads", "parts"} => r.max > 0
    /\ r.op \in Listings \ {"objects"} => r.delim = FALSE
    /\ r.op = "get" => r.at \in {"meta", "body", "done"} /\ r.key \in Keys
    /\ r.op = "copy" =>
          r.at \in {"meta", "body", "put", "done"} /\ r.key \in Keys /\ r.to \in Keys
    /\ r.op = "delete" => r.at \in {"deleting", "done"}
    /\ r.at \in {"body", "put"} => r.size \in Sizes

\* What a listing is of, in a bucket, its uploads and the parts of one.
There(op, o, u, p) ==
    IF op = "uploads" THEN u
    ELSE IF op = "parts" THEN p
    ELSE {k \in Keys : o[k] # None}

\* What a session has listed, or covered by a common prefix.
Covered(r, x) ==
    \/ \E i \in 1 .. Len(r.listed) : r.listed[i] = x
    \/ r.delim /\ GroupOf[x] \in r.prefixes

\* Everything up to the token is covered if it was there all the time, and
\* nothing after it is listed yet; in the end nothing is missing.
ListingOK(r, there, st, ev) ==
    /\ \A i, j \in 1 .. Len(r.listed) : r.listed[i] = r.listed[j] => i = j
    /\ \A i \in 1 .. Len(r.listed) : r.listed[i] \in ev /\ r.listed[i] \in Entities(r.op)
    /\ st \subseteq there /\ there \subseteq Entities(r.op)
    /\ \A x \in there : After(r.op, x, r.cursor) => x \in ev
    /\ r.at = "paging" =>
          /\ \A i \in 1 .. Len(r.listed) : ~After(r.op, r.listed[i], r.cursor)
          /\ \A x \in st : After(r.op, x, r.cursor) \/ Covered(r, x)
    /\ r.at = "done" /\ ~r.truncated => \A x \in st : Covered(r, x)

\* An answer to a read of an object is that of the content it had all the time.
AnswerOK(r, st, ev) ==
    /\ \A c \in st :
          LET asked == Asked(r.range, c) IN
          IF r.range # <<>> /\ asked = {} THEN r.status = 416
          ELSE /\ r.status = IF r.range = <<>> THEN 200 ELSE 206
               /\ r.bytes = asked
               /\ r.length = Cardinality(asked)
    /\ \E c \in ev \cup {0} : r.bytes \subseteq 0 .. c - 1

GetOK(r, o, st, ev) ==
    /\ \A c \in st : c = o[r.key] /\ c # None
    /\ o[r.key] # None => o[r.key] \in ev
    /\ r.at = "body" => \A c \in st : c = r.size
    /\ r.at # "done" => r.bytes = {}
    /\ r.at = "done" => AnswerOK(r, st, ev)

Elements(list) == {list[i] : i \in 1 .. Len(list)}

DeleteOK(r, st) ==
    /\ r.want = r.deleted \cup r.errors \cup Elements(r.todo)
    /\ r.deleted \cap st = {}
    /\ r.at = "deleting" => r.todo # <<>>
    /\ r.at = "done" => r.todo = <<>>

SoFar(r, o, u, p, st, ev) ==
    /\ r.op \in Listings => ListingOK(r, There(r.op, o, u, p), st, ev)
    /\ r.op = "get" => GetOK(r, o, st, ev)
    /\ r.op = "delete" => DeleteOK(r, st)

Stores ==
    /\ obj \in [Keys -> {None} \cup Sizes]
    /\ uploads \subseteq Uploads
    /\ parts \subseteq Keys
    /\ changes \in 0 .. MaxChanges

S3Inv ==
    /\ Stores
    /\ s \in Sessions /\ StepOK(s)
    /\ SoFar(s, obj, uploads, parts, stable, ever)

\* The page a client gets next is a good page of what is there.
LEMMA PageNowGood ==
  ASSUME Stores, s \in Sessions, StepOK(s), s.op \in Listings
  PROVE  PageGood(PageNow, s.op, s.delim, There(s.op, obj, uploads, parts), s.cursor)
  <1>1. s.max \in Nat /\ s.delim \in BOOLEAN /\ s.cursor \in Cursors(s.op)
    BY DEF Sessions, StepOK
  <1>2. CASE s.op = "objects"
    <2>1. There(s.op, obj, uploads, parts) = Present /\ Present \subseteq Keys
      BY <1>2 DEF There, Present
    <2>2. s.cursor \in Nat
      BY <1>1, <1>2 DEF Cursors
    <2>3. PageNow = PageAfter(Sorted(Present), s.delim, s.max, s.cursor)
      BY <1>2 DEF PageNow, paginateObjectsV2
    <2> QED
      BY <1>1, <1>2, <2>1, <2>2, <2>3, ObjectsPageGood
  <1>3. CASE s.op = "objects_v1"
    <2>1. There(s.op, obj, uploads, parts) = Present /\ Present \subseteq Keys
      BY <1>3 DEF There, Present
    <2>2. s.cursor = 0 /\ s.delim = FALSE
      BY <1>3 DEF StepOK, Listings
    <2>3. PageNow = [EmptyPage EXCEPT !.items = Sorted(Present)]
      BY <1>3 DEF PageNow, listObjectsV1Result
    <2> QED
      BY <1>3, <2>1, <2>2, <2>3, WholeListGood
  <1>4. CASE s.op = "uploads"
    <2>1. There(s.op, obj, uploads, parts) = uploads /\ uploads \subseteq Uploads
      BY <1>4 DEF There, Stores
    <2>2. s.delim = FALSE /\ s.max > 0
      BY <1>4 DEF StepOK, Listings
    <2>3. s.cursor \in {<<0, 0>>} \cup Uploads
      BY <1>1, <1>4 DEF Cursors
    <2>4. PageNow = FirstPage(SortedUploads({u \in uploads :
                       multipartUploadAfterMarker(u, s.cursor)}), s.max, <<0, 0>>)
      BY <1>4 DEF PageNow, paginateMultipartUploads
    <2> QED
      BY <1>1, <1>4, <2>1, <2>2, <2>3, <2>4, UploadsPageGood
  <1>5. CASE s.op = "parts"
    <2>1. There(s.op, obj, uploads, parts) = parts /\ parts \subseteq Keys
      BY <1>5 DEF There, Stores
    <2>2. s.delim = FALSE /\ s.max > 0
      BY <1>5 DEF StepOK, Listings
    <2>3. s.cursor \in Nat
      BY <1>1, <1>5 DEF Cursors
    <2>4. PageNow = FirstPage(Sorted({n \in parts : n > s.cursor}), s.max, 0)
      BY <1>5 DEF PageNow, paginateMultipartParts
    <2> QED
      BY <1>1, <1>5, <2>1, <2>2, <2>3, <2>4, PartsPageGood
  <1> QED
    BY <1>2, <1>3, <1>4, <1>5 DEF Listings

\* The elements of a list are those of two others, one after the other.
Appends(list, a, b) ==
    /\ Len(a) \in Nat /\ Len(b) \in Nat
    /\ \A i \in 1 .. Len(a) : i \in 1 .. Len(list) /\ list[i] = a[i]
    /\ \A i \in 1 .. Len(b) : Len(a) + i \in 1 .. Len(list) /\ list[Len(a) + i] = b[i]
    /\ \A i \in 1 .. Len(list) : i \in 1 .. Len(a) \/ i - Len(a) \in 1 .. Len(b)

LEMMA Appended ==
  ASSUME NEW A, NEW B, NEW a \in Seq(A), NEW b \in Seq(B)
  PROVE  Appends(a \o b, a, b)
  <1>1. Len(a \o b) = Len(a) + Len(b) /\ Len(a) \in Nat /\ Len(b) \in Nat
    OBVIOUS
  <1>2. \A i \in 1 .. Len(a) : i \in 1 .. Len(a \o b) /\ (a \o b)[i] = a[i]
    <2>1. \A i \in 1 .. Len(a) : i \in 1 .. Len(a \o b)
      BY <1>1
    <2> QED
      BY <2>1
  <1>3. \A i \in 1 .. Len(b) :
           Len(a) + i \in 1 .. Len(a \o b) /\ (a \o b)[Len(a) + i] = b[i]
    <2>1. \A i \in 1 .. Len(b) :
             Len(a) + i \in 1 .. Len(a \o b) /\ ~(Len(a) + i <= Len(a)) /\ Len(a) + i - Len(a) = i
      BY <1>1
    <2> QED
      BY <2>1
  <1>4. \A i \in 1 .. Len(a \o b) : i \in 1 .. Len(a) \/ i - Len(a) \in 1 .. Len(b)
    BY <1>1
  <1> QED
    BY <1>1, <1>2, <1>3, <1>4 DEF Appends

\* A session takes a page: it adds it to what it has listed, and goes on from
\* its token if there is more.
Takes(q, r, page) ==
    /\ Appends(q.listed, r.listed, page.items)
    /\ q.op = r.op /\ q.delim = r.delim
    /\ q.prefixes = r.prefixes \cup page.prefixes /\ q.truncated = page.truncated
    /\ \/ page.truncated /\ Entries(page) /\ q.cursor = page.next /\ q.at = "paging"
       \/ ~(page.truncated /\ Entries(page)) /\ q.cursor = r.cursor /\ q.at = "done"

\* A good page takes a listing on: nothing is listed twice, and what was there
\* all the time is behind the new token only when it is covered.
LEMMA PageListed ==
  ASSUME NEW r, NEW q, NEW page, NEW there, NEW st, NEW ev,
         ListingOK(r, there, st, ev), PageGood(page, r.op, r.delim, there, r.cursor),
         r.at = "paging", Takes(q, r, page)
  PROVE  ListingOK(q, there, st, ev)
  <1> PICK m \in Nat : m = Len(r.listed)
    BY DEF Takes, Appends
  <1> PICK n \in Nat : n = Len(page.items)
    BY DEF Takes, Appends
  <1>a. /\ \A i \in 1 .. m : i \in 1 .. Len(q.listed) /\ q.listed[i] = r.listed[i]
        /\ \A i \in 1 .. n : m + i \in 1 .. Len(q.listed) /\ q.listed[m + i] = page.items[i]
        /\ \A i \in 1 .. Len(q.listed) : i \in 1 .. m \/ i - m \in 1 .. n
    BY DEF Takes, Appends
  <1>b. /\ q.op = r.op /\ q.delim = r.delim
        /\ q.prefixes = r.prefixes \cup page.prefixes /\ q.truncated = page.truncated
        /\ \/ page.truncated /\ Entries(page) /\ q.cursor = page.next /\ q.at = "paging"
           \/ ~(page.truncated /\ Entries(page)) /\ q.cursor = r.cursor /\ q.at = "done"
    BY DEF Takes
  <1> USE <1>a, <1>b
  <1>1. page.items \in Seq(there)
    BY DEF PageGood
  <1>2. \A i \in 1 .. m : i \in 1 .. Len(q.listed) /\ q.listed[i] = r.listed[i]
    OBVIOUS
  <1>3. \A i \in 1 .. n :
           m + i \in 1 .. Len(q.listed) /\ q.listed[m + i] = page.items[i] /\ page.items[i] \in there
    BY <1>1
  <1>4. \A i \in 1 .. Len(q.listed) :
           i \in 1 .. m \/ (i - m \in 1 .. n /\ q.listed[i] = page.items[i - m])
    <2>1. ASSUME NEW i \in 1 .. Len(q.listed), i - m \in 1 .. n
          PROVE  q.listed[i] = page.items[i - m]
      <3>1. i \in Int /\ m + (i - m) = i
        <4>1. i \in Int
          OBVIOUS
        <4> QED
          BY <4>1
      <3> QED
        BY <2>1, <3>1
    <2> QED
      BY <2>1
  <1>5. \A i \in 1 .. m : r.listed[i] \in ev /\ ~After(r.op, r.listed[i], r.cursor)
    BY DEF ListingOK
  <1>6. \A i \in 1 .. n : page.items[i] \in ev /\ After(r.op, page.items[i], r.cursor)
    BY <1>3 DEF ListingOK, PageGood
  <1>7. \A i \in 1 .. Len(q.listed) : q.listed[i] \in ev /\ q.listed[i] \in Entities(q.op)
    <2>1. \A i \in 1 .. m : r.listed[i] \in Entities(q.op)
      BY DEF ListingOK
    <2>2. \A i \in 1 .. n : page.items[i] \in Entities(q.op)
      BY <1>3 DEF ListingOK
    <2> QED
      BY <1>2, <1>3, <1>4, <1>5, <1>6, <2>1, <2>2
  <1>8. ASSUME NEW i \in 1 .. Len(q.listed), NEW j \in 1 .. Len(q.listed),
               q.listed[i] = q.listed[j]
        PROVE  i = j
    <2>1. CASE i \in 1 .. m /\ j \in 1 .. m
      BY <1>2, <1>8, <2>1 DEF ListingOK
    <2>2. CASE i \in 1 .. m /\ j - m \in 1 .. n /\ q.listed[j] = page.items[j - m]
      <3>1. r.listed[i] = page.items[j - m]
        BY <1>2, <1>8, <2>2
      <3> QED
        BY <1>5, <1>6, <2>2, <3>1
    <2>3. CASE j \in 1 .. m /\ i - m \in 1 .. n /\ q.listed[i] = page.items[i - m]
      <3>1. r.listed[j] = page.items[i - m]
        BY <1>2, <1>8, <2>3
      <3> QED
        BY <1>5, <1>6, <2>3, <3>1
    <2>4. CASE /\ i - m \in 1 .. n /\ q.listed[i] = page.items[i - m]
               /\ j - m \in 1 .. n /\ q.listed[j] = page.items[j - m]
      <3>1. page.items[i - m] = page.items[j - m]
        BY <1>8, <2>4
      <3>2. i - m = j - m
        BY <2>4, <3>1 DEF PageGood
      <3>3. i \in Int /\ j \in Int
        OBVIOUS
      <3> QED
        BY <3>2, <3>3
    <2> QED
      BY <1>4, <2>1, <2>2, <2>3, <2>4
  <1>9. ASSUME NEW x, Covered(r, x)
        PROVE  Covered(q, x)
    BY <1>2, <1>9 DEF Covered
  <1>10. ASSUME NEW x, OnPage(page, r.delim, x)
         PROVE  Covered(q, x)
    BY <1>3, <1>10 DEF Covered, OnPage
  <1>11. st \subseteq there /\ there \subseteq Entities(q.op)
    BY DEF ListingOK
  <1>12. \A x \in st : After(r.op, x, r.cursor) \/ Covered(q, x)
    BY <1>9 DEF ListingOK
  <1>13. CASE page.truncated /\ Entries(page) /\ q.cursor = page.next /\ q.at = "paging"
    <2>1. /\ \A a \in 1 .. n : ~After(r.op, page.items[a], page.next)
          /\ \A x \in there :
                After(r.op, x, r.cursor) /\ ~After(r.op, x, page.next) => OnPage(page, r.delim, x)
          /\ \A x \in Entities(r.op) : After(r.op, x, page.next) => After(r.op, x, r.cursor)
      BY <1>13 DEF PageGood
    <2>2. \A x \in there : After(q.op, x, q.cursor) => x \in ev
      BY <1>11, <1>13, <2>1 DEF ListingOK
    <2>3. \A i \in 1 .. m : r.listed[i] \in Entities(r.op) => ~After(q.op, r.listed[i], q.cursor)
      BY <1>5, <1>13, <2>1
    <2>4. \A x \in st : After(q.op, x, q.cursor) \/ Covered(q, x)
      BY <1>10, <1>11, <1>12, <1>13, <2>1
    <2>5. \A i \in 1 .. m : r.listed[i] \in Entities(r.op)
      BY DEF ListingOK
    <2>6. \A i \in 1 .. Len(q.listed) : ~After(q.op, q.listed[i], q.cursor)
      BY <1>2, <1>4, <1>13, <2>1, <2>3, <2>5
    <2> QED
      BY <1>7, <1>8, <1>11, <1>13, <2>2, <2>4, <2>6 DEF ListingOK
  <1>14. CASE ~(page.truncated /\ Entries(page)) /\ q.cursor = r.cursor /\ q.at = "done"
    <2>1. \A x \in there : After(q.op, x, q.cursor) => x \in ev
      BY <1>14 DEF ListingOK
    <2>2. ~page.truncated => \A x \in there : After(r.op, x, r.cursor) => OnPage(page, r.delim, x)
      BY DEF PageGood
    <2>3. ~q.truncated => \A x \in st : Covered(q, x)
      BY <1>10, <1>11, <1>12, <2>2
    <2> QED
      BY <1>7, <1>8, <1>11, <1>14, <2>1, <2>3 DEF ListingOK
  <1> QED
    BY <1>13, <1>14

(***************************************************************************)
(* The inductive invariant: beginnings                                     *)
(***************************************************************************)
\* Page sizes and offsets are numbers.
LEMMA Limits ==
  MaxAsked \in Nat /\ MaxChanges \in Nat /\ DefaultMax \in Nat /\ DefaultMax > 0 /\ Sizes \subseteq Nat
  BY S3Assumption

LEMMA NoSessionType == NoSession \in Sessions
  <1>1. <<>> \in Headers /\ <<>> \in ListedSeqs /\ <<>> \in NamedSeqs
    BY DEF Headers, ListedSeqs, NamedSeqs
  <1>2. 0 \in Tokens /\ {} \in Groups /\ None \in Metas /\ 0 \in Statuses /\ {} \in ByteSets
        /\ 0 \in Named /\ {} \in NamedSets
    BY DEF Tokens, Groups, Metas, Statuses, ByteSets, Named, NamedSets
  <1> QED
    BY <1>1, <1>2 DEF NoSession, Sessions, Operations, Steps

\* There is no session at first.
LEMMA InitInv == Init => S3Inv
  <1> SUFFICES ASSUME Init
               PROVE  S3Inv
    OBVIOUS
  <1>1. Stores
    <2>1. changes \in 0 .. MaxChanges
      BY Limits DEF Init
    <2>2. obj \in [Keys -> {None} \cup Sizes] /\ uploads \subseteq Uploads /\ parts \subseteq Keys
      BY DEF Init
    <2> QED
      BY <2>1, <2>2 DEF Stores
  <1>2. NoSession \in Sessions
    BY NoSessionType
  <1>3. StepOK(NoSession) /\ SoFar(NoSession, obj, uploads, parts, stable, ever)
    BY DEF NoSession, StepOK, SoFar, Listings
  <1> QED
    BY <1>1, <1>2, <1>3 DEF Init, S3Inv

\* A session begins with a record that knows of nothing yet.
LEMMA BeginInv ==
  ASSUME S3Inv, NEW r \in Sessions, StepOK(r), NEW there, Begin(r, there),
         SoFar(r, obj, uploads, parts, there, there)
  PROVE  S3Inv'
  <1>1. s' = r /\ stable' = there /\ ever' = there /\ changes' = 0
        /\ UNCHANGED <<obj, uploads, parts>>
    BY DEF Begin
  <1>2. Stores'
    BY <1>1, Limits DEF S3Inv, Stores
  <1> QED
    BY <1>1, <1>2 DEF S3Inv

\* A listing that begins is to cover what comes after its token.
LEMMA FreshListing ==
  ASSUME NEW r, NEW there, there \subseteq Entities(r.op), r.listed = <<>>, r.at = "paging",
         NEW st, st = {x \in there : After(r.op, x, r.cursor)}
  PROVE  ListingOK(r, there, st, st)
  BY DEF ListingOK

\* max-keys, as either front end reads it.
LEMMA MaxKeys ==
  ASSUME NEW asked \in -1 .. MaxAsked
  PROVE  maxKeysV2(asked) \in Nat /\ normalizeHTTPXMaxKeys(asked) \in Nat
  BY Limits DEF maxKeysV2, normalizeHTTPXMaxKeys

LEMMA StartListObjectsInv ==
  ASSUME S3Inv, StartListObjects
  PROVE  S3Inv'
  <1> PICK asked \in -1 .. MaxAsked, front \in {"http", "httpx"}, delim \in BOOLEAN,
           after \in {0} \cup Keys :
        Begin([NoSession EXCEPT !.op = "objects", !.at = "paging", !.delim = delim,
                 !.cursor = after,
                 !.max = IF front = "httpx" THEN normalizeHTTPXMaxKeys(asked)
                         ELSE maxKeysV2(asked)],
              {k \in Present : k > after})
    BY DEF StartListObjects
  <1> DEFINE max == IF front = "httpx" THEN normalizeHTTPXMaxKeys(asked) ELSE maxKeysV2(asked)
             r == [NoSession EXCEPT !.op = "objects", !.at = "paging", !.delim = delim,
                     !.cursor = after, !.max = max]
             there == {k \in Present : k > after}
  <1>1. max \in Nat /\ after \in Nat
    BY MaxKeys, S3Assumption
  <1>2. Begin(r, there)
    OBVIOUS
  <1> HIDE DEF max
  <1>3. /\ r \in Sessions /\ r.op = "objects" /\ r.at = "paging" /\ r.cursor = after
        /\ r.listed = <<>>
    <2>1. r \in Sessions
      BY <1>1, NoSessionType DEF Sessions, Operations, Steps, Tokens, Listings
    <2>2. /\ r.op = "objects" /\ r.at = "paging" /\ r.cursor = after
          /\ r.listed = <<>>
      BY DEF NoSession
    <2> QED
      BY <2>1, <2>2
  <1> HIDE DEF r
  <1>4. StepOK(r)
    BY <1>1, <1>3 DEF StepOK, Listings, Cursors
  <1>5. There(r.op, obj, uploads, parts) = Present /\ Present \subseteq Entities(r.op)
    BY <1>3 DEF There, Present, Entities
  <1>6. there = {x \in Present : After(r.op, x, r.cursor)}
    BY <1>3 DEF After
  <1> HIDE DEF there
  <1>7. ListingOK(r, Present, there, there)
    BY <1>3, <1>5, <1>6, FreshListing
  <1>8. SoFar(r, obj, uploads, parts, there, there)
    BY <1>3, <1>5, <1>7 DEF SoFar
  <1> QED
    BY <1>2, <1>3, <1>4, <1>8, BeginInv

LEMMA StartListObjectsV1Inv ==
  ASSUME S3Inv, StartListObjectsV1
  PROVE  S3Inv'
  <1> DEFINE r == [NoSession EXCEPT !.op = "objects_v1", !.at = "paging"]
  <1>1. Begin(r, Present)
    BY DEF StartListObjectsV1
  <1>2. /\ r \in Sessions /\ r.op = "objects_v1" /\ r.at = "paging" /\ r.cursor = 0
        /\ r.listed = <<>> /\ r.delim = FALSE
    <2>1. r \in Sessions
      BY NoSessionType DEF Sessions, Operations, Steps, Tokens, Listings
    <2>2. /\ r.op = "objects_v1" /\ r.at = "paging" /\ r.cursor = 0
          /\ r.listed = <<>> /\ r.delim = FALSE
      BY DEF NoSession
    <2> QED
      BY <2>1, <2>2
  <1> HIDE DEF r
  <1>3. StepOK(r)
    BY <1>2 DEF StepOK, Listings, Cursors
  <1>4. There(r.op, obj, uploads, parts) = Present /\ Present \subseteq Entities(r.op)
    BY <1>2 DEF There, Present, Entities
  <1>5. Present = {x \in Present : After(r.op, x, r.cursor)}
    <2>1. \A x \in Present : x > 0
      BY S3Assumption DEF Present
    <2> QED
      BY <1>2, <2>1 DEF After
  <1>6. ListingOK(r, Present, Present, Present)
    BY <1>2, <1>4, <1>5, FreshListing
  <1>7. SoFar(r, obj, uploads, parts, Present, Present)
    BY <1>2, <1>4, <1>6 DEF SoFar
  <1> QED
    BY <1>1, <1>2, <1>3, <1>7, BeginInv

\* max-uploads and max-parts, at least 1 and cut to the largest page.
LEMMA MaxCut ==
  ASSUME NEW asked \in 1 .. MaxAsked
  PROVE  (IF asked > DefaultMax THEN DefaultMax ELSE asked) \in Nat \ {0}
  BY Limits

LEMMA StartListUploadsInv ==
  ASSUME S3Inv, StartListUploads
  PROVE  S3Inv'
  <1> PICK asked \in 1 .. MaxAsked :
        Begin([NoSession EXCEPT !.op = "uploads", !.at = "paging",
                 !.max = IF asked > DefaultMax THEN DefaultMax ELSE asked,
                 !.cursor = <<0, 0>>], uploads)
    BY DEF StartListUploads
  <1> DEFINE max == IF asked > DefaultMax THEN DefaultMax ELSE asked
             r == [NoSession EXCEPT !.op = "uploads", !.at = "paging", !.max = max,
                     !.cursor = <<0, 0>>]
  <1>1. max \in Nat \ {0} /\ max > 0
    <2>1. max \in Nat \ {0}
      BY MaxCut
    <2> QED
      BY <2>1
  <1>2. Begin(r, uploads)
    OBVIOUS
  <1> HIDE DEF max
  <1>3. /\ r \in Sessions /\ r.op = "uploads" /\ r.at = "paging" /\ r.cursor = <<0, 0>>
        /\ r.listed = <<>> /\ r.max = max /\ r.delim = FALSE
    <2>1. r \in Sessions
      BY <1>1, NoSessionType DEF Sessions, Operations, Steps, Tokens, Listings
    <2>2. /\ r.op = "uploads" /\ r.at = "paging" /\ r.cursor = <<0, 0>>
          /\ r.listed = <<>> /\ r.max = max /\ r.delim = FALSE
      BY DEF NoSession
    <2> QED
      BY <2>1, <2>2
  <1> HIDE DEF r
  <1>4. StepOK(r)
    BY <1>1, <1>3 DEF StepOK, Listings, Cursors
  <1>5. There(r.op, obj, uploads, parts) = uploads /\ uploads \subseteq Entities(r.op)
    BY <1>3 DEF There, Entities, S3Inv, Stores
  <1>6. uploads = {x \in uploads : After(r.op, x, r.cursor)}
    BY <1>3 DEF After, multipartUploadAfterMarker
  <1>7. ListingOK(r, uploads, uploads, uploads)
    BY <1>3, <1>5, <1>6, FreshListing
  <1>8. SoFar(r, obj, uploads, parts, uploads, uploads)
    BY <1>3, <1>5, <1>7 DEF SoFar
  <1> QED
    BY <1>2, <1>3, <1>4, <1>8, BeginInv

LEMMA StartListPartsInv ==
  ASSUME S3Inv, StartListParts
  PROVE  S3Inv'
  <1> PICK asked \in 1 .. MaxAsked :
        Begin([NoSession EXCEPT !.op = "parts", !.at = "paging",
                 !.max = IF asked > DefaultMax THEN DefaultMax ELSE asked], parts)
    BY DEF StartListParts
  <1> DEFINE max == IF asked > DefaultMax THEN DefaultMax ELSE asked
             r == [NoSession EXCEPT !.op = "parts", !.at = "paging", !.max = max]
  <1>1. max \in Nat \ {0} /\ max > 0
    <2>1. max \in Nat \ {0}
      BY MaxCut
    <2> QED
      BY <2>1
  <1>2. Begin(r, parts)
    OBVIOUS
  <1> HIDE DEF max
  <1>3. /\ r \in Sessions /\ r.op = "parts" /\ r.at = "paging" /\ r.cursor = 0
        /\ r.listed = <<>> /\ r.max = max /\ r.delim = FALSE
    <2>1. r \in Sessions
      BY <1>1, NoSessionType DEF Sessions, Operations, Steps, Tokens, Listings
    <2>2. /\ r.op = "parts" /\ r.at = "paging" /\ r.cursor = 0
          /\ r.listed = <<>> /\ r.max = max /\ r.delim = FALSE
      BY DEF NoSession
    <2> QED
      BY <2>1, <2>2
  <1> HIDE DEF r
  <1>4. StepOK(r)
    BY <1>1, <1>3 DEF StepOK, Listings, Cursors
  <1>5. There(r.op, obj, uploads, parts) = parts /\ parts \subseteq Entities(r.op)
        /\ parts \subseteq Keys
    BY <1>3 DEF There, Entities, S3Inv, Stores
  <1>6. parts = {x \in parts : After(r.op, x, r.cursor)}
    <2>1. \A x \in Keys : x > 0
      BY S3Assumption
    <2>2. \A x \in parts : After(r.op, x, r.cursor)
      BY <1>3, <1>5, <2>1 DEF After
    <2> QED
      BY <2>2
  <1>7. ListingOK(r, parts, parts, parts)
    BY <1>3, <1>5, <1>6, FreshListing
  <1>8. SoFar(r, obj, uploads, parts, parts, parts)
    BY <1>3, <1>5, <1>7 DEF SoFar
  <1> QED
    BY <1>2, <1>3, <1>4, <1>8, BeginInv

\* A read, of an object that is or is not there, begins with nothing read.
LEMMA FreshRead ==
  ASSUME Stores, NEW r \in Sessions, r.op \in {"get", "copy"}, r.at = "meta", r.key \in Keys,
         r.bytes = {}
  PROVE  SoFar(r, obj, uploads, parts, Contents(r.key), Contents(r.key))
  <1>1. r.op \notin Listings /\ r.op # "delete"
    BY DEF Listings
  <1>2. GetOK(r, obj, Contents(r.key), Contents(r.key))
    BY DEF GetOK, Contents
  <1> QED
    BY <1>1, <1>2 DEF SoFar

LEMMA StartGetInv ==
  ASSUME S3Inv, StartGet
  PROVE  S3Inv'
  <1> PICK k \in Keys, header \in Headers :
        Begin([NoSession EXCEPT !.op = "get", !.at = "meta", !.key = k, !.range = header],
              Contents(k))
    BY DEF StartGet
  <1> DEFINE r == [NoSession EXCEPT !.op = "get", !.at = "meta", !.key = k, !.range = header]
  <1>1. r \in Sessions
    BY NoSessionType DEF Sessions, Operations, Steps, Named
  <1>2. r.op = "get" /\ r.at = "meta" /\ r.key = k /\ r.bytes = {}
    BY DEF NoSession
  <1>3. Begin(r, Contents(k))
    OBVIOUS
  <1> HIDE DEF r
  <1>4. StepOK(r)
    BY <1>2 DEF StepOK, Listings
  <1>5. SoFar(r, obj, uploads, parts, Contents(k), Contents(k))
    BY <1>1, <1>2, FreshRead DEF S3Inv
  <1> QED
    BY <1>1, <1>3, <1>4, <1>5, BeginInv

LEMMA StartCopyInv ==
  ASSUME S3Inv, StartCopy
  PROVE  S3Inv'
  <1> PICK k \in Keys, t \in Keys :
        Begin([NoSession EXCEPT !.op = "copy", !.at = "meta", !.key = k, !.to = t], Contents(k))
    BY DEF StartCopy
  <1> DEFINE r == [NoSession EXCEPT !.op = "copy", !.at = "meta", !.key = k, !.to = t]
  <1>1. r \in Sessions
    BY NoSessionType DEF Sessions, Operations, Steps, Named
  <1>2. r.op = "copy" /\ r.at = "meta" /\ r.key = k /\ r.to = t /\ r.bytes = {}
    BY DEF NoSession
  <1>3. Begin(r, Contents(k))
    OBVIOUS
  <1> HIDE DEF r
  <1>4. StepOK(r)
    BY <1>2 DEF StepOK, Listings
  <1>5. SoFar(r, obj, uploads, parts, Contents(k), Contents(k))
    BY <1>1, <1>2, FreshRead DEF S3Inv
  <1> QED
    BY <1>1, <1>3, <1>4, <1>5, BeginInv

LEMMA StartDeleteInv ==
  ASSUME S3Inv, StartDelete
  PROVE  S3Inv'
  <1> PICK first \in {0} \cup Keys, second \in {0} \cup Keys :
        Begin([NoSession EXCEPT !.op = "delete", !.at = "deleting",
                 !.todo = <<first, second>>, !.want = {first, second}],
              {k \in {first, second} \cap Keys : obj[k] # None})
    BY DEF StartDelete
  <1> DEFINE r == [NoSession EXCEPT !.op = "delete", !.at = "deleting",
                     !.todo = <<first, second>>, !.want = {first, second}]
             there == {k \in {first, second} \cap Keys : obj[k] # None}
  <1>1. <<first, second>> \in NamedSeqs /\ {first, second} \in NamedSets
    BY DEF NamedSeqs, NamedSets, Named
  <1>2. r \in Sessions
    BY <1>1, NoSessionType DEF Sessions, Operations, Steps
  <1>3. /\ r.op = "delete" /\ r.at = "deleting" /\ r.todo = <<first, second>>
        /\ r.want = {first, second} /\ r.deleted = {} /\ r.errors = {}
    BY DEF NoSession
  <1>4. Begin(r, there)
    OBVIOUS
  <1> HIDE DEF r, there
  <1>5. StepOK(r)
    BY <1>3 DEF StepOK, Listings
  <1>6. {r.todo[i] : i \in 1 .. Len(r.todo)} = {first, second}
    <2>1. Len(r.todo) = 2 /\ r.todo[1] = first /\ r.todo[2] = second /\ 1 .. 2 = {1, 2}
      BY <1>3
    <2> QED
      BY <2>1
  <1>7. DeleteOK(r, there)
    BY <1>3, <1>6 DEF DeleteOK, Elements
  <1>8. SoFar(r, obj, uploads, parts, there, there)
    BY <1>3, <1>7 DEF SoFar, Listings
  <1> QED
    BY <1>2, <1>4, <1>5, <1>8, BeginInv

(***************************************************************************)
(* The inductive invariant: the client's and the handlers' steps           *)
(***************************************************************************)
\* A step of a paging session adds a good page to it.
LEMMA NextPageInv ==
  ASSUME S3Inv, NextPage
  PROVE  S3Inv'
  <1> DEFINE there == There(s.op, obj, uploads, parts)
  <1> PICK page : page = PageNow
    OBVIOUS
  <1> DEFINE goOn == page.truncated /\ Entries(page)
  <1>1. s \in Sessions /\ StepOK(s) /\ Stores /\ s.at = "paging"
    BY DEF S3Inv, NextPage
  <1>2. s.op \in Listings
    BY <1>1 DEF StepOK, Sessions, Operations
  <1>3. PageGood(page, s.op, s.delim, there, s.cursor)
    BY <1>1, <1>2, PageNowGood
  <1>4. s' = [s EXCEPT !.listed = @ \o page.items, !.prefixes = @ \cup page.prefixes,
                       !.truncated = page.truncated,
                       !.cursor = IF goOn THEN page.next ELSE @,
                       !.at = IF goOn THEN "paging" ELSE "done"]
    BY DEF NextPage, Entries
  <1>5. UNCHANGED <<obj, uploads, parts, stable, ever, changes>>
    BY DEF NextPage
  <1>6. ListingOK(s, there, stable, ever)
    BY <1>2 DEF S3Inv, SoFar
  <1>7. there \subseteq Keys \cup Uploads
    BY <1>1 DEF There, Stores
  <1> HIDE DEF there
  <1>8. s.listed \in Seq(Keys \cup Uploads) /\ page.items \in Seq(there)
    BY <1>1, <1>3 DEF Sessions, ListedSeqs, PageGood
  <1> DEFINE listed == s.listed \o page.items
             cursor == IF goOn THEN page.next ELSE s.cursor
             at == IF goOn THEN "paging" ELSE "done"
  <1>9. listed \in ListedSeqs
    <2>1. page.items \in Seq(Keys \cup Uploads)
      BY <1>7, <1>8
    <2> QED
      BY <1>8, <2>1 DEF ListedSeqs
  <1>10. cursor \in Cursors(s.op) /\ cursor \in Tokens
    <2>1. cursor \in Cursors(s.op)
      BY <1>1, <1>2, <1>3 DEF PageGood, StepOK
    <2>2. Cursors(s.op) \subseteq Tokens
      BY S3Assumption DEF Cursors, Tokens
    <2> QED
      BY <2>1, <2>2
  <1>11. s.prefixes \cup page.prefixes \in Groups /\ page.truncated \in BOOLEAN /\ at \in Steps
    BY <1>1, <1>3 DEF PageGood, Sessions, Groups, Steps
  <1>12. s.op = "objects_v1" => cursor = 0
    <2>1. ASSUME s.op = "objects_v1"
          PROVE  ~page.truncated
      <3>1. page = [EmptyPage EXCEPT !.items = Sorted(Present)] /\ Present \subseteq Keys
        BY <2>1 DEF PageNow, listObjectsV1Result, Present
      <3> QED
        BY <3>1, WholeListGood
    <2> QED
      BY <1>1, <2>1 DEF StepOK
  <1>13. s' = [s EXCEPT !.listed = listed, !.prefixes = s.prefixes \cup page.prefixes,
                        !.truncated = page.truncated, !.cursor = cursor, !.at = at]
    BY <1>4
  <1>14. \/ page.truncated /\ Entries(page) /\ cursor = page.next /\ at = "paging"
         \/ ~(page.truncated /\ Entries(page)) /\ cursor = s.cursor /\ at = "done"
    OBVIOUS
  <1> HIDE DEF listed, cursor, at, goOn
  <1>15. s' \in Sessions
    BY <1>1, <1>9, <1>10, <1>11, <1>13 DEF Sessions
  <1>16. /\ s'.op = s.op /\ s'.delim = s.delim /\ s'.max = s.max /\ s'.listed = listed
         /\ s'.prefixes = s.prefixes \cup page.prefixes /\ s'.truncated = page.truncated
         /\ s'.cursor = cursor /\ s'.at = at
    BY <1>1, <1>13 DEF Sessions
  <1>17. StepOK(s')
    BY <1>1, <1>2, <1>10, <1>12, <1>14, <1>16 DEF StepOK, Listings
  <1>18. PICK q : q = s'
    OBVIOUS
  <1>19. ListingOK(q, there, stable, ever)
    <2> PICK r, st, ev, t : r = s /\ st = stable /\ ev = ever /\ t = there
      OBVIOUS
    <2> PICK a, b : a = r.listed /\ b = page.items
      OBVIOUS
    <2>1. a \in Seq(Keys \cup Uploads) /\ b \in Seq(t)
      BY <1>8
    <2>2. Appends(a \o b, a, b)
      BY <2>1, Appended
    <2>3. q.listed = a \o b
      BY <1>16, <1>18 DEF listed
    <2>4. Takes(q, r, page)
      <3>1. Appends(q.listed, r.listed, page.items)
        BY <2>2, <2>3
      <3> QED
        BY <1>14, <1>16, <1>18, <3>1 DEF Takes
    <2>5. /\ ListingOK(r, t, st, ev)
          /\ PageGood(page, r.op, r.delim, t, r.cursor) /\ r.at = "paging"
      BY <1>1, <1>3, <1>6
    <2>6. ListingOK(q, t, st, ev)
      BY <2>4, <2>5, PageListed
    <2> QED
      BY <2>6
  <1>20. SoFar(s', obj', uploads', parts', stable', ever')
    BY <1>2, <1>5, <1>16, <1>18, <1>19 DEF SoFar, Listings, there
  <1>21. Stores'
    BY <1>1, <1>5 DEF Stores
  <1> QED
    BY <1>15, <1>17, <1>20, <1>21 DEF S3Inv

\* A step to a session record that is right of what there is then.
LEMMA StepInv ==
  ASSUME S3Inv, NEW r \in Sessions, s' = r, StepOK(r), Stores',
         SoFar(r, obj', uploads', parts', stable', ever')
  PROVE  S3Inv'
  BY DEF S3Inv

\* An answer is a session record.
LEMMA AnsweredType ==
  ASSUME s \in Sessions, NEW status \in Statuses, NEW r, r = Answered(status)
  PROVE  /\ r \in Sessions /\ r.at = "done" /\ r.status = status /\ r.bytes = s.bytes
         /\ r.op = s.op /\ r.key = s.key /\ r.range = s.range /\ r.to = s.to
  <1>1. r \in Sessions
    BY DEF Answered, Sessions, Steps
  <1>2. /\ r.at = "done" /\ r.status = status /\ r.bytes = s.bytes
        /\ r.op = s.op /\ r.key = s.key /\ r.range = s.range /\ r.to = s.to
    BY DEF Answered, Sessions
  <1> QED
    BY <1>1, <1>2

\* So is an answer with a body.
Sent(a, bytes, length) == [a EXCEPT !.bytes = bytes, !.length = length]

LEMMA SentType ==
  ASSUME NEW a \in Sessions, NEW sent \in ByteSets, NEW length \in Nat,
         NEW r, r = Sent(a, sent, length)
  PROVE  /\ r \in Sessions /\ r.at = a.at /\ r.status = a.status /\ r.op = a.op /\ r.key = a.key
         /\ r.range = a.range /\ r.bytes = sent /\ r.length = length
  <1>1. r \in Sessions
    BY DEF Sent, Sessions
  <1>2. /\ r.at = a.at /\ r.status = a.status /\ r.op = a.op /\ r.key = a.key
        /\ r.range = a.range /\ r.bytes = sent /\ r.length = length
    BY DEF Sent, Sessions
  <1> QED
    BY <1>1, <1>2

\* A read that finds nothing was not of an object that was there all the time.
LEMMA NotFoundOK ==
  ASSUME NEW r, NEW o, NEW st, NEW ev, GetOK(r, o, st, ev), r.at # "done", o[r.key] = None,
         NEW q, q.key = r.key, q.at = "done", q.bytes = r.bytes
  PROVE  GetOK(q, o, st, ev)
  <1>1. st = {} /\ q.bytes = {}
    BY DEF GetOK
  <1>2. AnswerOK(q, st, ev)
    BY <1>1 DEF AnswerOK
  <1> QED
    BY <1>1, <1>2 DEF GetOK

LEMMA GetMetaInv ==
  ASSUME S3Inv, GetMeta
  PROVE  S3Inv'
  <1>1. s \in Sessions /\ StepOK(s) /\ Stores /\ s.at = "meta"
    BY DEF S3Inv, GetMeta
  <1>2. s.op \in {"get", "copy"} /\ s.key \in Keys /\ (s.op = "copy" => s.to \in Keys)
    BY <1>1 DEF StepOK, Sessions, Operations, Listings
  <1>3. s.op = "get" => GetOK(s, obj, stable, ever)
    BY DEF S3Inv, SoFar
  <1>4. UNCHANGED <<obj, uploads, parts, stable, ever, changes>>
    BY DEF GetMeta
  <1>5. Stores'
    BY <1>1, <1>4 DEF Stores
  <1>6. CASE obj[s.key] = None
    <2> PICK r : r = Answered(404)
      OBVIOUS
    <2>1. s' = r
      BY <1>6 DEF GetMeta
    <2>2. /\ r \in Sessions /\ r.at = "done" /\ r.bytes = s.bytes
          /\ r.op = s.op /\ r.key = s.key /\ r.to = s.to
      BY <1>1, AnsweredType DEF Statuses
    <2>3. StepOK(r)
      BY <1>2, <2>2 DEF StepOK, Listings
    <2>4. r.op = "get" => GetOK(r, obj, stable, ever)
      BY <1>1, <1>3, <1>6, <2>2, NotFoundOK
    <2>5. SoFar(r, obj', uploads', parts', stable', ever')
      BY <1>2, <1>4, <2>2, <2>4 DEF SoFar, Listings
    <2> QED
      BY <1>5, <2>1, <2>2, <2>3, <2>5, StepInv
  <1>7. CASE obj[s.key] # None
    <2> PICK r : r = [s EXCEPT !.at = "body", !.size = obj[s.key]]
      OBVIOUS
    <2>1. s' = r
      BY <1>7 DEF GetMeta
    <2>2. obj[s.key] \in Sizes
      BY <1>1, <1>2, <1>7 DEF Stores
    <2>3. r \in Sessions
      BY <1>1, <2>2 DEF Sessions, Steps, Metas
    <2>4. /\ r.at = "body" /\ r.size = obj[s.key] /\ r.bytes = s.bytes
          /\ r.op = s.op /\ r.key = s.key /\ r.to = s.to
      BY <1>1 DEF Sessions
    <2>5. StepOK(r)
      BY <1>2, <2>2, <2>4 DEF StepOK, Listings
    <2>6. r.op = "get" => GetOK(r, obj, stable, ever)
      BY <1>1, <1>3, <2>4 DEF GetOK
    <2>7. SoFar(r, obj', uploads', parts', stable', ever')
      BY <1>2, <1>4, <2>4, <2>6 DEF SoFar, Listings
    <2> QED
      BY <1>5, <2>1, <2>3, <2>5, <2>7, StepInv
  <1> QED
    BY <1>6, <1>7

\* Of an object that was there all the time, a ranged read gives what is asked
\* for; of any other, bytes that it has now.
LEMMA GetBodyInv ==
  ASSUME S3Inv, GetBody
  PROVE  S3Inv'
  <1> PICK n : n = obj[s.key]
    OBVIOUS
  <1> PICK spec : spec = Parse(s.range, s.size)
    OBVIOUS
  <1>1. s \in Sessions /\ StepOK(s) /\ Stores /\ s.at = "body" /\ s.op = "get"
    BY DEF S3Inv, GetBody
  <1>2. s.key \in Keys /\ s.size \in Sizes /\ s.size \in Nat /\ s.range \in Headers
    BY <1>1, Limits DEF StepOK, Sessions
  <1>3. GetOK(s, obj, stable, ever)
    BY <1>1 DEF S3Inv, SoFar
  <1>4. UNCHANGED <<obj, uploads, parts, stable, ever, changes>>
    BY DEF GetBody
  <1>5. Stores'
    BY <1>1, <1>4 DEF Stores
  <1>6. RangeRight(s.range, s.size)
    BY <1>2, RangesRight
  <1>7. ASSUME NEW r \in Sessions, s' = r, r.op = "get", r.at = "done", r.key = s.key,
               GetOK(r, obj, stable, ever)
        PROVE  S3Inv'
    <2>1. StepOK(r)
      BY <1>2, <1>7 DEF StepOK, Listings
    <2>2. SoFar(r, obj', uploads', parts', stable', ever')
      BY <1>4, <1>7 DEF SoFar, Listings
    <2> QED
      BY <1>5, <1>7, <2>1, <2>2, StepInv
  <1>8. CASE n = None
    <2> PICK r : r = Answered(404)
      OBVIOUS
    <2>1. s' = r
      BY <1>8 DEF GetBody
    <2>2. r \in Sessions /\ r.at = "done" /\ r.bytes = s.bytes /\ r.op = "get" /\ r.key = s.key
      BY <1>1, AnsweredType DEF Statuses
    <2>3. obj[s.key] = None /\ s.at # "done"
      BY <1>1, <1>8
    <2>4. GetOK(r, obj, stable, ever)
      BY <1>3, <2>2, <2>3, NotFoundOK
    <2> QED
      BY <1>7, <2>1, <2>2, <2>4
  <1>9. CASE n # None /\ ~spec.ok
    <2> PICK r : r = Answered(416)
      OBVIOUS
    <2>1. s' = r
      BY <1>9 DEF GetBody
    <2>2. /\ r \in Sessions /\ r.at = "done" /\ r.bytes = s.bytes /\ r.op = "get"
          /\ r.key = s.key /\ r.range = s.range /\ r.status = 416
      BY <1>1, AnsweredType DEF Statuses
    <2>3. s.range # <<>> /\ Asked(s.range, s.size) = {}
      BY <1>6, <1>9 DEF RangeRight
    <2>4. (\A c \in stable : c = s.size) /\ s.bytes = {}
      BY <1>1, <1>3 DEF GetOK
    <2>5. AnswerOK(r, stable, ever)
      BY <2>2, <2>3, <2>4 DEF AnswerOK
    <2>6. GetOK(r, obj, stable, ever)
      BY <1>3, <2>2, <2>5 DEF GetOK
    <2> QED
      BY <1>7, <2>1, <2>2, <2>6
  <1>10. CASE n # None /\ spec.ok
    <2>1. PICK status : status = IF spec.partial THEN 206 ELSE 200
      OBVIOUS
    <2>2. PICK a : a = Answered(status)
      OBVIOUS
    <2>3. PICK asked : asked = Asked(s.range, s.size)
      OBVIOUS
    <2>4. PICK sent : sent = Slice(spec, n)
      OBVIOUS
    <2>5. PICK length : length = spec.end - spec.start + 1
      OBVIOUS
    <2>6. PICK r : r = s'
      OBVIOUS
    <2>7. r = Sent(a, sent, length)
      BY <1>10, <2>1, <2>2, <2>4, <2>5, <2>6 DEF GetBody, Sent
    <2>8. n \in Nat /\ n \in Sizes
      BY <1>1, <1>2, <1>10, Limits DEF Stores
    <2>9. /\ spec.start \in Nat /\ spec.end \in Int
          /\ spec.partial = IF s.range = <<>> THEN FALSE ELSE TRUE
          /\ Slice(spec, s.size) = asked
          /\ length = Cardinality(asked)
          /\ s.range # <<>> => asked # {}
      BY <1>6, <1>10, <2>3, <2>5 DEF RangeRight
    <2>10. sent \subseteq 0 .. n - 1 /\ sent \in ByteSets
      <3>1. sent \subseteq 0 .. n - 1
        BY <2>4, <2>8, <2>9, SliceWithin
      <3>2. 0 .. n - 1 \subseteq Int
        BY <2>8
      <3> QED
        BY <3>1, <3>2 DEF ByteSets
    <2>11. length \in Nat
      <3>1. asked \subseteq 0 .. s.size - 1
        BY <2>3 DEF Asked
      <3>2. IsFiniteSet(0 .. s.size - 1)
        BY <1>2, FS_Interval
      <3> QED
        BY <2>9, <3>1, <3>2, FS_Subset, FS_CardinalityType
    <2>12. /\ a \in Sessions /\ a.at = "done" /\ a.status = status /\ a.op = "get"
           /\ a.key = s.key /\ a.range = s.range
      BY <1>1, <2>1, <2>2, AnsweredType DEF Statuses
    <2>13. /\ r \in Sessions /\ r.at = a.at /\ r.status = a.status /\ r.op = a.op
           /\ r.key = a.key /\ r.range = a.range /\ r.bytes = sent /\ r.length = length
      BY <2>7, <2>10, <2>11, <2>12, SentType
    <2>14. /\ r.at = "done" /\ r.status = status /\ r.op = "get" /\ r.key = s.key
           /\ r.range = s.range
      BY <2>12, <2>13
    <2>15. \A c \in stable : c = s.size /\ c = n
      BY <1>1, <1>3 DEF GetOK
    <2>16. n \in ever
      BY <1>3, <1>10 DEF GetOK
    <2>17. status = IF s.range = <<>> THEN 200 ELSE 206
      BY <2>1, <2>9
    <2>18. stable # {} => sent = asked
      BY <2>4, <2>9, <2>15
    <2>19. AnswerOK(r, stable, ever)
      <3>1. \A c \in stable : Asked(r.range, c) = asked
        BY <2>3, <2>14, <2>15
      <3>2. \E c \in ever \cup {0} : r.bytes \subseteq 0 .. c - 1
        BY <2>10, <2>13, <2>16
      <3>3. r.status = IF r.range = <<>> THEN 200 ELSE 206
        BY <2>14, <2>17
      <3>4. r.length = Cardinality(asked) /\ (stable # {} => r.bytes = asked)
        BY <2>9, <2>13, <2>18
      <3>5. ~(r.range # <<>> /\ asked = {})
        BY <2>9, <2>14
      <3> QED
        BY <3>1, <3>2, <3>3, <3>4, <3>5 DEF AnswerOK
    <2>20. GetOK(r, obj, stable, ever)
      BY <1>3, <2>14, <2>19 DEF GetOK
    <2> QED
      BY <1>7, <2>6, <2>13, <2>14, <2>20
  <1> QED
    BY <1>8, <1>9, <1>10

LEMMA CopyBodyInv ==
  ASSUME S3Inv, CopyBody
  PROVE  S3Inv'
  <1>1. s \in Sessions /\ StepOK(s) /\ Stores /\ s.at = "body" /\ s.op = "copy"
    BY DEF S3Inv, CopyBody
  <1>2. s.key \in Keys /\ s.to \in Keys
    BY <1>1 DEF StepOK
  <1>3. UNCHANGED <<obj, uploads, parts, stable, ever, changes>>
    BY DEF CopyBody
  <1>4. Stores'
    BY <1>1, <1>3 DEF Stores
  <1>5. ASSUME NEW r \in Sessions, s' = r, r.op = "copy", StepOK(r)
        PROVE  S3Inv'
    <2>1. SoFar(r, obj', uploads', parts', stable', ever')
      BY <1>5 DEF SoFar, Listings
    <2> QED
      BY <1>4, <1>5, <2>1, StepInv
  <1>6. CASE obj[s.key] = None
    <2> PICK r : r = Answered(404)
      OBVIOUS
    <2>1. s' = r
      BY <1>6 DEF CopyBody
    <2>2. /\ r \in Sessions /\ r.at = "done" /\ r.op = s.op /\ r.key = s.key /\ r.to = s.to
      BY <1>1, AnsweredType DEF Statuses
    <2>3. StepOK(r)
      BY <1>1, <1>2, <2>2 DEF StepOK, Listings
    <2> QED
      BY <1>1, <1>5, <2>1, <2>2, <2>3
  <1>7. CASE obj[s.key] # None
    <2> PICK r : r = [s EXCEPT !.at = "put", !.size = obj[s.key]]
      OBVIOUS
    <2>1. s' = r
      BY <1>7 DEF CopyBody
    <2>2. obj[s.key] \in Sizes
      BY <1>1, <1>2, <1>7 DEF Stores
    <2>3. r \in Sessions
      BY <1>1, <2>2 DEF Sessions, Steps, Metas
    <2>4. r.at = "put" /\ r.size = obj[s.key] /\ r.op = s.op /\ r.key = s.key /\ r.to = s.to
      BY <1>1 DEF Sessions
    <2>5. StepOK(r)
      BY <1>1, <1>2, <2>2, <2>4 DEF StepOK, Listings
    <2> QED
      BY <1>1, <1>5, <2>1, <2>3, <2>4, <2>5
  <1> QED
    BY <1>6, <1>7

LEMMA CopyPutInv ==
  ASSUME S3Inv, CopyPut
  PROVE  S3Inv'
  <1>1. s \in Sessions /\ StepOK(s) /\ Stores /\ s.at = "put"
    BY DEF S3Inv, CopyPut
  <1>2. s.op = "copy"
    BY <1>1 DEF StepOK, Sessions, Operations, Listings
  <1>3. s.key \in Keys /\ s.to \in Keys /\ s.size \in Sizes
    BY <1>1, <1>2 DEF StepOK
  <1>4. obj' = [obj EXCEPT ![s.to] = s.size] /\ UNCHANGED <<uploads, parts, changes>>
    BY DEF CopyPut
  <1>5. Stores'
    BY <1>1, <1>3, <1>4 DEF Stores
  <1> PICK r : r = Answered(200)
    OBVIOUS
  <1>6. s' = r
    BY DEF CopyPut
  <1>7. /\ r \in Sessions /\ r.at = "done" /\ r.op = s.op /\ r.key = s.key /\ r.to = s.to
    BY <1>1, AnsweredType DEF Statuses
  <1>8. StepOK(r)
    BY <1>2, <1>3, <1>7 DEF StepOK, Listings
  <1>9. SoFar(r, obj', uploads', parts', stable', ever')
    BY <1>2, <1>7 DEF SoFar, Listings
  <1> QED
    BY <1>5, <1>6, <1>7, <1>8, <1>9, StepInv

\* What is left of a list is without its head, which has been dealt with.
LEMMA HeadDealt ==
  ASSUME NEW list, list \in Seq(Named), list # <<>>, NEW k, k = Head(list),
         NEW rest, rest = Tail(list)
  PROVE  /\ Elements(list) = {k} \cup Elements(rest)
         /\ k \in Named /\ rest \in Seq(Named)
         /\ Len(list) = 1 <=> rest = <<>>
  <1>1. /\ Len(list) \in Nat /\ Len(list) > 0 /\ Len(rest) = Len(list) - 1
        /\ k = list[1] /\ k \in Named /\ rest \in Seq(Named)
        /\ \A i \in 1 .. Len(rest) : rest[i] = list[i + 1]
    OBVIOUS
  <1>2. \A i \in 1 .. Len(list) : i = 1 \/ (i - 1 \in 1 .. Len(rest) /\ (i - 1) + 1 = i)
    BY <1>1
  <1>3. \A i \in 1 .. Len(rest) : i + 1 \in 1 .. Len(list)
    BY <1>1
  <1>4. 1 \in 1 .. Len(list)
    BY <1>1
  <1>5. \A i \in 1 .. Len(list) : list[i] = k \/ \E j \in 1 .. Len(rest) : list[i] = rest[j]
    BY <1>1, <1>2
  <1>6. \A i \in 1 .. Len(rest) : \E j \in 1 .. Len(list) : rest[i] = list[j]
    BY <1>1, <1>3
  <1>7. {list[i] : i \in 1 .. Len(list)} = {k} \cup {rest[i] : i \in 1 .. Len(rest)}
    BY <1>1, <1>4, <1>5, <1>6
  <1>8. Len(list) = 1 <=> rest = <<>>
    BY <1>1
  <1> QED
    BY <1>1, <1>7, <1>8 DEF Elements

\* The record of a request that goes on to the next item, and what it keeps.
Onward(q, rest, at) == [q EXCEPT !.todo = rest, !.at = at]

LEMMA NextItem ==
  ASSUME NEW q \in Sessions, NEW rest \in NamedSeqs, NEW at \in Steps,
         NEW r, r = Onward(q, rest, at)
  PROVE  /\ r \in Sessions /\ r.op = q.op /\ r.at = at /\ r.todo = rest /\ r.want = q.want
         /\ r.deleted = q.deleted /\ r.errors = q.errors
  <1>1. r \in Sessions
    BY DEF Onward, Sessions
  <1>2. /\ r.op = q.op /\ r.at = at /\ r.todo = rest /\ r.want = q.want
        /\ r.deleted = q.deleted /\ r.errors = q.errors
    BY DEF Onward, Sessions
  <1> QED
    BY <1>1, <1>2

\* One item of the list: a deletion, an item without a key or a failure.
LEMMA deleteObjectItemInv ==
  ASSUME S3Inv, deleteObjectItem
  PROVE  S3Inv'
  <1>1. s \in Sessions /\ StepOK(s) /\ Stores /\ s.at = "deleting"
    BY DEF S3Inv, deleteObjectItem
  <1>2. s.op = "delete"
    BY <1>1 DEF StepOK, Sessions, Operations, Listings
  <1>3. DeleteOK(s, stable)
    BY <1>2 DEF S3Inv, SoFar
  <1>4. PICK k : k = Head(s.todo)
    OBVIOUS
  <1>5. PICK rest : rest = Tail(s.todo)
    OBVIOUS
  <1>6. PICK at : at = IF Len(s.todo) = 1 THEN "done" ELSE "deleting"
    OBVIOUS
  <1>7. PICK list : list = s.todo
    OBVIOUS
  <1>8. /\ list \in Seq(Named)
        /\ Elements(list) = {k} \cup Elements(rest)
        /\ k \in Named /\ rest \in Seq(Named)
        /\ Len(list) = 1 <=> rest = <<>>
    <2>1. list \in Seq(Named) /\ list # <<>>
      BY <1>1, <1>3, <1>7 DEF DeleteOK, Sessions, NamedSeqs
    <2>2. k = Head(list) /\ rest = Tail(list)
      BY <1>4, <1>5, <1>7
    <2> QED
      BY <2>1, <2>2, HeadDealt
  <1>9. \/ at = "done" /\ rest = <<>>
        \/ at = "deleting" /\ rest # <<>>
    BY <1>6, <1>7, <1>8
  <1>10. at \in Steps /\ rest \in NamedSeqs
    BY <1>8, <1>9 DEF Steps, NamedSeqs
  <1>11. ASSUME NEW q \in Sessions, q.op = "delete", q.want = s.want, q.todo = s.todo,
                q.at = "deleting",
                q.deleted \cup q.errors = s.deleted \cup s.errors \cup {k},
                q.deleted \cap stable' = {}, Stores',
                s' = [q EXCEPT !.todo = Tail(@), !.at = IF Len(s.todo) = 1 THEN "done" ELSE @]
         PROVE  S3Inv'
    <2>1. PICK r : r = s'
      OBVIOUS
    <2>2. r = Onward(q, rest, at)
      BY <1>5, <1>6, <1>11, <2>1 DEF Onward
    <2>3. /\ r \in Sessions /\ r.op = q.op /\ r.at = at /\ r.todo = rest /\ r.want = q.want
          /\ r.deleted = q.deleted /\ r.errors = q.errors
      BY <1>10, <1>11, <2>2, NextItem
    <2>4. StepOK(r)
      BY <1>9, <1>11, <2>3 DEF StepOK, Listings
    <2>5. r.want = r.deleted \cup r.errors \cup Elements(r.todo)
      BY <1>3, <1>7, <1>8, <1>11, <2>3 DEF DeleteOK
    <2>6. DeleteOK(r, stable')
      BY <1>9, <1>11, <2>3, <2>5 DEF DeleteOK
    <2>7. SoFar(r, obj', uploads', parts', stable', ever')
      BY <1>11, <2>3, <2>6 DEF SoFar, Listings
    <2> QED
      BY <1>11, <2>1, <2>3, <2>4, <2>7, StepInv
  <1>12. s.deleted \in NamedSets /\ s.errors \in NamedSets /\ s.deleted \cap stable = {}
    BY <1>1, <1>3 DEF Sessions, DeleteOK
  <1>13. s.deleted \cup {k} \in NamedSets /\ s.errors \cup {k} \in NamedSets
    BY <1>8, <1>12 DEF NamedSets
  <1>14. UNCHANGED <<uploads, parts>>
    BY DEF deleteObjectItem
  <1>15. CASE /\ k \in Keys /\ obj' = [obj EXCEPT ![k] = None] /\ stable' = stable \ {k}
              /\ s' = [[s EXCEPT !.deleted = @ \cup {k}] EXCEPT
                          !.todo = Tail(@), !.at = IF Len(s.todo) = 1 THEN "done" ELSE @]
              /\ UNCHANGED changes
    <2>1. Stores'
      BY <1>1, <1>14, <1>15 DEF Stores
    <2>2. PICK q : q = [s EXCEPT !.deleted = @ \cup {k}]
      OBVIOUS
    <2>3. q \in Sessions
      BY <1>1, <1>13, <2>2 DEF Sessions
    <2>4. /\ q.op = s.op /\ q.want = s.want /\ q.todo = s.todo /\ q.at = s.at
          /\ q.deleted = s.deleted \cup {k} /\ q.errors = s.errors
      BY <1>1, <2>2 DEF Sessions
    <2>5. s' = [q EXCEPT !.todo = Tail(@), !.at = IF Len(s.todo) = 1 THEN "done" ELSE @]
      BY <1>15, <2>2
    <2>6. q.deleted \cap stable' = {} /\ q.deleted \cup q.errors = s.deleted \cup s.errors \cup {k}
      BY <1>12, <1>15, <2>4
    <2> QED
      BY <1>1, <1>2, <1>11, <2>1, <2>3, <2>4, <2>5, <2>6
  <1>16. CASE /\ s' = [[s EXCEPT !.errors = @ \cup {k}] EXCEPT
                          !.todo = Tail(@), !.at = IF Len(s.todo) = 1 THEN "done" ELSE @]
              /\ UNCHANGED stable
              /\ \/ UNCHANGED <<obj, changes>>
                 \/ /\ k \in Keys
                    /\ changes < MaxChanges /\ changes' = changes + 1
                    /\ obj' \in {obj, [obj EXCEPT ![k] = None]}
    <2>1. Stores'
      <3>1. obj' \in [Keys -> {None} \cup Sizes]
        BY <1>1, <1>16 DEF Stores
      <3>2. changes' \in 0 .. MaxChanges
        BY <1>1, <1>16, Limits DEF Stores
      <3> QED
        BY <1>1, <1>14, <3>1, <3>2 DEF Stores
    <2>2. PICK q : q = [s EXCEPT !.errors = @ \cup {k}]
      OBVIOUS
    <2>3. q \in Sessions
      BY <1>1, <1>13, <2>2 DEF Sessions
    <2>4. /\ q.op = s.op /\ q.want = s.want /\ q.todo = s.todo /\ q.at = s.at
          /\ q.deleted = s.deleted /\ q.errors = s.errors \cup {k}
      BY <1>1, <2>2 DEF Sessions
    <2>5. s' = [q EXCEPT !.todo = Tail(@), !.at = IF Len(s.todo) = 1 THEN "done" ELSE @]
      BY <1>16, <2>2
    <2>6. q.deleted \cap stable' = {} /\ q.deleted \cup q.errors = s.deleted \cup s.errors \cup {k}
      BY <1>12, <1>16, <2>4
    <2> QED
      BY <1>1, <1>2, <1>11, <2>1, <2>3, <2>4, <2>5, <2>6
  <1> QED
    BY <1>4, <1>15, <1>16 DEF deleteObjectItem

(***************************************************************************)
(* The inductive invariant: what others do meanwhile                       *)
(***************************************************************************)
\* What others remove is no longer there all the time, and what they add has
\* been there at some time.
LEMMA ListingChanged ==
  ASSUME NEW r, NEW there, NEW st, NEW ev, ListingOK(r, there, st, ev),
         NEW now, NEW still, NEW since, still \subseteq st, ev \subseteq since,
         still \subseteq now, now \subseteq Entities(r.op), \A x \in now : x \in there \cup since
  PROVE  ListingOK(r, now, still, since)
  <1>1. \A i \in 1 .. Len(r.listed) : r.listed[i] \in since
    BY DEF ListingOK
  <1>2. \A x \in now : After(r.op, x, r.cursor) => x \in since
    BY DEF ListingOK
  <1>3. \A x \in still : x \in st
    OBVIOUS
  <1> QED
    BY <1>1, <1>2, <1>3 DEF ListingOK

\* A listing goes on from where it is, over what is there now.
LEMMA OthersListing ==
  ASSUME S3Inv, s.op \in Listings, s' = s, Stores', ListingOK(s, There(s.op, obj', uploads', parts'), stable', ever')
  PROVE  S3Inv'
  <1> PICK r : r = s
    OBVIOUS
  <1>1. r \in Sessions /\ StepOK(r) /\ r.op \in Listings /\ s' = r
    BY DEF S3Inv
  <1>2. SoFar(r, obj', uploads', parts', stable', ever')
    BY <1>1 DEF SoFar, Listings
  <1> QED
    BY <1>1, <1>2, StepInv

\* Others may only change so much.
LEMMA OthersChange ==
  ASSUME Stores, Others
  PROVE  s' = s /\ changes' \in 0 .. MaxChanges
  BY Limits DEF Others, Stores

LEMMA OthersWriteInv ==
  ASSUME S3Inv, OthersWrite
  PROVE  S3Inv'
  <1>1. s \in Sessions /\ StepOK(s) /\ Stores
    BY DEF S3Inv
  <1>2. PICK k \in Keys, c \in {None} \cup Sizes :
           /\ c # obj[k]
           /\ obj' = [obj EXCEPT ![k] = c]
           /\ IF s.op \in {"get", "copy"}
              THEN /\ stable' = IF k = s.key THEN {} ELSE stable
                   /\ ever' = IF k = s.key /\ c # None THEN ever \cup {c} ELSE ever
              ELSE /\ stable' = IF c = None THEN stable \ {k} ELSE stable
                   /\ ever' = IF c = None THEN ever ELSE ever \cup {k}
    BY DEF OthersWrite
  <1>3. s' = s /\ changes' \in 0 .. MaxChanges
    BY <1>1, OthersChange DEF OthersWrite
  <1>4. UNCHANGED <<uploads, parts>>
    BY DEF OthersWrite
  <1>5. Stores'
    <2>1. obj' \in [Keys -> {None} \cup Sizes]
      BY <1>1, <1>2 DEF Stores
    <2> QED
      BY <1>1, <1>3, <1>4, <2>1 DEF Stores
  <1>6. obj'[k] = c /\ \A x \in Keys : x # k => obj'[x] = obj[x]
    BY <1>1, <1>2 DEF Stores
  <1>7. PICK r : r = s
    OBVIOUS
  <1>8. r \in Sessions /\ StepOK(r) /\ s' = r
    BY <1>1, <1>3, <1>7
  <1>9. CASE s.op \in {"objects", "objects_v1"}
    <2>1. PICK there, now : /\ there = There(s.op, obj, uploads, parts)
                            /\ now = There(s.op, obj', uploads', parts')
      OBVIOUS
    <2>2. there = {x \in Keys : obj[x] # None} /\ now = {x \in Keys : obj'[x] # None}
      BY <1>9, <2>1 DEF There
    <2>3. ListingOK(s, there, stable, ever)
      BY <1>9, <2>1 DEF S3Inv, SoFar, Listings
    <2>4. /\ stable' = IF c = None THEN stable \ {k} ELSE stable
          /\ ever' = IF c = None THEN ever ELSE ever \cup {k}
      BY <1>2, <1>9
    <2>5. stable' \subseteq stable /\ ever \subseteq ever'
      BY <2>4
    <2>6. stable \subseteq there
      BY <2>3 DEF ListingOK
    <2>7. stable' \subseteq now
      BY <1>6, <2>2, <2>4, <2>6
    <2>8. now \subseteq Entities(s.op)
      BY <1>9, <2>2 DEF Entities
    <2>9. \A x \in now : x \in there \cup ever'
      BY <1>6, <2>2, <2>4
    <2>10. ListingOK(s, now, stable', ever')
      BY <2>3, <2>5, <2>7, <2>8, <2>9, ListingChanged
    <2> QED
      BY <1>3, <1>5, <1>9, <2>1, <2>10, OthersListing DEF Listings
  <1>10. CASE s.op = "get"
    <2>1. GetOK(s, obj, stable, ever) /\ s.key \in Keys /\ s.at # "done"
      BY <1>1, <1>10 DEF S3Inv, SoFar, StepOK, OthersWrite, Others
    <2>2. /\ stable' = IF k = s.key THEN {} ELSE stable
          /\ ever' = IF k = s.key /\ c # None THEN ever \cup {c} ELSE ever
      BY <1>2, <1>10
    <2>3. \A x \in stable' : x = obj'[s.key] /\ x # None /\ x \in stable
      BY <1>6, <2>1, <2>2 DEF GetOK
    <2>4. obj'[s.key] # None => obj'[s.key] \in ever'
      BY <1>6, <2>1, <2>2 DEF GetOK
    <2>5. GetOK(r, obj', stable', ever')
      BY <1>7, <2>1, <2>3, <2>4 DEF GetOK
    <2>6. SoFar(r, obj', uploads', parts', stable', ever')
      BY <1>7, <1>10, <2>5 DEF SoFar, Listings
    <2> QED
      BY <1>5, <1>8, <2>6, StepInv
  <1>11. CASE s.op = "copy"
    <2>1. SoFar(r, obj', uploads', parts', stable', ever')
      BY <1>7, <1>11 DEF SoFar, Listings
    <2> QED
      BY <1>5, <1>8, <2>1, StepInv
  <1>12. CASE s.op = "delete"
    <2>1. DeleteOK(s, stable) /\ stable' \subseteq stable
      BY <1>2, <1>12 DEF S3Inv, SoFar
    <2>2. DeleteOK(r, stable')
      BY <1>7, <2>1 DEF DeleteOK
    <2>3. SoFar(r, obj', uploads', parts', stable', ever')
      BY <1>7, <1>12, <2>2 DEF SoFar, Listings
    <2> QED
      BY <1>5, <1>8, <2>3, StepInv
  <1> QED
    BY <1>9, <1>10, <1>11, <1>12 DEF OthersWrite

LEMMA OthersInitiateOrEndInv ==
  ASSUME S3Inv, OthersInitiateOrEnd
  PROVE  S3Inv'
  <1>1. s \in Sessions /\ StepOK(s) /\ Stores /\ s.op = "uploads"
    BY DEF S3Inv, OthersInitiateOrEnd
  <1>2. PICK u \in Uploads :
           \/ /\ u \in uploads
              /\ uploads' = uploads \ {u} /\ stable' = stable \ {u} /\ UNCHANGED ever
           \/ /\ u \notin uploads
              /\ uploads' = uploads \cup {u} /\ ever' = ever \cup {u} /\ UNCHANGED stable
    BY DEF OthersInitiateOrEnd
  <1>3. s' = s /\ changes' \in 0 .. MaxChanges
    BY <1>1, OthersChange DEF OthersInitiateOrEnd
  <1>4. Stores'
    <2>1. UNCHANGED <<obj, parts>> /\ uploads' \subseteq Uploads
      BY <1>1, <1>2 DEF OthersInitiateOrEnd, Stores
    <2> QED
      BY <1>1, <1>3, <2>1 DEF Stores
  <1>5. /\ There(s.op, obj, uploads, parts) = uploads
        /\ There(s.op, obj', uploads', parts') = uploads'
    BY <1>1 DEF There
  <1>6. ListingOK(s, uploads, stable, ever)
    BY <1>1, <1>5 DEF S3Inv, SoFar, Listings
  <1>7. stable \subseteq uploads
    BY <1>6 DEF ListingOK
  <1>8. /\ stable' \subseteq stable /\ ever \subseteq ever' /\ stable' \subseteq uploads'
        /\ \A x \in uploads' : x \in uploads \cup ever'
    BY <1>2, <1>7
  <1>9. uploads' \subseteq Entities(s.op)
    BY <1>1, <1>4 DEF Entities, Stores
  <1>10. ListingOK(s, uploads', stable', ever')
    BY <1>6, <1>8, <1>9, ListingChanged
  <1> QED
    BY <1>1, <1>3, <1>4, <1>5, <1>10, OthersListing DEF Listings

LEMMA OthersUploadPartInv ==
  ASSUME S3Inv, OthersUploadPart
  PROVE  S3Inv'
  <1>1. s \in Sessions /\ StepOK(s) /\ Stores /\ s.op = "parts"
    BY DEF S3Inv, OthersUploadPart
  <1>2. PICK n \in Keys \ parts : parts' = parts \cup {n} /\ ever' = ever \cup {n}
    BY DEF OthersUploadPart
  <1>3. s' = s /\ changes' \in 0 .. MaxChanges
    BY <1>1, OthersChange DEF OthersUploadPart
  <1>4. UNCHANGED <<obj, uploads, stable>>
    BY DEF OthersUploadPart
  <1>5. Stores'
    BY <1>1, <1>2, <1>3, <1>4 DEF Stores
  <1>6. /\ There(s.op, obj, uploads, parts) = parts
        /\ There(s.op, obj', uploads', parts') = parts'
    BY <1>1 DEF There
  <1>7. ListingOK(s, parts, stable, ever)
    BY <1>1, <1>6 DEF S3Inv, SoFar, Listings
  <1>8. stable \subseteq parts
    BY <1>7 DEF ListingOK
  <1>9. /\ stable' \subseteq stable /\ ever \subseteq ever' /\ stable' \subseteq parts'
        /\ \A x \in parts' : x \in parts \cup ever'
    BY <1>2, <1>4, <1>8
  <1>10. parts' \subseteq Entities(s.op)
    BY <1>1, <1>5 DEF Entities, Stores
  <1>11. ListingOK(s, parts', stable', ever')
    BY <1>7, <1>9, <1>10, ListingChanged
  <1> QED
    BY <1>1, <1>3, <1>5, <1>6, <1>11, OthersListing DEF Listings

\* Every step keeps the invariant.
LEMMA NextInv == S3Inv /\ [Next]_vars => S3Inv'
  <1> SUFFICES ASSUME S3Inv, [Next]_vars
               PROVE  S3Inv'
    OBVIOUS
  <1>1. CASE StartListObjects
    BY <1>1, StartListObjectsInv
  <1>2. CASE StartListObjectsV1
    BY <1>2, StartListObjectsV1Inv
  <1>3. CASE StartListUploads
    BY <1>3, StartListUploadsInv
  <1>4. CASE StartListParts
    BY <1>4, StartListPartsInv
  <1>5. CASE StartGet
    BY <1>5, StartGetInv
  <1>6. CASE StartCopy
    BY <1>6, StartCopyInv
  <1>7. CASE StartDelete
    BY <1>7, StartDeleteInv
  <1>8. CASE NextPage
    BY <1>8, NextPageInv
  <1>9. CASE GetMeta
    BY <1>9, GetMetaInv
  <1>10. CASE GetBody
    BY <1>10, GetBodyInv
  <1>11. CASE CopyBody
    BY <1>11, CopyBodyInv
  <1>12. CASE CopyPut
    BY <1>12, CopyPutInv
  <1>13. CASE deleteObjectItem
    BY <1>13, deleteObjectItemInv
  <1>14. CASE OthersWrite
    BY <1>14, OthersWriteInv
  <1>15. CASE OthersInitiateOrEnd
    BY <1>15, OthersInitiateOrEndInv
  <1>16. CASE OthersUploadPart
    BY <1>16, OthersUploadPartInv
  <1>17. CASE UNCHANGED vars
    BY <1>17 DEF vars, S3Inv, Stores
  <1> QED
    BY <1>1, <1>2, <1>3, <1>4, <1>5, <1>6, <1>7, <1>8, <1>9, <1>10, <1>11, <1>12, <1>13,
       <1>14, <1>15, <1>16, <1>17 DEF Next, Progress, Done

\* How far a session has got agrees with what is there, always.
THEOREM S3Invariant == Spec => []S3Inv
  BY InitInv, NextInv, PTL DEF Spec

(***************************************************************************)
(* What a client may rely on                                               *)
(***************************************************************************)
\* S3Types: the bucket and the session stay what they are.
THEOREM S3Types == Spec => []S3TypeOK
  <1>1. S3Inv => S3TypeOK
    BY DEF S3Inv, Stores, Sessions, Steps, Metas, Statuses, S3TypeOK
  <1> QED
    BY <1>1, S3Invariant, PTL

\* A list has an element for each number up to its length.
LEMMA ListedDomain == S3Inv => DOMAIN s.listed = 1 .. Len(s.listed)
  <1> SUFFICES ASSUME S3Inv
               PROVE  DOMAIN s.listed = 1 .. Len(s.listed)
    OBVIOUS
  <1>1. s.listed \in Seq(Keys \cup Uploads)
    BY DEF S3Inv, Sessions, ListedSeqs
  <1> QED
    BY <1>1

\* ListedOnceAlways: for any keys, page sizes and changes by others, no page
\* repeats what an earlier one listed or invents an entry.
THEOREM ListedOnceAlways == Spec => []ListedOnce
  <1>1. S3Inv => ListedOnce
    <2> SUFFICES ASSUME S3Inv, Listing
                 PROVE  /\ \A i, j \in DOMAIN s.listed : s.listed[i] = s.listed[j] => i = j
                        /\ Listed \subseteq ever
      BY DEF ListedOnce
    <2>1. PICK there : ListingOK(s, there, stable, ever)
      BY DEF S3Inv, SoFar, Listing, Listings
    <2>2. DOMAIN s.listed = 1 .. Len(s.listed)
      BY ListedDomain
    <2> QED
      BY <2>1, <2>2 DEF ListingOK, Listed
  <1> QED
    BY <1>1, S3Invariant, PTL

\* ListingCompleteAlways: for any keys, page sizes and changes by others, a
\* session that ends with a page that is not truncated has missed nothing that
\* was there all the time.
THEOREM ListingCompleteAlways == Spec => []ListingComplete
  <1>1. S3Inv => ListingComplete
    <2> SUFFICES ASSUME S3Inv, Listing, s.at = "done", ~s.truncated, NEW x \in stable
                 PROVE  x \in Listed \/ (s.op = "objects" /\ s.delim /\ GroupOf[x] \in s.prefixes)
      BY DEF ListingComplete
    <2>1. PICK there : ListingOK(s, there, stable, ever)
      BY DEF S3Inv, SoFar, Listing, Listings
    <2>2. DOMAIN s.listed = 1 .. Len(s.listed)
      BY ListedDomain
    <2>3. Covered(s, x)
      BY <2>1 DEF ListingOK
    <2>4. s.delim => s.op = "objects"
      BY DEF S3Inv, StepOK, Listing, Listings
    <2> QED
      BY <2>2, <2>3, <2>4 DEF Covered, Listed
  <1> QED
    BY <1>1, S3Invariant, PTL

\* RangeAnsweredAlways: for any sizes and headers, a read of an object nobody
\* touches gets exactly the bytes asked for, or is refused when there are none.
THEOREM RangeAnsweredAlways == Spec => []RangeAnswered
  <1>1. S3Inv => RangeAnswered
    BY DEF S3Inv, SoFar, GetOK, AnswerOK, RangeAnswered
  <1> QED
    BY <1>1, S3Invariant, PTL

\* DeleteToldAlways: each object of a batch delete is reported, and as deleted
\* only if it was gone at some time during the request.
THEOREM DeleteToldAlways == Spec => []DeleteTold
  <1>1. S3Inv => DeleteTold
    <2> SUFFICES ASSUME S3Inv, s.op = "delete", s.at = "done"
                 PROVE  s.want = s.deleted \cup s.errors /\ s.deleted \cap stable = {}
      BY DEF DeleteTold
    <2>1. DeleteOK(s, stable) /\ s.todo = <<>>
      BY DEF S3Inv, SoFar, DeleteOK
    <2>2. Elements(s.todo) = {}
      BY <2>1 DEF Elements
    <2> QED
      BY <2>1, <2>2 DEF DeleteOK
  <1> QED
    BY <1>1, S3Invariant, PTL
===============================================================================
