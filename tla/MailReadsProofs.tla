--------------------------- MODULE MailReadsProofs ---------------------------
(***************************************************************************)
(* Search pages and message reads, for every mailbox, window and page      *)
(* size, whatever others do to the mailbox and whichever of the answers    *)
(* the server gives.                                                       *)
(***************************************************************************)
EXTENDS MailReads, FiniteSetTheorems, SequenceTheorems, WellFoundedInduction, TLAPS

Underway == pc \in {"search", "fetch"}

\* The snapshot is of the mailbox as it is or was; a session that still has it
\* selected shows the same generation, which is the one an identifier names.
SnapshotInv ==
  /\ snapshot.gen <= box.gen
  /\ snapshot.gen = box.gen => snapshot.next <= box.next
  /\ Underway /\ selected => snapshot.gen = box.gen
  /\ id.gen <= box.gen
  /\ id.gen = box.gen => id.uid < box.next
  /\ kind # "page" => id.uid > 0
  /\ kind # "page" /\ Underway => snapshot.gen = id.gen

\* msgs is part of a page of the snapshot, and reaches down to floor.
OnePage(msgs, floor) ==
  \A k \in DOMAIN msgs :
    /\ msgs[k].of = <<snapshot.gen, msgs[k].uid>>
    /\ floor <= msgs[k].uid /\ msgs[k].uid < snapshot.next
    /\ \A j \in DOMAIN msgs : j < k => msgs[k].uid < msgs[j].uid

\* The loop has room left; what it is about to fetch lies in the next window,
\* newest first.
PageInv ==
  kind = "page" =>
    /\ Underway => /\ OnePage(page, remaining) /\ Len(page) < MaxResults
                   /\ windows < MaxWindows /\ 1 < remaining /\ remaining <= snapshot.next
    /\ pc = "search" => ~omitted
    /\ pc = "fetch" =>
         /\ uids # <<>> /\ Len(uids) <= MaxResults - Len(page)
         /\ omitted => Len(uids) = MaxResults - Len(page)
         /\ \A k \in DOMAIN uids :
              /\ NextWindow.Start <= uids[k] /\ uids[k] < remaining
              /\ \A j \in DOMAIN uids : j < k => uids[k] < uids[j]
    /\ Returned => OnePage(reply.messages, 1)

\* Nothing above the next window is missing; in it, only what there is no room for.
WholeInv ==
  kind = "page" /\ truthful /\ snapshot.gen = box.gen =>
    /\ Underway => \A u \in box.mail : remaining <= u /\ u < snapshot.next =>
                     \E k \in DOMAIN page : page[k].uid = u
    /\ pc = "fetch" => \A u \in box.mail : NextWindow.Start <= u /\ u < remaining =>
                         \/ \E k \in DOMAIN uids : uids[k] = u
                         \/ omitted /\ \A k \in DOMAIN uids : u < uids[k]
    /\ Returned => PageIsWhole

\* What a message read returned.
ReadInv ==
  kind # "page" /\ pc = "done" =>
    /\ reply.err = "none" => reply.messages[1].of = <<id.gen, id.uid>>
    /\ reply.err = "stale_message_id" /\ id.signed /\ truthful =>
         ~(box.gen = id.gen /\ id.uid \in box.mail)

Inv == TypeOK /\ SnapshotInv /\ PageInv /\ WholeInv /\ ReadInv /\ judged

-----------------------------------------------------------------------------
(* Sorting.                                                                *)

\* The place of x in S by descending uid.
Place(S, uid, x) == Cardinality({y \in S : uid[y] >= uid[x]})

\* A lower uid has a later place.
LEMMA PlacesOrder ==
  ASSUME NEW S, IsFiniteSet(S), NEW uid \in [S -> Int], NEW x \in S, NEW y \in S,
         uid[y] < uid[x]
  PROVE  Place(S, uid, x) < Place(S, uid, y)
<1> DEFINE X == {z \in S : uid[z] >= uid[x]}  Y == {z \in S : uid[z] >= uid[y]}
<1>1. X \subseteq Y /\ y \in Y /\ y \notin X /\ Y \subseteq S
  OBVIOUS
<1> HIDE DEF X, Y
<1>2. IsFiniteSet(Y) /\ Cardinality(Y) \in Nat
  BY <1>1, FS_Subset, FS_CardinalityType
<1>3. X \in SUBSET Y /\ X # Y
  BY <1>1
<1>4. Cardinality(X) <= Cardinality(Y) /\ Cardinality(X) # Cardinality(Y) /\ IsFiniteSet(X)
  BY <1>2, <1>3, FS_Subset
<1>5. Cardinality(X) \in Nat
  BY <1>4, FS_CardinalityType
<1>6. QED
  BY <1>2, <1>4, <1>5 DEF X, Y, Place

\* A place is one of the first Cardinality(S).
LEMMA PlacesRange ==
  ASSUME NEW S, IsFiniteSet(S), NEW uid \in [S -> Int], NEW x \in S
  PROVE  Place(S, uid, x) \in 1 .. Cardinality(S)
<1> DEFINE X == {z \in S : uid[z] >= uid[x]}
<1>1. X \in SUBSET S /\ x \in X
  OBVIOUS
<1> HIDE DEF X
<1>2. IsFiniteSet(X) /\ Cardinality(X) <= Cardinality(S) /\ Cardinality(S) \in Nat
  BY <1>1, FS_Subset, FS_CardinalityType
<1>3. Cardinality(X) \in Nat /\ Cardinality(X) # 0
  BY <1>1, <1>2, FS_CardinalityType, FS_EmptySet
<1>4. QED
  BY <1>2, <1>3 DEF X, Place

\* Every place is taken, if no two elements have the same uid.
LEMMA PlacesTaken ==
  ASSUME NEW S, IsFiniteSet(S), NEW uid \in [S -> Int],
         \A x, y \in S : uid[x] = uid[y] => x = y,
         NEW i \in 1 .. Cardinality(S)
  PROVE  \E x \in S : Place(S, uid, x) = i
<1> DEFINE n == Cardinality(S)  r == [x \in S |-> Place(S, uid, x)]
<1>1. n \in Nat
  BY FS_CardinalityType
<1>2. ASSUME NEW x \in S, NEW y \in S, r[x] = r[y] PROVE x = y
  <2>1. Place(S, uid, x) = Place(S, uid, y)
    BY <1>2
  <2>2. Place(S, uid, x) \in Int /\ Place(S, uid, y) \in Int
    BY <1>1, PlacesRange
  <2>3. ~(uid[x] < uid[y]) /\ ~(uid[y] < uid[x])
    BY <2>1, <2>2, PlacesOrder
  <2>4. uid[x] \in Int /\ uid[y] \in Int
    OBVIOUS
  <2>5. uid[x] = uid[y]
    BY <2>3, <2>4
  <2>6. QED
    BY <2>5
<1>3. r \in [S -> 1 .. n]
  BY PlacesRange
<1>4. r \in Injection(S, 1 .. n)
  BY <1>2, <1>3 DEF Injection, IsInjective
<1>5. IsFiniteSet(1 .. n) /\ Cardinality(1 .. n) = n
  BY <1>1, FS_Interval
<1> HIDE DEF r, n
<1>6. r \in Surjection(S, 1 .. n)
  BY <1>4, <1>5, FS_Injection DEF n
<1>7. \E x \in S : r[x] = i
  BY <1>6 DEF Surjection, n
<1>8. QED
  BY <1>7 DEF r

\* NewestFirst lists S by strictly descending uid.
LEMMA NewestFirstSorts ==
  ASSUME NEW S, IsFiniteSet(S), NEW uid \in [S -> Int],
         \A x, y \in S : uid[x] = uid[y] => x = y
  PROVE  LET q == NewestFirst(S, uid)
         IN /\ q \in Seq(S) /\ Len(q) = Cardinality(S)
            /\ \A i, j \in DOMAIN q : i < j => uid[q[j]] < uid[q[i]]
            /\ \A x \in S : \E i \in DOMAIN q : q[i] = x
<1> DEFINE n == Cardinality(S)  q == NewestFirst(S, uid)
<1>1. n \in Nat
  BY FS_CardinalityType
<1>2. ASSUME NEW i \in 1 .. n PROVE q[i] \in S /\ Place(S, uid, q[i]) = i
  <2>1. \E x \in S : Place(S, uid, x) = i
    BY <1>2, PlacesTaken
  <2>2. q[i] = CHOOSE x \in S : Place(S, uid, x) = i
    BY <1>2 DEF NewestFirst, Place
  <2>3. QED
    BY <2>1, <2>2
<1> DEFINE C(i) == CHOOSE x \in S : Place(S, uid, x) = i
<1>3. DOMAIN q = 1 .. n /\ q = [i \in 1 .. n |-> q[i]]
  <2>1. q = [i \in 1 .. n |-> C(i)]
    BY DEF NewestFirst, Place
  <2> HIDE DEF q, C
  <2>2. QED
    BY <2>1
<1> HIDE DEF q
<1>4. q \in Seq(S) /\ Len(q) = n
  <2>1. q \in [1 .. n -> S]
    BY <1>2, <1>3
  <2>2. QED
    BY <1>1, <2>1
<1>5. ASSUME NEW i \in DOMAIN q, NEW j \in DOMAIN q, i < j PROVE uid[q[j]] < uid[q[i]]
  <2>1. i \in 1 .. n /\ j \in 1 .. n /\ i \in Int /\ j \in Int
    BY <1>1, <1>3
  <2>2. q[i] \in S /\ q[j] \in S /\ Place(S, uid, q[i]) = i /\ Place(S, uid, q[j]) = j
    BY <1>2, <2>1
  <2>3. ~(uid[q[i]] < uid[q[j]])
    BY <1>5, <2>1, <2>2, PlacesOrder
  <2>4. uid[q[i]] # uid[q[j]]
    BY <1>5, <2>1, <2>2
  <2>5. uid[q[i]] \in Int /\ uid[q[j]] \in Int
    BY <2>2
  <2>6. QED
    BY <2>3, <2>4, <2>5
<1>6. ASSUME NEW x \in S PROVE \E i \in DOMAIN q : q[i] = x
  <2> DEFINE i == Place(S, uid, x)
  <2>1. i \in 1 .. n
    BY PlacesRange
  <2>2. q[i] \in S /\ Place(S, uid, q[i]) = i
    BY <1>2, <2>1
  <2>3. i \in Int
    BY <1>1, <2>1
  <2>4. ~(uid[q[i]] < uid[x]) /\ ~(uid[x] < uid[q[i]])
    BY <2>2, <2>3, PlacesOrder
  <2>5. uid[q[i]] \in Int /\ uid[x] \in Int
    BY <2>2
  <2>6. uid[q[i]] = uid[x]
    BY <2>4, <2>5
  <2>7. QED
    BY <1>3, <2>1, <2>2, <2>6
<1>7. QED
  BY <1>4, <1>5, <1>6 DEF q

\* The same for a set of numbers.
LEMMA NumbersSort ==
  ASSUME NEW S \in SUBSET Int, IsFiniteSet(S)
  PROVE  LET q == NewestFirst(S, [u \in S |-> u])
         IN /\ q \in Seq(S) /\ Len(q) = Cardinality(S)
            /\ \A i, j \in DOMAIN q : i < j => q[j] < q[i]
            /\ \A x \in S : \E i \in DOMAIN q : q[i] = x
<1> DEFINE f == [u \in S |-> u]
<1>1. f \in [S -> Int] /\ \A x, y \in S : f[x] = f[y] => x = y
  OBVIOUS
<1>2. \A x \in S : f[x] = x
  OBVIOUS
<1> DEFINE q == NewestFirst(S, f)
<1> HIDE DEF f
<1>3. /\ q \in Seq(S) /\ Len(q) = Cardinality(S)
      /\ \A i, j \in DOMAIN q : i < j => f[q[j]] < f[q[i]]
      /\ \A x \in S : \E i \in DOMAIN q : q[i] = x
  BY <1>1, NewestFirstSorts
<1> HIDE DEF q
<1>4. \A i \in DOMAIN q : f[q[i]] = q[i]
  <2>1. \A i \in DOMAIN q : q[i] \in S
    BY <1>3
  <2>2. QED
    BY <1>2, <2>1
<1>5. \A i, j \in DOMAIN q : i < j => q[j] < q[i]
  BY <1>3, <1>4
<1>6. QED
  BY <1>3, <1>5 DEF q, f

-----------------------------------------------------------------------------
(* The two readers of a wire: FoldLeft over the lines, for the observer,   *)
(* and over the responses, for go-imap.                                    *)

\* Induction over the natural numbers, for membership in a set: the set of
\* counterexamples has no least element.
LEMMA NatInSet ==
  ASSUME NEW T, 0 \in T, \A n \in Nat : n \in T => n + 1 \in T
  PROVE  Nat \subseteq T
<1> DEFINE U == {n \in Nat : n \notin T}
<1> SUFFICES ASSUME U # {} PROVE FALSE
  OBVIOUS
<1>1. PICK m \in U : \A y \in U : ~(<<y, m>> \in OpToRel(<, Nat))
  BY NatLessThanWellFounded, WFMin
<1>2. m \in Nat /\ m # 0
  OBVIOUS
<1>3. ASSUME NEW y \in Nat, y < m PROVE <<y, m>> \in OpToRel(<, Nat)
  BY <1>2, <1>3 DEF OpToRel
<1>4. m - 1 \in Nat /\ m - 1 < m /\ (m - 1) + 1 = m
  BY <1>2
<1>5. m - 1 \notin U
  BY <1>1, <1>3, <1>4
<1>6. QED
  BY <1>2, <1>4, <1>5

\* The last of the first n + 1 places.
LEMMA MaxUpTo ==
  ASSUME NEW n \in Nat
  PROVE  /\ Max(1 .. n + 1) = n + 1
         /\ (1 .. n + 1) \ {n + 1} = 1 .. n /\ 1 .. n + 1 # {}
         /\ 1 .. n \in SUBSET (1 .. n + 1)
<1>1. n + 1 \in 1 .. n + 1 /\ \A y \in 1 .. n + 1 : y <= n + 1
  OBVIOUS
<1>2. ASSUME NEW x \in 1 .. n + 1, \A y \in 1 .. n + 1 : y <= x PROVE x = n + 1
  BY <1>1, <1>2
<1>3. Max(1 .. n + 1) = n + 1
  BY <1>1, <1>2 DEF Max
<1>4. QED
  BY <1>1, <1>3

\* The observer after the lines c, from state o.
Observing(o, w, c) == FoldLeft(LAMBDA p, l : observe(p, w, l), o, c)

\* One step of the reader m: the observer's or go-imap's.
Step(m, w, p, e) == IF m = "observer" THEN observe(p, w, e) ELSE decode(p, e)

\* What the reader m makes of c from state p.
Fold(m, w, p, c) == IF m = "observer" THEN Observing(p, w, c) ELSE FoldLeft(decode, p, c)

\* f[t] is q after the elements of c at the places t.
Folds(m, w, f, q, c) ==
  f = [t \in SUBSET DOMAIN c |-> IF t = {} THEN q ELSE Step(m, w, f[t \ {Max(t)}], c[Max(t)])]

\* Where such a function exists, Fold is its value.
LEMMA FoldUnfolds ==
  ASSUME NEW m, NEW w, NEW q, NEW c, NEW g, Folds(m, w, g, q, c)
  PROVE  \E f : Folds(m, w, f, q, c) /\ Fold(m, w, q, c) = f[DOMAIN c]
<1> DEFINE O(f) == f = [t \in SUBSET DOMAIN c |->
                         IF t = {} THEN q ELSE observe(f[t \ {Max(t)}], w, c[Max(t)])]
           D(f) == f = [t \in SUBSET DOMAIN c |->
                         IF t = {} THEN q ELSE decode(f[t \ {Max(t)}], c[Max(t)])]
<1>1. CASE m = "observer"
  <2>1. \A f : Folds(m, w, f, q, c) <=> O(f)
    BY <1>1 DEF Folds, Step
  <2>2. Observing(q, w, c) = (CHOOSE f : O(f))[DOMAIN c]
    BY DEF Observing, FoldLeft, MapThenFoldSet
  <2> HIDE DEF O
  <2>3. O(CHOOSE f : O(f))
    BY <2>1
  <2>4. QED
    BY <1>1, <2>1, <2>2, <2>3 DEF Fold
<1>2. CASE m # "observer"
  <2>1. \A f : Folds(m, w, f, q, c) <=> D(f)
    BY <1>2 DEF Folds, Step
  <2>2. FoldLeft(decode, q, c) = (CHOOSE f : D(f))[DOMAIN c]
    BY DEF FoldLeft, MapThenFoldSet
  <2> HIDE DEF D
  <2>3. D(CHOOSE f : D(f))
    BY <2>1
  <2>4. QED
    BY <1>2, <2>1, <2>2, <2>3 DEF Fold
<1>3. QED
  BY <1>1, <1>2

\* What Folds says of one set of places.
LEMMA FoldsAt ==
  ASSUME NEW m, NEW w, NEW q, NEW c, NEW f, Folds(m, w, f, q, c), NEW t \in SUBSET DOMAIN c
  PROVE  f[t] = IF t = {} THEN q ELSE Step(m, w, f[t \ {Max(t)}], c[Max(t)])
BY DEF Folds

\* The same, of a set that is not empty.
LEMMA FoldsAtSome ==
  ASSUME NEW m, NEW w, NEW q, NEW c, NEW f, Folds(m, w, f, q, c), NEW t \in SUBSET DOMAIN c, t # {}
  PROVE  f[t] = Step(m, w, f[t \ {Max(t)}], c[Max(t)])
BY DEF Folds

\* Folds, for the first n places.
UpTo(m, w, f, q, c, n) ==
  f = [t \in SUBSET (1 .. n) |-> IF t = {} THEN q ELSE Step(m, w, f[t \ {Max(t)}], c[Max(t)])]

\* Such a function exists for every length.
LEMMA FoldsUpTo ==
  ASSUME NEW m, NEW w, NEW q, NEW c, NEW n \in Nat
  PROVE  \E f : UpTo(m, w, f, q, c, n)
<1> DEFINE T == {k \in Nat : \E f : UpTo(m, w, f, q, c, k)}
<1>1. 0 \in T
  <2>1. UpTo(m, w, [t \in SUBSET (1 .. 0) |-> q], q, c, 0)
    <3>1. 1 .. 0 = {} /\ \A t \in SUBSET (1 .. 0) : t = {}
      OBVIOUS
    <3>2. QED
      BY <3>1 DEF UpTo
  <2>2. QED
    BY <2>1
<1>2. ASSUME NEW k \in Nat, k \in T PROVE k + 1 \in T
  <2>1. PICK f : UpTo(m, w, f, q, c, k)
    BY <1>2
  <2> DEFINE g == [t \in SUBSET (1 .. k + 1) |->
                     IF k + 1 \in t THEN Step(m, w, f[t \ {k + 1}], c[k + 1]) ELSE f[t]]
  <2>2. ASSUME NEW t \in SUBSET (1 .. k + 1)
        PROVE  g[t] = IF t = {} THEN q ELSE Step(m, w, g[t \ {Max(t)}], c[Max(t)])
    <3>1. CASE k + 1 \in t
      <4>1. Max(t) = k + 1
        <5>1. ASSUME NEW x \in t, \A y \in t : y <= x PROVE x = k + 1
          BY <3>1, <5>1
        <5>2. \A y \in t : y <= k + 1
          OBVIOUS
        <5>3. QED
          BY <3>1, <5>1, <5>2 DEF Max
      <4>2. t \ {k + 1} \in SUBSET (1 .. k + 1) /\ k + 1 \notin t \ {k + 1}
        OBVIOUS
      <4>3. g[t \ {k + 1}] = f[t \ {k + 1}] /\ g[t] = Step(m, w, f[t \ {k + 1}], c[k + 1])
        BY <3>1, <4>2
      <4> HIDE DEF g
      <4>4. QED
        BY <3>1, <4>1, <4>3
    <3>2. CASE k + 1 \notin t
      <4> DEFINE u == t \ {Max(t)}
      <4>1. t \in SUBSET (1 .. k) /\ u \in SUBSET (1 .. k + 1) /\ k + 1 \notin u
        <5>1. \A x \in t : x \in 1 .. k + 1 /\ x # k + 1
          BY <3>2
        <5>2. t \subseteq 1 .. k /\ u \subseteq t
          BY <5>1
        <5>3. QED
          BY <3>2, <5>2
      <4> HIDE DEF u
      <4>2. g[t] = f[t] /\ g[u] = f[u]
        BY <3>2, <4>1
      <4>3. f[t] = IF t = {} THEN q ELSE Step(m, w, f[t \ {Max(t)}], c[Max(t)])
        BY <2>1, <4>1 DEF UpTo
      <4> HIDE DEF g
      <4>4. QED
        BY <4>2, <4>3 DEF u
    <3>3. QED
      BY <3>1, <3>2
  <2>3. g = [t \in SUBSET (1 .. k + 1) |-> g[t]]
    OBVIOUS
  <2> HIDE DEF g
  <2>4. UpTo(m, w, g, q, c, k + 1)
    BY <2>2, <2>3 DEF UpTo
  <2>5. QED
    BY <2>4
<1>3. Nat \subseteq T
  <2> HIDE DEF T
  <2>1. QED
    BY <1>1, <1>2, NatInSet
<1>4. QED
  BY <1>3

\* f has q after the prefixes of c, which has n elements.
Fills(m, w, f, q, c, n) ==
  /\ f[1 .. 0] = q /\ Fold(m, w, q, c) = f[1 .. n]
  /\ \A k \in Nat : k < n => f[1 .. k + 1] = Step(m, w, f[1 .. k], c[k + 1])

\* The value of Fold by the prefixes.
LEMMA FoldPrefixes ==
  ASSUME NEW m, NEW w, NEW q, NEW n \in Nat, NEW c, DOMAIN c = 1 .. n
  PROVE  \E f : Fills(m, w, f, q, c, n)
<1>1. PICK g : UpTo(m, w, g, q, c, n)
  BY FoldsUpTo
<1>2. Folds(m, w, g, q, c)
  BY <1>1 DEF UpTo, Folds
<1>3. PICK f : Folds(m, w, f, q, c) /\ Fold(m, w, q, c) = f[1 .. n]
  BY <1>2, FoldUnfolds
<1>4. f[1 .. 0] = q
  <2>1. 1 .. 0 = {} /\ 1 .. 0 \in SUBSET DOMAIN c
    OBVIOUS
  <2>2. QED
    BY <1>3, <2>1, FoldsAt
<1>5. ASSUME NEW k \in Nat, k < n PROVE f[1 .. k + 1] = Step(m, w, f[1 .. k], c[k + 1])
  <2>1. k \in Nat /\ 1 .. k + 1 \in SUBSET DOMAIN c
    BY <1>5
  <2>2. f[1 .. k + 1] = Step(m, w, f[(1 .. k + 1) \ {Max(1 .. k + 1)}], c[Max(1 .. k + 1)])
    <3>1. ASSUME NEW t \in SUBSET DOMAIN c, t # {}
          PROVE  f[t] = Step(m, w, f[t \ {Max(t)}], c[Max(t)])
      BY <1>3, <3>1, FoldsAtSome
    <3>2. 1 .. k + 1 # {}
      BY <2>1, MaxUpTo
    <3>3. QED
      BY <2>1, <3>1, <3>2
  <2>3. QED
    BY <2>1, <2>2, MaxUpTo
<1>6. QED
  BY <1>3, <1>4, <1>5 DEF Fills

\* The first element comes first.
LEMMA FoldFirst ==
  ASSUME NEW m, NEW w, NEW q, NEW e, NEW S, NEW c \in Seq(S)
  PROVE  Fold(m, w, q, <<e>> \o c) = Fold(m, w, Step(m, w, q, e), c)
<1> DEFINE n == Len(c)  d == <<e>> \o c  p == Step(m, w, q, e)
<1>1. n \in Nat /\ DOMAIN c = 1 .. n
  OBVIOUS
<1>2. DOMAIN d = 1 .. n + 1 /\ d[1] = e /\ \A i \in 1 .. n : d[i + 1] = c[i]
  <2>1. c \in Seq(S \cup {e}) /\ <<e>> \in Seq(S \cup {e})
    OBVIOUS
  <2>2. QED
    BY <2>1
<1> HIDE DEF n, d, p
<1>3. PICK f : Fills(m, w, f, q, d, n + 1)
  <2>1. n + 1 \in Nat
    BY <1>1
  <2>2. QED
    BY <1>2, <2>1, FoldPrefixes
<1>4. PICK h : Fills(m, w, h, p, c, n)
  BY <1>1, FoldPrefixes
<1> DEFINE T == {k \in Nat : k <= n => f[1 .. k + 1] = h[1 .. k]}
<1>5. 0 \in T
  <2>1. f[1 .. 0 + 1] = Step(m, w, f[1 .. 0], d[0 + 1])
    <3>1. 0 \in Nat /\ 0 < n + 1
      BY <1>1
    <3>2. QED
      BY <1>3, <3>1 DEF Fills
  <2>2. QED
    BY <1>2, <1>3, <1>4, <2>1 DEF p, Fills
<1>6. ASSUME NEW k \in Nat, k \in T PROVE k + 1 \in T
  <2> SUFFICES ASSUME k + 1 <= n PROVE f[1 .. (k + 1) + 1] = h[1 .. k + 1]
    OBVIOUS
  <2>1. k <= n /\ k < n /\ k + 1 \in Nat /\ k + 1 < n + 1 /\ k + 1 \in 1 .. n
    BY <1>1
  <2>2. f[1 .. k + 1] = h[1 .. k]
    BY <1>6, <2>1
  <2>3. f[1 .. (k + 1) + 1] = Step(m, w, f[1 .. k + 1], d[(k + 1) + 1])
    BY <1>3, <2>1 DEF Fills
  <2>4. h[1 .. k + 1] = Step(m, w, h[1 .. k], c[k + 1])
    BY <1>4, <2>1 DEF Fills
  <2>5. d[(k + 1) + 1] = c[k + 1]
    BY <1>2, <2>1
  <2>6. QED
    BY <2>2, <2>3, <2>4, <2>5
<1>7. n \in T
  <2> HIDE DEF T
  <2>1. QED
    BY <1>1, <1>5, <1>6, NatInSet
<1>8. QED
  BY <1>1, <1>3, <1>4, <1>7 DEF Fills, d, p

\* Nothing to read.
LEMMA FoldNone ==
  ASSUME NEW m, NEW w, NEW q PROVE Fold(m, w, q, <<>>) = q
<1>1. DOMAIN <<>> = 1 .. 0
  OBVIOUS
<1>2. PICK f : Fills(m, w, f, q, <<>>, 0)
  BY <1>1, FoldPrefixes
<1>3. QED
  BY <1>2 DEF Fills

\* f joins the first elements of q.
Joins(f, q) == f = [i \in 1 .. Len(q) |-> IF i = 1 THEN q[i] ELSE f[i - 1] \o q[i]]

\* Where such a function exists, FlattenSeq is its value.
LEMMA FlattenUnfolds ==
  ASSUME NEW q, Len(q) \in Nat \ {0}, NEW g, Joins(g, q)
  PROVE  \E f : Joins(f, q) /\ FlattenSeq(q) = f[Len(q)]
<1>1. FlattenSeq(q) = (CHOOSE f : Joins(f, q))[Len(q)]
  BY DEF FlattenSeq, Joins
<1>2. Joins(CHOOSE f : Joins(f, q), q)
  OBVIOUS
<1>3. QED
  BY <1>1, <1>2

\* Up to three sequences in a row.
LEMMA FlattenFew ==
  ASSUME NEW q, Len(q) \in 1 .. 3
  PROVE  /\ Len(q) = 1 => FlattenSeq(q) = q[1]
         /\ Len(q) = 2 => FlattenSeq(q) = q[1] \o q[2]
         /\ Len(q) = 3 => FlattenSeq(q) = (q[1] \o q[2]) \o q[3]
<1> DEFINE a == q[1]  b == q[1] \o q[2]  c == b \o q[3]
           g == [i \in 1 .. Len(q) |-> IF i = 1 THEN a ELSE IF i = 2 THEN b ELSE c]
<1>1. a = q[1] /\ b = a \o q[2] /\ c = b \o q[3]
  OBVIOUS
<1> HIDE DEF a, b, c
<1>2. ASSUME NEW i \in 1 .. Len(q)
      PROVE  g[i] = IF i = 1 THEN q[i] ELSE g[i - 1] \o q[i]
  <2>1. CASE i = 1
    BY <1>1, <1>2, <2>1
  <2>2. CASE i = 2
    <3>1. i - 1 = 1 /\ 1 \in 1 .. Len(q) /\ i # 1 /\ g[i] = b
      BY <1>2, <2>2
    <3>2. g[1] = a
      BY <3>1
    <3> HIDE DEF g
    <3>3. QED
      BY <1>1, <2>2, <3>1, <3>2
  <2>3. CASE i = 3
    <3>1. i - 1 = 2 /\ 2 \in 1 .. Len(q) /\ i # 1 /\ g[i] = c
      BY <1>2, <2>3
    <3>2. g[2] = b
      BY <3>1
    <3> HIDE DEF g
    <3>3. QED
      BY <1>1, <2>3, <3>1, <3>2
  <2>4. QED
    BY <1>2, <2>1, <2>2, <2>3
<1>3. g = [i \in 1 .. Len(q) |-> g[i]]
  OBVIOUS
<1> HIDE DEF g
<1>4. Joins(g, q)
  BY <1>2, <1>3 DEF Joins
<1>5. PICK f : Joins(f, q) /\ FlattenSeq(q) = f[Len(q)]
  BY <1>4, FlattenUnfolds
<1>6. \A i \in 1 .. Len(q) : f[i] = IF i = 1 THEN q[i] ELSE f[i - 1] \o q[i]
  BY <1>5 DEF Joins
<1>7. f[1] = a
  BY <1>1, <1>6
<1>8. Len(q) >= 2 => f[2] = b
  <2>1. Len(q) >= 2 => f[2] = f[2 - 1] \o q[2]
    <3>1. Len(q) >= 2 => 2 \in 1 .. Len(q) /\ 2 # 1
      OBVIOUS
    <3>2. QED
      BY <1>6, <3>1
  <2>2. 2 - 1 = 1
    OBVIOUS
  <2>3. QED
    BY <1>1, <1>7, <2>1, <2>2
<1>9. Len(q) = 3 => f[3] = c
  <2>1. Len(q) = 3 => f[3] = f[3 - 1] \o q[3]
    <3>1. Len(q) = 3 => 3 \in 1 .. Len(q) /\ 3 # 1
      OBVIOUS
    <3>2. QED
      BY <1>6, <3>1
  <2>2. 3 - 1 = 2 /\ (Len(q) = 3 => Len(q) >= 2)
    OBVIOUS
  <2>3. QED
    BY <1>1, <1>8, <2>1, <2>2
<1>10. Len(q) = 2 => Len(q) >= 2
  OBVIOUS
<1>11. QED
  BY <1>5, <1>7, <1>8, <1>9, <1>10 DEF a, b, c

-----------------------------------------------------------------------------
(* The observer, response by response.                                     *)

Num == Nat \X Nat

AnyLine == [kind : {"search", "esearch", "data", "text", "unclassified"},
            nums : Seq(Num), whole : BOOLEAN, literal : Nat]

\* Responses; a literal is one line here.
AnyResponse ==
  [kind : {"search", "esearch", "data", "text", "unclassified"}, nums : Seq(Num),
   whole : BOOLEAN, content : Seq(AnyLine), tail : Seq(Num),
   all : BOOLEAN, applied : BOOLEAN, counts : BOOLEAN]

Plain(r) == r \in AnyResponse /\ r.content = <<>> /\ r.tail = <<>>

Literal(r) ==
  /\ r \in AnyResponse /\ r.kind \in {"esearch", "data", "text"}
  /\ \E c \in AnyLine : r.content = <<c>>
  /\ r.kind = "data" => r.tail = <<>>

Observer ==
  [searchSeen : BOOLEAN, eSearchSeen : BOOLEAN, uids : SUBSET Nat, duplicate : BOOLEAN,
   incomplete : BOOLEAN, outOfWindow : BOOLEAN, skip : Nat, continues : BOOLEAN,
   pending : Seq(Seq(Num))]

\* Between two responses.
Resting(o) == o \in Observer /\ o.skip = 0 /\ o.continues = FALSE /\ o.pending = <<>>

\* A number no window can admit.
Zero(n) == n[1] = 0 \/ n[2] = 0
Outside(n, w) == ~Zero(n) /\ (n[1] < w.Start \/ n[2] > w.End)

\* What o becomes by a whole response.
Heard(o, w, r) ==
  LET named == IF r.kind \in {"search", "esearch"} THEN Named(r) ELSE <<>>
      search == r.kind = "search"
  IN [searchSeen |-> o.searchSeen \/ search,
      eSearchSeen |-> o.eSearchSeen \/ r.kind = "esearch",
      uids |-> IF search THEN o.uids \cup {r.nums[i][1] : i \in DOMAIN r.nums} ELSE o.uids,
      duplicate |->
        o.duplicate \/ (IF search
                        THEN \E i, j \in DOMAIN r.nums :
                               r.nums[i][1] \in o.uids \/ (i # j /\ r.nums[i][1] = r.nums[j][1])
                        ELSE sequenceSetOverlaps(named)),
      incomplete |->
        \/ o.incomplete \/ r.kind = "unclassified"
        \/ \E i \in DOMAIN named : Zero(named[i])
        \/ search /\ ~r.whole
        \/ r.kind = "esearch" /\ ~r.whole /\ ~sequenceSetOverlaps(named),
      outOfWindow |-> o.outOfWindow \/ \E i \in DOMAIN named : Outside(named[i], w),
      skip |-> 0, continues |-> FALSE, pending |-> <<>>]

\* A state is what its fields are.
LEMMA SameObserver ==
  ASSUME NEW o \in Observer, NEW p \in Observer,
         o.searchSeen = p.searchSeen, o.eSearchSeen = p.eSearchSeen, o.uids = p.uids,
         o.duplicate = p.duplicate, o.incomplete = p.incomplete,
         o.outOfWindow = p.outOfWindow, o.skip = p.skip, o.continues = p.continues,
         o.pending = p.pending
  PROVE  o = p
BY DEF Observer

\* Nothing named, nothing overlaps.
LEMMA NoOverlap == ~sequenceSetOverlaps(<<>>)
BY DEF sequenceSetOverlaps

\* Heard rests.
LEMMA HeardRests ==
  ASSUME NEW o, Resting(o), NEW w, NEW r \in AnyResponse
  PROVE  Resting(Heard(o, w, r))
<1>1. \A i \in DOMAIN r.nums : r.nums[i][1] \in Nat
  BY DEF AnyResponse, Num
<1>2. Heard(o, w, r).uids \in SUBSET Nat
  BY <1>1 DEF Heard, Resting, Observer
<1>3. QED
  BY <1>2 DEF Heard, Resting, Observer, sequenceSetOverlaps

\* The fields of Heard(o, w, r).
Quiet(h, o, w, r) ==
  /\ h.searchSeen = o.searchSeen /\ h.eSearchSeen = o.eSearchSeen /\ h.uids = o.uids
  /\ h.duplicate = o.duplicate /\ h.outOfWindow = o.outOfWindow
  /\ h.incomplete = (o.incomplete \/ r.kind = "unclassified")
  /\ h.skip = 0 /\ h.continues = FALSE /\ h.pending = <<>>

\* What a response without numbers leaves.
LEMMA QuietFields ==
  ASSUME NEW o \in Observer, NEW w, NEW r, r.kind \in {"unclassified", "data", "text"}, NEW h, h = Heard(o, w, r)
  PROVE  Quiet(h, o, w, r)
<1>1. /\ o.searchSeen \in BOOLEAN /\ o.eSearchSeen \in BOOLEAN /\ o.duplicate \in BOOLEAN
      /\ o.incomplete \in BOOLEAN /\ o.outOfWindow \in BOOLEAN
  BY DEF Observer
<1>2. r.kind # "search" /\ r.kind # "esearch" /\ r.kind \notin {"search", "esearch"}
  OBVIOUS
<1>3. h.searchSeen = o.searchSeen /\ h.eSearchSeen = o.eSearchSeen
  BY <1>1, <1>2 DEF Heard
<1>4. h.uids = o.uids /\ h.skip = 0 /\ h.continues = FALSE /\ h.pending = <<>>
  BY <1>2 DEF Heard
<1>5. h.duplicate = o.duplicate
  BY <1>1, <1>2, NoOverlap DEF Heard
<1>6. h.outOfWindow = o.outOfWindow
  <2>1. h.outOfWindow = (o.outOfWindow \/ \E i \in DOMAIN <<>> : Outside(<<>>[i], w))
    BY <1>2 DEF Heard
  <2>2. QED
    BY <1>1, <2>1
<1>7. h.incomplete = (o.incomplete \/ r.kind = "unclassified")
  <2>1. h.incomplete = (o.incomplete \/ r.kind = "unclassified" \/ \E i \in DOMAIN <<>> : Zero(<<>>[i]))
    BY <1>2 DEF Heard
  <2>2. QED
    BY <2>1
<1>8. QED
  BY <1>3, <1>4, <1>5, <1>6, <1>7 DEF Quiet

\* The fields of Heard(o, w, r).
BySearch(h, o, w, r) ==
  /\ h.searchSeen = TRUE /\ h.eSearchSeen = o.eSearchSeen
  /\ h.uids = o.uids \cup {r.nums[i][1] : i \in DOMAIN r.nums}
  /\ h.duplicate = (o.duplicate \/ \E i, j \in DOMAIN r.nums :
       r.nums[i][1] \in o.uids \/ (i # j /\ r.nums[i][1] = r.nums[j][1]))
  /\ h.outOfWindow = (o.outOfWindow \/ \E i \in DOMAIN r.nums : Outside(r.nums[i], w))
  /\ h.incomplete = ((o.incomplete \/ \E i \in DOMAIN r.nums : Zero(r.nums[i])) \/ ~r.whole)
  /\ h.skip = 0 /\ h.continues = FALSE /\ h.pending = <<>>

\* What a SEARCH leaves.
LEMMA SearchFields ==
  ASSUME NEW o \in Observer, NEW w, NEW r, r.kind = "search", NEW h, h = Heard(o, w, r)
  PROVE  BySearch(h, o, w, r)
<1>1. o.eSearchSeen \in BOOLEAN
  BY DEF Observer
<1>2. r.kind # "unclassified" /\ r.kind # "esearch" /\ r.kind \in {"search", "esearch"} /\ Named(r) = r.nums
  BY DEF Named
<1>3. h.searchSeen = TRUE /\ h.eSearchSeen = o.eSearchSeen
  BY <1>1, <1>2 DEF Heard
<1>4. /\ h.uids = o.uids \cup {r.nums[i][1] : i \in DOMAIN r.nums}
      /\ h.skip = 0 /\ h.continues = FALSE /\ h.pending = <<>>
  BY DEF Heard
<1>5. h.duplicate = (o.duplicate \/ \E i, j \in DOMAIN r.nums :
        r.nums[i][1] \in o.uids \/ (i # j /\ r.nums[i][1] = r.nums[j][1]))
  BY DEF Heard
<1>6. h.outOfWindow = (o.outOfWindow \/ \E i \in DOMAIN r.nums : Outside(r.nums[i], w))
  BY <1>2 DEF Heard
<1>7. h.incomplete = ((o.incomplete \/ \E i \in DOMAIN r.nums : Zero(r.nums[i])) \/ ~r.whole)
  BY <1>2 DEF Heard
<1>8. QED
  BY <1>3, <1>4, <1>5, <1>6, <1>7 DEF BySearch

\* The fields of Heard(o, w, r).
ByESearch(h, o, w, r) ==
  /\ h.searchSeen = o.searchSeen /\ h.eSearchSeen = TRUE /\ h.uids = o.uids
  /\ h.duplicate = (o.duplicate \/ sequenceSetOverlaps(Named(r)))
  /\ h.outOfWindow = (o.outOfWindow \/ \E i \in DOMAIN Named(r) : Outside(Named(r)[i], w))
  /\ h.incomplete = ((o.incomplete \/ \E i \in DOMAIN Named(r) : Zero(Named(r)[i]))
                       \/ (~r.whole /\ ~sequenceSetOverlaps(Named(r))))
  /\ h.skip = 0 /\ h.continues = FALSE /\ h.pending = <<>>

\* What an ESEARCH leaves.
LEMMA ESearchFields ==
  ASSUME NEW o \in Observer, NEW w, NEW r, r.kind = "esearch", NEW h, h = Heard(o, w, r)
  PROVE  ByESearch(h, o, w, r)
<1>1. o.searchSeen \in BOOLEAN
  BY DEF Observer
<1>2. r.kind # "unclassified" /\ r.kind # "search" /\ r.kind \in {"search", "esearch"}
  OBVIOUS
<1>3. h.searchSeen = o.searchSeen /\ h.eSearchSeen = TRUE /\ h.uids = o.uids
  BY <1>1, <1>2 DEF Heard
<1>4. h.skip = 0 /\ h.continues = FALSE /\ h.pending = <<>>
  BY DEF Heard
<1>5. h.duplicate = (o.duplicate \/ sequenceSetOverlaps(Named(r)))
  BY <1>2 DEF Heard
<1>6. h.outOfWindow = (o.outOfWindow \/ \E i \in DOMAIN Named(r) : Outside(Named(r)[i], w))
  BY <1>2 DEF Heard
<1>7. h.incomplete = ((o.incomplete \/ \E i \in DOMAIN Named(r) : Zero(Named(r)[i]))
                         \/ (~r.whole /\ ~sequenceSetOverlaps(Named(r))))
  BY <1>2 DEF Heard
<1>8. QED
  BY <1>3, <1>4, <1>5, <1>6, <1>7 DEF ByESearch

\* The ranges of nums, on any state.
LEMMA Ranged ==
  ASSUME NEW s \in Observer, NEW w, NEW nums
  PROVE  LET q == searchRangeLocked(s, w, nums)
         IN /\ q \in Observer /\ q.searchSeen = s.searchSeen /\ q.eSearchSeen = s.eSearchSeen
            /\ q.uids = s.uids /\ q.duplicate = s.duplicate
            /\ q.outOfWindow = (s.outOfWindow \/ \E i \in DOMAIN nums : Outside(nums[i], w))
            /\ q.incomplete = (s.incomplete \/ \E i \in DOMAIN nums : Zero(nums[i]))
            /\ q.skip = s.skip /\ q.continues = s.continues /\ q.pending = s.pending
BY DEF searchRangeLocked, Outside, Zero, Observer

\* The judgement of an ESEARCH, on a resting state that is o but for the flag.
LEMMA ESearchHeard ==
  ASSUME NEW o, Resting(o), NEW s \in Observer, NEW w, NEW r \in AnyResponse, r.kind = "esearch",
         s.searchSeen = o.searchSeen, s.eSearchSeen = TRUE, s.uids = o.uids,
         s.outOfWindow = o.outOfWindow, s.incomplete = o.incomplete,
         s.duplicate = o.duplicate, s.skip = 0, s.continues = FALSE, s.pending = <<>>
  PROVE  eSearchAllOverlaps(s, w, Named(r), r.whole) = Heard(o, w, r)
<1> DEFINE g == eSearchAllOverlaps(s, w, Named(r), r.whole)  h == Heard(o, w, r)
           q == searchRangeLocked(s, w, Named(r))
<1>1. h \in Observer
  BY HeardRests DEF Resting
<1>2. o \in Observer
  BY DEF Resting
<1>3. /\ q \in Observer /\ q.searchSeen = o.searchSeen /\ q.eSearchSeen = TRUE
      /\ q.uids = o.uids /\ q.duplicate = o.duplicate
      /\ q.outOfWindow = (o.outOfWindow \/ \E i \in DOMAIN Named(r) : Outside(Named(r)[i], w))
      /\ q.incomplete = (o.incomplete \/ \E i \in DOMAIN Named(r) : Zero(Named(r)[i]))
      /\ q.skip = 0 /\ q.continues = FALSE /\ q.pending = <<>>
  BY Ranged
<1>4. g = [q EXCEPT !.duplicate = @ \/ sequenceSetOverlaps(Named(r)),
                    !.incomplete = @ \/ (~r.whole /\ ~sequenceSetOverlaps(Named(r)))]
  BY DEF eSearchAllOverlaps
<1> HIDE DEF q
<1>5. sequenceSetOverlaps(Named(r)) \in BOOLEAN /\ r.whole \in BOOLEAN
  BY DEF sequenceSetOverlaps, AnyResponse
<1>6. g \in Observer
  BY <1>3, <1>4, <1>5 DEF Observer
<1>7. /\ g.searchSeen = o.searchSeen /\ g.eSearchSeen = TRUE /\ g.uids = o.uids
      /\ g.skip = 0 /\ g.continues = FALSE /\ g.pending = <<>>
      /\ g.outOfWindow = q.outOfWindow
      /\ g.duplicate = (q.duplicate \/ sequenceSetOverlaps(Named(r)))
      /\ g.incomplete = (q.incomplete \/ (~r.whole /\ ~sequenceSetOverlaps(Named(r))))
  BY <1>3, <1>4 DEF Observer
<1> HIDE DEF g, h
<1>10. QED
  <2>0. h = Heard(o, w, r)
    BY DEF h
  <2>1. /\ h.searchSeen = o.searchSeen /\ h.eSearchSeen = TRUE /\ h.uids = o.uids
        /\ h.duplicate = (o.duplicate \/ sequenceSetOverlaps(Named(r)))
        /\ h.outOfWindow = (o.outOfWindow \/ \E i \in DOMAIN Named(r) : Outside(Named(r)[i], w))
        /\ h.incomplete = ((o.incomplete \/ \E i \in DOMAIN Named(r) : Zero(Named(r)[i]))
                             \/ (~r.whole /\ ~sequenceSetOverlaps(Named(r))))
        /\ h.skip = 0 /\ h.continues = FALSE /\ h.pending = <<>>
    <3>1. ByESearch(h, o, w, r)
      BY <1>2, <2>0, ESearchFields
    <3>2. QED
      BY <3>1 DEF ByESearch
  <2>2. g.duplicate = h.duplicate
    BY <1>3, <1>7, <2>1
  <2>3. g.outOfWindow = h.outOfWindow
    BY <1>3, <1>7, <2>1
  <2>4. g.incomplete = h.incomplete
    BY <1>3, <1>7, <2>1
  <2>5. /\ g.searchSeen = h.searchSeen /\ g.eSearchSeen = h.eSearchSeen /\ g.uids = h.uids
        /\ g.skip = h.skip /\ g.continues = h.continues /\ g.pending = h.pending
    BY <1>7, <2>1
  <2>6. g = h
    BY <1>1, <1>6, <2>2, <2>3, <2>4, <2>5, SameObserver
  <2>7. QED
    BY <2>6 DEF g, h

\* The three outcomes of a classified line.
Unread(o) == [o EXCEPT !.incomplete = TRUE]

SearchRead(o, w, nums, whole) ==
  [observeSearchUIDsLocked([o EXCEPT !.searchSeen = TRUE], w, nums) EXCEPT !.incomplete = @ \/ ~whole]

ESearchRead(o, w, nums, whole) == eSearchAllOverlaps([o EXCEPT !.eSearchSeen = TRUE], w, nums, whole)

\* A resting observer on a line that ends its response.
LEMMA PlainLine ==
  ASSUME NEW o, Resting(o), NEW w, NEW l \in AnyLine, l.literal = 0 \/ l.kind = "text"
  PROVE  /\ l.kind = "unclassified" => observe(o, w, l) = Unread(o)
         /\ l.kind \in {"data", "text"} => observe(o, w, l) = o
         /\ l.kind = "search" =>
              observe(o, w, l) = SearchRead(o, w, l.nums, l.whole)
         /\ l.kind = "esearch" =>
              observe(o, w, l) = ESearchRead(o, w, l.nums, l.whole)
<1> DEFINE sort == IF o.pending # <<>> THEN "esearch" ELSE IF o.continues THEN "data" ELSE l.kind
           nums == IF o.pending # <<>> THEN o.pending[1] \o l.nums ELSE l.nums
           literal == IF sort = "text" THEN 0 ELSE l.literal
           next == [o EXCEPT !.continues = literal > 0, !.skip = literal, !.pending = <<>>]
<1>1. sort = l.kind /\ nums = l.nums
  BY DEF Resting
<1>2. literal = 0
  BY <1>1
<1>3. next = o
  <2>1. o \in Observer /\ o.skip = 0 /\ o.continues = FALSE /\ o.pending = <<>>
    BY DEF Resting
  <2>2. literal > 0 <=> FALSE
    BY <1>2
  <2> HIDE DEF literal
  <2>3. next \in Observer
    <3>1. <<>> \in Seq(Seq(Num)) /\ (literal > 0) \in BOOLEAN /\ literal \in Nat
      BY <1>2
    <3>2. QED
      BY <2>1, <3>1 DEF Observer
  <2>4. /\ next.searchSeen = o.searchSeen /\ next.eSearchSeen = o.eSearchSeen /\ next.uids = o.uids
        /\ next.duplicate = o.duplicate /\ next.incomplete = o.incomplete
        /\ next.outOfWindow = o.outOfWindow
    BY <2>1 DEF Observer
  <2>5. next.skip = 0 /\ next.continues = FALSE /\ next.pending = <<>>
    BY <1>2, <2>1, <2>2 DEF Observer
  <2> HIDE DEF next
  <2>6. QED
    BY <2>1, <2>3, <2>4, <2>5, SameObserver
<1>4. o.skip = 0
  BY DEF Resting
<1> HIDE DEF sort, nums, literal, next
<1>5. observe(o, w, l) =
        CASE o.skip > 0 -> [o EXCEPT !.skip = @ - 1]
          [] o.skip = 0 /\ sort = "unclassified" -> [next EXCEPT !.incomplete = TRUE]
          [] o.skip = 0 /\ sort = "search" ->
               [observeSearchUIDsLocked([next EXCEPT !.searchSeen = TRUE], w, nums)
                  EXCEPT !.incomplete = @ \/ ~l.whole]
          [] o.skip = 0 /\ sort = "esearch" /\ literal > 0 ->
               [next EXCEPT !.eSearchSeen = TRUE, !.pending = <<nums>>]
          [] o.skip = 0 /\ sort = "esearch" /\ literal = 0 ->
               eSearchAllOverlaps([next EXCEPT !.eSearchSeen = TRUE], w, nums, l.whole)
          [] OTHER -> next
  BY DEF observe, sort, nums, literal, next
<1>6. QED
  BY <1>1, <1>2, <1>3, <1>4, <1>5 DEF Unread, SearchRead, ESearchRead

\* A line inside a literal is skipped.
LEMMA SkippedLine ==
  ASSUME NEW o, NEW w, NEW l, o.skip = 1
  PROVE  observe(o, w, l) = [o EXCEPT !.skip = 0]
BY DEF observe

\* A response without a literal.
LEMMA PlainHeard ==
  ASSUME NEW o, Resting(o), NEW w, NEW r, Plain(r)
  PROVE  observe(o, w, Line(r.kind, r.nums, r.whole, 0)) = Heard(o, w, r)
<1> DEFINE l == Line(r.kind, r.nums, r.whole, 0)  h == Heard(o, w, r)  g == observe(o, w, l)
<1>1. /\ l \in AnyLine /\ l.literal = 0 /\ l.kind = r.kind /\ l.nums = r.nums /\ l.whole = r.whole
  BY DEF Line, AnyLine, Plain, AnyResponse
<1>2. r \in AnyResponse /\ r.tail = <<>> /\ r.nums \o r.tail = r.nums
  BY DEF Plain, AnyResponse
<1>3. h \in Observer
  BY <1>2, HeardRests DEF Resting
<1>4. Named(r) = r.nums
  BY <1>2 DEF Named
<1>5. o \in Observer /\ o.skip = 0 /\ o.continues = FALSE /\ o.pending = <<>>
  BY DEF Resting
<1> HIDE DEF l
<1>6. /\ r.kind = "unclassified" => g = Unread(o)
      /\ r.kind \in {"data", "text"} => g = o
      /\ r.kind = "search" => g = SearchRead(o, w, r.nums, r.whole)
      /\ r.kind = "esearch" => g = ESearchRead(o, w, r.nums, r.whole)
  BY <1>1, PlainLine
<1>11. h = Heard(o, w, r)
  OBVIOUS
<1> HIDE DEF g, h
<1>7. CASE r.kind \in {"unclassified", "data", "text"}
  <2>1. /\ h.searchSeen = o.searchSeen /\ h.eSearchSeen = o.eSearchSeen /\ h.uids = o.uids
        /\ h.duplicate = o.duplicate /\ h.outOfWindow = o.outOfWindow
        /\ h.incomplete = (o.incomplete \/ r.kind = "unclassified")
        /\ h.skip = 0 /\ h.continues = FALSE /\ h.pending = <<>>
    <3>1. Quiet(h, o, w, r)
      BY <1>5, <1>7, <1>11, QuietFields
    <3>2. QED
      BY <3>1 DEF Quiet
  <2>2. ASSUME r.kind = "unclassified" PROVE g = h
    <3>1. g \in Observer /\ g.incomplete = TRUE
      BY <1>5, <1>6, <2>2 DEF Observer, Unread
    <3>2. /\ g.searchSeen = o.searchSeen /\ g.eSearchSeen = o.eSearchSeen /\ g.uids = o.uids
          /\ g.duplicate = o.duplicate /\ g.outOfWindow = o.outOfWindow
          /\ g.skip = 0 /\ g.continues = FALSE /\ g.pending = <<>>
      BY <1>5, <1>6, <2>2 DEF Observer, Unread
    <3>3. h.incomplete = TRUE
      BY <2>1, <2>2
    <3>4. QED
      BY <1>3, <2>1, <3>1, <3>2, <3>3, SameObserver
  <2>3. ASSUME r.kind # "unclassified" PROVE g = h
    <3>1. g = o
      BY <1>6, <1>7, <2>3
    <3>2. h.incomplete = o.incomplete
      BY <1>5, <2>1, <2>3 DEF Observer
    <3>3. QED
      BY <1>3, <1>5, <2>1, <3>1, <3>2, SameObserver
  <2>4. g = h
    BY <2>2, <2>3
  <2>5. QED
    BY <2>4 DEF g, h, l
<1>8. CASE r.kind = "search"
  <2> DEFINE s == [o EXCEPT !.searchSeen = TRUE]
             q == searchRangeLocked(s, w, r.nums)
             d == \E i, j \in DOMAIN r.nums :
                    r.nums[i][1] \in o.uids \/ (i # j /\ r.nums[i][1] = r.nums[j][1])
             U == {r.nums[i][1] : i \in DOMAIN r.nums}
             t == [q EXCEPT !.duplicate = @ \/ d, !.uids = @ \cup U]
  <2>1. /\ s \in Observer /\ s.searchSeen = TRUE /\ s.eSearchSeen = o.eSearchSeen /\ s.uids = o.uids
        /\ s.outOfWindow = o.outOfWindow /\ s.incomplete = o.incomplete
        /\ s.duplicate = o.duplicate
        /\ s.skip = 0 /\ s.continues = FALSE /\ s.pending = <<>>
    BY <1>5 DEF Observer
  <2>2. observeSearchUIDsLocked(s, w, r.nums) = t
    BY <2>1 DEF observeSearchUIDsLocked
  <2>3. g = [t EXCEPT !.incomplete = @ \/ ~r.whole]
    BY <1>6, <1>8, <2>2 DEF SearchRead
  <2> HIDE DEF s
  <2>4. /\ q \in Observer /\ q.searchSeen = TRUE /\ q.eSearchSeen = o.eSearchSeen
        /\ q.uids = o.uids /\ q.duplicate = o.duplicate
        /\ q.outOfWindow = (o.outOfWindow \/ \E i \in DOMAIN r.nums : Outside(r.nums[i], w))
        /\ q.incomplete = (o.incomplete \/ \E i \in DOMAIN r.nums : Zero(r.nums[i]))
        /\ q.skip = 0 /\ q.continues = FALSE /\ q.pending = <<>>
    BY <2>1, Ranged
  <2>5. d \in BOOLEAN /\ U \in SUBSET Nat /\ r.whole \in BOOLEAN
    BY <1>2 DEF AnyResponse, Num
  <2> HIDE DEF q, d, U
  <2>6. /\ t \in Observer /\ t.searchSeen = TRUE /\ t.eSearchSeen = o.eSearchSeen
        /\ t.uids = o.uids \cup U /\ t.duplicate = (o.duplicate \/ d)
        /\ t.outOfWindow = q.outOfWindow /\ t.incomplete = q.incomplete
        /\ t.skip = 0 /\ t.continues = FALSE /\ t.pending = <<>>
    BY <2>4, <2>5 DEF Observer
  <2> HIDE DEF t
  <2>7. /\ g \in Observer /\ g.searchSeen = TRUE /\ g.eSearchSeen = o.eSearchSeen
        /\ g.uids = o.uids \cup U /\ g.duplicate = (o.duplicate \/ d)
        /\ g.outOfWindow = q.outOfWindow /\ g.incomplete = (q.incomplete \/ ~r.whole)
        /\ g.skip = 0 /\ g.continues = FALSE /\ g.pending = <<>>
    BY <2>3, <2>5, <2>6 DEF Observer
  <2>8. /\ h.searchSeen = TRUE /\ h.eSearchSeen = o.eSearchSeen
        /\ h.uids = o.uids \cup U /\ h.duplicate = (o.duplicate \/ d)
        /\ h.outOfWindow = q.outOfWindow /\ h.incomplete = (q.incomplete \/ ~r.whole)
        /\ h.skip = 0 /\ h.continues = FALSE /\ h.pending = <<>>
    <3>1. BySearch(h, o, w, r)
      BY <1>5, <1>8, <1>11, SearchFields
    <3>2. QED
      BY <2>4, <3>1 DEF BySearch, U, d
  <2>9. g = h
    BY <1>3, <2>7, <2>8, SameObserver
  <2>10. QED
    BY <2>9 DEF g, h, l
<1>9. CASE r.kind = "esearch"
  <2> DEFINE s == [o EXCEPT !.eSearchSeen = TRUE]
  <2>1. g = eSearchAllOverlaps(s, w, Named(r), r.whole)
    BY <1>4, <1>6, <1>9 DEF ESearchRead
  <2>2. /\ s \in Observer /\ s.searchSeen = o.searchSeen /\ s.eSearchSeen = TRUE /\ s.uids = o.uids
        /\ s.outOfWindow = o.outOfWindow /\ s.incomplete = o.incomplete
        /\ s.duplicate = o.duplicate
        /\ s.skip = 0 /\ s.continues = FALSE /\ s.pending = <<>>
    BY <1>5 DEF Observer
  <2> HIDE DEF s
  <2>3. g = Heard(o, w, r)
    BY <1>2, <1>9, <2>1, <2>2, ESearchHeard
  <2>4. QED
    BY <2>3 DEF g, l
<1>10. QED
  BY <1>2, <1>7, <1>8, <1>9 DEF AnyResponse

\* What observe does once kind, numbers and the literal of the line are known.
Judge(o, next, w, sort, nums, whole, literal) ==
  CASE o.skip > 0 -> [o EXCEPT !.skip = @ - 1]
    [] o.skip = 0 /\ sort = "unclassified" -> [next EXCEPT !.incomplete = TRUE]
    [] o.skip = 0 /\ sort = "search" ->
         [observeSearchUIDsLocked([next EXCEPT !.searchSeen = TRUE], w, nums)
            EXCEPT !.incomplete = @ \/ ~whole]
    [] o.skip = 0 /\ sort = "esearch" /\ literal > 0 ->
         [next EXCEPT !.eSearchSeen = TRUE, !.pending = <<nums>>]
    [] o.skip = 0 /\ sort = "esearch" /\ literal = 0 ->
         eSearchAllOverlaps([next EXCEPT !.eSearchSeen = TRUE], w, nums, whole)
    [] OTHER -> next

\* The state observe goes on from.
Onward(o, literal) == [o EXCEPT !.continues = literal > 0, !.skip = literal, !.pending = <<>>]

\* Kind, numbers and literal of a line, in the response it belongs to.
KindOf(o, l) == IF o.pending # <<>> THEN "esearch" ELSE IF o.continues THEN "data" ELSE l.kind
NumsOf(o, l) == IF o.pending # <<>> THEN o.pending[1] \o l.nums ELSE l.nums
LiteralOf(o, l) == IF KindOf(o, l) = "text" THEN 0 ELSE l.literal

\* observe, by Judge.
LEMMA Judges ==
  ASSUME NEW o, NEW w, NEW l
  PROVE  observe(o, w, l) = Judge(o, Onward(o, LiteralOf(o, l)), w, KindOf(o, l),
                                  NumsOf(o, l), l.whole, LiteralOf(o, l))
BY DEF observe, Judge, Onward, KindOf, NumsOf, LiteralOf

\* p is o at the next line.
Moved(p, o, n) ==
  /\ p \in Observer /\ p.searchSeen = o.searchSeen /\ p.eSearchSeen = o.eSearchSeen
  /\ p.uids = o.uids /\ p.duplicate = o.duplicate /\ p.incomplete = o.incomplete
  /\ p.outOfWindow = o.outOfWindow /\ p.skip = n /\ p.pending = <<>>
  /\ p.continues = (n > 0)

\* The fields of Onward.
LEMMA OnwardFields ==
  ASSUME NEW o \in Observer, NEW n \in Nat
  PROVE  Moved(Onward(o, n), o, n)
<1> DEFINE p == Onward(o, n)
<1>1. <<>> \in Seq(Seq(Num)) /\ (n > 0) \in BOOLEAN
  OBVIOUS
<1>2. p \in Observer
  BY <1>1 DEF Observer, Onward
<1>3. /\ p.searchSeen = o.searchSeen /\ p.eSearchSeen = o.eSearchSeen
      /\ p.uids = o.uids /\ p.duplicate = o.duplicate /\ p.incomplete = o.incomplete
      /\ p.outOfWindow = o.outOfWindow /\ p.skip = n /\ p.pending = <<>>
  BY DEF Observer, Onward
<1>4. p.continues = (n > 0)
  BY DEF Observer, Onward
<1>5. QED
  BY <1>2, <1>3, <1>4 DEF Moved

\* p is o inside a response that goes on after a literal.
Inside(p, o, skip) ==
  /\ p \in Observer /\ p.searchSeen = o.searchSeen
  /\ p.uids = o.uids /\ p.duplicate = o.duplicate /\ p.incomplete = o.incomplete
  /\ p.outOfWindow = o.outOfWindow /\ p.skip = skip /\ p.continues = TRUE

Opened(p, o, seen, pending) == Inside(p, o, 1) /\ p.eSearchSeen = seen /\ p.pending = pending

\* The line a literal follows.
LEMMA OpeningLine ==
  ASSUME NEW o, Resting(o), NEW w, NEW l \in AnyLine, l.literal = 1,
         NEW p, p = observe(o, w, l)
  PROVE  /\ l.kind = "data" => Opened(p, o, o.eSearchSeen, <<>>)
         /\ l.kind = "esearch" => Opened(p, o, TRUE, <<l.nums>>)
<1>1. o \in Observer /\ o.skip = 0 /\ o.continues = FALSE /\ o.pending = <<>>
  BY DEF Resting
<1> DEFINE n == Onward(o, 1)
<1>2. /\ n \in Observer /\ n.searchSeen = o.searchSeen /\ n.eSearchSeen = o.eSearchSeen
      /\ n.uids = o.uids /\ n.duplicate = o.duplicate /\ n.incomplete = o.incomplete
      /\ n.outOfWindow = o.outOfWindow /\ n.skip = 1 /\ n.pending = <<>> /\ n.continues = TRUE
  <2>1. Moved(n, o, 1)
    BY <1>1, OnwardFields
  <2> HIDE DEF n
  <2>2. 1 > 0
    OBVIOUS
  <2>3. QED
    BY <2>1, <2>2 DEF Moved
<1>3. l.kind # "text" => p = Judge(o, n, w, l.kind, l.nums, l.whole, 1)
  <2>1. KindOf(o, l) = l.kind /\ NumsOf(o, l) = l.nums
    BY <1>1 DEF KindOf, NumsOf
  <2>2. l.kind # "text" => LiteralOf(o, l) = 1
    BY <2>1 DEF LiteralOf
  <2>3. QED
    BY <2>1, <2>2, Judges
<1> HIDE DEF n
<1>4. CASE l.kind = "data"
  <2>1. p = n
    BY <1>1, <1>3, <1>4 DEF Judge
  <2>2. QED
    BY <1>2, <1>4, <2>1 DEF Inside, Opened
<1>5. CASE l.kind = "esearch"
  <2>1. p = [n EXCEPT !.eSearchSeen = TRUE, !.pending = <<l.nums>>]
    BY <1>1, <1>3, <1>5 DEF Judge
  <2>2. <<l.nums>> \in Seq(Seq(Num))
    BY DEF AnyLine
  <2>3. p \in Observer /\ p.eSearchSeen = TRUE /\ p.pending = <<l.nums>>
    BY <1>2, <2>1, <2>2 DEF Observer
  <2>4. /\ p.searchSeen = n.searchSeen
        /\ p.uids = n.uids /\ p.duplicate = n.duplicate /\ p.incomplete = n.incomplete
        /\ p.outOfWindow = n.outOfWindow /\ p.skip = n.skip /\ p.continues = n.continues
    BY <1>2, <2>1 DEF Observer
  <2>5. QED
    BY <1>2, <1>5, <2>3, <2>4 DEF Inside, Opened
<1>6. QED
  BY <1>4, <1>5

\* The line of the literal.
LEMMA LiteralLine ==
  ASSUME NEW o, NEW q, Inside(q, o, 1), NEW w, NEW l, NEW p, p = observe(q, w, l)
  PROVE  Inside(p, o, 0) /\ p.eSearchSeen = q.eSearchSeen /\ p.pending = q.pending
<1>1. q \in Observer /\ q.skip = 1
  BY DEF Inside
<1>2. p = [q EXCEPT !.skip = 0]
  BY <1>1, SkippedLine
<1>3. p \in Observer /\ p.skip = 0
  BY <1>1, <1>2 DEF Observer
<1>4. /\ p.searchSeen = q.searchSeen /\ p.eSearchSeen = q.eSearchSeen
      /\ p.uids = q.uids /\ p.duplicate = q.duplicate /\ p.incomplete = q.incomplete
      /\ p.outOfWindow = q.outOfWindow /\ p.continues = q.continues /\ p.pending = q.pending
  BY <1>1, <1>2 DEF Observer
<1>5. QED
  BY <1>3, <1>4 DEF Inside

\* The line after the literal, in a response that is not an ESEARCH ...
LEMMA ClosingData ==
  ASSUME NEW o, Resting(o), NEW q, Inside(q, o, 0), q.eSearchSeen = o.eSearchSeen,
         q.pending = <<>>, NEW w, NEW l \in AnyLine, l.literal = 0
  PROVE  observe(q, w, l) = o
<1>1. o \in Observer /\ o.skip = 0 /\ o.continues = FALSE /\ o.pending = <<>>
  BY DEF Resting
<1>2. q \in Observer /\ q.skip = 0 /\ q.continues = TRUE
  BY DEF Inside
<1> DEFINE n == Onward(q, 0)
<1>3. /\ n \in Observer /\ n.searchSeen = q.searchSeen /\ n.eSearchSeen = q.eSearchSeen
      /\ n.uids = q.uids /\ n.duplicate = q.duplicate /\ n.incomplete = q.incomplete
      /\ n.outOfWindow = q.outOfWindow /\ n.skip = 0 /\ n.pending = <<>> /\ n.continues = FALSE
  <2>1. Moved(n, q, 0)
    BY <1>2, OnwardFields
  <2> HIDE DEF n
  <2>2. n.continues = (0 > 0)
    BY <2>1 DEF Moved
  <2>3. n.continues = FALSE
    <3>1. (0 > 0) = FALSE
      OBVIOUS
    <3>2. QED
      BY <2>2, <3>1
  <2>4. QED
    BY <2>1, <2>3 DEF Moved
<1>4. observe(q, w, l) = Judge(q, n, w, "data", l.nums, l.whole, 0)
  <2>1. KindOf(q, l) = "data" /\ NumsOf(q, l) = l.nums
    BY <1>2 DEF KindOf, NumsOf
  <2>2. LiteralOf(q, l) = 0
    BY <2>1 DEF LiteralOf
  <2>3. QED
    BY <2>1, <2>2, Judges
<1> HIDE DEF n
<1>5. observe(q, w, l) = n
  BY <1>2, <1>4 DEF Judge
<1>6. n = o
  BY <1>1, <1>3, SameObserver DEF Inside
<1>7. QED
  BY <1>5, <1>6

\* ... and in an ESEARCH.
LEMMA ClosingESearch ==
  ASSUME NEW o, Resting(o), NEW r \in AnyResponse, r.kind = "esearch",
         NEW q, Inside(q, o, 0), q.eSearchSeen = TRUE,
         q.pending = <<r.nums>>, NEW w, NEW l \in AnyLine, l.literal = 0,
         l.nums = r.tail, l.whole = r.whole
  PROVE  observe(q, w, l) = Heard(o, w, r)
<1>2. q \in Observer /\ q.skip = 0 /\ q.continues = TRUE /\ q.pending # <<>> /\ q.pending[1] = r.nums
  BY DEF Inside
<1> DEFINE n == Onward(q, 0)
<1>3. /\ n \in Observer /\ n.searchSeen = q.searchSeen /\ n.eSearchSeen = q.eSearchSeen
      /\ n.uids = q.uids /\ n.duplicate = q.duplicate /\ n.incomplete = q.incomplete
      /\ n.outOfWindow = q.outOfWindow /\ n.skip = 0 /\ n.pending = <<>> /\ n.continues = FALSE
  <2>1. Moved(n, q, 0)
    BY <1>2, OnwardFields
  <2> HIDE DEF n
  <2>2. n.continues = (0 > 0)
    BY <2>1 DEF Moved
  <2>3. n.continues = FALSE
    <3>1. (0 > 0) = FALSE
      OBVIOUS
    <3>2. QED
      BY <2>2, <3>1
  <2>4. QED
    BY <2>1, <2>3 DEF Moved
<1>4. observe(q, w, l) = Judge(q, n, w, "esearch", r.nums \o r.tail, r.whole, 0)
  <2>1. KindOf(q, l) = "esearch" /\ NumsOf(q, l) = r.nums \o r.tail
    BY <1>2 DEF KindOf, NumsOf
  <2>2. LiteralOf(q, l) = 0
    BY <2>1 DEF LiteralOf
  <2>3. QED
    BY <2>1, <2>2, Judges
<1> HIDE DEF n
<1> DEFINE s == [n EXCEPT !.eSearchSeen = TRUE]
<1>5. observe(q, w, l) = eSearchAllOverlaps(s, w, r.nums \o r.tail, r.whole)
  BY <1>2, <1>4 DEF Judge
<1>6. s \in Observer /\ s.eSearchSeen = TRUE
  BY <1>3 DEF Observer
<1>7. /\ s.searchSeen = n.searchSeen /\ s.uids = n.uids /\ s.duplicate = n.duplicate
      /\ s.incomplete = n.incomplete /\ s.outOfWindow = n.outOfWindow
      /\ s.skip = 0 /\ s.continues = FALSE /\ s.pending = <<>>
  BY <1>3 DEF Observer
<1> HIDE DEF s
<1>8. Named(r) = r.nums \o r.tail
  BY DEF Named
<1>9. /\ s.searchSeen = o.searchSeen /\ s.uids = o.uids /\ s.duplicate = o.duplicate
      /\ s.incomplete = o.incomplete /\ s.outOfWindow = o.outOfWindow
  BY <1>3, <1>7 DEF Inside
<1>10. eSearchAllOverlaps(s, w, Named(r), r.whole) = Heard(o, w, r)
  BY <1>6, <1>7, <1>9, ESearchHeard
<1>11. QED
  BY <1>5, <1>8, <1>10

\* Data and text are not heard.
LEMMA QuietHeard ==
  ASSUME NEW o, Resting(o), NEW w, NEW r \in AnyResponse, r.kind \in {"data", "text"}
  PROVE  Heard(o, w, r) = o
<1> DEFINE h == Heard(o, w, r)
<1>1. o \in Observer /\ o.skip = 0 /\ o.continues = FALSE /\ o.pending = <<>>
  BY DEF Resting
<1>2. h \in Observer
  BY HeardRests DEF Resting
<1>3. Quiet(h, o, w, r)
  BY <1>1, QuietFields
<1> HIDE DEF h
<1>4. h.incomplete = o.incomplete
  <2>1. h.incomplete = (o.incomplete \/ r.kind = "unclassified") /\ r.kind # "unclassified"
    BY <1>3 DEF Quiet
  <2>2. QED
    BY <1>1, <2>1 DEF Observer
<1>5. h = o
  BY <1>1, <1>2, <1>3, <1>4, SameObserver DEF Quiet
<1>6. QED
  BY <1>5 DEF h

Hearable(r) == Plain(r) \/ Literal(r)

\* The lines of a response.
LEMMA LinesAre ==
  ASSUME NEW r, Hearable(r)
  PROVE  LinesOf(r) \in Seq(AnyLine)
<1>1. \A k \in {"search", "esearch", "data", "text", "unclassified"}, n \in Seq(Num),
         b \in BOOLEAN, i \in Nat : Line(k, n, b, i) \in AnyLine
  BY DEF Line, AnyLine
<1>2. r \in AnyResponse
  BY DEF Hearable, Plain, Literal
<1>3. Len(r.content) \in Nat /\ r.content \in Seq(AnyLine)
  BY <1>2 DEF AnyResponse
<1>4. /\ Line(r.kind, r.nums, r.whole, 0) \in AnyLine
      /\ Line(r.kind, r.nums, r.whole, Len(r.content)) \in AnyLine
      /\ r.kind = "text" => Line("text", r.nums, r.whole, Len(r.content)) \in AnyLine
      /\ Line("data", r.tail, r.whole, 0) \in AnyLine
  BY <1>1, <1>2, <1>3 DEF AnyResponse
<1>5. \A x \in AnyLine : <<x>> \in Seq(AnyLine)
  OBVIOUS
<1>6. QED
  BY <1>3, <1>4, <1>5, ConcatProperties DEF LinesOf

\* The observer hears a response as a whole.
LEMMA ResponseHeard ==
  ASSUME NEW o, Resting(o), NEW w, NEW r, Hearable(r), NEW rest \in Seq(AnyLine)
  PROVE  Fold("observer", w, o, LinesOf(r) \o rest) = Fold("observer", w, Heard(o, w, r), rest)
<1>1. \A p, l : Step("observer", w, p, l) = observe(p, w, l)
  BY DEF Step
<1>2. \A p, l : \A c \in Seq(AnyLine) :
         Fold("observer", w, p, <<l>> \o c) = Fold("observer", w, observe(p, w, l), c)
  BY <1>1, FoldFirst
<1>3. CASE Plain(r)
  <2>1. LinesOf(r) = <<Line(r.kind, r.nums, r.whole, 0)>>
    BY <1>3 DEF Plain, LinesOf
  <2>2. observe(o, w, Line(r.kind, r.nums, r.whole, 0)) = Heard(o, w, r)
    BY <1>3, PlainHeard
  <2>3. QED
    BY <1>2, <2>1, <2>2
<1>4. CASE Literal(r) /\ r.kind = "text"
  <2> DEFINE l == Line("text", r.nums, r.whole, Len(r.content))
  <2>0. PICK c \in AnyLine : r.content = <<c>>
    BY <1>4 DEF Literal
  <2>1. r \in AnyResponse /\ r.content # <<>> /\ Len(r.content) \in Nat
    BY <1>4, <2>0 DEF Literal
  <2>2. LinesOf(r) = <<l>>
    BY <1>4, <2>1 DEF LinesOf
  <2>3. l \in AnyLine /\ l.kind = "text"
    BY <2>1 DEF Line, AnyLine, AnyResponse
  <2> HIDE DEF l
  <2>4. observe(o, w, l) = o
    BY <2>3, PlainLine
  <2>5. Heard(o, w, r) = o
    BY <1>4, <2>1, QuietHeard
  <2>6. QED
    BY <1>2, <2>2, <2>4, <2>5
<1>5. CASE Literal(r) /\ r.kind \in {"esearch", "data"}
  <2> DEFINE a == Line(r.kind, r.nums, r.whole, 1)
             z == Line("data", r.tail, r.whole, 0)
  <2>2. PICK c \in AnyLine : r.content = <<c>>
    BY <1>5 DEF Literal
  <2>0. r.content # <<>> /\ Len(r.content) = 1 /\ r.kind # "text"
    BY <1>5, <2>2
  <2>1. /\ r \in AnyResponse /\ r.nums \in Seq(Num) /\ r.tail \in Seq(Num)
        /\ r.whole \in BOOLEAN
    BY <1>5 DEF Literal, AnyResponse
  <2>3. LinesOf(r) = (<<a>> \o <<c>>) \o <<z>>
    BY <2>0, <2>2 DEF LinesOf
  <2>4. /\ a \in AnyLine /\ a.kind = r.kind /\ a.nums = r.nums /\ a.literal = 1
        /\ z \in AnyLine /\ z.literal = 0 /\ z.nums = r.tail /\ z.whole = r.whole
    BY <1>5, <2>1 DEF Line, AnyLine
  <2> HIDE DEF a, z
  <2>5. <<a>> \in Seq(AnyLine) /\ <<c>> \in Seq(AnyLine) /\ <<z>> \in Seq(AnyLine)
    BY <2>2, <2>4
  <2>6. LinesOf(r) \o rest = <<a>> \o (<<c>> \o (<<z>> \o rest))
    <3>1. (<<a>> \o <<c>>) \o <<z>> = <<a>> \o (<<c>> \o <<z>>)
      BY <2>5, ConcatAssociative
    <3>2. <<c>> \o <<z>> \in Seq(AnyLine)
      BY <2>5, ConcatProperties
    <3>3. (<<a>> \o (<<c>> \o <<z>>)) \o rest = <<a>> \o ((<<c>> \o <<z>>) \o rest)
      BY <2>5, <3>2, ConcatAssociative
    <3>4. (<<c>> \o <<z>>) \o rest = <<c>> \o (<<z>> \o rest)
      BY <2>5, ConcatAssociative
    <3>5. QED
      BY <2>3, <3>1, <3>3, <3>4
  <2>7. <<z>> \o rest \in Seq(AnyLine) /\ <<c>> \o (<<z>> \o rest) \in Seq(AnyLine)
    BY <2>5, ConcatProperties
  <2> DEFINE p1 == observe(o, w, a)  p2 == observe(p1, w, c)  p3 == observe(p2, w, z)
  <2>8. Fold("observer", w, o, LinesOf(r) \o rest) = Fold("observer", w, p3, rest)
    <3>1. Fold("observer", w, o, <<a>> \o (<<c>> \o (<<z>> \o rest)))
            = Fold("observer", w, p1, <<c>> \o (<<z>> \o rest))
      BY <1>2, <2>7
    <3>2. Fold("observer", w, p1, <<c>> \o (<<z>> \o rest)) = Fold("observer", w, p2, <<z>> \o rest)
      <4> HIDE DEF p1
      <4>1. QED
        BY <1>2, <2>7
    <3>3. Fold("observer", w, p2, <<z>> \o rest) = Fold("observer", w, p3, rest)
      <4> HIDE DEF p1, p2
      <4>1. QED
        BY <1>2
    <3> HIDE DEF p1, p2, p3
    <3>4. QED
      BY <2>6, <3>1, <3>2, <3>3
  <2>9. p3 = Heard(o, w, r)
    <3>1. p1 = observe(o, w, a) /\ p2 = observe(p1, w, c)
      OBVIOUS
    <3> HIDE DEF p1, p2
    <3>2. CASE r.kind = "data"
      <4>1. Inside(p1, o, 1) /\ p1.eSearchSeen = o.eSearchSeen /\ p1.pending = <<>>
        <5>1. Opened(p1, o, o.eSearchSeen, <<>>)
          BY <2>4, <3>1, <3>2, OpeningLine
        <5>2. QED
          BY <5>1 DEF Opened
      <4>2. Inside(p2, o, 0) /\ p2.eSearchSeen = o.eSearchSeen /\ p2.pending = <<>>
        BY <3>1, <4>1, LiteralLine
      <4>3. p3 = o
        BY <2>4, <4>2, ClosingData
      <4>4. QED
        BY <2>1, <3>2, <4>3, QuietHeard
    <3>3. CASE r.kind = "esearch"
      <4>1. Inside(p1, o, 1) /\ p1.eSearchSeen = TRUE /\ p1.pending = <<r.nums>>
        <5>1. Opened(p1, o, TRUE, <<r.nums>>)
          BY <2>4, <3>1, <3>3, OpeningLine
        <5>2. QED
          BY <5>1 DEF Opened
      <4>2. Inside(p2, o, 0) /\ p2.eSearchSeen = TRUE /\ p2.pending = <<r.nums>>
        BY <3>1, <4>1, LiteralLine
      <4>3. QED
        BY <2>1, <2>4, <3>3, <4>2, ClosingESearch
    <3>4. QED
      BY <1>5, <3>2, <3>3
  <2>10. QED
    BY <2>8, <2>9
<1>6. QED
  BY <1>3, <1>4, <1>5 DEF Hearable, Literal

\* The lines of wires of up to three responses.
LEMMA LinesOfNone == Lines(<<>>) = <<>>
BY DEF Lines, FlattenSeq

\* The lines of one response.
LEMMA LinesOfOne ==
  ASSUME NEW a
  PROVE  Lines(<<a>>) = LinesOf(a)
<1> DEFINE q == [i \in DOMAIN <<a>> |-> LinesOf(<<a>>[i])]
<1>1. Len(q) = 1 /\ q[1] = LinesOf(a)
  OBVIOUS
<1>2. Lines(<<a>>) = FlattenSeq(q)
  BY DEF Lines
<1> HIDE DEF q
<1>3. Len(q) \in 1 .. 3
  BY <1>1
<1>4. QED
  BY <1>1, <1>2, <1>3, FlattenFew

\* The lines of two responses.
LEMMA LinesOfTwo ==
  ASSUME NEW a, NEW b
  PROVE  Lines(<<a, b>>) = LinesOf(a) \o LinesOf(b)
<1> DEFINE q == [i \in DOMAIN <<a, b>> |-> LinesOf(<<a, b>>[i])]
<1>1. Len(q) = 2 /\ q[1] = LinesOf(a) /\ q[2] = LinesOf(b)
  OBVIOUS
<1>2. Lines(<<a, b>>) = FlattenSeq(q)
  BY DEF Lines
<1> HIDE DEF q
<1>3. Len(q) \in 1 .. 3
  BY <1>1
<1>4. QED
  BY <1>1, <1>2, <1>3, FlattenFew

\* m are the lines of a and b.
LinesOfBoth(m, a, b) == m = LinesOf(a) \o LinesOf(b)

\* The lines of three responses.
LEMMA LinesOfThree ==
  ASSUME NEW a, NEW b, NEW c, NEW m, LinesOfBoth(m, a, b)
  PROVE  Lines(<<a, b, c>>) = m \o LinesOf(c)
<1> DEFINE q == [i \in DOMAIN <<a, b, c>> |-> LinesOf(<<a, b, c>>[i])]
<1>1. Len(q) = 3 /\ q[1] = LinesOf(a) /\ q[2] = LinesOf(b) /\ q[3] = LinesOf(c)
  OBVIOUS
<1>2. Lines(<<a, b, c>>) = FlattenSeq(q)
  BY DEF Lines
<1> HIDE DEF q
<1>3. Len(q) \in 1 .. 3
  BY <1>1
<1>4. QED
  BY <1>1, <1>2, <1>3, FlattenFew DEF LinesOfBoth

\* A search begins at rest.
LEMMA BeginRests == Resting(beginSearch)
BY DEF beginSearch, Resting, Observer

\* The observer reads the lines of a wire ...
LEMMA ObservedIs ==
  ASSUME NEW q, NEW w PROVE Observed(q, w) = Fold("observer", w, beginSearch, Lines(q))
BY DEF Observed, Fold, Observing

\* A whole response leaves the observer at the start of the next.
LEMMA HearableRests ==
  ASSUME NEW o, Resting(o), NEW w, NEW r, Hearable(r) PROVE Resting(Heard(o, w, r))
BY HeardRests DEF Hearable, Plain, Literal

\* The last response, heard to its end.
LEMMA LastHeard ==
  ASSUME NEW o, Resting(o), NEW w, NEW r, Hearable(r)
  PROVE  Fold("observer", w, o, LinesOf(r)) = Heard(o, w, r)
<1>1. LinesOf(r) \o <<>> = LinesOf(r) /\ <<>> \in Seq(AnyLine)
  BY LinesAre, ConcatEmptySeq
<1>2. \A rest \in Seq(AnyLine) :
        Fold("observer", w, o, LinesOf(r) \o rest) = Fold("observer", w, Heard(o, w, r), rest)
  BY ResponseHeard
<1>3. Fold("observer", w, o, LinesOf(r) \o <<>>) = Fold("observer", w, Heard(o, w, r), <<>>)
  BY <1>1, <1>2
<1>4. Fold("observer", w, Heard(o, w, r), <<>>) = Heard(o, w, r)
  BY FoldNone
<1>5. QED
  BY <1>1, <1>3, <1>4

\* ... and hears its responses one by one.
LEMMA ObservedNone == ASSUME NEW w PROVE Observed(<<>>, w) = beginSearch
BY ObservedIs, LinesOfNone, FoldNone

\* What the observer makes of one response.
LEMMA ObservedOne ==
  ASSUME NEW w, NEW a, Hearable(a)
  PROVE  Observed(<<a>>, w) = Heard(beginSearch, w, a)
BY ObservedIs, LastHeard, LinesOfOne, BeginRests

\* What it makes of two.
LEMMA ObservedTwo ==
  ASSUME NEW w, NEW a, Hearable(a), NEW b, Hearable(b), NEW h, h = Heard(beginSearch, w, a)
  PROVE  Observed(<<a, b>>, w) = Heard(h, w, b)
<1>1. LinesOf(b) \in Seq(AnyLine) /\ Resting(h)
  BY HearableRests, LinesAre, BeginRests
<1>2. Lines(<<a, b>>) = LinesOf(a) \o LinesOf(b)
  BY LinesOfTwo
<1>3. Fold("observer", w, beginSearch, LinesOf(a) \o LinesOf(b)) = Fold("observer", w, h, LinesOf(b))
  BY <1>1, ResponseHeard, BeginRests
<1>4. Fold("observer", w, h, LinesOf(b)) = Heard(h, w, b)
  BY <1>1, LastHeard
<1>5. Observed(<<a, b>>, w) = Fold("observer", w, beginSearch, Lines(<<a, b>>))
  BY ObservedIs
<1>6. QED
  BY <1>2, <1>3, <1>4, <1>5

\* What it makes of three.
LEMMA ObservedThree ==
  ASSUME NEW w, NEW a, Hearable(a), NEW b, Hearable(b), NEW c, Hearable(c),
         NEW h, h = Heard(beginSearch, w, a), NEW k, k = Heard(h, w, b)
  PROVE  Observed(<<a, b, c>>, w) = Heard(k, w, c)
<1> DEFINE m == LinesOf(b) \o LinesOf(c)
<1>1. LinesOf(a) \in Seq(AnyLine) /\ LinesOf(b) \in Seq(AnyLine) /\ LinesOf(c) \in Seq(AnyLine)
  BY LinesAre
<1>2. Resting(h)
  BY HearableRests, BeginRests
<1>3. Resting(k)
  BY <1>2, HearableRests
<1>4. Lines(<<a, b, c>>) = LinesOf(a) \o m
  <2> DEFINE k1 == LinesOf(a) \o LinesOf(b)
  <2>1. k1 \o LinesOf(c) = LinesOf(a) \o (LinesOf(b) \o LinesOf(c))
    BY <1>1, ConcatAssociative
  <2>2. LinesOfBoth(k1, a, b)
    BY DEF LinesOfBoth
  <2> HIDE DEF k1
  <2>3. Lines(<<a, b, c>>) = k1 \o LinesOf(c)
    BY <2>2, LinesOfThree
  <2>4. QED
    BY <2>1, <2>3
<1>5. m \in Seq(AnyLine)
  BY <1>1, ConcatProperties
<1>6. Fold("observer", w, h, m) = Fold("observer", w, k, LinesOf(c))
  BY <1>1, <1>2, ResponseHeard
<1> HIDE DEF m
<1>7. Fold("observer", w, beginSearch, LinesOf(a) \o m) = Fold("observer", w, h, m)
  BY <1>5, BeginRests, ResponseHeard
<1>8. Fold("observer", w, k, LinesOf(c)) = Heard(k, w, c)
  BY <1>3, LastHeard
<1>9. Observed(<<a, b, c>>, w) = Fold("observer", w, beginSearch, Lines(<<a, b, c>>))
  BY ObservedIs
<1>10. QED
  BY <1>4, <1>6, <1>7, <1>8, <1>9

\* A tuple is its first element and the others.
LEMMA FirstAndNone == ASSUME NEW a PROVE <<a>> \o <<>> = <<a>>
<1>1. <<a>> \in Seq({a})
  OBVIOUS
<1>2. QED
  BY <1>1, ConcatEmptySeq

\* A pair, taken apart.
LEMMA FirstAndOne ==
  ASSUME NEW a, NEW b PROVE <<a>> \o <<b>> = <<a, b>>
<1> DEFINE U == {a, b}  p == <<a>> \o <<b>>
<1>1. <<a>> \in Seq(U) /\ <<b>> \in Seq(U) /\ <<a, b>> \in Seq(U)
  OBVIOUS
<1>2. p \in Seq(U) /\ Len(p) = 2 /\ p[1] = a /\ p[2] = b
  BY <1>1, ConcatProperties
<1> HIDE DEF p, U
<1>3. \A i \in 1 .. 2 : p[i] = <<a, b>>[i]
  BY <1>2
<1>4. p = <<a, b>>
  BY <1>1, <1>2, <1>3, SeqEqual
<1>5. QED
  BY <1>4 DEF p

\* A triple, taken apart.
LEMMA FirstAndTwo ==
  ASSUME NEW a, NEW b, NEW c PROVE <<a>> \o <<b, c>> = <<a, b, c>>
<1> DEFINE U == {a, b, c}  p == <<a>> \o <<b, c>>
<1>1. <<a>> \in Seq(U) /\ <<b, c>> \in Seq(U) /\ <<a, b, c>> \in Seq(U)
  OBVIOUS
<1>2. p \in Seq(U) /\ Len(p) = 3 /\ p[1] = a /\ p[2] = b /\ p[3] = c
  BY <1>1, ConcatProperties
<1> HIDE DEF p, U
<1>3. \A i \in 1 .. 3 : p[i] = <<a, b, c>>[i]
  BY <1>2
<1>4. p = <<a, b, c>>
  BY <1>1, <1>2, <1>3, SeqEqual
<1>5. QED
  BY <1>4 DEF p

\* go-imap on such wires.
LEMMA DecodedIs ==
  ASSUME NEW q PROVE Decoded(q) = Fold("go-imap", 0, EmptyData, q)
BY DEF Decoded, Fold

\* go-imap takes one response after the other: the first,
LEMMA FirstDecoded ==
  ASSUME NEW p, NEW e, NEW U, NEW q \in Seq(U)
  PROVE  Fold("go-imap", 0, p, <<e>> \o q) = Fold("go-imap", 0, decode(p, e), q)
<1>1. Step("go-imap", 0, p, e) = decode(p, e)
  BY DEF Step
<1>2. Fold("go-imap", 0, p, <<e>> \o q) = Fold("go-imap", 0, Step("go-imap", 0, p, e), q)
  BY FoldFirst
<1>3. QED
  BY <1>1, <1>2

\* the last,
LEMMA LastDecoded ==
  ASSUME NEW p, NEW e PROVE Fold("go-imap", 0, p, <<e>>) = decode(p, e)
<1>1. <<e>> \o <<>> = <<e>> /\ <<>> \in Seq({e})
  BY FirstAndNone
<1>2. Fold("go-imap", 0, p, <<e>> \o <<>>) = Fold("go-imap", 0, decode(p, e), <<>>)
  <2>1. \A q \in Seq({e}) : Fold("go-imap", 0, p, <<e>> \o q) = Fold("go-imap", 0, decode(p, e), q)
    BY FirstDecoded
  <2>2. QED
    BY <1>1, <2>1
<1>3. Fold("go-imap", 0, decode(p, e), <<>>) = decode(p, e)
  BY FoldNone
<1>4. QED
  BY <1>1, <1>2, <1>3

\* and the last two.
LEMMA PairDecoded ==
  ASSUME NEW p, NEW d, NEW e PROVE Fold("go-imap", 0, p, <<d, e>>) = decode(decode(p, d), e)
<1>1. <<d>> \o <<e>> = <<d, e>> /\ <<e>> \in Seq({e})
  BY FirstAndOne
<1>2. Fold("go-imap", 0, p, <<d>> \o <<e>>) = Fold("go-imap", 0, decode(p, d), <<e>>)
  <2>1. \A q \in Seq({e}) : Fold("go-imap", 0, p, <<d>> \o q) = Fold("go-imap", 0, decode(p, d), q)
    BY FirstDecoded
  <2>2. QED
    BY <1>1, <2>1
<1>3. Fold("go-imap", 0, decode(p, d), <<e>>) = decode(decode(p, d), e)
  BY LastDecoded
<1>4. QED
  BY <1>1, <1>2, <1>3

\* What go-imap makes of no response.
LEMMA DecodedNone == Decoded(<<>>) = EmptyData
BY DecodedIs, FoldNone

\* What it makes of one.
LEMMA DecodedOne == ASSUME NEW a PROVE Decoded(<<a>>) = decode(EmptyData, a)
BY DecodedIs, LastDecoded

\* What it makes of two.
LEMMA DecodedTwo ==
  ASSUME NEW a, NEW b PROVE Decoded(<<a, b>>) = decode(decode(EmptyData, a), b)
BY DecodedIs, PairDecoded

-----------------------------------------------------------------------------
(* An answer is accepted exactly when it is unambiguous.                   *)

IsWindow(w) == w.Start \in Nat \ {0} /\ w.End \in Nat /\ w.Start <= w.End

Clean(o) == ~o.duplicate /\ ~o.incomplete /\ ~o.outOfWindow

\* In the window, and each named once.
Fine(n, w) ==
  \A a \in DOMAIN n :
    /\ w.Start <= n[a][1] /\ n[a][2] <= w.End
    /\ \A b \in DOMAIN n : a # b => Apart(n[a], n[b])

Readable(r, w) ==
  /\ r.kind # "unclassified" /\ r.whole
  /\ r.kind \in {"search", "esearch"} => Fine(Named(r), w)

\* What the server of the model sends: numbers in order, a SEARCH without
\* ranges, an ESEARCH with ALL when there is something to name.
WellFormed(r) ==
  /\ Hearable(r) /\ \A i \in DOMAIN Named(r) : Named(r)[i][1] <= Named(r)[i][2]
  /\ r.kind = "search" => Plain(r) /\ ~r.counts /\ \A i \in DOMAIN r.nums : r.nums[i][1] = r.nums[i][2]
  /\ r.kind = "esearch" => (r.all <=> Named(r) # <<>>)
  /\ r.kind \notin {"search", "esearch"} => r.whole

\* No UID of r is one the observer has seen.
NewTo(o, r) == r.kind = "search" => \A i \in DOMAIN r.nums : r.nums[i][1] \notin o.uids

\* A number in the window is neither zero nor outside.
LEMMA InWindow ==
  ASSUME NEW w, IsWindow(w), NEW n \in Num, n[1] <= n[2]
  PROVE  w.Start <= n[1] /\ n[2] <= w.End <=> ~Zero(n) /\ ~Outside(n, w)
BY DEF IsWindow, Num, Zero, Outside

\* Ranges that are not apart overlap.
LEMMA Overlaps ==
  ASSUME NEW n \in Seq(Num), \A i \in DOMAIN n : n[i][1] <= n[i][2]
  PROVE  sequenceSetOverlaps(n) <=> \E a, b \in DOMAIN n : a # b /\ ~Apart(n[a], n[b])
<1>1. \A i \in DOMAIN n : n[i][1] \in Nat /\ n[i][2] \in Nat
  BY DEF Num
<1>2. ASSUME NEW i \in DOMAIN n, NEW j \in DOMAIN n, n[i][1] <= n[j][1], n[j][1] <= n[i][2]
      PROVE  ~Apart(n[i], n[j])
  BY <1>1, <1>2 DEF Apart
<1>3. ASSUME NEW i \in DOMAIN n, NEW j \in DOMAIN n, ~Apart(n[i], n[j])
      PROVE  \/ n[i][1] <= n[j][1] /\ n[j][1] <= n[i][2]
             \/ n[j][1] <= n[i][1] /\ n[i][1] <= n[j][2]
  BY <1>1, <1>3 DEF Apart
<1>4. QED
  BY <1>2, <1>3 DEF sequenceSetOverlaps

\* What the observer counts against a response.
LEMMA HeardClean ==
  ASSUME NEW o, Resting(o), NEW w, IsWindow(w), NEW r, WellFormed(r)
  PROVE  Clean(Heard(o, w, r)) <=> Clean(o) /\ Readable(r, w) /\ NewTo(o, r)
<1> DEFINE h == Heard(o, w, r)  n == Named(r)
<1>1. o \in Observer /\ r \in AnyResponse
  BY DEF Resting, WellFormed, Hearable, Plain, Literal
<1>2. n \in Seq(Num) /\ \A i \in DOMAIN n : n[i] \in Num /\ n[i][1] <= n[i][2]
  <2>1. r.nums \in Seq(Num) /\ r.tail \in Seq(Num)
    BY <1>1 DEF AnyResponse
  <2>2. n \in Seq(Num)
    BY <2>1, ConcatProperties DEF Named
  <2>3. QED
    BY <2>2 DEF WellFormed
<1>3. h = Heard(o, w, r)
  OBVIOUS
<1>4. Fine(n, w) <=> /\ ~\E i \in DOMAIN n : Zero(n[i])
                     /\ ~\E i \in DOMAIN n : Outside(n[i], w)
                     /\ ~\E a, b \in DOMAIN n : a # b /\ ~Apart(n[a], n[b])
  <2> HIDE DEF n
  <2>1. \A i \in DOMAIN n : (w.Start <= n[i][1] /\ n[i][2] <= w.End) <=> (~Zero(n[i]) /\ ~Outside(n[i], w))
    BY <1>2, InWindow
  <2>2. QED
    BY <2>1, Zenon DEF Fine
<1> HIDE DEF h
<1>5. CASE r.kind \in {"unclassified", "data", "text"}
  <2>1. Quiet(h, o, w, r)
    BY <1>1, <1>3, <1>5, QuietFields
  <2>2. h.duplicate = o.duplicate /\ h.outOfWindow = o.outOfWindow
        /\ (h.incomplete <=> o.incomplete \/ r.kind = "unclassified")
    BY <2>1 DEF Quiet
  <2>3. r.whole /\ r.kind \notin {"search", "esearch"}
    BY <1>5 DEF WellFormed
  <2>4. QED
    BY <1>5, <2>2, <2>3 DEF Clean, Readable, NewTo, h
<1>6. CASE r.kind = "search"
  <2>1. BySearch(h, o, w, r)
    BY <1>1, <1>3, <1>6, SearchFields
  <2>2. n = r.nums /\ \A i \in DOMAIN n : n[i][1] = n[i][2]
    BY <1>6 DEF Named, WellFormed
  <2> HIDE DEF n
  <2>3. (\E i, j \in DOMAIN n : n[i][1] \in o.uids \/ (i # j /\ n[i][1] = n[j][1]))
          <=> (\E i \in DOMAIN n : n[i][1] \in o.uids)
                \/ (\E a, b \in DOMAIN n : a # b /\ ~Apart(n[a], n[b]))
    <3>1. \A a, b \in DOMAIN n : ~Apart(n[a], n[b]) <=> n[a][1] = n[b][1]
      <4>1. \A a \in DOMAIN n : n[a][1] \in Nat /\ n[a][2] \in Nat
        BY <1>2 DEF Num
      <4>2. QED
        BY <2>2, <4>1 DEF Apart
    <3>2. QED
      BY <3>1, Zenon
  <2>4. /\ h.duplicate <=> o.duplicate \/ (\E i, j \in DOMAIN n :
             n[i][1] \in o.uids \/ (i # j /\ n[i][1] = n[j][1]))
        /\ h.outOfWindow <=> o.outOfWindow \/ \E i \in DOMAIN n : Outside(n[i], w)
        /\ h.incomplete <=> ((o.incomplete \/ \E i \in DOMAIN n : Zero(n[i])) \/ ~r.whole)
    <3>1. /\ h.duplicate <=> o.duplicate \/ (\E i, j \in DOMAIN r.nums :
               r.nums[i][1] \in o.uids \/ (i # j /\ r.nums[i][1] = r.nums[j][1]))
          /\ h.outOfWindow <=> o.outOfWindow \/ \E i \in DOMAIN r.nums : Outside(r.nums[i], w)
          /\ h.incomplete <=> ((o.incomplete \/ \E i \in DOMAIN r.nums : Zero(r.nums[i])) \/ ~r.whole)
      BY <2>1, Zenon DEF BySearch
    <3>2. QED
      BY <2>2, <3>1
  <2>5. Readable(r, w) <=> r.whole /\ Fine(n, w)
    BY <1>6 DEF Readable, n
  <2>6. NewTo(o, r) <=> ~\E i \in DOMAIN n : n[i][1] \in o.uids
    BY <1>6, <2>2 DEF NewTo
  <2>7. Clean(h) <=> Clean(o) /\ Readable(r, w) /\ NewTo(o, r)
    BY <1>4, <2>3, <2>4, <2>5, <2>6, Zenon DEF Clean
  <2>8. QED
    BY <2>7 DEF h
<1>7. CASE r.kind = "esearch"
  <2>1. ByESearch(h, o, w, r)
    BY <1>1, <1>3, <1>7, ESearchFields
  <2>2. sequenceSetOverlaps(n) <=> \E a, b \in DOMAIN n : a # b /\ ~Apart(n[a], n[b])
    <3> HIDE DEF n
    <3>1. QED
      BY <1>2, Overlaps
  <2>3. /\ h.duplicate <=> o.duplicate \/ sequenceSetOverlaps(n)
        /\ h.outOfWindow <=> o.outOfWindow \/ \E i \in DOMAIN n : Outside(n[i], w)
        /\ h.incomplete <=> ((o.incomplete \/ \E i \in DOMAIN n : Zero(n[i]))
                               \/ (~r.whole /\ ~sequenceSetOverlaps(n)))
    BY <2>1, Zenon DEF ByESearch
  <2>4. Readable(r, w) <=> r.whole /\ Fine(n, w)
    BY <1>7 DEF Readable
  <2>5. NewTo(o, r)
    BY <1>7 DEF NewTo
  <2> HIDE DEF n
  <2>6. Clean(h) <=> Clean(o) /\ Readable(r, w) /\ NewTo(o, r)
    BY <1>4, <2>2, <2>3, <2>4, <2>5, Zenon DEF Clean
  <2>7. QED
    BY <2>6 DEF h
<1>8. QED
  BY <1>1, <1>5, <1>6, <1>7 DEF AnyResponse

\* What it marks.
Marks(h, o, r) ==
  /\ h.searchSeen <=> o.searchSeen \/ r.kind = "search"
  /\ h.eSearchSeen <=> o.eSearchSeen \/ r.kind = "esearch"
  /\ h.uids = IF r.kind = "search" THEN o.uids \cup {r.nums[i][1] : i \in DOMAIN r.nums} ELSE o.uids

\* What one response adds to the flags and UIDs the observer keeps.
LEMMA HeardMarks ==
  ASSUME NEW o, NEW w, NEW r, NEW h, h = Heard(o, w, r)
  PROVE  Marks(h, o, r)
<1>1. h.searchSeen = (o.searchSeen \/ r.kind = "search")
  BY DEF Heard
<1>2. h.eSearchSeen = (o.eSearchSeen \/ r.kind = "esearch")
  BY DEF Heard
<1>3. h.uids = IF r.kind = "search" THEN o.uids \cup {r.nums[i][1] : i \in DOMAIN r.nums} ELSE o.uids
  BY DEF Heard
<1>4. QED
  BY <1>1, <1>2, <1>3 DEF Marks

\* UIDSearchWindow says "none": the lines are within the budget, the observer
\* has no complaint, the command is answered, and every UID is in the window.
Accepted(o, d, n, w) ==
  /\ n <= LineBudget /\ Clean(o)
  /\ o.searchSeen \/ (o.eSearchSeen /\ (d.typed => d.uids # {}))
  /\ d.typed \/ (~o.searchSeen /\ ~d.counts)
  /\ d.uids \subseteq w.Start .. w.End

Data == [typed : BOOLEAN, uids : SUBSET Nat, counts : BOOLEAN]

SearchCodes == {"none", "imap_protocol_error", "bounds_exceeded"}

Admits(b, typed, found, w) ==
  /\ b.err \in SearchCodes /\ (b.err = "none" <=> typed /\ found \subseteq w.Start .. w.End)
  /\ b.err = "none" => b.uids = found

\* boundedSearchUIDs admits the UIDs of the window.
LEMMA Bounded ==
  ASSUME NEW w, IsWindow(w), NEW found \in SUBSET Nat, NEW typed \in BOOLEAN,
         NEW b, b = boundedSearchUIDs(typed, found, w, width(w))
  PROVE  Admits(b, typed, found, w)
<1>1. w.Start \in Nat \ {0} /\ w.End \in Nat /\ w.Start <= w.End
  BY DEF IsWindow
<1>2. \A c : Failed(c).err = c
  BY DEF Failed
<1>3. Found(found).err = "none" /\ Found(found).uids = found
  BY DEF Found
<1>4. CASE found \subseteq w.Start .. w.End
  <2>1. /\ IsFiniteSet(w.Start .. w.End)
        /\ Cardinality(w.Start .. w.End) = IF w.Start > w.End THEN 0 ELSE w.End - w.Start + 1
    <3>1. w.Start \in Int /\ w.End \in Int
      BY <1>1
    <3>2. QED
      BY <3>1, FS_Interval
  <2>2. Cardinality(w.Start .. w.End) = width(w)
    BY <1>1, <2>1 DEF width
  <2>3. IsFiniteSet(found) /\ Cardinality(found) <= width(w)
    BY <1>4, <2>1, <2>2, FS_Subset
  <2>4. Cardinality(found) \in Nat /\ width(w) \in Nat
    BY <1>1, <2>3, FS_CardinalityType DEF width
  <2>5. ~(Cardinality(found) > width(w))
    BY <2>3, <2>4
  <2>6. 0 \notin found /\ ~\E u \in found : u < w.Start \/ u > w.End
    BY <1>1, <1>4
  <2>7. b = IF typed THEN Found(found) ELSE Failed("imap_protocol_error")
    BY <2>5, <2>6 DEF boundedSearchUIDs
  <2>8. QED
    BY <1>2, <1>3, <1>4, <2>7 DEF SearchCodes, Admits
<1>5. CASE ~(found \subseteq w.Start .. w.End)
  <2>1. \E u \in found : u < w.Start \/ u > w.End
    BY <1>1, <1>5
  <2>2. b = Failed("imap_protocol_error") \/ b = Failed("bounds_exceeded")
    BY <2>1 DEF boundedSearchUIDs
  <2>3. QED
    BY <1>2, <1>5, <2>2 DEF SearchCodes, Admits
<1>6. QED
  BY <1>4, <1>5

\* What UIDSearchWindow makes of a wire.
Verdict(r, o, d, n, w) ==
  /\ r.err \in SearchCodes
  /\ r.err = "none" <=> Accepted(o, d, n, w)
  /\ r.err = "none" => r.uids = d.uids

\* UIDSearchWindow accepts what neither reader objects to.
LEMMA Verdicts ==
  ASSUME NEW w, IsWindow(w), NEW wire,
         NEW o \in Observer, o = Observed(wire, w),
         NEW d \in Data, d = Decoded(wire),
         NEW n \in Nat, n = Len(Lines(wire)),
         NEW r, r = UIDSearchWindow(wire, w, width(w), LineBudget)
  PROVE  Verdict(r, o, d, n, w)
<1> DEFINE empty == ~o.searchSeen /\ ~d.typed
           clean == n <= LineBudget /\ ~o.duplicate /\ ~o.incomplete /\ ~o.outOfWindow
           mute == ~o.searchSeen /\ (~o.eSearchSeen \/ ~(d.typed => d.uids # {}))
           b == boundedSearchUIDs(d.typed \/ empty, d.uids, w, width(w))
<1>1. LineBudget \in Nat /\ width(w) \in Nat /\ width(w) >= 1
  BY ReadAssumption DEF IsWindow, width
<1>2. /\ d.typed \in BOOLEAN /\ d.uids \in SUBSET Nat /\ d.counts \in BOOLEAN
  BY DEF Data
<1>3. /\ o.searchSeen \in BOOLEAN /\ o.eSearchSeen \in BOOLEAN /\ o.duplicate \in BOOLEAN
      /\ o.incomplete \in BOOLEAN /\ o.outOfWindow \in BOOLEAN
  BY DEF Observer
<1>4. \A c : Failed(c).err = c
  BY DEF Failed
<1>5. /\ ~clean => r.err \in {"imap_protocol_error", "bounds_exceeded"}
      /\ clean /\ mute => r.err = "imap_protocol_error"
      /\ clean /\ ~mute /\ empty /\ d.counts => r.err = "imap_protocol_error"
      /\ clean /\ ~mute /\ ~(empty /\ d.counts) => r = b
  <2>1. r = CASE n > LineBudget -> Failed("bounds_exceeded")
              [] n <= LineBudget /\ (o.duplicate \/ o.incomplete) -> Failed("imap_protocol_error")
              [] n <= LineBudget /\ ~o.duplicate /\ ~o.incomplete /\ o.outOfWindow -> Failed("bounds_exceeded")
              [] clean /\ mute -> Failed("imap_protocol_error")
              [] clean /\ empty /\ d.counts -> Failed("imap_protocol_error")
              [] OTHER -> b
    BY <1>1 DEF UIDSearchWindow, eSearchAppliedToUIDSearch
  <2> HIDE DEF b
  <2>2. QED
    BY <1>1, <1>4, <2>1
<1>6. (d.typed \/ empty) \in BOOLEAN
  OBVIOUS
<1>7. /\ b.err \in SearchCodes /\ (b.err = "none" <=> (d.typed \/ empty) /\ d.uids \subseteq w.Start .. w.End)
      /\ b.err = "none" => b.uids = d.uids
  <2> DEFINE typed == d.typed \/ empty
  <2>1. b = boundedSearchUIDs(typed, d.uids, w, width(w))
    OBVIOUS
  <2>2. typed \in BOOLEAN
    BY <1>6
  <2> HIDE DEF typed, b
  <2>3. Admits(b, typed, d.uids, w)
    BY <1>2, <2>1, <2>2, Bounded
  <2>4. QED
    BY <2>3 DEF Admits, typed
<1> HIDE DEF b
<1>8. r.err \in SearchCodes
  BY <1>5, <1>7 DEF SearchCodes
<1>9. Accepted(o, d, n, w) <=>
        clean /\ ~mute /\ (d.typed \/ (~o.searchSeen /\ ~d.counts)) /\ d.uids \subseteq w.Start .. w.End
  BY DEF Accepted, Clean
<1>10. CASE clean /\ ~mute /\ ~(empty /\ d.counts)
  <2>1. r = b
    BY <1>5, <1>10
  <2>2. QED
    BY <1>7, <1>8, <1>9, <1>10, <2>1 DEF Verdict
<1>11. CASE ~(clean /\ ~mute /\ ~(empty /\ d.counts))
  <2>1. r.err # "none"
    BY <1>5, <1>11
  <2>2. QED
    BY <1>8, <1>9, <1>11, <2>1 DEF Verdict
<1>12. QED
  BY <1>10, <1>11

\* What go-imap holds is well typed.
LEMMA DecodedType ==
  ASSUME NEW d \in Data, NEW r \in AnyResponse
  PROVE  decode(d, r) \in Data
<1>1. ASSUME NEW n \in Seq(Num) PROVE UIDsOf(n) \in SUBSET Nat
  <2>1. \A i \in DOMAIN n : n[i][1] \in Nat /\ n[i][2] \in Nat
    BY DEF Num
  <2>2. QED
    BY <2>1 DEF UIDsOf
<1>2. r.nums \in Seq(Num) /\ r.tail \in Seq(Num) /\ r.all \in BOOLEAN /\ r.counts \in BOOLEAN
  BY DEF AnyResponse
<1>3. r.nums \o r.tail \in Seq(Num)
  BY <1>2, ConcatProperties
<1>4. UIDsOf(r.nums) \in SUBSET Nat /\ UIDsOf(r.nums \o r.tail) \in SUBSET Nat
  BY <1>1, <1>2, <1>3
<1>5. QED
  BY <1>2, <1>4 DEF decode, Data

\* What go-imap starts with.
LEMMA EmptyType == EmptyData \in Data
BY DEF EmptyData, Data

Answering(r) == r.kind = "search" \/ (r.kind = "esearch" /\ r.applied)

Disjoint(r, s) == \A a \in DOMAIN r.nums, b \in DOMAIN s.nums : Apart(r.nums[a], s.nums[b])

\* Unambiguous, by what it says of one response and of two.
LEMMA UnambiguousIs ==
  ASSUME NEW wire, NEW w
  PROVE  Unambiguous(wire, w, LineBudget) <=>
           /\ Len(Lines(wire)) <= LineBudget
           /\ \A i \in DOMAIN wire : Readable(wire[i], w)
           /\ \A i, j \in DOMAIN wire :
                i # j /\ wire[i].kind = "search" /\ wire[j].kind = "search" => Disjoint(wire[i], wire[j])
           /\ \E i \in DOMAIN wire : Answering(wire[i]) /\ (wire[i].all \/ ~wire[i].counts)
<1>1. \A i : i \in Answers(wire) <=> i \in DOMAIN wire /\ Answering(wire[i])
  BY DEF Answers, Answering
<1>2. \A i \in DOMAIN wire :
        Readable(wire[i], w) <=>
          /\ wire[i].kind # "unclassified" /\ wire[i].whole
          /\ wire[i].kind \in {"search", "esearch"} =>
            \A a \in DOMAIN Named(wire[i]) :
              /\ w.Start <= Named(wire[i])[a][1] /\ Named(wire[i])[a][2] <= w.End
              /\ \A b \in DOMAIN Named(wire[i]) :
                   a # b => Apart(Named(wire[i])[a], Named(wire[i])[b])
  BY Zenon DEF Readable, Fine
<1>3. (\A i \in DOMAIN wire : \A j \in DOMAIN wire \ {i} :
            wire[i].kind = "search" /\ wire[j].kind = "search" =>
              \A a \in DOMAIN wire[i].nums, b \in DOMAIN wire[j].nums :
                Apart(wire[i].nums[a], wire[j].nums[b]))
        <=> \A i, j \in DOMAIN wire :
              i # j /\ wire[i].kind = "search" /\ wire[j].kind = "search" => Disjoint(wire[i], wire[j])
  BY Zenon DEF Disjoint
<1>4. QED
  BY <1>1, <1>2, <1>3, Zenon DEF Unambiguous

\* What has to hold of every answer.
Right(wire, w) ==
  LET r == UIDSearchWindow(wire, w, width(w), LineBudget)
  IN /\ r.err \in SearchCodes
     /\ r.err = "none" <=> Unambiguous(wire, w, LineBudget)
     /\ r.err = "none" => r.uids \in SUBSET (w.Start .. w.End)
     /\ r.err = "none" /\ Truthful(wire, w, box.mail) => r.uids = box.mail \cap (w.Start .. w.End)

\* A wire the two readers and the reference agree on.
Agree(wire, w, o, d) ==
  /\ Len(Lines(wire)) <= LineBudget =>
       (Accepted(o, d, Len(Lines(wire)), w) <=> Unambiguous(wire, w, LineBudget))
  /\ Accepted(o, d, Len(Lines(wire)), w) /\ Truthful(wire, w, box.mail) =>
       d.uids = box.mail \cap (w.Start .. w.End)

\* Where the readers agree with the reference, the answer is judged rightly.
LEMMA AgreedIsRight ==
  ASSUME NEW w, IsWindow(w), NEW wire, Lines(wire) \in Seq(AnyLine),
         NEW o \in Observer, o = Observed(wire, w), NEW d \in Data, d = Decoded(wire),
         Agree(wire, w, o, d)
  PROVE  Right(wire, w)
<1> DEFINE r == UIDSearchWindow(wire, w, width(w), LineBudget)  n == Len(Lines(wire))
<1>1. n \in Nat
  OBVIOUS
<1>2. r = UIDSearchWindow(wire, w, width(w), LineBudget) /\ n = Len(Lines(wire))
  OBVIOUS
<1> HIDE DEF r, n
<1>3. Verdict(r, o, d, n, w)
  BY <1>1, <1>2, Verdicts
<1>4. Unambiguous(wire, w, LineBudget) => n <= LineBudget
  BY <1>2, UnambiguousIs
<1>5. Accepted(o, d, n, w) => n <= LineBudget /\ d.uids \subseteq w.Start .. w.End
  BY DEF Accepted
<1>6. /\ Accepted(o, d, n, w) <=> Unambiguous(wire, w, LineBudget)
      /\ Accepted(o, d, n, w) /\ Truthful(wire, w, box.mail) =>
           d.uids = box.mail \cap (w.Start .. w.End)
  BY <1>2, <1>4, <1>5 DEF Agree
<1>7. /\ r.err \in SearchCodes /\ (r.err = "none" <=> Accepted(o, d, n, w))
      /\ r.err = "none" => r.uids = d.uids
  BY <1>3 DEF Verdict
<1>8. /\ r.err \in SearchCodes
      /\ r.err = "none" <=> Unambiguous(wire, w, LineBudget)
      /\ r.err = "none" => r.uids \in SUBSET (w.Start .. w.End)
      /\ r.err = "none" /\ Truthful(wire, w, box.mail) => r.uids = box.mail \cap (w.Start .. w.End)
  BY <1>5, <1>6, <1>7
<1>9. QED
  BY <1>8 DEF Right, r

\* The UIDs of a fine list are in the window.
LEMMA FineUIDs ==
  ASSUME NEW w, IsWindow(w), NEW n \in Seq(Num), Fine(n, w)
  PROVE  UIDsOf(n) \subseteq w.Start .. w.End
<1>1. \A i \in DOMAIN n : n[i][1] \in Nat /\ n[i][2] \in Nat /\ w.Start <= n[i][1] /\ n[i][2] <= w.End
  BY DEF Num, Fine
<1>2. QED
  BY <1>1 DEF UIDsOf, IsWindow

\* Some number is some UID.
LEMMA SomeUID ==
  ASSUME NEW n \in Seq(Num), \A i \in DOMAIN n : n[i][1] <= n[i][2]
  PROVE  UIDsOf(n) = {} <=> n = <<>>
<1>1. ASSUME n # <<>> PROVE UIDsOf(n) # {}
  <2>1. 1 \in DOMAIN n /\ n[1][1] \in Nat /\ n[1][2] \in Nat
    BY <1>1 DEF Num
  <2>2. n[1][1] \in n[1][1] .. n[1][2]
    BY <2>1
  <2>3. QED
    BY <2>1, <2>2 DEF UIDsOf
<1>2. UIDsOf(<<>>) = {}
  BY DEF UIDsOf
<1>3. QED
  BY <1>1, <1>2

\* What is known of a well-formed response.
LEMMA WellFormedIs ==
  ASSUME NEW r, WellFormed(r)
  PROVE  /\ r \in AnyResponse /\ Hearable(r) /\ LinesOf(r) \in Seq(AnyLine) /\ Named(r) \in Seq(Num)
         /\ r.kind = "search" => Named(r) = r.nums
         /\ r.kind = "esearch" => Named(r) = r.nums \o r.tail
<1>1. Hearable(r) /\ r \in AnyResponse
  BY DEF WellFormed, Hearable, Plain, Literal
<1>2. r.nums \in Seq(Num) /\ r.tail \in Seq(Num)
  BY <1>1 DEF AnyResponse
<1>3. Named(r) \in Seq(Num)
  BY <1>2, ConcatProperties DEF Named
<1>4. QED
  BY <1>1, <1>3, LinesAre DEF Named

\* A SEARCH adds to what go-imap holds; what answers nothing adds nothing.
Added(e, d, r) == e.typed = TRUE /\ e.uids = d.uids \cup UIDsOf(r.nums) /\ e.counts = d.counts

\* A SEARCH adds its UIDs.
LEMMA DecodeSearch ==
  ASSUME NEW d \in Data, NEW r, r.kind = "search", NEW e, e = decode(d, r)
  PROVE  Added(e, d, r)
BY DEF decode, Data, Added

\* What answers nothing changes nothing.
LEMMA DecodeNothing ==
  ASSUME NEW d, NEW r, ~Answering(r)
  PROVE  decode(d, r) = d
BY DEF decode, Answering

\* An ESEARCH replaces what was there.
LEMMA DecodeESearch ==
  ASSUME NEW d, NEW r, r.kind = "esearch", r.applied, NEW e, e = decode(d, r)
  PROVE  e.typed = r.all /\ e.uids = UIDsOf(Named(r)) /\ e.counts = r.counts
BY DEF decode, Named

\* The empty observer.
LEMMA BeginClean ==
  /\ Clean(beginSearch) /\ beginSearch.uids = {}
  /\ beginSearch.searchSeen = FALSE /\ beginSearch.eSearchSeen = FALSE
BY DEF beginSearch, Clean

\* The truth, told by SEARCH responses ...
LEMMA TruthBySearch ==
  ASSUME NEW wire, NEW w, NEW m, Truthful(wire, w, m), NEW k \in DOMAIN wire, wire[k].kind = "search"
  PROVE  UNION {UIDsOf(wire[i].nums) : i \in Answers(wire)} = m \cap (w.Start .. w.End)
<1>1. k \in Answers(wire)
  BY DEF Answers
<1>2. ASSUME NEW i \in Answers(wire), Answers(wire) = {i}, wire[i].kind = "esearch" PROVE FALSE
  BY <1>1, <1>2
<1>3. QED
  BY <1>1, <1>2, Zenon DEF Truthful

\* ... and by one ESEARCH.
LEMMA TruthByESearch ==
  ASSUME NEW wire, NEW w, NEW m, Truthful(wire, w, m), NEW k \in DOMAIN wire,
         wire[k].kind = "esearch", wire[k].applied
  PROVE  /\ Answers(wire) = {k}
         /\ wire[k].all => UIDsOf(Named(wire[k])) = m \cap (w.Start .. w.End)
         /\ ~wire[k].all => wire[k].counts \/ m \cap (w.Start .. w.End) = {}
<1>1. k \in Answers(wire)
  BY DEF Answers
<1>2. PICK i \in Answers(wire) :
        /\ Answers(wire) = {i} /\ wire[i].kind = "esearch"
        /\ IF wire[i].all THEN UIDsOf(Named(wire[i])) = m \cap (w.Start .. w.End)
           ELSE wire[i].counts \/ m \cap (w.Start .. w.End) = {}
  <2>1. Answers(wire) # {} /\ wire[k].kind # "search"
    BY <1>1
  <2>2. QED
    BY <1>1, <2>1 DEF Truthful
<1>3. i = k
  BY <1>1, <1>2
<1>4. QED
  BY <1>2, <1>3

\* Nothing at all.
LEMMA NoneIsRight ==
  ASSUME NEW w, IsWindow(w) PROVE Right(<<>>, w)
<1>1. Lines(<<>>) = <<>> /\ <<>> \in Seq(AnyLine)
  BY LinesOfNone
<1>2. Observed(<<>>, w) = beginSearch /\ Decoded(<<>>) = EmptyData
  BY ObservedNone, DecodedNone
<1>3. ~Unambiguous(<<>>, w, LineBudget)
  <2>1. DOMAIN <<>> = {}
    OBVIOUS
  <2>2. QED
    BY <2>1, UnambiguousIs
<1>4. ~Accepted(beginSearch, EmptyData, Len(Lines(<<>>)), w)
  BY BeginClean DEF Accepted
<1>5. Agree(<<>>, w, beginSearch, EmptyData)
  BY <1>3, <1>4 DEF Agree
<1>6. beginSearch \in Observer
  BY BeginRests DEF Resting
<1>7. QED
  BY <1>1, <1>2, <1>5, <1>6, EmptyType, AgreedIsRight

\* One response.
LEMMA OneIsRight ==
  ASSUME NEW w, IsWindow(w), NEW a, WellFormed(a), a.kind \in {"search", "esearch"}
  PROVE  Right(<<a>>, w)
<1> DEFINE wire == <<a>>  o == Heard(beginSearch, w, a)  d == decode(EmptyData, a)
           n == Len(Lines(wire))
<1>1. /\ a \in AnyResponse /\ Hearable(a) /\ LinesOf(a) \in Seq(AnyLine) /\ Named(a) \in Seq(Num)
      /\ a.kind = "search" => Named(a) = a.nums
  BY WellFormedIs
<1>2. Lines(wire) \in Seq(AnyLine)
  BY <1>1, LinesOfOne
<1>3. Observed(wire, w) = o /\ Decoded(wire) = d
  BY <1>1, ObservedOne, DecodedOne
<1>4. DOMAIN wire = {1} /\ wire[1] = a
  OBVIOUS
<1>5. o \in Observer /\ d \in Data
  BY <1>1, HeardRests, BeginRests, DecodedType, EmptyType DEF Resting
<1>6. Clean(o) <=> Readable(a, w)
  <2>1. NewTo(beginSearch, a)
    BY BeginClean DEF NewTo
  <2>2. Clean(o) <=> Clean(beginSearch) /\ Readable(a, w) /\ NewTo(beginSearch, a)
    BY BeginRests, HeardClean
  <2> HIDE DEF o
  <2>3. QED
    BY <2>1, <2>2, BeginClean
<1>7. (o.searchSeen <=> a.kind = "search") /\ (o.eSearchSeen <=> a.kind = "esearch")
  <2>1. Marks(o, beginSearch, a)
    BY HeardMarks
  <2> HIDE DEF o
  <2>2. QED
    BY <2>1, BeginClean DEF Marks
<1>8. d = decode(EmptyData, a)
  OBVIOUS
<1> HIDE DEF wire, o, d, n
<1>9. Unambiguous(wire, w, LineBudget) <=>
        n <= LineBudget /\ Readable(a, w) /\ Answering(a) /\ (a.all \/ ~a.counts)
  BY <1>4, UnambiguousIs DEF n
<1>10. Readable(a, w) => UIDsOf(Named(a)) \subseteq w.Start .. w.End
  BY <1>1, FineUIDs DEF Readable
<1>11. ASSUME a.kind = "search" PROVE Agree(wire, w, o, d)
  <2>1. d.typed = TRUE /\ d.uids = UIDsOf(Named(a)) /\ d.counts = FALSE
    <3>1. Added(d, EmptyData, a)
      BY <1>8, <1>11, EmptyType, DecodeSearch
    <3>2. EmptyData.uids = {} /\ EmptyData.counts = FALSE
      BY DEF EmptyData
    <3>3. QED
      BY <1>1, <1>11, <3>1, <3>2 DEF Added
  <2>2. Accepted(o, d, n, w) <=> n <= LineBudget /\ Readable(a, w)
    BY <1>6, <1>7, <1>10, <1>11, <2>1 DEF Accepted
  <2>3. ~a.counts /\ Answering(a)
    BY <1>11 DEF WellFormed, Answering
  <2>4. Truthful(wire, w, box.mail) => d.uids = box.mail \cap (w.Start .. w.End)
    <3> HAVE Truthful(wire, w, box.mail)
    <3>1. Answers(wire) = {1}
      BY <1>4, <1>11 DEF Answers
    <3>2. UNION {UIDsOf(wire[i].nums) : i \in Answers(wire)} = box.mail \cap (w.Start .. w.End)
      BY <1>4, <1>11, TruthBySearch
    <3>3. QED
      BY <1>1, <1>4, <1>11, <2>1, <3>1, <3>2
  <2>5. QED
    BY <1>9, <2>2, <2>3, <2>4 DEF Agree, n
<1>12. ASSUME a.kind = "esearch" /\ a.applied PROVE Agree(wire, w, o, d)
  <2>1. d.typed = a.all /\ d.uids = UIDsOf(Named(a)) /\ d.counts = a.counts
    BY <1>8, <1>12, DecodeESearch
  <2>2. (a.all <=> Named(a) # <<>>) /\ (UIDsOf(Named(a)) = {} <=> Named(a) = <<>>)
    BY <1>1, <1>12, SomeUID DEF WellFormed
  <2>3. Accepted(o, d, n, w) <=> n <= LineBudget /\ Readable(a, w) /\ (a.all \/ ~a.counts)
    BY <1>6, <1>7, <1>10, <1>12, <2>1, <2>2 DEF Accepted
  <2>4. Answering(a)
    BY <1>12 DEF Answering
  <2>5. Truthful(wire, w, box.mail) /\ (a.all \/ ~a.counts) => d.uids = box.mail \cap (w.Start .. w.End)
    <3> HAVE Truthful(wire, w, box.mail) /\ (a.all \/ ~a.counts)
    <3>1. /\ a.all => UIDsOf(Named(a)) = box.mail \cap (w.Start .. w.End)
          /\ ~a.all => a.counts \/ box.mail \cap (w.Start .. w.End) = {}
      BY <1>4, <1>12, TruthByESearch
    <3>2. QED
      BY <2>1, <2>2, <3>1
  <2>6. QED
    BY <1>9, <2>3, <2>4, <2>5 DEF Agree, n
<1>13. ASSUME a.kind = "esearch" /\ ~a.applied PROVE Agree(wire, w, o, d)
  <2>1. ~Answering(a)
    BY <1>13 DEF Answering
  <2>2. d.typed = TRUE /\ d.uids = {}
    BY <1>8, <2>1, DecodeNothing DEF EmptyData
  <2>3. ~Accepted(o, d, n, w)
    BY <1>7, <1>13, <2>2 DEF Accepted
  <2>4. QED
    BY <1>9, <2>1, <2>3 DEF Agree, n
<1>14. QED
  <2>1. Agree(wire, w, o, d)
    BY <1>11, <1>12, <1>13
  <2>2. Right(wire, w)
    BY <1>2, <1>3, <1>5, <2>1, AgreedIsRight
  <2>3. QED
    BY <2>2 DEF wire

\* SEARCH responses are apart exactly when the second brings new UIDs.
LEMMA DisjointSearches ==
  ASSUME NEW a, WellFormed(a), a.kind = "search", NEW b, WellFormed(b), b.kind = "search",
         NEW h, h.uids = {a.nums[i][1] : i \in DOMAIN a.nums}
  PROVE  (NewTo(h, b) <=> Disjoint(a, b)) /\ (NewTo(h, b) <=> Disjoint(b, a))
<1>1. /\ \A i \in DOMAIN a.nums : a.nums[i] \in Num /\ a.nums[i][1] = a.nums[i][2]
      /\ \A i \in DOMAIN b.nums : b.nums[i] \in Num /\ b.nums[i][1] = b.nums[i][2]
  <2>1. a.nums \in Seq(Num) /\ b.nums \in Seq(Num)
    BY WellFormedIs DEF AnyResponse
  <2>2. QED
    BY <2>1 DEF WellFormed
<1>2. \A i \in DOMAIN a.nums, j \in DOMAIN b.nums :
        /\ Apart(a.nums[i], b.nums[j]) <=> a.nums[i][1] # b.nums[j][1]
        /\ Apart(b.nums[j], a.nums[i]) <=> a.nums[i][1] # b.nums[j][1]
  BY <1>1 DEF Num, Apart
<1>3. NewTo(h, b) <=> \A i \in DOMAIN a.nums, j \in DOMAIN b.nums : a.nums[i][1] # b.nums[j][1]
  BY DEF NewTo
<1>4. QED
  BY <1>2, <1>3, Zenon DEF Disjoint

\* Two responses: a SEARCH after what answers nothing, two SEARCH, two ESEARCH.
LEMMA TwoIsRight ==
  ASSUME NEW w, IsWindow(w), NEW a, WellFormed(a), NEW b, WellFormed(b),
         \/ b.kind = "search" /\ (~Answering(a) \/ a.kind = "search")
         \/ /\ a.kind = "esearch" /\ a.applied /\ ~a.counts
            /\ b.kind = "esearch" /\ b.applied /\ ~b.counts
  PROVE  Right(<<a, b>>, w)
<1> DEFINE wire == <<a, b>>  h == Heard(beginSearch, w, a)  o == Heard(h, w, b)
           e == decode(EmptyData, a)  d == decode(e, b)
           n == Len(Lines(wire))
<1>1. /\ a \in AnyResponse /\ Hearable(a) /\ LinesOf(a) \in Seq(AnyLine) /\ Named(a) \in Seq(Num)
      /\ b \in AnyResponse /\ Hearable(b) /\ LinesOf(b) \in Seq(AnyLine) /\ Named(b) \in Seq(Num)
      /\ a.kind = "search" => Named(a) = a.nums
      /\ b.kind = "search" => Named(b) = b.nums
  BY WellFormedIs
<1>2. Lines(wire) \in Seq(AnyLine)
  <2>1. LinesOf(a) \o LinesOf(b) \in Seq(AnyLine)
    BY <1>1, ConcatProperties
  <2>2. QED
    BY <2>1, LinesOfTwo
<1>3. Observed(wire, w) = o /\ Decoded(wire) = d
  <2>1. Observed(wire, w) = o
    BY <1>1, ObservedTwo
  <2>2. Decoded(wire) = d
    BY DecodedTwo
  <2>3. QED
    BY <2>1, <2>2
<1>4. DOMAIN wire = {1, 2} /\ wire[1] = a /\ wire[2] = b
  OBVIOUS
<1>5. Resting(h) /\ e \in Data
  BY <1>1, HeardRests, BeginRests, DecodedType, EmptyType
<1>6. (Clean(h) <=> Readable(a, w)) /\ Marks(h, beginSearch, a)
  <2>1. NewTo(beginSearch, a)
    BY BeginClean DEF NewTo
  <2>2. Clean(h) <=> Clean(beginSearch) /\ Readable(a, w) /\ NewTo(beginSearch, a)
    BY BeginRests, HeardClean
  <2>3. Marks(h, beginSearch, a)
    BY HeardMarks
  <2> HIDE DEF h
  <2>4. QED
    BY <2>1, <2>2, <2>3, BeginClean
<1>7. e = decode(EmptyData, a) /\ d = decode(e, b)
  OBVIOUS
<1> HIDE DEF h, e
<1>8. o \in Observer /\ d \in Data
  BY <1>1, <1>5, HeardRests, DecodedType DEF Resting
<1>9. (Clean(o) <=> Readable(a, w) /\ Readable(b, w) /\ NewTo(h, b)) /\ Marks(o, h, b)
  <2>1. Clean(o) <=> Clean(h) /\ Readable(b, w) /\ NewTo(h, b)
    BY <1>5, HeardClean
  <2>2. Marks(o, h, b)
    BY HeardMarks
  <2> HIDE DEF o
  <2>3. QED
    BY <1>6, <2>1, <2>2
<1> HIDE DEF wire, o, d, n
<1>10. Unambiguous(wire, w, LineBudget) <=>
         /\ n <= LineBudget /\ Readable(a, w) /\ Readable(b, w)
         /\ a.kind = "search" /\ b.kind = "search" => Disjoint(a, b) /\ Disjoint(b, a)
         /\ \/ Answering(a) /\ (a.all \/ ~a.counts)
            \/ Answering(b) /\ (b.all \/ ~b.counts)
  <2>1. (\A i \in DOMAIN wire : Readable(wire[i], w)) <=> Readable(a, w) /\ Readable(b, w)
    BY <1>4
  <2>2. (\A i, j \in DOMAIN wire :
           i # j /\ wire[i].kind = "search" /\ wire[j].kind = "search" => Disjoint(wire[i], wire[j]))
          <=> (a.kind = "search" /\ b.kind = "search" => Disjoint(a, b) /\ Disjoint(b, a))
    BY <1>4
  <2>3. (\E i \in DOMAIN wire : Answering(wire[i]) /\ (wire[i].all \/ ~wire[i].counts))
          <=> \/ Answering(a) /\ (a.all \/ ~a.counts)
              \/ Answering(b) /\ (b.all \/ ~b.counts)
    BY <1>4
  <2>4. n = Len(Lines(wire))
    BY DEF n
  <2>5. QED
    BY <2>1, <2>2, <2>3, <2>4, UnambiguousIs, Zenon
<1>11. /\ o.searchSeen <=> a.kind = "search" \/ b.kind = "search"
       /\ o.eSearchSeen <=> a.kind = "esearch" \/ b.kind = "esearch"
       /\ a.kind # "search" => h.uids = {}
       /\ a.kind = "search" => h.uids = {a.nums[i][1] : i \in DOMAIN a.nums}
  BY <1>6, <1>9, BeginClean DEF Marks
<1>12. /\ Readable(a, w) /\ a.kind \in {"search", "esearch"} => UIDsOf(Named(a)) \subseteq w.Start .. w.End
       /\ Readable(b, w) /\ b.kind \in {"search", "esearch"} => UIDsOf(Named(b)) \subseteq w.Start .. w.End
  BY <1>1, FineUIDs DEF Readable
<1>13. EmptyData.typed = TRUE /\ EmptyData.uids = {} /\ EmptyData.counts = FALSE
  BY DEF EmptyData
<1>14. ASSUME b.kind = "search", ~Answering(a) PROVE Agree(wire, w, o, d)
  <2>1. e = EmptyData
    BY <1>7, <1>14, DecodeNothing
  <2>2. d.typed = TRUE /\ d.uids = UIDsOf(Named(b)) /\ d.counts = FALSE
    <3>1. Added(d, e, b)
      BY <1>5, <1>7, <1>14, DecodeSearch
    <3>2. QED
      BY <1>1, <1>13, <1>14, <2>1, <3>1 DEF Added
  <2>3. a.kind # "search" /\ Answering(b) /\ ~b.counts
    BY <1>14 DEF Answering, WellFormed
  <2>4. NewTo(h, b)
    BY <1>11, <2>3 DEF NewTo
  <2>5. Accepted(o, d, n, w) <=> n <= LineBudget /\ Readable(a, w) /\ Readable(b, w)
    BY <1>9, <1>11, <1>12, <1>14, <2>2, <2>4 DEF Accepted
  <2>6. Truthful(wire, w, box.mail) => d.uids = box.mail \cap (w.Start .. w.End)
    <3> HAVE Truthful(wire, w, box.mail)
    <3>1. Answers(wire) = {2}
      BY <1>4, <1>14 DEF Answers, Answering
    <3>2. UNION {UIDsOf(wire[i].nums) : i \in Answers(wire)} = box.mail \cap (w.Start .. w.End)
      BY <1>4, <1>14, TruthBySearch
    <3>3. QED
      BY <1>1, <1>4, <1>14, <2>2, <3>1, <3>2
  <2>7. QED
    BY <1>10, <2>3, <2>5, <2>6 DEF Agree, n
<1>15. ASSUME b.kind = "search", a.kind = "search" PROVE Agree(wire, w, o, d)
  <2>1. e.uids = UIDsOf(Named(a)) /\ e.counts = FALSE
    <3>1. Added(e, EmptyData, a)
      BY <1>7, <1>15, EmptyType, DecodeSearch
    <3>2. QED
      BY <1>1, <1>13, <1>15, <3>1 DEF Added
  <2>2. d.typed = TRUE /\ d.uids = UIDsOf(Named(a)) \cup UIDsOf(Named(b)) /\ d.counts = FALSE
    <3>1. Added(d, e, b)
      BY <1>5, <1>7, <1>15, DecodeSearch
    <3>2. QED
      BY <1>1, <1>15, <2>1, <3>1 DEF Added
  <2>3. Answering(b) /\ ~b.counts
    BY <1>15 DEF Answering, WellFormed
  <2>4. (NewTo(h, b) <=> Disjoint(a, b)) /\ (NewTo(h, b) <=> Disjoint(b, a))
    BY <1>11, <1>15, DisjointSearches
  <2>5. Accepted(o, d, n, w) <=> n <= LineBudget /\ Readable(a, w) /\ Readable(b, w) /\ NewTo(h, b)
    BY <1>9, <1>11, <1>12, <1>15, <2>2 DEF Accepted
  <2>6. Truthful(wire, w, box.mail) => d.uids = box.mail \cap (w.Start .. w.End)
    <3> HAVE Truthful(wire, w, box.mail)
    <3>1. Answers(wire) = {1, 2}
      BY <1>4, <1>15 DEF Answers
    <3>2. UNION {UIDsOf(wire[i].nums) : i \in Answers(wire)} = box.mail \cap (w.Start .. w.End)
      BY <1>4, <1>15, TruthBySearch
    <3>3. QED
      BY <1>1, <1>4, <1>15, <2>2, <3>1, <3>2
  <2>7. QED
    BY <1>10, <1>15, <2>3, <2>4, <2>5, <2>6 DEF Agree, n
<1>16. ASSUME a.kind = "esearch", a.applied, ~a.counts, b.kind = "esearch", b.applied, ~b.counts
       PROVE  Agree(wire, w, o, d)
  <2>1. d.typed = b.all /\ d.uids = UIDsOf(Named(b)) /\ d.counts = b.counts
    BY <1>7, <1>16, DecodeESearch
  <2>2. (b.all <=> Named(b) # <<>>) /\ (UIDsOf(Named(b)) = {} <=> Named(b) = <<>>)
    BY <1>1, <1>16, SomeUID DEF WellFormed
  <2>3. NewTo(h, b) /\ Answering(a) /\ Answering(b)
    BY <1>16 DEF NewTo, Answering
  <2>4. Accepted(o, d, n, w) <=> n <= LineBudget /\ Readable(a, w) /\ Readable(b, w)
    BY <1>9, <1>11, <1>12, <1>16, <2>1, <2>2, <2>3 DEF Accepted
  <2>5. ~Truthful(wire, w, box.mail)
    <3> SUFFICES ASSUME Truthful(wire, w, box.mail) PROVE FALSE
      OBVIOUS
    <3>1. Answers(wire) = {1} /\ 2 \in Answers(wire)
      BY <1>4, <1>16, TruthByESearch DEF Answers
    <3>2. QED
      BY <3>1
  <2>6. QED
    BY <1>10, <1>16, <2>3, <2>4, <2>5 DEF Agree, n
<1>17. QED
  <2>1. Agree(wire, w, o, d)
    BY <1>14, <1>15, <1>16
  <2>2. Right(wire, w)
    BY <1>2, <1>3, <1>8, <2>1, AgreedIsRight
  <2>3. QED
    BY <2>2 DEF wire

\* go-imap on two responses that answer nothing, and a third.
LEMMA DecodedQuiet ==
  ASSUME NEW a, NEW b, NEW c, ~Answering(a), ~Answering(b)
  PROVE  Decoded(<<a, b, c>>) = decode(EmptyData, c)
<1>1. decode(EmptyData, a) = EmptyData /\ decode(EmptyData, b) = EmptyData
  BY DecodeNothing
<1>2. <<a>> \o <<b, c>> = <<a, b, c>> /\ <<b, c>> \in Seq({b, c})
  BY FirstAndTwo
<1>3. Fold("go-imap", 0, EmptyData, <<a>> \o <<b, c>>) = Fold("go-imap", 0, decode(EmptyData, a), <<b, c>>)
  <2>1. \A q \in Seq({b, c}) :
          Fold("go-imap", 0, EmptyData, <<a>> \o q) = Fold("go-imap", 0, decode(EmptyData, a), q)
    BY FirstDecoded
  <2>2. QED
    BY <1>2, <2>1
<1>4. Fold("go-imap", 0, EmptyData, <<b, c>>) = decode(decode(EmptyData, b), c)
  BY PairDecoded
<1>5. Decoded(<<a, b, c>>) = Fold("go-imap", 0, EmptyData, <<a, b, c>>)
  BY DecodedIs
<1>6. QED
  BY <1>1, <1>2, <1>3, <1>4, <1>5

\* Two responses that answer nothing, and a SEARCH.
LEMMA ThreeIsRight ==
  ASSUME NEW w, IsWindow(w), NEW a, WellFormed(a), NEW b, WellFormed(b), NEW c, WellFormed(c),
         ~Answering(a), ~Answering(b), c.kind = "search"
  PROVE  Right(<<a, b, c>>, w)
<1> DEFINE wire == <<a, b, c>>  h == Heard(beginSearch, w, a)  k == Heard(h, w, b)
           o == Heard(k, w, c)  d == decode(EmptyData, c)  n == Len(Lines(wire))
<1>1. /\ a \in AnyResponse /\ Hearable(a) /\ LinesOf(a) \in Seq(AnyLine)
      /\ b \in AnyResponse /\ Hearable(b) /\ LinesOf(b) \in Seq(AnyLine)
      /\ c \in AnyResponse /\ Hearable(c) /\ LinesOf(c) \in Seq(AnyLine) /\ Named(c) \in Seq(Num)
      /\ Named(c) = c.nums /\ a.kind # "search" /\ b.kind # "search"
  BY WellFormedIs DEF Answering
<1>2. Lines(wire) \in Seq(AnyLine)
  <2> DEFINE m == LinesOf(a) \o LinesOf(b)
  <2>1. m \in Seq(AnyLine)
    BY <1>1, ConcatProperties
  <2>2. LinesOfBoth(m, a, b)
    BY DEF LinesOfBoth
  <2> HIDE DEF m
  <2>3. Lines(<<a, b, c>>) = m \o LinesOf(c)
    BY <2>2, LinesOfThree
  <2>4. m \o LinesOf(c) \in Seq(AnyLine)
    BY <1>1, <2>1, ConcatProperties
  <2>5. QED
    BY <2>3, <2>4
<1>3. Observed(wire, w) = o /\ Decoded(wire) = d
  <2>1. Observed(wire, w) = o
    BY <1>1, ObservedThree
  <2>2. Decoded(wire) = d
    BY DecodedQuiet
  <2>3. QED
    BY <2>1, <2>2
<1>4. DOMAIN wire = {1, 2, 3} /\ wire[1] = a /\ wire[2] = b /\ wire[3] = c
  OBVIOUS
<1>5. (Clean(h) <=> Readable(a, w)) /\ Marks(h, beginSearch, a) /\ Resting(h)
  <2>1. NewTo(beginSearch, a)
    BY BeginClean DEF NewTo
  <2>2. Clean(h) <=> Clean(beginSearch) /\ Readable(a, w) /\ NewTo(beginSearch, a)
    BY BeginRests, HeardClean
  <2>3. Marks(h, beginSearch, a) /\ Resting(h)
    BY <1>1, HeardMarks, HearableRests, BeginRests
  <2> HIDE DEF h
  <2>4. QED
    BY <2>1, <2>2, <2>3, BeginClean
<1> HIDE DEF h
<1>6. (Clean(k) <=> Readable(a, w) /\ Readable(b, w)) /\ Marks(k, h, b) /\ Resting(k)
  <2>1. NewTo(h, b)
    BY <1>1 DEF NewTo
  <2>2. Clean(k) <=> Clean(h) /\ Readable(b, w) /\ NewTo(h, b)
    BY <1>5, HeardClean
  <2>3. Marks(k, h, b) /\ Resting(k)
    BY <1>1, <1>5, HeardMarks, HearableRests
  <2> HIDE DEF k
  <2>4. QED
    BY <1>5, <2>1, <2>2, <2>3
<1> HIDE DEF k
<1>7. k.uids = {}
  BY <1>1, <1>5, <1>6, BeginClean DEF Marks
<1>8. /\ Clean(o) <=> Readable(a, w) /\ Readable(b, w) /\ Readable(c, w)
      /\ o.searchSeen /\ o \in Observer
  <2>1. NewTo(k, c)
    BY <1>7 DEF NewTo
  <2>2. Clean(o) <=> Clean(k) /\ Readable(c, w) /\ NewTo(k, c)
    BY <1>6, HeardClean
  <2>3. Marks(o, k, c) /\ Resting(o)
    BY <1>1, <1>6, HeardMarks, HearableRests
  <2> HIDE DEF o
  <2>4. QED
    BY <1>6, <2>1, <2>2, <2>3 DEF Marks, Resting
<1>9. d \in Data /\ d.typed = TRUE /\ d.uids = UIDsOf(Named(c)) /\ d.counts = FALSE
  <2>1. d \in Data
    BY <1>1, EmptyType, DecodedType
  <2>2. Added(d, EmptyData, c)
    BY EmptyType, DecodeSearch
  <2>3. EmptyData.uids = {} /\ EmptyData.counts = FALSE
    BY DEF EmptyData
  <2> HIDE DEF d
  <2>4. QED
    BY <1>1, <2>1, <2>2, <2>3 DEF Added
<1> HIDE DEF wire, o, d, n
<1>10. Unambiguous(wire, w, LineBudget) <=>
         n <= LineBudget /\ Readable(a, w) /\ Readable(b, w) /\ Readable(c, w)
  <2>1. (\A i \in DOMAIN wire : Readable(wire[i], w)) <=>
          Readable(a, w) /\ Readable(b, w) /\ Readable(c, w)
    BY <1>4
  <2>2. \A i, j \in DOMAIN wire :
          i # j /\ wire[i].kind = "search" /\ wire[j].kind = "search" => Disjoint(wire[i], wire[j])
    BY <1>1, <1>4
  <2>3. \E i \in DOMAIN wire : Answering(wire[i]) /\ (wire[i].all \/ ~wire[i].counts)
    <3>1. 3 \in DOMAIN wire /\ Answering(wire[3]) /\ ~wire[3].counts
      BY <1>4 DEF Answering, WellFormed
    <3>2. QED
      BY <3>1
  <2>4. n = Len(Lines(wire))
    BY DEF n
  <2>5. QED
    BY <2>1, <2>2, <2>3, <2>4, UnambiguousIs, Zenon
<1>11. Readable(c, w) => UIDsOf(Named(c)) \subseteq w.Start .. w.End
  BY <1>1, FineUIDs DEF Readable
<1>12. Accepted(o, d, n, w) <=>
         n <= LineBudget /\ Readable(a, w) /\ Readable(b, w) /\ Readable(c, w)
  BY <1>8, <1>9, <1>11 DEF Accepted
<1>13. Truthful(wire, w, box.mail) => d.uids = box.mail \cap (w.Start .. w.End)
  <2> HAVE Truthful(wire, w, box.mail)
  <2>1. Answers(wire) = {3}
    BY <1>4 DEF Answers, Answering
  <2>2. UNION {UIDsOf(wire[i].nums) : i \in Answers(wire)} = box.mail \cap (w.Start .. w.End)
    BY <1>4, TruthBySearch
  <2>3. QED
    BY <1>1, <1>4, <1>9, <2>1, <2>2
<1>14. Agree(wire, w, o, d)
  BY <1>10, <1>12, <1>13 DEF Agree, n
<1>15. Right(wire, w)
  BY <1>2, <1>3, <1>8, <1>9, <1>14, AgreedIsRight
<1>16. QED
  BY <1>15 DEF wire

-----------------------------------------------------------------------------
(* The answers of the server.                                              *)

Single(n) == n \in Seq(Num) /\ \A i \in DOMAIN n : n[i][1] = n[i][2]

\* Lists of single numbers.
LEMMA SingleOnly == ASSUME NEW u \in Nat PROVE Single(<<Only(u)>>)
BY DEF Single, Only, Num

\* Single numbers after single numbers.
LEMMA SingleConcat ==
  ASSUME NEW m, Single(m), NEW n, Single(n) PROVE Single(m \o n)
<1>1. m \in Seq(Num) /\ n \in Seq(Num)
  BY DEF Single
<1>2. /\ m \o n \in Seq(Num) /\ Len(m \o n) = Len(m) + Len(n)
      /\ \A i \in 1 .. Len(m) + Len(n) : (m \o n)[i] = IF i <= Len(m) THEN m[i] ELSE n[i - Len(m)]
  BY <1>1, ConcatProperties
<1>3. ASSUME NEW i \in DOMAIN (m \o n) PROVE (m \o n)[i][1] = (m \o n)[i][2]
  <2>1. i \in 1 .. Len(m) + Len(n)
    BY <1>2
  <2>2. CASE i <= Len(m)
    BY <1>1, <1>2, <2>1, <2>2 DEF Single
  <2>3. CASE ~(i <= Len(m))
    <3>1. i - Len(m) \in DOMAIN n /\ (m \o n)[i] = n[i - Len(m)]
      BY <1>1, <1>2, <2>1, <2>3
    <3>2. QED
      BY <3>1 DEF Single
  <2>4. QED
    BY <2>2, <2>3
<1>4. QED
  BY <1>2, <1>3 DEF Single

\* The first of single numbers, and the rest of them.
LEMMA SingleParts ==
  ASSUME NEW n, Single(n) PROVE Single(FirstOf(n)) /\ Single(RestOf(n))
<1>1. n \in Seq(Num) /\ \A i \in DOMAIN n : n[i][1] = n[i][2]
  BY DEF Single
<1>2. CASE n = <<>>
  BY <1>2 DEF FirstOf, RestOf
<1>3. CASE n # <<>>
  <2>1. Head(n) = n[1] /\ 1 \in DOMAIN n /\ n[1] \in Num
    BY <1>1, <1>3
  <2>2. Single(<<Head(n)>>)
    BY <1>1, <2>1 DEF Single
  <2>3. /\ Tail(n) \in Seq(Num)
        /\ \A i \in DOMAIN Tail(n) : i + 1 \in DOMAIN n /\ Tail(n)[i] = n[i + 1]
    BY <1>1, <1>3
  <2>4. Single(Tail(n))
    BY <1>1, <2>3 DEF Single
  <2>5. QED
    BY <1>3, <2>2, <2>4 DEF FirstOf, RestOf
<1>4. QED
  BY <1>2, <1>3

\* The fields of a response.
LEMMA ResponseFields ==
  ASSUME NEW k, NEW n, NEW r, r = Response(k, n)
  PROVE  /\ r.kind = k /\ r.nums = n /\ r.whole = TRUE /\ r.content = <<>> /\ r.tail = <<>>
         /\ r.all = (n # <<>>) /\ r.applied = TRUE /\ r.counts = FALSE
BY DEF Response

\* A response of numbers.
LEMMA ResponseType ==
  ASSUME NEW k \in {"search", "esearch", "data", "text", "unclassified"}, NEW n \in Seq(Num)
  PROVE  Response(k, n) \in AnyResponse
BY DEF Response, AnyResponse

\* A response without a literal.
LEMMA PlainWellFormed ==
  ASSUME NEW r \in AnyResponse, r.content = <<>>, r.tail = <<>>,
         \A i \in DOMAIN r.nums : r.nums[i][1] <= r.nums[i][2],
         r.kind = "search" => ~r.counts /\ \A i \in DOMAIN r.nums : r.nums[i][1] = r.nums[i][2],
         r.kind = "esearch" => (r.all <=> r.nums # <<>>),
         r.kind \notin {"search", "esearch"} => r.whole
  PROVE  WellFormed(r)
<1>1. r.nums \in Seq(Num)
  BY DEF AnyResponse
<1>2. Named(r) = r.nums
  BY <1>1, ConcatEmptySeq DEF Named
<1>3. Plain(r) /\ Hearable(r)
  BY DEF Plain, Hearable
<1>4. QED
  BY <1>2, <1>3 DEF WellFormed

\* SEARCH and ESEARCH of single numbers; a stale one, one that is cut short.
LEMMA SinglesWellFormed ==
  ASSUME NEW k \in {"search", "esearch"}, NEW n, Single(n), NEW r, r = Response(k, n)
  PROVE  /\ WellFormed(r) /\ WellFormed([r EXCEPT !.whole = FALSE])
         /\ k = "esearch" => WellFormed([r EXCEPT !.applied = FALSE])
<1>1. n \in Seq(Num) /\ \A i \in DOMAIN n : n[i][1] = n[i][2] /\ n[i][1] <= n[i][2]
  <2>1. n \in Seq(Num) /\ \A i \in DOMAIN n : n[i][1] = n[i][2]
    BY DEF Single
  <2>2. \A i \in DOMAIN n : n[i][1] \in Nat
    BY <2>1 DEF Num
  <2>3. QED
    BY <2>1, <2>2
<1>2. r \in AnyResponse
  BY <1>1, ResponseType
<1>3. /\ r.kind = k /\ r.nums = n /\ r.whole = TRUE /\ r.content = <<>> /\ r.tail = <<>>
      /\ r.all = (n # <<>>) /\ r.counts = FALSE
  BY DEF Response
<1>4. WellFormed(r)
  BY <1>1, <1>2, <1>3, PlainWellFormed
<1>5. WellFormed([r EXCEPT !.whole = FALSE])
  <2> DEFINE s == [r EXCEPT !.whole = FALSE]
  <2>1. s \in AnyResponse
    BY <1>2 DEF AnyResponse
  <2>2. s.kind = r.kind /\ s.nums = r.nums /\ s.content = r.content /\ s.tail = r.tail
        /\ s.all = r.all /\ s.counts = r.counts
    BY <1>2 DEF AnyResponse
  <2> HIDE DEF s
  <2>3. WellFormed(s)
    BY <1>1, <1>3, <2>1, <2>2, PlainWellFormed
  <2>4. QED
    BY <2>3 DEF s
<1>6. ASSUME k = "esearch" PROVE WellFormed([r EXCEPT !.applied = FALSE])
  <2> DEFINE s == [r EXCEPT !.applied = FALSE]
  <2>1. s \in AnyResponse
    BY <1>2 DEF AnyResponse
  <2>2. s.kind = r.kind /\ s.nums = r.nums /\ s.content = r.content /\ s.tail = r.tail
        /\ s.all = r.all /\ s.counts = r.counts
    BY <1>2 DEF AnyResponse
  <2> HIDE DEF s
  <2>3. WellFormed(s)
    BY <1>1, <1>3, <1>6, <2>1, <2>2, PlainWellFormed
  <2>4. QED
    BY <2>3 DEF s
<1>7. QED
  BY <1>4, <1>5, <1>6

\* The empty list is a list of numbers and a list of lines.
LEMMA EmptySeqs == <<>> \in Seq(Num) /\ <<>> \in Seq(AnyLine)
OBVIOUS

\* An ESEARCH that only counts; one with a range; what no one can classify.
LEMMA OddWellFormed ==
  /\ \A b \in BOOLEAN : WellFormed([Response("esearch", <<>>) EXCEPT !.counts = b])
  /\ \A s, e \in Nat : s <= e => WellFormed(Response("esearch", <<<<s, e>>>>))
  /\ WellFormed(Response("unclassified", <<>>))
<1>1. ASSUME NEW b \in BOOLEAN PROVE WellFormed([Response("esearch", <<>>) EXCEPT !.counts = b])
  <2> DEFINE r == Response("esearch", <<>>)  s == [r EXCEPT !.counts = b]
  <2>1. s \in AnyResponse
    <3>1. r \in AnyResponse
      BY EmptySeqs, ResponseType
    <3> HIDE DEF r
    <3>2. QED
      BY <3>1 DEF AnyResponse
  <2>2. s.kind = "esearch" /\ s.nums = <<>> /\ s.content = <<>> /\ s.tail = <<>> /\ s.all = FALSE
    BY DEF Response
  <2> HIDE DEF s
  <2>3. WellFormed(s)
    BY <2>1, <2>2, PlainWellFormed
  <2>4. QED
    BY <2>3 DEF s
<1>2. ASSUME NEW s \in Nat, NEW e \in Nat, s <= e PROVE WellFormed(Response("esearch", <<<<s, e>>>>))
  <2> DEFINE n == <<<<s, e>>>>  r == Response("esearch", n)
  <2>1. n \in Seq(Num) /\ n # <<>> /\ \A i \in DOMAIN n : n[i][1] <= n[i][2]
    BY <1>2 DEF Num
  <2> HIDE DEF n
  <2>2. r \in AnyResponse
    BY <2>1, ResponseType
  <2>3. r.kind = "esearch" /\ r.nums = n /\ r.content = <<>> /\ r.tail = <<>> /\ r.all = TRUE
    BY <2>1 DEF Response
  <2> HIDE DEF r
  <2>4. WellFormed(r)
    BY <2>1, <2>2, <2>3, PlainWellFormed
  <2>5. QED
    BY <2>4 DEF r, n
<1>3. WellFormed(Response("unclassified", <<>>))
  <2> DEFINE r == Response("unclassified", <<>>)
  <2>1. r \in AnyResponse
    BY EmptySeqs, ResponseType
  <2>2. r.kind = "unclassified" /\ r.nums = <<>> /\ r.content = <<>> /\ r.tail = <<>> /\ r.whole = TRUE
    BY DEF Response
  <2> HIDE DEF r
  <2>3. WellFormed(r)
    BY <2>1, <2>2, PlainWellFormed
  <2>4. QED
    BY <2>3 DEF r
<1>4. QED
  BY <1>1, <1>2, <1>3

\* A response with a literal.
LEMMA LiteralWellFormed ==
  ASSUME NEW l \in AnyLine
  PROVE  /\ \A k \in {"data", "text"} : WellFormed([Response(k, <<>>) EXCEPT !.content = <<l>>])
         /\ \A n : Single(n) =>
              WellFormed([Response("esearch", <<>>) EXCEPT !.content = <<l>>, !.tail = n, !.all = n # <<>>])
<1>1. <<l>> \in Seq(AnyLine)
  OBVIOUS
<1>2. ASSUME NEW k \in {"data", "text"} PROVE WellFormed([Response(k, <<>>) EXCEPT !.content = <<l>>])
  <2> DEFINE s == [Response(k, <<>>) EXCEPT !.content = <<l>>]
  <2>1. s \in AnyResponse
    <3> DEFINE r == Response(k, <<>>)
    <3>1. r \in AnyResponse
      BY EmptySeqs, ResponseType
    <3> HIDE DEF r
    <3>2. [r EXCEPT !.content = <<l>>] \in AnyResponse
      BY <1>1, <3>1 DEF AnyResponse
    <3>3. QED
      BY <3>2 DEF r
  <2>2. s.kind = k /\ s.nums = <<>> /\ s.content = <<l>> /\ s.tail = <<>> /\ s.whole = TRUE
    BY DEF Response
  <2> HIDE DEF s
  <2>3. Literal(s) /\ Hearable(s)
    BY <2>1, <2>2 DEF Literal, Hearable
  <2>4. Named(s) = <<>> /\ s.kind \notin {"search", "esearch"}
    BY <2>2 DEF Named
  <2>5. WellFormed(s)
    BY <2>2, <2>3, <2>4 DEF WellFormed
  <2>6. QED
    BY <2>5 DEF s
<1>3. ASSUME NEW n, Single(n)
      PROVE  WellFormed([Response("esearch", <<>>) EXCEPT !.content = <<l>>, !.tail = n, !.all = n # <<>>])
  <2> DEFINE s == [Response("esearch", <<>>) EXCEPT !.content = <<l>>, !.tail = n, !.all = n # <<>>]
  <2>1. n \in Seq(Num) /\ \A i \in DOMAIN n : n[i][1] <= n[i][2]
    <3>1. n \in Seq(Num) /\ \A i \in DOMAIN n : n[i][1] = n[i][2]
      BY <1>3 DEF Single
    <3>2. \A i \in DOMAIN n : n[i][1] \in Nat
      BY <3>1 DEF Num
    <3>3. QED
      BY <3>1, <3>2
  <2>2. s \in AnyResponse
    <3> DEFINE r == Response("esearch", <<>>)
    <3>1. r \in AnyResponse
      BY EmptySeqs, ResponseType
    <3> HIDE DEF r
    <3>2. [r EXCEPT !.content = <<l>>, !.tail = n, !.all = n # <<>>] \in AnyResponse
      BY <1>1, <2>1, <3>1 DEF AnyResponse
    <3>3. QED
      BY <3>2 DEF r
  <2>3. s.kind = "esearch" /\ s.nums = <<>> /\ s.content = <<l>> /\ s.tail = n /\ s.whole = TRUE
    BY DEF Response
  <2>4. s.all = (n # <<>>)
    BY DEF Response
  <2> HIDE DEF s
  <2>5. Literal(s) /\ Hearable(s)
    BY <2>2, <2>3 DEF Literal, Hearable
  <2>6. <<>> \o n = n
    BY <2>1, ConcatEmptySeq
  <2>7. Named(s) = n
    BY <2>3, <2>6 DEF Named
  <2>8. WellFormed(s)
    BY <2>1, <2>3, <2>4, <2>5, <2>7 DEF WellFormed
  <2>9. QED
    BY <2>8 DEF s
<1>4. QED
  BY <1>2, <1>3

\* The mailbox, as far as answers depend on it.
Mail == box.mail \in SUBSET Nat /\ IsFiniteSet(box.mail)

\* What matches is listed number by number.
LEMMA MatchesSingle ==
  ASSUME Mail, NEW w PROVE Single(Matches(w))
<1> DEFINE there == box.mail \cap (w.Start .. w.End)
           q == NewestFirst(there, [u \in there |-> u])
<1>1. there \in SUBSET Int /\ there \subseteq Nat /\ IsFiniteSet(there)
  BY FS_Subset DEF Mail
<1> HIDE DEF there
<1>2. q \in Seq(there)
  BY <1>1, NumbersSort
<1>3. Matches(w) = [i \in DOMAIN q |-> Only(q[i])]
  BY DEF Matches, there
<1> HIDE DEF q
<1>4. \A i \in DOMAIN q : q[i] \in Nat
  <2>1. \A i \in DOMAIN q : q[i] \in there
    BY <1>2
  <2>2. QED
    BY <1>1, <2>1
<1>5. \A u \in Nat : Only(u) \in Num /\ Only(u)[1] = Only(u)[2]
  BY DEF Only, Num
<1>6. Len(q) \in Nat /\ DOMAIN q = 1 .. Len(q)
  BY <1>2
<1>7. Matches(w) \in Seq(Num)
  BY <1>3, <1>4, <1>5, <1>6
<1>8. QED
  BY <1>3, <1>4, <1>5, <1>7 DEF Single

\* Whatever the server answers is judged rightly.
LEMMA WiresAreRight ==
  ASSUME Mail, NEW w, IsWindow(w), NEW wire \in Wires(w)
  PROVE  Right(wire, w)
<1> DEFINE all == Matches(w)
           outside == <<Only(w.End + 1)>>
           search(nums) == Response("search", nums)
           esearch(nums) == Response("esearch", nums)
           stale(nums) == [esearch(nums) EXCEPT !.applied = FALSE]
           lookalike == <<Line("search", outside, TRUE, 0)>>
           data == [Response("data", <<>>) EXCEPT !.content = lookalike]
           text == [Response("text", <<>>) EXCEPT !.content = lookalike]
           cut == [Response("esearch", <<>>) EXCEPT !.content = lookalike, !.tail = all, !.all = all # <<>>]
           broken(r) == [r EXCEPT !.whole = FALSE]
           counted == [esearch(<<>>) EXCEPT !.counts = all # <<>>]
           range == esearch(<<<<w.Start, w.End + 1>>>>)
           odd == Response("unclassified", <<>>)
<1>1. wire \in
     {<<search(all)>>, <<esearch(all)>>, <<counted>>, <<>>, <<cut>>,
      <<search(FirstOf(all)), search(RestOf(all))>>,
      <<esearch(FirstOf(all)), esearch(RestOf(all))>>,
      <<data, search(all)>>, <<text, search(all)>>, <<stale(all), search(all)>>,
      <<stale(all)>>, <<stale(outside), search(all)>>,
      <<search(all), search(all)>>, <<search(all \o outside)>>, <<esearch(all \o all)>>,
      <<search(<<Only(0)>> \o all)>>, <<range>>,
      <<broken(search(all))>>, <<broken(esearch(all))>>,
      <<odd, search(all)>>,
      <<data, data, search(all)>>}
  BY DEF Wires
<1>2. Single(all) /\ w.Start \in Nat /\ w.End + 1 \in Nat /\ w.Start <= w.End + 1
  BY MatchesSingle DEF IsWindow
<1>3. Single(outside) /\ Single(<<Only(0)>>)
  BY <1>2, SingleOnly
<1>4. /\ Single(FirstOf(all)) /\ Single(RestOf(all)) /\ Single(all \o outside)
      /\ Single(all \o all) /\ Single(<<Only(0)>> \o all)
  BY <1>2, <1>3, SingleParts, SingleConcat
<1>5. /\ \A n : Single(n) => WellFormed(search(n)) /\ WellFormed(esearch(n)) /\ WellFormed(stale(n))
      /\ WellFormed(broken(search(all))) /\ WellFormed(broken(esearch(all)))
  BY <1>2, SinglesWellFormed
<1>6. Line("search", outside, TRUE, 0) \in AnyLine
  BY <1>3 DEF Line, AnyLine, Single
<1>7. WellFormed(data) /\ WellFormed(text)
  BY <1>6, LiteralWellFormed
<1>8. WellFormed(cut)
  BY <1>2, <1>6, LiteralWellFormed
<1>9. WellFormed(counted) /\ WellFormed(range) /\ WellFormed(odd)
  <2>1. (all # <<>>) \in BOOLEAN
    OBVIOUS
  <2> DEFINE b == all # <<>>
  <2> HIDE DEF b, all
  <2>2. WellFormed([Response("esearch", <<>>) EXCEPT !.counts = b])
    BY <2>1, OddWellFormed DEF b
  <2>3. WellFormed(range) /\ WellFormed(odd)
    BY <1>2, OddWellFormed
  <2>4. QED
    BY <2>2, <2>3 DEF b
<1>10. \A n : search(n).kind = "search" /\ esearch(n).kind = "esearch" /\ esearch(n).applied
              /\ ~esearch(n).counts
  BY DEF Response
<1>11. \A n : stale(n).kind = "esearch" /\ ~stale(n).applied
  BY DEF Response
<1>12. data.kind = "data" /\ text.kind = "text" /\ odd.kind = "unclassified"
  BY DEF Response
<1>13. /\ cut.kind = "esearch" /\ counted.kind = "esearch" /\ range.kind = "esearch"
       /\ broken(search(all)).kind = "search" /\ broken(esearch(all)).kind = "esearch"
  BY DEF Response
<1> HIDE DEF all, outside, search, esearch, stale, lookalike, data, text, cut, broken, counted, range, odd
<1>14. ~Answering(data) /\ ~Answering(text) /\ ~Answering(odd) /\ \A n : ~Answering(stale(n))
  BY <1>11, <1>12 DEF Answering
<1>15. \A a : WellFormed(a) /\ a.kind \in {"search", "esearch"} => Right(<<a>>, w)
  BY OneIsRight
<1>16. \A a, n : WellFormed(a) /\ ~Answering(a) /\ Single(n) => Right(<<a, search(n)>>, w)
  BY <1>5, <1>10, TwoIsRight
<1>17. \A m, n : Single(m) /\ Single(n) =>
         Right(<<search(m), search(n)>>, w) /\ Right(<<esearch(m), esearch(n)>>, w)
  BY <1>5, <1>10, TwoIsRight
<1>18. Right(<<data, data, search(all)>>, w)
  BY <1>2, <1>5, <1>7, <1>10, <1>14, ThreeIsRight
<1>19. /\ Right(<<search(all)>>, w) /\ Right(<<esearch(all)>>, w) /\ Right(<<stale(all)>>, w)
       /\ Right(<<search(all \o outside)>>, w) /\ Right(<<esearch(all \o all)>>, w)
       /\ Right(<<search(<<Only(0)>> \o all)>>, w)
  BY <1>2, <1>4, <1>5, <1>10, <1>11, <1>15
<1>20. /\ Right(<<counted>>, w) /\ Right(<<cut>>, w) /\ Right(<<range>>, w)
       /\ Right(<<broken(search(all))>>, w) /\ Right(<<broken(esearch(all))>>, w)
  BY <1>5, <1>8, <1>9, <1>13, <1>15
<1>21. /\ Right(<<data, search(all)>>, w) /\ Right(<<text, search(all)>>, w)
       /\ Right(<<stale(all), search(all)>>, w) /\ Right(<<stale(outside), search(all)>>, w)
       /\ Right(<<odd, search(all)>>, w)
  BY <1>2, <1>3, <1>5, <1>7, <1>9, <1>14, <1>16
<1>22. /\ Right(<<search(FirstOf(all)), search(RestOf(all))>>, w)
       /\ Right(<<esearch(FirstOf(all)), esearch(RestOf(all))>>, w)
       /\ Right(<<search(all), search(all)>>, w)
  BY <1>2, <1>4, <1>17
<1>23. Right(<<>>, w)
  BY NoneIsRight
<1>24. QED
  BY <1>1, <1>18, <1>19, <1>20, <1>21, <1>22, <1>23

-----------------------------------------------------------------------------
(* What a window chooses, and what a FETCH may bring.                      *)

\* A set of natural numbers has a least one.
LEMMA MinIn ==
  ASSUME NEW I \in SUBSET Nat, I # {} PROVE Min(I) \in I
<1>1. PICK m \in I : \A y \in I : ~(<<y, m>> \in OpToRel(<, Nat))
  BY NatLessThanWellFounded, WFMin
<1>2. ASSUME NEW y \in I PROVE m <= y
  <2>1. m \in Nat /\ y \in Nat
    OBVIOUS
  <2>2. y < m => <<y, m>> \in OpToRel(<, Nat)
    BY <2>1 DEF OpToRel
  <2>3. ~(y < m)
    BY <1>1, <2>2
  <2>4. QED
    BY <2>1, <2>3
<1>3. \E x \in I : \A y \in I : x =< y
  BY <1>2
<1>4. QED
  BY <1>3, Zenon DEF Min

\* The newest of found, newest first, and no more than there is room for.
Chosen(q, found) ==
  /\ q \in Seq(found) /\ \A i, j \in DOMAIN q : i < j => q[j] < q[i]
  /\ Len(q) <= MaxResults - Len(page) /\ Len(q) <= Cardinality(found)
  /\ Len(q) < Cardinality(found) => Len(q) = MaxResults - Len(page)
  /\ q = <<>> => found = {}
  /\ \A u \in found : \/ \E k \in DOMAIN q : q[k] = u
                      \/ Len(q) < Cardinality(found) /\ \A k \in DOMAIN q : u < q[k]

\* selectHighestUIDs returns those.
LEMMA ChosenAre ==
  ASSUME NEW found \in SUBSET Nat, IsFiniteSet(found), Len(page) \in Nat, Len(page) < MaxResults,
         NEW q, q = selectHighestUIDs(found)
  PROVE  Chosen(q, found)
<1> DEFINE s == NewestFirst(found, [u \in found |-> u])  room == MaxResults - Len(page)
<1>1. MaxResults \in Nat /\ room \in Nat /\ room > 0
  BY ReadAssumption
<1>2. /\ s \in Seq(found) /\ Len(s) = Cardinality(found)
      /\ \A i, j \in DOMAIN s : i < j => s[j] < s[i]
      /\ \A x \in found : \E i \in DOMAIN s : s[i] = x
  <2>1. found \in SUBSET Int
    OBVIOUS
  <2>2. QED
    BY <2>1, NumbersSort
<1>3. q = IF Len(s) > room THEN SubSeq(s, 1, room) ELSE s
  BY DEF selectHighestUIDs
<1> HIDE DEF s, room
<1>4. Len(s) \in Nat /\ DOMAIN s = 1 .. Len(s)
  BY <1>2
<1>5. s = <<>> => found = {}
  BY <1>2
<1>6. CASE ~(Len(s) > room)
  BY <1>1, <1>2, <1>3, <1>4, <1>5, <1>6 DEF Chosen, room
<1>7. CASE Len(s) > room
  <2>1. q = SubSeq(s, 1, room)
    BY <1>3, <1>7
  <2>2. \A i \in 1 .. room : s[i] \in found
    BY <1>1, <1>2, <1>4, <1>7
  <2>3. /\ q \in Seq(found) /\ Len(q) = room
        /\ \A i \in 1 .. room : q[i] = s[i]
    <3>1. /\ SubSeq(s, 1, room) \in Seq(found)
          /\ Len(SubSeq(s, 1, room)) = IF 1 <= room THEN room - 1 + 1 ELSE 0
          /\ \A i \in 1 .. room - 1 + 1 : SubSeq(s, 1, room)[i] = s[1 + i - 1]
      BY <1>1, <2>2, SubSeqProperties
    <3>2. room - 1 + 1 = room /\ 1 <= room
      BY <1>1
    <3>3. \A i \in 1 .. room : 1 + i - 1 = i
      BY <1>1
    <3>4. QED
      BY <2>1, <3>1, <3>2, <3>3
  <2>4. DOMAIN q = 1 .. room
    BY <2>3
  <2>5. \A i, j \in DOMAIN q : i < j => q[j] < q[i]
    BY <1>1, <1>2, <1>4, <1>7, <2>3, <2>4
  <2>6. ASSUME NEW u \in found
        PROVE  (\E k \in DOMAIN q : q[k] = u) \/ \A k \in DOMAIN q : u < q[k]
    <3>1. PICK i \in DOMAIN s : s[i] = u
      BY <1>2
    <3>2. CASE i \in 1 .. room
      BY <2>3, <2>4, <3>1, <3>2
    <3>3. CASE i \notin 1 .. room
      <4>1. \A k \in DOMAIN q : k \in DOMAIN s /\ k < i
        BY <1>1, <1>4, <1>7, <2>4, <3>3
      <4>2. QED
        BY <1>2, <2>3, <2>4, <3>1, <4>1
    <3>4. QED
      BY <3>2, <3>3
  <2>7. q # <<>>
    BY <1>1, <2>3
  <2>8. QED
    BY <1>1, <1>2, <1>7, <2>3, <2>5, <2>6, <2>7 DEF Chosen, room
<1>8. QED
  BY <1>6, <1>7

\* UIDFetchMetadata accepts messages without a flaw, each that was asked for once.
LEMMA MetadataAccepted ==
  ASSUME NEW requested, NEW answer, Len(answer) \in Nat,
         UIDFetchMetadata(requested, answer) = "none"
  PROVE  /\ \A i \in 1 .. Len(answer) : FetchedMessage(answer[i]) = "none"
         /\ validateFetchedMetadataUIDs(requested, answer)
<1> DEFINE I == {i \in 1 .. Len(answer) : FetchedMessage(answer[i]) # "none"}
           flawed == IF I # {} THEN Min(I) ELSE 0
<1>1. UIDFetchMetadata(requested, answer) =
        CASE flawed > 0 -> FetchedMessage(answer[flawed])
          [] flawed = 0 /\ ~validateFetchedMetadataUIDs(requested, answer) -> "imap_protocol_error"
          [] OTHER -> "none"
  BY DEF UIDFetchMetadata, SelectInSeq
<1>2. I \in SUBSET Nat /\ I \subseteq 1 .. Len(answer)
  OBVIOUS
<1>3. ASSUME I # {} PROVE FALSE
  <2>1. Min(I) \in I
    BY <1>2, <1>3, MinIn
  <2>2. flawed \in I
    BY <1>3, <2>1
  <2>3. flawed > 0 /\ FetchedMessage(answer[flawed]) # "none"
    BY <1>2, <2>2
  <2> HIDE DEF flawed
  <2>4. UIDFetchMetadata(requested, answer) = FetchedMessage(answer[flawed])
    BY <1>1, <2>3
  <2>5. QED
    BY <2>3, <2>4
<1>4. I = {} /\ flawed = 0
  BY <1>3
<1> HIDE DEF flawed
<1>5. validateFetchedMetadataUIDs(requested, answer)
  BY <1>1, <1>4
<1>6. QED
  BY <1>4, <1>5

\* What was asked for, newest first.
Descends(q) == q \in Seq(Nat) /\ \A i, j \in DOMAIN q : i < j => q[j] < q[i]

\* The messages of the answer are without a flaw, and are those asked for.
Whole(requested, answer) ==
  /\ \A i \in 1 .. Len(answer) : FetchedMessage(answer[i]) = "none"
  /\ validateFetchedMetadataUIDs(requested, answer)

\* A message that says what it is.
Honest(m) == m.of = <<box.gen, m.uids[1]>>

\* What a message that is still there says.
LEMMA MessageFields ==
  ASSUME NEW u, NEW m, m = Message(u)
  PROVE  /\ m.uids = <<u>> /\ m.flags = 1 /\ m.sections = 1 /\ m.flaw = "none"
         /\ m.of = <<box.gen, u>> /\ Honest(m)
BY DEF Message, Honest

\* The numbers from 1 to n.
LEMMA UpToFinite ==
  ASSUME NEW n \in Nat PROVE IsFiniteSet(1 .. n) /\ Cardinality(1 .. n) = n
<1>1. IsFiniteSet(1 .. n) /\ Cardinality(1 .. n) = IF 1 > n THEN 0 ELSE n - 1 + 1
  <2>1. 1 \in Int /\ n \in Int
    OBVIOUS
  <2>2. QED
    BY <2>1, FS_Interval
<1>2. QED
  BY <1>1

\* The distinct elements of a descending list.
LEMMA DescendingCount ==
  ASSUME NEW q, Descends(q)
  PROVE  IsFiniteSet(Range(q)) /\ Cardinality(Range(q)) = Len(q) /\ Range(q) \subseteq Nat
<1>1. q \in Seq(Nat) /\ Len(q) \in Nat /\ DOMAIN q = 1 .. Len(q) /\ \A i \in DOMAIN q : q[i] \in Nat
  BY DEF Descends
<1>2. Range(q) = {q[i] : i \in DOMAIN q}
  BY DEF Range
<1>3. q \in Surjection(1 .. Len(q), Range(q))
  BY <1>1, <1>2 DEF Surjection
<1>4. q \in Injection(1 .. Len(q), Range(q))
  <2>1. ASSUME NEW i \in 1 .. Len(q), NEW j \in 1 .. Len(q), q[i] = q[j] PROVE i = j
    <3>1. ~(i < j) /\ ~(j < i)
      BY <1>1, <2>1 DEF Descends
    <3>2. QED
      BY <1>1, <3>1
  <2>2. q \in [1 .. Len(q) -> Range(q)]
    BY <1>1, <1>2
  <2>3. QED
    BY <2>1, <2>2 DEF Injection, IsInjective
<1>5. IsFiniteSet(1 .. Len(q)) /\ Cardinality(1 .. Len(q)) = Len(q)
  BY <1>1, UpToFinite
<1>6. QED
  BY <1>1, <1>2, <1>3, <1>4, <1>5, FS_Surjection

\* What may be wrong with a message.
Flaws(m) == {[m EXCEPT !.uids = <<>>, !.sections = 0], [m EXCEPT !.uids = @ \o @],
             [m EXCEPT !.uids = <<0>>], [m EXCEPT !.uids = <<@[1] + 1>>],
             [m EXCEPT !.flags = 0], [m EXCEPT !.flags = 2], [m EXCEPT !.sections = 2],
             [m EXCEPT !.flaw = "foreign"], [m EXCEPT !.flaw = "unparsable"],
             [m EXCEPT !.flaw = "oversized"]}

\* Only a flaw that the answer does not show, a wrong UID or missing FLAGS,
\* passes FetchedMessage.
LEMMA FlawedMessage ==
  ASSUME NEW u \in Nat, NEW m, m = Message(u),
         NEW f \in Flaws(m),
         FetchedMessage(f) = "none"
  PROVE  Honest(f) \/ f.uids[1] = u + 1
<1>1. m = [uids |-> <<u>>, flags |-> 1, sections |-> 1, flaw |-> "none", of |-> <<box.gen, u>>]
  BY DEF Message
<1>2. ASSUME f = [m EXCEPT !.uids = <<>>, !.sections = 0] PROVE FALSE
  <2>1. Len(f.uids) # 1
    BY <1>1, <1>2
  <2>2. QED
    BY <2>1 DEF FetchedMessage
<1>3. ASSUME f = [m EXCEPT !.uids = @ \o @] PROVE FALSE
  <2>1. f.uids = <<u>> \o <<u>>
    BY <1>1, <1>3
  <2>2. Len(f.uids) = 2
    BY <2>1
  <2>3. QED
    BY <2>2 DEF FetchedMessage
<1> DEFINE zero == <<0>>
<1>4. ASSUME f = [m EXCEPT !.uids = zero] PROVE FALSE
  <2>1. f.uids = <<0>>
    BY <1>1, <1>4
  <2>2. 0 \in {f.uids[i] : i \in DOMAIN f.uids}
    BY <2>1
  <2>3. QED
    BY <2>2 DEF FetchedMessage
<1>5. ASSUME f = [m EXCEPT !.uids = <<@[1] + 1>>] PROVE f.uids[1] = u + 1
  BY <1>1, <1>5
<1>6. ASSUME f = [m EXCEPT !.flags = 0] PROVE Honest(f)
  BY <1>1, <1>6 DEF Honest
<1>7. ASSUME f = [m EXCEPT !.flags = 2] PROVE FALSE
  <2>1. f.flags > 1
    BY <1>1, <1>7
  <2>2. QED
    BY <2>1 DEF FetchedMessage
<1>8. ASSUME f = [m EXCEPT !.sections = 2] PROVE FALSE
  <2>1. f.sections # 1
    BY <1>1, <1>8
  <2>2. QED
    BY <2>1 DEF FetchedMessage
<1>9. ASSUME f = [m EXCEPT !.flaw = "foreign"] \/ f = [m EXCEPT !.flaw = "unparsable"] PROVE FALSE
  <2>1. f.flaw \in {"foreign", "unparsable"}
    BY <1>1, <1>9
  <2>2. QED
    BY <2>1 DEF FetchedMessage
<1>10. ASSUME f = [m EXCEPT !.flaw = "oversized"] PROVE FALSE
  <2>1. f.flaw = "oversized" /\ f.sections = 1 /\ f.uids = <<u>> /\ f.flags = 1
    BY <1>1, <1>10
  <2>2. f.flaw \notin {"foreign", "unparsable"} /\ Len(f.uids) = 1 /\ f.flags <= 1 /\ ~(f.flags > 1)
    BY <2>1
  <2>3. FetchedMessage(f) \in {"imap_protocol_error", "bounds_exceeded"}
    BY <2>1, <2>2 DEF FetchedMessage
  <2>4. QED
    BY <2>3
<1>11. QED
  BY <1>2, <1>3, <1>4, <1>5, <1>6, <1>7, <1>8, <1>9, <1>10 DEF Flaws

\* A list of messages that are what they say.
AllHonest(q) == Len(q) \in Nat /\ DOMAIN q = 1 .. Len(q) /\ \A i \in 1 .. Len(q) : Honest(q[i])

\* The messages that are still there.
Still(requested) ==
  LET there == Range(requested) \cap box.mail
  IN NewestFirst(there, [u \in there |-> u])

Messages(present) == [i \in DOMAIN present |-> Message(present[i])]

Newest == IF box.mail = {} THEN 1 ELSE CHOOSE u \in box.mail : \A v \in box.mail : v <= u

\* An answer of honest messages only, or one whose first message is flawed.
AnswerOf(answer, whole, other) ==
  \/ answer \in {whole, Reverse(whole), whole \o <<other>>, <<other>> \o RestOf(whole), RestOf(whole)}
  \/ /\ whole # <<>>
     /\ \E f \in Flaws(whole[1]) : answer = <<f>> \o Tail(whole)

\* The answers of the server are of that form.
LEMMA AnswerCases ==
  ASSUME NEW requested, NEW answer \in FetchAnswers(requested)
  PROVE  AnswerOf(answer, Messages(Still(requested)), Message(Newest))
BY DEF FetchAnswers, Still, Messages, Newest, Flaws, AnswerOf

\* An answer that is whole is honest, though a message may claim another UID:
\* all that was asked for is there then, and the claim exceeds the newest of it.
LEMMA WholeIsHonest ==
  ASSUME Mail, NEW requested, Descends(requested), NEW answer \in FetchAnswers(requested),
         Whole(requested, answer)
  PROVE  AllHonest(answer)
<1> DEFINE there == Range(requested) \cap box.mail
           present == Still(requested)  whole == Messages(present)  other == Message(Newest)
<1>1. IsFiniteSet(Range(requested)) /\ Cardinality(Range(requested)) = Len(requested)
      /\ Range(requested) \subseteq Nat /\ Len(requested) \in Nat
  BY DescendingCount DEF Descends
<1>2. /\ there \in SUBSET Range(requested) /\ there \in SUBSET Int /\ IsFiniteSet(there)
      /\ Cardinality(there) = Cardinality(Range(requested)) => there = Range(requested)
  <2>1. there \in SUBSET Range(requested) /\ there \in SUBSET Int
    BY <1>1
  <2> HIDE DEF there
  <2>2. QED
    BY <1>1, <2>1, FS_Subset
<1>3. /\ present \in Seq(there) /\ Len(present) = Cardinality(there)
      /\ \A i, j \in DOMAIN present : i < j => present[j] < present[i]
      /\ \A x \in there : \E i \in DOMAIN present : present[i] = x
  <2>1. present = NewestFirst(there, [u \in there |-> u])
    BY DEF Still
  <2> HIDE DEF there, present
  <2>2. QED
    BY <1>2, <2>1, NumbersSort
<1>4. whole = [i \in DOMAIN present |-> Message(present[i])]
  BY DEF Messages
<1>5. AnswerOf(answer, whole, other)
  BY AnswerCases
<1> HIDE DEF present, whole, other
<1> DEFINE M == {Message(present[i]) : i \in DOMAIN present} \cup {Message(Newest)}
<1>6. \A m \in M : Honest(m)
  BY MessageFields
<1>7. Len(present) \in Nat /\ DOMAIN present = 1 .. Len(present)
  BY <1>3
<1>8. whole \in Seq(M) /\ Len(whole) = Len(present) /\ other \in M
  BY <1>4, <1>7 DEF other
<1>14. ASSUME NEW q \in Seq(M) PROVE AllHonest(q)
  <2>1. Len(q) \in Nat /\ DOMAIN q = 1 .. Len(q) /\ \A i \in 1 .. Len(q) : q[i] \in M
    OBVIOUS
  <2> HIDE DEF M
  <2>2. QED
    BY <1>6, <2>1 DEF AllHonest
<1> HIDE DEF M
<1>9. CASE answer \in {whole, Reverse(whole), whole \o <<other>>, <<other>> \o RestOf(whole), RestOf(whole)}
  <2>1. RestOf(whole) \in Seq(M)
    BY <1>8, HeadTailProperties DEF RestOf
  <2>2. <<other>> \in Seq(M)
    BY <1>8
  <2>3. whole \o <<other>> \in Seq(M) /\ <<other>> \o RestOf(whole) \in Seq(M)
    BY <1>8, <2>1, <2>2, ConcatProperties
  <2>4. Reverse(whole) \in Seq(M)
    <3>1. Len(whole) \in Nat /\ \A i \in 1 .. Len(whole) : whole[(Len(whole) - i) + 1] \in M
      <4>1. Len(whole) \in Nat /\ \A i \in 1 .. Len(whole) : whole[i] \in M
        BY <1>8
      <4>2. \A i \in 1 .. Len(whole) : (Len(whole) - i) + 1 \in 1 .. Len(whole)
        BY <4>1
      <4>3. QED
        BY <4>1, <4>2
    <3>2. QED
      BY <3>1 DEF Reverse
  <2>5. answer \in Seq(M)
    BY <1>8, <1>9, <2>1, <2>3, <2>4
  <2>6. QED
    BY <1>14, <2>5
<1>10. CASE whole # <<>> /\ \E f \in Flaws(whole[1]) : answer = <<f>> \o Tail(whole)
  <2> DEFINE m == whole[1]
  <2>1. PICK f \in Flaws(m) : answer = <<f>> \o Tail(whole)
    BY <1>10
  <2>2. 1 \in DOMAIN present /\ m = Message(present[1]) /\ present[1] \in Nat /\ present[1] \in there
    <3>1. Len(whole) # 0
      BY <1>8, <1>10
    <3>2. 1 \in DOMAIN present
      BY <1>7, <1>8, <3>1
    <3>3. present[1] \in there
      BY <1>3, <3>2
    <3>4. QED
      BY <1>1, <1>4, <3>2, <3>3
  <2> HIDE DEF m
  <2>3. Tail(whole) \in Seq(M) /\ Len(Tail(whole)) = Len(whole) - 1
    BY <1>8, <1>10, HeadTailProperties
  <2>4. /\ answer \in Seq(M \cup {f}) /\ Len(answer) = Len(whole) /\ answer[1] = f
        /\ \A i \in 2 .. Len(whole) : answer[i] \in M
    <3>1. Tail(whole) \in Seq(M \cup {f}) /\ <<f>> \in Seq(M \cup {f}) /\ Len(<<f>>) = 1 /\ <<f>>[1] = f
      BY <2>3
    <3>2. /\ answer \in Seq(M \cup {f}) /\ Len(answer) = 1 + Len(Tail(whole))
          /\ \A i \in 1 .. 1 + Len(Tail(whole)) : answer[i] = IF i <= 1 THEN <<f>>[i] ELSE Tail(whole)[i - 1]
      BY <2>1, <3>1, ConcatProperties
    <3>3. Len(whole) \in Nat /\ 1 + Len(Tail(whole)) = Len(whole)
      BY <1>8, <2>3
    <3>4. \A j \in 1 .. Len(Tail(whole)) : Tail(whole)[j] \in M
      BY <2>3
    <3>5. \A i \in 2 .. Len(whole) : answer[i] \in M
      <4> TAKE i \in 2 .. Len(whole)
      <4>1. i \in 1 .. 1 + Len(Tail(whole)) /\ ~(i <= 1) /\ i - 1 \in 1 .. Len(Tail(whole))
        BY <3>3
      <4>2. answer[i] = Tail(whole)[i - 1]
        BY <3>2, <4>1
      <4>3. QED
        BY <3>4, <4>1, <4>2
    <3>6. answer[1] = f
      <4>1. 1 \in 1 .. 1 + Len(Tail(whole)) /\ 1 <= 1
        BY <1>7, <1>8, <2>2, <3>3
      <4>2. QED
        BY <3>1, <3>2, <4>1
    <3>7. QED
      BY <3>2, <3>3, <3>5, <3>6
  <2>5. FetchedMessage(f) = "none"
    <3>1. 1 \in 1 .. Len(answer)
      BY <1>7, <1>8, <2>2, <2>4
    <3>2. QED
      BY <2>4, <3>1 DEF Whole
  <2>6. Honest(f) \/ f.uids[1] = present[1] + 1
    BY <2>1, <2>2, <2>5, FlawedMessage
  <2>7. f.uids[1] # present[1] + 1
    <3>1. Len(answer) = Len(requested)
          /\ {answer[i].uids[1] : i \in DOMAIN answer} = {requested[i] : i \in DOMAIN requested}
      BY DEF Whole, validateFetchedMetadataUIDs
    <3>2. there = Range(requested)
      BY <1>1, <1>2, <1>3, <1>8, <2>4, <3>1
    <3>3. 1 \in DOMAIN answer
      BY <1>7, <1>8, <2>2, <2>4
    <3>4. f.uids[1] \in Range(requested)
      BY <2>4, <3>1, <3>3 DEF Range
    <3>5. \A x \in there : x <= present[1]
      <4> TAKE x \in there
      <4>1. PICK i \in DOMAIN present : present[i] = x
        BY <1>3
      <4>2. i = 1 \/ 1 < i
        BY <1>7
      <4>3. 1 < i => present[i] < present[1]
        BY <1>3, <2>2
      <4>4. x \in Nat
        BY <1>1
      <4>5. QED
        BY <2>2, <4>1, <4>2, <4>3, <4>4
    <3>6. QED
      BY <2>2, <3>2, <3>4, <3>5
  <2>8. \A i \in 1 .. Len(answer) : Honest(answer[i])
    <3>1. \A i \in 1 .. Len(answer) : i = 1 \/ i \in 2 .. Len(whole)
      BY <1>7, <1>8, <2>4
    <3>2. QED
      BY <1>6, <2>4, <2>6, <2>7, <3>1
  <2>9. QED
    BY <2>4, <2>8 DEF AllHonest
<1>11. QED
  BY <1>5, <1>9, <1>10 DEF AnswerOf

-----------------------------------------------------------------------------
(* The items of a page.                                                    *)

\* An answer is a list.
LEMMA AnswerIsList ==
  ASSUME Mail, NEW requested, NEW answer \in FetchAnswers(requested)
  PROVE  \E S : answer \in Seq(S)
<1> DEFINE there == Range(requested) \cap box.mail
           present == Still(requested)  whole == Messages(present)  other == Message(Newest)
           S == {Message(present[i]) : i \in DOMAIN present} \cup {other} \cup Flaws(whole[1])
<1>1. there \in SUBSET Int /\ IsFiniteSet(there)
  <2>1. there \in SUBSET box.mail /\ there \in SUBSET Int
    BY DEF Mail
  <2> HIDE DEF there
  <2>2. QED
    BY <2>1, FS_Subset DEF Mail
<1>2. present \in Seq(there)
  <2>1. present = NewestFirst(there, [u \in there |-> u])
    BY DEF Still
  <2> HIDE DEF there, present
  <2>2. QED
    BY <1>1, <2>1, NumbersSort
<1>3. whole = [i \in DOMAIN present |-> Message(present[i])]
  BY DEF Messages
<1>4. AnswerOf(answer, whole, other)
  BY AnswerCases
<1> HIDE DEF there, present, whole, other
<1>5. Len(present) \in Nat /\ DOMAIN present = 1 .. Len(present)
  BY <1>2
<1>6. whole \in Seq(S) /\ <<other>> \in Seq(S)
  BY <1>3, <1>5
<1>7. \A f \in Flaws(whole[1]) : <<f>> \in Seq(S)
  OBVIOUS
<1> HIDE DEF S
<1>8. RestOf(whole) \in Seq(S) /\ (whole # <<>> => Tail(whole) \in Seq(S))
  BY <1>6, HeadTailProperties DEF RestOf
<1>9. whole \o <<other>> \in Seq(S) /\ <<other>> \o RestOf(whole) \in Seq(S)
  BY <1>6, <1>8, ConcatProperties
<1>10. Reverse(whole) \in Seq(S)
  <2>1. Len(whole) \in Nat /\ \A i \in 1 .. Len(whole) : whole[i] \in S
    BY <1>6
  <2>2. \A i \in 1 .. Len(whole) : (Len(whole) - i) + 1 \in 1 .. Len(whole)
    BY <2>1
  <2>3. \A i \in 1 .. Len(whole) : whole[(Len(whole) - i) + 1] \in S
    BY <2>1, <2>2
  <2>4. QED
    BY <2>1, <2>3 DEF Reverse
<1>11. \A f \in Flaws(whole[1]) : whole # <<>> => <<f>> \o Tail(whole) \in Seq(S)
  BY <1>7, <1>8, ConcatProperties
<1>12. answer \in Seq(S)
  BY <1>4, <1>6, <1>8, <1>9, <1>10, <1>11 DEF AnswerOf
<1>13. QED
  BY <1>12

\* UIDFetchBody accepts one message without a flaw, the one that was asked for.
LEMMA BodyAccepted ==
  ASSUME NEW u, NEW S, NEW answer \in Seq(S), UIDFetchBody(u, answer) = "none"
  PROVE  Whole(<<u>>, answer)
<1>1. answer # <<>> /\ Len(answer) \in Nat /\ Len(answer) > 0
  <2>1. answer # <<>>
    BY DEF UIDFetchBody
  <2>2. QED
    BY <2>1
<1>2. FetchedMessage(answer[1]) = "none"
  BY <1>1 DEF UIDFetchBody
<1>3. answer[1].uids[1] = u
  BY <1>1, <1>2 DEF UIDFetchBody
<1>8. ~(Len(answer) > 1)
  BY <1>1, <1>2 DEF UIDFetchBody
<1>4. Len(answer) = 1 /\ DOMAIN answer = {1} /\ 1 .. Len(answer) = {1}
  <2>1. Len(answer) = 1
    <3> DEFINE n == Len(answer)
    <3>1. n \in Nat /\ n > 0 /\ ~(n > 1)
      BY <1>1, <1>8
    <3> HIDE DEF n
    <3>2. n = 1
      BY <3>1
    <3>3. QED
      BY <3>2 DEF n
  <2>2. DOMAIN answer = 1 .. 1 /\ 1 .. 1 = {1}
    BY <2>1
  <2>3. QED
    BY <2>1, <2>2
<1>5. Len(<<u>>) = 1 /\ DOMAIN <<u>> = {1} /\ <<u>>[1] = u
  OBVIOUS
<1>6. validateFetchedMetadataUIDs(<<u>>, answer)
  <2>1. {answer[i].uids[1] : i \in DOMAIN answer} = {u}
    BY <1>3, <1>4
  <2>2. {<<u>>[i] : i \in DOMAIN <<u>>} = {u}
    BY <1>5
  <2>3. QED
    BY <1>4, <1>5, <2>1, <2>2 DEF validateFetchedMetadataUIDs
<1>7. QED
  BY <1>2, <1>4, <1>6 DEF Whole

\* What is accepted, of either command.
LEMMA AcceptedIsWhole ==
  ASSUME NEW S, NEW answer \in Seq(S), NEW u, NEW requested
  PROVE  /\ UIDFetchMetadata(requested, answer) = "none" => Whole(requested, answer)
         /\ UIDFetchBody(u, answer) = "none" => Whole(<<u>>, answer)
<1>1. Len(answer) \in Nat
  OBVIOUS
<1>2. QED
  BY <1>1, MetadataAccepted, BodyAccepted DEF Whole

\* An accepted answer names every UID once.
LEMMA WholeIsDistinct ==
  ASSUME NEW requested, Descends(requested), NEW S, NEW answer \in Seq(S), Whole(requested, answer)
  PROVE  /\ \A x \in DOMAIN answer : answer[x].uids[1] \in Range(requested)
         /\ \A x, y \in DOMAIN answer : answer[x].uids[1] = answer[y].uids[1] => x = y
         /\ \A u \in Range(requested) : \E x \in DOMAIN answer : answer[x].uids[1] = u
         /\ Len(answer) = Len(requested)
<1> DEFINE f == [x \in DOMAIN answer |-> answer[x].uids[1]]  n == Len(answer)  T == Range(requested)
<1>1. n \in Nat /\ DOMAIN answer = 1 .. n
  OBVIOUS
<1>2. n = Len(requested) /\ {answer[x].uids[1] : x \in DOMAIN answer} = T
  BY DEF Whole, validateFetchedMetadataUIDs, Range
<1>3. IsFiniteSet(T) /\ Cardinality(T) = n
  BY <1>2, DescendingCount
<1> HIDE DEF T
<1>4. f \in Surjection(1 .. n, T)
  BY <1>1, <1>2 DEF Surjection
<1>5. IsFiniteSet(1 .. n) /\ Cardinality(1 .. n) = n
  BY <1>1, UpToFinite
<1> HIDE DEF f
<1>6. f \in Injection(1 .. n, T)
  <2> HIDE DEF n
  <2>1. QED
    BY <1>3, <1>4, <1>5, FS_Surjection
<1>7. \A x, y \in 1 .. n : f[x] = f[y] => x = y
  BY <1>6 DEF Injection, IsInjective
<1>8. \A x \in DOMAIN answer : f[x] = answer[x].uids[1]
  BY DEF f
<1>9. QED
  BY <1>1, <1>2, <1>7, <1>8 DEF T

\* The items that were asked for, newest first, under the snapshot's generation.
Listed(q, requested) ==
  /\ q \in Seq(Item) /\ Len(q) = Len(requested)
  /\ \A k \in DOMAIN q : /\ q[k].of = <<snapshot.gen, q[k].uid>> /\ q[k].uid \in Range(requested)
                         /\ \A j \in DOMAIN q : j < k => q[k].uid < q[j].uid
  /\ \A u \in Range(requested) : \E k \in DOMAIN q : q[k].uid = u

\* The items of an accepted answer are those.
LEMMA ItemsAreListed ==
  ASSUME NEW requested, Descends(requested), NEW S, NEW answer \in Seq(S),
         Whole(requested, answer), AllHonest(answer),
         snapshot.gen = box.gen, box.gen \in Nat, NEW q, q = Items(answer)
  PROVE  Listed(q, requested)
<1> DEFINE D == DOMAIN answer  f == [x \in DOMAIN answer |-> answer[x].uids[1]]
           order == NewestFirst(D, f)
<1>1. Len(answer) \in Nat /\ D = 1 .. Len(answer)
  OBVIOUS
<1>2. IsFiniteSet(D) /\ Cardinality(D) = Len(answer)
  BY <1>1, UpToFinite
<1>3. Range(requested) \subseteq Nat
  BY DescendingCount
<1>4. /\ \A x \in D : f[x] = answer[x].uids[1] /\ f[x] \in Range(requested) /\ f[x] \in Nat
      /\ \A x, y \in D : f[x] = f[y] => x = y
      /\ \A u \in Range(requested) : \E x \in D : f[x] = u
      /\ Len(answer) = Len(requested)
  <2>1. /\ \A x \in DOMAIN answer : answer[x].uids[1] \in Range(requested)
        /\ \A x, y \in DOMAIN answer : answer[x].uids[1] = answer[y].uids[1] => x = y
        /\ \A u \in Range(requested) : \E x \in DOMAIN answer : answer[x].uids[1] = u
        /\ Len(answer) = Len(requested)
    BY WholeIsDistinct
  <2>2. QED
    BY <1>3, <2>1
<1>5. q = [i \in D |-> [gen |-> snapshot.gen, uid |-> answer[order[i]].uids[1], of |-> answer[order[i]].of]]
  BY DEF Items
<1>6. f \in [D -> Int]
  BY <1>4
<1> HIDE DEF f, D
<1>7. /\ order \in Seq(D) /\ Len(order) = Cardinality(D)
      /\ \A i, j \in DOMAIN order : i < j => f[order[j]] < f[order[i]]
      /\ \A x \in D : \E i \in DOMAIN order : order[i] = x
  BY <1>2, <1>4, <1>6, NewestFirstSorts
<1> HIDE DEF order
<1>8. DOMAIN order = D /\ \A i \in D : order[i] \in D
  BY <1>1, <1>2, <1>7
<1>9. \A x \in D : answer[x].of = <<snapshot.gen, f[x]>>
  BY <1>1, <1>4 DEF AllHonest, Honest
<1>10. ASSUME NEW i \in D
       PROVE  /\ q[i] \in Item /\ q[i].uid = f[order[i]] /\ q[i].of = <<snapshot.gen, q[i].uid>>
  <2>1. q[i] = [gen |-> snapshot.gen, uid |-> answer[order[i]].uids[1], of |-> answer[order[i]].of]
    BY <1>5
  <2>2. order[i] \in D
    BY <1>8
  <2>3. answer[order[i]].uids[1] = f[order[i]] /\ f[order[i]] \in Nat
        /\ answer[order[i]].of = <<snapshot.gen, f[order[i]]>>
    BY <1>4, <1>9, <2>2
  <2>4. QED
    BY <2>1, <2>3 DEF Item
<1>11. DOMAIN q = D /\ q \in Seq(Item) /\ Len(q) = Len(answer)
  <2>1. DOMAIN q = D /\ q \in [1 .. Len(answer) -> Item]
    BY <1>1, <1>5, <1>10
  <2>2. QED
    BY <1>1, <2>1
<1>12. ASSUME NEW k \in DOMAIN q
       PROVE  /\ q[k].of = <<snapshot.gen, q[k].uid>> /\ q[k].uid \in Range(requested)
              /\ \A j \in DOMAIN q : j < k => q[k].uid < q[j].uid
  <2>1. k \in D /\ order[k] \in D /\ k \in DOMAIN order
    BY <1>8, <1>11
  <2>2. q[k].of = <<snapshot.gen, q[k].uid>> /\ q[k].uid = f[order[k]] /\ f[order[k]] \in Range(requested)
    BY <1>4, <1>10, <2>1
  <2>3. ASSUME NEW j \in DOMAIN q, j < k PROVE q[k].uid < q[j].uid
    <3>1. j \in D /\ j \in DOMAIN order
      BY <1>8, <1>11
    <3>2. q[j].uid = f[order[j]]
      BY <1>10, <3>1
    <3>3. f[order[k]] < f[order[j]]
      BY <1>7, <2>1, <2>3, <3>1
    <3>4. QED
      BY <2>2, <3>2, <3>3
  <2>4. QED
    BY <2>2, <2>3
<1>13. ASSUME NEW u \in Range(requested) PROVE \E k \in DOMAIN q : q[k].uid = u
  <2>1. PICK x \in D : f[x] = u
    BY <1>4
  <2>2. PICK i \in DOMAIN order : order[i] = x
    BY <1>7
  <2>3. QED
    BY <1>8, <1>10, <1>11, <2>1, <2>2
<1>14. QED
  BY <1>4, <1>11, <1>12, <1>13 DEF Listed

\* The first message of an answer that was accepted is the one asked for.
LEMMA ReadIsHonest ==
  ASSUME NEW u, NEW S, NEW answer \in Seq(S), Whole(<<u>>, answer), AllHonest(answer)
  PROVE  answer[1].of = <<box.gen, u>>
<1>1. Len(answer) = 1
  BY DEF Whole, validateFetchedMetadataUIDs
<1>2. {answer[i].uids[1] : i \in DOMAIN answer} = {<<u>>[i] : i \in DOMAIN <<u>>}
  BY DEF Whole, validateFetchedMetadataUIDs
<1>3. 1 \in DOMAIN answer
  BY <1>1
<1>4. answer[1].uids[1] = u
  <2>1. DOMAIN <<u>> = {1} /\ <<u>>[1] = u
    OBVIOUS
  <2>2. {<<u>>[i] : i \in DOMAIN <<u>>} = {u}
    BY <2>1
  <2>3. QED
    BY <1>2, <1>3, <2>2
<1>5. QED
  BY <1>1, <1>4 DEF AllHonest, Honest

-----------------------------------------------------------------------------
(* What the steps share.                                                   *)

\* A list of A is a list of what contains A.
LEMMA SeqWidens ==
  ASSUME NEW A, NEW B, A \subseteq B, NEW q \in Seq(A) PROVE q \in Seq(B) /\ Len(q) \in Nat
OBVIOUS

\* Types of the fields, in the form the provers use.
LEMMA TypeGives ==
  ASSUME TypeOK
  PROVE  /\ Mail /\ box.mail \subseteq Nat \ {0} /\ box.gen \in Nat /\ box.next \in Nat
         /\ snapshot.gen \in Nat /\ snapshot.next \in Nat /\ id.uid \in Nat /\ id.gen \in Nat
         /\ MaxUID \in Nat /\ MaxUID > 0 /\ MaxResults \in Nat /\ MaxResults > 0
         /\ MaxWindows \in Nat /\ MaxWindows > 0 /\ Width \in Nat /\ Width > 0
         /\ MaxGenerations \in Nat /\ MaxOutputBytes \in Nat
<1>1. /\ MaxUID \in Nat /\ MaxUID > 0 /\ MaxResults \in Nat /\ MaxResults > 0
      /\ MaxWindows \in Nat /\ MaxWindows > 0 /\ Width \in Nat /\ Width > 0
      /\ MaxGenerations \in Nat /\ MaxOutputBytes \in Nat
  BY ReadAssumption
<1>2. box.mail \in SUBSET (1 .. MaxUID)
  BY DEF TypeOK
<1>3. IsFiniteSet(box.mail)
  BY <1>1, <1>2, UpToFinite, FS_Subset
<1>4. /\ box.gen \in Nat /\ box.next \in Nat
      /\ snapshot.gen \in Nat /\ snapshot.next \in Nat /\ id.uid \in Nat /\ id.gen \in Nat
  BY <1>1 DEF TypeOK
<1>5. box.mail \subseteq Nat \ {0}
  BY <1>1, <1>2
<1>6. QED
  BY <1>1, <1>3, <1>4, <1>5 DEF Mail

\* The next window lies right below remaining; that of a read is its UID.
LEMMA WindowIs ==
  ASSUME TypeOK, SnapshotInv, PageInv, Underway
  PROVE  /\ IsWindow(NextWindow)
         /\ kind = "page" => /\ NextWindow.Start \in Nat /\ 1 <= NextWindow.Start
                             /\ NextWindow.Start < remaining /\ NextWindow.End = remaining - 1
         /\ kind # "page" => NextWindow.Start = id.uid /\ NextWindow.End = id.uid
<1> DEFINE start == IF remaining > Width THEN remaining - Width ELSE 1
<1>1. Width \in Nat /\ Width > 0 /\ MaxUID \in Nat /\ id.uid \in Nat
  BY TypeGives
<1>2. CASE kind = "page"
  <2>1. remaining \in Nat /\ 1 < remaining
    BY <1>1, <1>2 DEF TypeOK, PageInv
  <2>2. NextWindow = [Start |-> start, End |-> remaining - 1]
    BY <1>2 DEF NextWindow, Window
  <2>3. start \in Nat /\ 1 <= start /\ start < remaining
    BY <1>1, <2>1
  <2> HIDE DEF start
  <2>4. NextWindow.Start = start /\ NextWindow.End = remaining - 1
    BY <2>2
  <2>5. QED
    BY <1>2, <2>1, <2>3, <2>4 DEF IsWindow
<1>3. CASE kind # "page"
  <2>1. id.uid > 0
    BY <1>3 DEF SnapshotInv
  <2>2. NextWindow.Start = id.uid /\ NextWindow.End = id.uid
    BY <1>3 DEF NextWindow, Window
  <2>3. QED
    BY <1>1, <1>3, <2>1, <2>2 DEF IsWindow
<1>4. QED
  BY <1>2, <1>3

\* Replies have their type.
LEMMA ReplyType ==
  ASSUME NEW code \in Codes \cup {"none", "mailbox_not_found"}, NEW msgs \in Seq(Item), NEW b \in BOOLEAN
  PROVE  [err |-> code, messages |-> msgs, truncated |-> b] \in Reply
BY Zenon DEF Reply

\* A reply without messages.
LEMMA EmptyPage ==
  ASSUME NEW code \in Codes \cup {"none", "mailbox_not_found"}
  PROVE  [err |-> code, messages |-> <<>>, truncated |-> FALSE] \in Reply
<1>1. <<>> \in Seq(Item)
  OBVIOUS
<1>2. QED
  BY <1>1, ReplyType

\* A page.
LEMMA FullPage ==
  ASSUME NEW msgs \in Seq(Item), NEW b \in BOOLEAN
  PROVE  [err |-> "none", messages |-> msgs, truncated |-> b] \in Reply
<1>1. "none" \in Codes \cup {"none", "mailbox_not_found"}
  OBVIOUS
<1>2. QED
  BY <1>1, ReplyType, Zenon

\* An error is returned, or the attempt starts over: nothing is claimed of it.
LEMMA FailKeeps ==
  ASSUME Inv, pc \in {"examine", "search", "fetch"}, NEW code \in Codes, code # "none",
         Fail(code), truthful' \in BOOLEAN, judged' = TRUE,
         kind # "page" /\ code = "stale_message_id" /\ truthful' =>
           ~(box.gen = id.gen /\ id.uid \in box.mail)
  PROVE  Inv'
<1>1. /\ box' = box /\ kind' = kind /\ id' = id /\ snapshot' = snapshot /\ remaining' = remaining
      /\ windows' = windows /\ page' = page /\ bytes' = bytes /\ omitted' = omitted /\ uids' = uids
  BY DEF Fail, Return, op, locals
<1>2. \/ pc' = "examine" /\ attempt' = 1 /\ selected' = FALSE /\ reply' = reply
      \/ /\ pc' = "done" /\ attempt' = attempt /\ selected' = selected
         /\ reply' = [err |-> code, messages |-> <<>>, truncated |-> FALSE]
  BY DEF Fail, Return, op, NoReply
<1>3. pc' \in {"examine", "done"} /\ ~Underway'
  BY <1>2 DEF Underway
<1>4. TypeOK'
  <2>1. attempt' \in 0 .. 1 /\ reply' \in Reply
    <3>1. attempt \in 0 .. 1 /\ reply \in Reply
      BY DEF Inv, TypeOK
    <3>2. [err |-> code, messages |-> <<>>, truncated |-> FALSE] \in Reply
      BY EmptyPage
    <3>3. attempt' \in 0 .. 1
      BY <1>2, <3>1
    <3>4. reply' = reply \/ reply' = [err |-> code, messages |-> <<>>, truncated |-> FALSE]
      BY <1>2, Zenon
    <3>5. QED
      BY <3>1, <3>2, <3>3, <3>4, Zenon
  <2>2. selected' \in BOOLEAN
    BY <1>2 DEF Inv, TypeOK
  <2>3. QED
    BY <1>1, <1>3, <2>1, <2>2 DEF Inv, TypeOK
<1>5. SnapshotInv'
  BY <1>1, <1>3 DEF Inv, SnapshotInv
<1>6. ~Returned'
  BY <1>2 DEF Returned
<1>7. PageInv' /\ WholeInv'
  BY <1>1, <1>3, <1>6 DEF PageInv, WholeInv
<1>8. ReadInv'
  <2>1. pc' = "done" => reply'.err = code
    BY <1>2
  <2>2. QED
    BY <1>1, <2>1 DEF ReadInv
<1>9. QED
  BY <1>4, <1>5, <1>7, <1>8 DEF Inv

\* Of a truthful server and the mailbox as it is, whatever lies below the
\* UIDNEXT and not below floor is in msgs, or is left out below all of it.
Covers(msgs, floor, out) ==
  truthful /\ snapshot.gen = box.gen =>
    \A u \in box.mail : floor <= u /\ u < snapshot.next =>
      \/ \E k \in DOMAIN msgs : msgs[k].uid = u
      \/ out /\ \A k \in DOMAIN msgs : u < msgs[k].uid

\* A page that covers what it passed goes on or is returned.
LEMMA LoopKeeps ==
  ASSUME NEW rem \in Nat, NEW won \in Nat, NEW msgs \in Seq(Item), NEW out \in BOOLEAN,
         LoopHead(rem, won, msgs, out),
         reply \in Reply,
         kind' = "page", page' = msgs, remaining' = rem, windows' = won, omitted' = out,
         box'.mail \subseteq Nat \ {0}, snapshot'.next \in Nat,
         1 <= rem, rem <= snapshot'.next, Len(msgs) <= MaxResults,
         out => Len(msgs) = MaxResults,
         OnePage(page, remaining)', Covers(page, remaining, omitted)'
  PROVE  /\ PageInv' /\ WholeInv' /\ ReadInv' /\ pc' \in {"search", "done"}
         /\ reply' \in Reply
<1>1. MaxResults \in Nat /\ MaxWindows \in Nat /\ Len(msgs) \in Nat
  BY ReadAssumption
<1>2. \A k \in DOMAIN msgs : msgs[k].uid \in Nat
  <2>1. \A k \in DOMAIN msgs : msgs[k] \in Item
    OBVIOUS
  <2>2. \A m \in Item : m.uid \in Nat
    BY DEF Item
  <2>3. QED
    BY <2>1, <2>2
<1>3. ReadInv'
  BY DEF ReadInv
<1>4. CASE rem > 1 /\ won < MaxWindows /\ Len(msgs) < MaxResults
  <2>1. pc' = "search" /\ reply' = reply
    BY <1>4 DEF LoopHead
  <2>2. out = FALSE
    BY <1>1, <1>4
  <2>3. Underway' /\ ~Returned'
    BY <2>1 DEF Underway, Returned
  <2>4. PageInv'
    BY <1>4, <2>1, <2>2, <2>3 DEF PageInv
  <2>5. WholeInv'
    BY <2>1, <2>2, <2>3 DEF WholeInv, Covers
  <2>6. QED
    BY <1>3, <2>1, <2>4, <2>5
<1>5. CASE ~(rem > 1 /\ won < MaxWindows /\ Len(msgs) < MaxResults)
  <2>1. pc' = "done" /\ reply' = [err |-> "none", messages |-> msgs, truncated |-> (out \/ rem > 1)]
    BY <1>5 DEF LoopHead
  <2>2. reply'.err = "none" /\ reply'.messages = msgs /\ (reply'.truncated <=> out \/ rem > 1)
    BY <2>1
  <2>3. reply' \in Reply
    <3>1. (out \/ rem > 1) \in BOOLEAN
      OBVIOUS
    <3>2. QED
      BY <2>1, <3>1, FullPage
  <2>4. ~Underway' /\ pc' \notin {"search", "fetch"}
    BY <2>1 DEF Underway
  <2>5. PageInv'
    <3>1. OnePage(reply.messages, 1)'
      BY <1>2, <2>2 DEF OnePage
    <3>2. QED
      BY <2>4, <3>1 DEF PageInv
  <2>6. WholeInv'
    <3>1. SUFFICES ASSUME truthful', snapshot'.gen = box'.gen PROVE PageIsWhole'
      BY <2>4 DEF WholeInv
    <3>2. SUFFICES ASSUME NEW u \in box'.mail, u < snapshot'.next
                   PROVE  \/ \E k \in DOMAIN msgs : msgs[k].uid = u
                          \/ (out \/ rem > 1) /\ \A k \in DOMAIN msgs : u < msgs[k].uid
      BY <2>2 DEF PageIsWhole
    <3>3. u \in Nat /\ u >= 1
      OBVIOUS
    <3>4. CASE rem <= u
      BY <3>1, <3>2, <3>4 DEF Covers
    <3>5. CASE ~(rem <= u)
      <4>1. rem > 1
        BY <3>3, <3>5
      <4>2. \A k \in DOMAIN msgs : rem <= msgs[k].uid
        BY DEF OnePage
      <4>3. \A k \in DOMAIN msgs : u < msgs[k].uid
        BY <1>2, <3>3, <3>5, <4>2
      <4>4. QED
        BY <4>1, <4>3
    <3>6. QED
      BY <3>4, <3>5
  <2>7. QED
    BY <1>3, <2>1, <2>3, <2>5, <2>6
<1>6. QED
  BY <1>4, <1>5

-----------------------------------------------------------------------------
(* Each step keeps the invariant.                                          *)

\* Stuttering.
LEMMA StutterStep ==
  ASSUME Inv, UNCHANGED vars PROVE Inv'
<1>1. /\ box' = box /\ selected' = selected /\ pc' = pc /\ kind' = kind /\ id' = id
      /\ attempt' = attempt /\ snapshot' = snapshot /\ remaining' = remaining
      /\ windows' = windows /\ page' = page /\ bytes' = bytes /\ omitted' = omitted
      /\ uids' = uids /\ reply' = reply /\ truthful' = truthful /\ judged' = judged
  BY DEF vars, op, locals
<1>2. TypeOK'
  BY <1>1 DEF Inv, TypeOK
<1>3. SnapshotInv'
  BY <1>1 DEF Inv, SnapshotInv, Underway
<1>4. PageInv'
  BY <1>1 DEF Inv, PageInv, Underway, Returned, OnePage, NextWindow
<1>5. WholeInv'
  BY <1>1 DEF Inv, WholeInv, Underway, Returned, PageIsWhole, NextWindow
<1>6. ReadInv'
  BY <1>1 DEF Inv, ReadInv
<1>7. QED
  BY <1>1, <1>2, <1>3, <1>4, <1>5, <1>6 DEF Inv

\* An operation begins, or is refused at once.
LEMMA StartKeeps ==
  ASSUME Inv, NEW k \in Kinds, NEW code \in {"none", "mailbox_not_found", "bounds_exceeded", "stale_message_id"},
         NEW i \in [signed : BOOLEAN, gen : 0 .. MaxGenerations, uid : 0 .. MaxUID],
         i.gen <= box.gen, i.gen = box.gen => i.uid < box.next, k # "page" => i.uid > 0,
         code = "stale_message_id" => ~i.signed,
         k # "page" => code \in {"none", "stale_message_id"} /\ (code = "none" <=> i.signed),
         k = "page" => code # "stale_message_id",
         pc' = IF code = "none" THEN "examine" ELSE "done",
         reply' = [NoReply EXCEPT !.err = code], kind' = k, id' = i, attempt' = 0,
         truthful' = TRUE, judged' = TRUE, UNCHANGED <<box, selected, locals>>
  PROVE  Inv'
<1>1. /\ box' = box /\ selected' = selected /\ snapshot' = snapshot /\ remaining' = remaining
      /\ windows' = windows /\ page' = page /\ bytes' = bytes /\ omitted' = omitted /\ uids' = uids
  BY DEF locals
<1>2. reply' = [err |-> code, messages |-> <<>>, truncated |-> FALSE]
  BY DEF NoReply
<1>3. ~Underway' /\ pc' \in {"examine", "done"} /\ pc' \notin {"search", "fetch"}
  BY DEF Underway
<1>4. ~Returned'
  BY <1>2 DEF Returned
<1>5. TypeOK'
  <2>1. reply' \in Reply
    <3>1. code \in Codes \cup {"none", "mailbox_not_found"}
      BY DEF Codes, OutOfStepCodes, InStepCodes, CheckCodes
    <3>2. QED
      BY <1>2, <3>1, EmptyPage
  <2>2. {selected, omitted, truthful, judged}' \subseteq BOOLEAN
    BY <1>1 DEF Inv, TypeOK
  <2>3. QED
    BY <1>1, <1>3, <2>1, <2>2 DEF Inv, TypeOK
<1>6. SnapshotInv'
  BY <1>1, <1>3 DEF Inv, SnapshotInv
<1>7. PageInv' /\ WholeInv'
  BY <1>3, <1>4 DEF PageInv, WholeInv
<1>8. ReadInv'
  <2>1. reply'.err = code
    BY <1>2
  <2>2. pc' = "done" => code # "none"
    OBVIOUS
  <2>3. QED
    BY <2>1, <2>2 DEF ReadInv
<1>9. QED
  BY <1>5, <1>6, <1>7, <1>8 DEF Inv

\* A search page is asked for.
LEMMA SearchMailPageStep ==
  ASSUME Inv, NEW q \in {"ok", "unnamed", "oversized"}, SearchMailPage(q) PROVE Inv'
<1>1. PICK code \in {"none", "mailbox_not_found", "bounds_exceeded"} :
        /\ pc' = IF code = "none" THEN "examine" ELSE "done"
        /\ reply' = [NoReply EXCEPT !.err = code]
  BY DEF SearchMailPage
<1>2. /\ kind' = "page" /\ id' = NoId /\ attempt' = 0
      /\ truthful' = TRUE /\ judged' = TRUE /\ UNCHANGED <<box, selected, locals>>
  BY DEF SearchMailPage
<1>3. NoId \in [signed : BOOLEAN, gen : 0 .. MaxGenerations, uid : 0 .. MaxUID]
      /\ NoId.gen = 0 /\ NoId.uid = 0 /\ ~NoId.signed
  BY ReadAssumption DEF NoId
<1>4. box.gen > 0 /\ box.gen \in Nat
  BY ReadAssumption DEF Inv, TypeOK
<1> HIDE DEF NoId
<1>5. "page" \in Kinds /\ NoId.gen <= box.gen /\ NoId.gen # box.gen
  BY <1>3, <1>4 DEF Kinds
<1>6. QED
  BY <1>1, <1>2, <1>3, <1>5, StartKeeps

\* A message is asked for by its identifier.
LEMMA GetMessageStep ==
  ASSUME Inv, NEW k \in Kinds \ {"page"}, NEW i \in Ids, GetMessage(k, i) PROVE Inv'
<1> DEFINE code == IF i.signed THEN "none" ELSE "stale_message_id"
<1>1. box.gen \in 1 .. MaxGenerations /\ MaxGenerations \in Nat /\ MaxUID \in Nat
  BY ReadAssumption DEF Inv, TypeOK
<1>2. i.signed \in BOOLEAN /\ i.gen \in 1 .. box.gen /\ i.uid \in 1 .. MaxUID
      /\ i \in [signed : BOOLEAN, gen : 0 .. MaxGenerations, uid : 0 .. MaxUID]
  BY <1>1 DEF Ids
<1>3. /\ pc' = IF code = "none" THEN "examine" ELSE "done"
      /\ reply' = [NoReply EXCEPT !.err = code]
  BY DEF GetMessage, decodeMessageID
<1>4. /\ kind' = k /\ id' = i /\ attempt' = 0 /\ (i.gen = box.gen => i.uid < box.next)
      /\ truthful' = TRUE /\ judged' = TRUE /\ UNCHANGED <<box, selected, locals>>
  BY DEF GetMessage
<1>5. code \in {"none", "stale_message_id"} /\ (code = "none" <=> i.signed)
      /\ (code = "stale_message_id" => ~i.signed)
  OBVIOUS
<1>6. i.gen <= box.gen /\ i.uid > 0
  BY <1>1, <1>2
<1> HIDE DEF code
<1>7. QED
  BY <1>2, <1>3, <1>4, <1>5, <1>6, StartKeeps

\* The caller takes the reply.
LEMMA TakeStep ==
  ASSUME Inv, Take PROVE Inv'
<1>1. /\ box' = box /\ selected' = selected /\ pc' = "idle" /\ kind' = kind /\ id' = id
      /\ attempt' = 0 /\ snapshot' = [gen |-> 0, next |-> 0] /\ remaining' = 0 /\ windows' = 0
      /\ page' = <<>> /\ bytes' = 2 /\ omitted' = FALSE /\ uids' = <<>>
      /\ reply' = NoReply /\ truthful' = truthful /\ judged' = judged
  BY DEF Take, op
<1>2. ~Underway' /\ ~Returned' /\ pc' \notin {"search", "fetch", "done"}
  BY <1>1 DEF Underway, Returned
<1>3. TypeOK'
  <2>1. reply' \in Reply
    <3>1. "none" \in Codes \cup {"none", "mailbox_not_found"}
      OBVIOUS
    <3>2. QED
      BY <1>1, <3>1, EmptyPage DEF NoReply
  <2>2. {selected, omitted, truthful, judged}' \subseteq BOOLEAN
    BY <1>1 DEF Inv, TypeOK
  <2>3. page' \in Seq(Item) /\ Len(page') <= MaxResults /\ uids' \in Seq(1 .. MaxUID) /\ bytes' \in Int
        /\ page' = <<>>
    BY <1>1, ReadAssumption
  <2>4. /\ attempt' \in 0 .. 1 /\ snapshot' \in [gen : 0 .. MaxGenerations, next : 0 .. MaxUID + 1]
        /\ remaining' \in 0 .. MaxUID + 1 /\ windows' \in 0 .. MaxWindows
    BY <1>1, ReadAssumption
  <2>5. QED
    BY <1>1, <2>1, <2>2, <2>3, <2>4 DEF Inv, TypeOK
<1>4. SnapshotInv'
  <2>1. snapshot'.gen = 0 /\ snapshot'.next = 0
    BY <1>1
  <2>2. box.gen \in Nat /\ box.next \in Nat
    BY TypeGives DEF Inv
  <2>3. QED
    BY <1>1, <1>2, <2>1, <2>2 DEF Inv, SnapshotInv
<1>5. PageInv' /\ WholeInv' /\ ReadInv'
  BY <1>2 DEF PageInv, WholeInv, ReadInv
<1>6. QED
  BY <1>1, <1>3, <1>4, <1>5 DEF Inv

\* What others do to the mailbox: in one generation UIDs are only added at the
\* end; a new generation ends the selected session.
LEMMA OthersKeep ==
  ASSUME Inv, TypeOK', UNCHANGED <<pc, op, attempt, locals, reply, truthful, judged>>,
         box'.gen = box.gen => /\ box.next <= box'.next /\ selected' = selected
                               /\ \A u \in box'.mail : u \in box.mail \/ box.next <= u,
         box'.gen # box.gen => box.gen < box'.gen /\ selected' = FALSE
  PROVE  Inv'
<1>1. /\ pc' = pc /\ kind' = kind /\ id' = id /\ attempt' = attempt /\ snapshot' = snapshot
      /\ remaining' = remaining /\ windows' = windows /\ page' = page /\ bytes' = bytes
      /\ omitted' = omitted /\ uids' = uids /\ reply' = reply /\ truthful' = truthful
      /\ judged' = judged
  BY DEF op, locals
<1>2. /\ box.gen \in Nat /\ box.next \in Nat /\ box.mail \subseteq Nat
      /\ snapshot.gen \in Nat /\ snapshot.next \in Nat /\ id.uid \in Nat /\ id.gen \in Nat
  BY TypeGives DEF Inv
<1>3. box'.gen \in Nat /\ box'.next \in Nat /\ box'.mail \subseteq Nat
  BY ReadAssumption DEF TypeOK
<1>4. SnapshotInv'
  BY <1>1, <1>2, <1>3 DEF Inv, SnapshotInv, Underway
<1>5. PageInv'
  BY <1>1 DEF Inv, PageInv, Underway, Returned, OnePage, NextWindow
<1>6. ASSUME snapshot'.gen = box'.gen
      PROVE  /\ snapshot.gen = box.gen
             /\ \A u \in box'.mail : u < snapshot.next => u \in box.mail
  <2>1. box'.gen = box.gen
    BY <1>1, <1>2, <1>3, <1>6 DEF Inv, SnapshotInv
  <2>2. snapshot.gen = box.gen /\ snapshot.next <= box.next
    BY <1>1, <1>6, <2>1 DEF Inv, SnapshotInv
  <2>3. ASSUME NEW u \in box'.mail, u < snapshot.next PROVE u \in box.mail
    <3>1. u \in Nat /\ (u \in box.mail \/ box.next <= u)
      BY <1>3, <2>1
    <3>2. QED
      BY <1>2, <2>2, <2>3, <3>1
  <2>4. QED
    BY <2>2, <2>3
<1>7. WholeInv'
  <2>1. SUFFICES ASSUME kind = "page", truthful, snapshot'.gen = box'.gen PROVE WholeInv'
    BY <1>1 DEF WholeInv
  <2>2. snapshot.gen = box.gen /\ \A u \in box'.mail : u < snapshot.next => u \in box.mail
    BY <1>6, <2>1
  <2>3. Underway => \A u \in box'.mail : remaining <= u /\ u < snapshot.next =>
                      \E k \in DOMAIN page : page[k].uid = u
    BY <2>1, <2>2 DEF Inv, WholeInv
  <2>4. pc = "fetch" => \A u \in box'.mail : NextWindow.Start <= u /\ u < remaining =>
                          \/ \E k \in DOMAIN uids : uids[k] = u
                          \/ omitted /\ \A k \in DOMAIN uids : u < uids[k]
    <3>1. SUFFICES ASSUME pc = "fetch", NEW u \in box'.mail, NextWindow.Start <= u, u < remaining
                   PROVE  \/ \E k \in DOMAIN uids : uids[k] = u
                          \/ omitted /\ \A k \in DOMAIN uids : u < uids[k]
      OBVIOUS
    <3>2. remaining <= snapshot.next
      BY <2>1, <3>1 DEF Inv, PageInv, Underway
    <3>3. u \in Nat /\ remaining \in Nat
      BY <1>3, ReadAssumption DEF Inv, TypeOK
    <3>4. u < snapshot.next
      BY <1>2, <3>1, <3>2, <3>3
    <3>5. QED
      BY <2>1, <2>2, <3>1, <3>4 DEF Inv, WholeInv
  <2>5. Returned => PageIsWhole'
    <3>1. SUFFICES ASSUME Returned, NEW u \in box'.mail, u < snapshot.next
                   PROVE  \/ \E i \in DOMAIN reply.messages : reply.messages[i].uid = u
                          \/ /\ reply.truncated
                             /\ \A i \in DOMAIN reply.messages : u < reply.messages[i].uid
      BY <1>1 DEF PageIsWhole
    <3>2. u \in box.mail
      BY <2>2, <3>1
    <3>3. PageIsWhole
      BY <2>1, <2>2, <3>1 DEF Inv, WholeInv
    <3>4. QED
      BY <2>1, <2>2, <3>1, <3>2, <3>3 DEF PageIsWhole
  <2>6. Underway' <=> Underway
    BY <1>1 DEF Underway
  <2>7. Returned' <=> Returned
    BY <1>1 DEF Returned
  <2>8. NextWindow' = NextWindow
    BY <1>1 DEF NextWindow
  <2>9. QED
    BY <1>1, <2>3, <2>4, <2>5, <2>6, <2>7, <2>8 DEF WholeInv
<1>8. ReadInv'
  <2>1. SUFFICES ASSUME kind # "page", pc = "done", reply.err = "stale_message_id", id.signed, truthful,
                        box'.gen = id.gen, id.uid \in box'.mail
                 PROVE  FALSE
    BY <1>1 DEF Inv, ReadInv
  <2>2. ~(box.gen = id.gen /\ id.uid \in box.mail)
    BY <2>1 DEF Inv, ReadInv
  <2>3. id.gen <= box.gen /\ (id.gen = box.gen => id.uid < box.next)
    BY DEF Inv, SnapshotInv
  <2>4. box'.gen = box.gen
    BY <1>2, <1>3, <2>1, <2>3
  <2>5. id.uid \in box.mail \/ box.next <= id.uid
    BY <2>1, <2>4
  <2>6. QED
    BY <1>2, <2>1, <2>2, <2>3, <2>4, <2>5
<1>9. QED
  BY <1>1, <1>4, <1>5, <1>7, <1>8 DEF Inv

\* A message arrives.
LEMMA DeliverStep ==
  ASSUME Inv, Deliver PROVE Inv'
<1>1. box.next <= MaxUID /\ box.next \in 1 .. MaxUID + 1 /\ MaxUID \in Nat /\ box.mail \subseteq 1 .. box.next - 1
      /\ box \in [gen : 1 .. MaxGenerations, next : 1 .. MaxUID + 1, mail : SUBSET (1 .. MaxUID)]
  BY ReadAssumption DEF Deliver, Inv, TypeOK
<1>2. box' = [gen |-> box.gen, next |-> box.next + 1, mail |-> box.mail \cup {box.next}]
  BY <1>1 DEF Deliver
<1>3. UNCHANGED <<selected, pc, op, attempt, locals, reply, truthful, judged>>
  BY DEF Deliver
<1>4. /\ box' \in [gen : 1 .. MaxGenerations, next : 1 .. MaxUID + 1, mail : SUBSET (1 .. MaxUID)]
      /\ box'.mail \subseteq 1 .. box'.next - 1
  BY <1>1, <1>2
<1>5. TypeOK'
  BY <1>3, <1>4 DEF Inv, TypeOK, op, locals
<1>6. /\ box'.gen = box.gen /\ box.next <= box'.next
      /\ \A u \in box'.mail : u \in box.mail \/ box.next <= u
  BY <1>1, <1>2
<1>7. QED
  BY <1>3, <1>5, <1>6, OthersKeep

\* A message goes.
LEMMA ExpungeStep ==
  ASSUME Inv, NEW u, Expunge(u) PROVE Inv'
<1>1. box.next \in Nat /\ box.mail \subseteq 1 .. box.next - 1
      /\ box \in [gen : 1 .. MaxGenerations, next : 1 .. MaxUID + 1, mail : SUBSET (1 .. MaxUID)]
  BY ReadAssumption DEF Inv, TypeOK
<1>2. box' = [gen |-> box.gen, next |-> box.next, mail |-> box.mail \ {u}]
  BY <1>1 DEF Expunge
<1>3. UNCHANGED <<selected, pc, op, attempt, locals, reply, truthful, judged>>
  BY DEF Expunge
<1>4. /\ box' \in [gen : 1 .. MaxGenerations, next : 1 .. MaxUID + 1, mail : SUBSET (1 .. MaxUID)]
      /\ box'.mail \subseteq 1 .. box'.next - 1
  BY <1>1, <1>2
<1>5. TypeOK'
  BY <1>3, <1>4 DEF Inv, TypeOK, op, locals
<1>6. /\ box'.gen = box.gen /\ box.next <= box'.next
      /\ \A v \in box'.mail : v \in box.mail \/ box.next <= v
  BY <1>1, <1>2
<1>7. QED
  BY <1>3, <1>5, <1>6, OthersKeep

\* The mailbox is recreated.
LEMMA RecreateStep ==
  ASSUME Inv, NEW m \in SUBSET (1 .. MaxUID - 1), Recreate(m) PROVE Inv'
<1>1. box.gen \in 1 .. MaxGenerations /\ MaxGenerations \in Nat /\ MaxUID \in Nat /\ MaxUID > 0
      /\ box.gen < MaxGenerations
  BY ReadAssumption DEF Inv, TypeOK, Recreate
<1>2. box' = [gen |-> box.gen + 1, next |-> MaxUID, mail |-> m] /\ selected' = FALSE
  BY DEF Recreate
<1>3. UNCHANGED <<pc, op, attempt, locals, reply, truthful, judged>>
  BY DEF Recreate
<1>4. m \subseteq 1 .. MaxUID
  BY <1>1
<1>5. /\ box' \in [gen : 1 .. MaxGenerations, next : 1 .. MaxUID + 1, mail : SUBSET (1 .. MaxUID)]
      /\ box'.mail \subseteq 1 .. box'.next - 1
  BY <1>1, <1>2, <1>4
<1>6. TypeOK'
  BY <1>2, <1>3, <1>5 DEF Inv, TypeOK, op, locals
<1>7. box'.gen # box.gen /\ box.gen < box'.gen
  BY <1>1, <1>2
<1>8. QED
  BY <1>2, <1>3, <1>6, <1>7, OthersKeep

\* EXAMINE: a page begins anew, a read compares generations.
LEMMA ExamineStep ==
  ASSUME Inv, Examine PROVE Inv'
<1>1. /\ pc = "examine" /\ selected' = TRUE /\ truthful' = TRUE /\ box' = box /\ kind' = kind /\ id' = id
      /\ attempt' = attempt /\ judged' = judged /\ snapshot' = [gen |-> box.gen, next |-> box.next]
  BY DEF Examine, ExaminePage, ExamineMessage, op
<1>2. snapshot'.gen = box.gen /\ snapshot'.next = box.next
      /\ snapshot' \in [gen : 0 .. MaxGenerations, next : 0 .. MaxUID + 1]
  BY <1>1, ReadAssumption DEF Inv, TypeOK
<1>3. box.gen \in Nat /\ box.next \in Nat /\ box.next > 0 /\ box.next <= MaxUID + 1 /\ box.mail \subseteq Nat \ {0}
  BY TypeGives, ReadAssumption DEF Inv, TypeOK
<1>4. CASE kind = "page"
  <2>1. /\ remaining' = box.next /\ windows' = 0 /\ omitted' = FALSE /\ uids' = <<>>
        /\ page' = <<>> /\ bytes' = 2 /\ LoopHead(box.next, 0, <<>>, FALSE)
    BY <1>4 DEF Examine, ExaminePage
  <2>2. OnePage(page, remaining)'
    BY <2>1 DEF OnePage
  <2>3. Covers(page, remaining, omitted)'
    BY <1>1, <1>2, <1>3, <2>1 DEF Covers
  <2>4. <<>> \in Seq(Item) /\ Len(<<>>) = 0 /\ <<>> \in Seq(1 .. MaxUID)
    OBVIOUS
  <2>5. reply \in Reply /\ MaxResults \in Nat /\ MaxResults > 0
    BY ReadAssumption DEF Inv, TypeOK
  <2>6. PageInv' /\ WholeInv' /\ ReadInv' /\ pc' \in {"search", "done"} /\ reply' \in Reply
    <3> DEFINE rem == box.next  won == 0  msgs == <<>>  out == FALSE
    <3>1. /\ rem \in Nat /\ won \in Nat /\ msgs \in Seq(Item) /\ out \in BOOLEAN
          /\ LoopHead(rem, won, msgs, out) /\ kind' = "page" /\ page' = msgs /\ remaining' = rem
          /\ windows' = won /\ omitted' = out
      BY <1>1, <1>3, <1>4, <2>1, <2>4
    <3>2. /\ box'.mail \subseteq Nat \ {0} /\ snapshot'.next \in Nat /\ 1 <= rem /\ rem <= snapshot'.next
          /\ Len(msgs) <= MaxResults /\ ~out
      BY <1>1, <1>2, <1>3, <2>4, <2>5
    <3> HIDE DEF rem, won, msgs, out
    <3>3. QED
      BY <2>2, <2>3, <2>5, <3>1, <3>2, LoopKeeps
  <2>7. {selected, omitted, truthful, judged}' \subseteq BOOLEAN
    BY <1>1, <2>1 DEF Inv, TypeOK
  <2>8. TypeOK'
    BY <1>1, <1>2, <1>3, <2>1, <2>4, <2>5, <2>6, <2>7, ReadAssumption DEF Inv, TypeOK
  <2>9. SnapshotInv'
    BY <1>1, <1>2, <1>3, <1>4 DEF Inv, SnapshotInv
  <2>10. QED
    BY <1>1, <2>6, <2>8, <2>9 DEF Inv
<1>5. CASE kind # "page"
  <2>1. /\ remaining' = remaining /\ windows' = windows /\ page' = page /\ bytes' = bytes
        /\ omitted' = omitted /\ uids' = uids
    BY <1>5 DEF Examine, ExamineMessage
  <2>2. \/ /\ box.gen # id.gen /\ pc' = "done"
           /\ reply' = [err |-> "stale_message_id", messages |-> <<>>, truncated |-> FALSE]
        \/ box.gen = id.gen /\ pc' = "search" /\ reply' = reply
    BY <1>5 DEF Examine, ExamineMessage, NoReply
  <2>3. reply' \in Reply
    <3>1. "stale_message_id" \in Codes \cup {"none", "mailbox_not_found"}
      BY DEF Codes, InStepCodes, CheckCodes
    <3>2. [err |-> "stale_message_id", messages |-> <<>>, truncated |-> FALSE] \in Reply
      BY <3>1, EmptyPage
    <3>3. reply \in Reply
      BY DEF Inv, TypeOK
    <3>4. QED
      BY <2>2, <3>2, <3>3, Zenon
  <2>4. {selected, omitted, truthful, judged}' \subseteq BOOLEAN
    BY <1>1, <2>1 DEF Inv, TypeOK
  <2>5. pc' \in {"search", "done"}
    BY <2>2
  <2>6. TypeOK'
    BY <1>1, <1>2, <2>1, <2>3, <2>4, <2>5 DEF Inv, TypeOK
  <2>7. SnapshotInv'
    BY <1>1, <1>2, <1>3, <2>2 DEF Inv, SnapshotInv, Underway
  <2>8. PageInv' /\ WholeInv'
    BY <1>1, <1>5 DEF PageInv, WholeInv
  <2>9. ReadInv'
    BY <1>1, <2>2 DEF ReadInv
  <2>10. QED
    BY <1>1, <2>6, <2>7, <2>8, <2>9 DEF Inv
<1>6. QED
  BY <1>4, <1>5

\* A command fails.
LEMMA CommandFailsStep ==
  ASSUME Inv, NEW code \in FailureCodes, CommandFails(code) PROVE Inv'
<1>1. pc \in {"examine", "search", "fetch"} /\ Fail(code) /\ truthful' = truthful /\ judged' = judged
  BY DEF CommandFails
<1>2. code \in Codes /\ code # "none" /\ code # "stale_message_id"
  BY DEF FailureCodes, Codes, Ended, InStepCodes, OpenCodes
<1>3. truthful' \in BOOLEAN /\ judged' = TRUE
  BY <1>1 DEF Inv, TypeOK
<1>4. QED
  BY <1>1, <1>2, <1>3, FailKeeps

\* A read found its message, or one that is not there.
LEMMA ReadFinds ==
  ASSUME Inv, pc = "search", kind # "page", NEW r, r.err \in SearchCodes,
         r.err = "none" /\ truthful' => r.uids = box.mail \cap (id.uid .. id.uid),
         truthful' \in BOOLEAN, judged' = TRUE,
         requireMessageUID(r) # "none", Fail(requireMessageUID(r))
  PROVE  Inv'
<1> DEFINE code == requireMessageUID(r)
<1>1. code \in {"none", "imap_protocol_error", "stale_message_id", "bounds_exceeded"}
  BY DEF requireMessageUID, SearchCodes
<1>2. code = "stale_message_id" => r.err = "none" /\ r.uids = {}
  BY DEF requireMessageUID, SearchCodes
<1>3. id.uid \in id.uid .. id.uid
  BY TypeGives DEF Inv
<1> HIDE DEF code
<1>4. code \in Codes /\ code # "none"
  BY <1>1 DEF Codes, InStepCodes, CheckCodes, OutOfStepCodes, code
<1>5. code = "stale_message_id" /\ truthful' => ~(box.gen = id.gen /\ id.uid \in box.mail)
  BY <1>2, <1>3
<1>6. Fail(code)
  BY DEF code
<1>7. QED
  BY <1>4, <1>5, <1>6, FailKeeps

\* A window of a page was searched.
LEMMA PageWindowKeeps ==
  ASSUME Inv, pc = "search", kind = "page",
         NEW found \in SUBSET (NextWindow.Start .. NextWindow.End), PageWindow(found),
         truthful' \in BOOLEAN, truthful' => truthful, judged' = TRUE,
         truthful' => found = box.mail \cap (NextWindow.Start .. NextWindow.End)
  PROVE  Inv'
<1> DEFINE c == selectHighestUIDs(found)  start == NextWindow.Start
<1>1. /\ Underway /\ OnePage(page, remaining) /\ Len(page) < MaxResults /\ windows < MaxWindows
      /\ remaining <= snapshot.next /\ 1 < remaining /\ omitted = FALSE
  BY DEF Inv, PageInv, Underway, TypeOK
<1>2. /\ start \in Nat /\ 1 <= start /\ start < remaining /\ NextWindow.End = remaining - 1
  BY <1>1, WindowIs DEF Inv
<1>3. /\ remaining \in 0 .. MaxUID + 1 /\ MaxUID \in Nat /\ windows \in 0 .. MaxWindows /\ MaxWindows \in Nat
      /\ page \in Seq(Item) /\ Len(page) \in Nat /\ snapshot.next \in Nat
      /\ MaxResults \in Nat /\ reply \in Reply /\ box.mail \subseteq Nat \ {0}
  BY TypeGives, ReadAssumption DEF Inv, TypeOK
<1>4. found \in SUBSET (start .. remaining - 1) /\ found \in SUBSET Nat /\ found \subseteq 1 .. MaxUID
  BY <1>2, <1>3
<1>5. IsFiniteSet(found)
  <2>1. IsFiniteSet(1 .. MaxUID)
    BY <1>3, UpToFinite
  <2>2. QED
    BY <1>4, <2>1, FS_Subset
<1>6. Chosen(c, found)
  BY <1>1, <1>3, <1>4, <1>5, ChosenAre
<1>7. /\ box' = box /\ selected' = selected /\ kind' = "page" /\ id' = id /\ attempt' = attempt
      /\ snapshot' = snapshot /\ page' = page /\ bytes' = bytes
      /\ uids' = c /\ omitted' = (omitted \/ Len(c) < Cardinality(found))
  BY DEF PageWindow, op
<1>8. \/ /\ c = <<>> /\ remaining' = start /\ windows' = windows + 1
         /\ LoopHead(start, windows + 1, page, omitted)
      \/ c # <<>> /\ pc' = "fetch" /\ remaining' = remaining /\ windows' = windows /\ reply' = reply
  BY DEF PageWindow
<1> HIDE DEF c, start
<1>9. omitted' \in BOOLEAN /\ (omitted' <=> Len(c) < Cardinality(found))
  BY <1>1, <1>7
<1>10. {selected, omitted, truthful, judged}' \subseteq BOOLEAN
  BY <1>7, <1>9 DEF Inv, TypeOK
<1>11. c \in Seq(1 .. MaxUID)
  <2>1. c \in Seq(found)
    BY <1>6 DEF Chosen
  <2> DEFINE S == 1 .. MaxUID
  <2>2. found \subseteq S
    BY <1>4
  <2> HIDE DEF S
  <2>3. c \in Seq(S)
    BY <2>1, <2>2, SeqWidens
  <2>4. QED
    BY <2>3 DEF S
<1>12. ASSUME NEW u \in box.mail, truthful', start <= u, u < remaining PROVE u \in found
  <2>1. u \in start .. remaining - 1
    BY <1>2, <1>3, <1>12
  <2>2. QED
    BY <1>2, <1>12, <2>1 DEF start
<1>13. ASSUME NEW u \in box.mail, truthful', snapshot.gen = box.gen, remaining <= u, u < snapshot.next
       PROVE  \E k \in DOMAIN page : page[k].uid = u
  BY <1>1, <1>13 DEF Inv, WholeInv
<1>14. CASE c = <<>>
  <2>1. remaining' = start /\ windows' = windows + 1 /\ LoopHead(start, windows + 1, page, FALSE)
    BY <1>1, <1>8, <1>14
  <2>2. found = {} /\ omitted' = FALSE
    <3>1. found = {}
      BY <1>6, <1>14 DEF Chosen
    <3>2. Cardinality(found) = 0 /\ Len(c) = 0
      BY <1>14, <3>1, FS_EmptySet
    <3>3. QED
      BY <1>9, <3>1, <3>2
  <2>3. OnePage(page, remaining)'
    <3>1. \A k \in DOMAIN page : page[k].uid \in Nat
      <4>1. \A m \in Item : m.uid \in Nat
        BY DEF Item
      <4>2. \A k \in DOMAIN page : page[k] \in Item
        BY <1>3
      <4>3. QED
        BY <4>1, <4>2
    <3>2. QED
      BY <1>1, <1>2, <1>3, <1>7, <2>1, <3>1 DEF OnePage
  <2>4. Covers(page, remaining, omitted)'
    <3>1. SUFFICES ASSUME truthful', snapshot.gen = box.gen, NEW u \in box.mail,
                          start <= u, u < snapshot.next
                   PROVE  \E k \in DOMAIN page : page[k].uid = u
      BY <1>7, <2>1, <2>2 DEF Covers
    <3>2. ~(u < remaining)
      BY <1>12, <2>2, <3>1
    <3>3. remaining <= u
      BY <1>3, <3>2
    <3>4. QED
      BY <1>13, <3>1, <3>3
  <2>5. PageInv' /\ WholeInv' /\ ReadInv' /\ pc' \in {"search", "done"} /\ reply' \in Reply
    <3> DEFINE won == windows + 1  out == FALSE
    <3>1. /\ won \in Nat /\ out \in BOOLEAN /\ LoopHead(start, won, page, out)
          /\ windows' = won /\ omitted' = out /\ ~out
      <4>1. won \in Nat /\ windows' = won
        BY <1>3, <2>1
      <4>2. LoopHead(start, won, page, out) /\ omitted' = out
        BY <2>1, <2>2
      <4>3. QED
        BY <4>1, <4>2
    <3>2. /\ box'.mail \subseteq Nat \ {0} /\ snapshot'.next \in Nat /\ start <= snapshot'.next
          /\ Len(page) <= MaxResults
      BY <1>1, <1>2, <1>3, <1>7
    <3> HIDE DEF won, out
    <3>3. QED
      BY <1>2, <1>3, <1>7, <2>1, <2>3, <2>4, <3>1, <3>2, LoopKeeps
  <2>6. TypeOK'
    <3>1. remaining' \in 0 .. MaxUID + 1 /\ windows' \in 0 .. MaxWindows
      BY <1>1, <1>2, <1>3, <2>1
    <3>2. kind' \in Kinds /\ pc' \in {"idle", "examine", "search", "fetch", "done"}
      BY <1>7, <2>5 DEF Kinds
    <3>3. QED
      BY <1>7, <1>10, <1>11, <2>5, <3>1, <3>2 DEF Inv, TypeOK
  <2>7. SnapshotInv'
    BY <1>1, <1>7, <2>5 DEF Inv, SnapshotInv, Underway
  <2>8. QED
    BY <2>5, <2>6, <2>7 DEF Inv
<1>15. CASE c # <<>>
  <2>1. pc' = "fetch" /\ remaining' = remaining /\ windows' = windows /\ reply' = reply
    BY <1>8, <1>15
  <2>2. NextWindow'.Start = start
    BY <1>7, <2>1 DEF NextWindow, start
  <2>3. /\ uids' = c /\ uids' # <<>> /\ Len(c) <= MaxResults - Len(page)
        /\ omitted' => Len(c) = MaxResults - Len(page)
        /\ \A k \in DOMAIN c : start <= c[k] /\ c[k] < remaining /\ \A j \in DOMAIN c : j < k => c[k] < c[j]
    <3>1. \A k \in DOMAIN c : c[k] \in found
      BY <1>6 DEF Chosen
    <3>2. \A u \in found : start <= u /\ u < remaining
      BY <1>2, <1>3, <1>4
    <3>3. QED
      BY <1>6, <1>7, <1>9, <1>15, <3>1, <3>2 DEF Chosen
  <2>4. Underway' /\ ~Returned'
    BY <2>1 DEF Underway, Returned
  <2>5. PageInv'
    <3>1. OnePage(page, remaining)'
      BY <1>1, <1>7, <2>1 DEF OnePage
    <3>2. QED
      BY <1>1, <1>7, <2>1, <2>2, <2>3, <2>4, <3>1 DEF PageInv
  <2>6. WholeInv'
    <3>1. SUFFICES ASSUME truthful', snapshot.gen = box.gen PROVE WholeInv'
      BY <1>7 DEF WholeInv
    <3>2. \A u \in box.mail : remaining <= u /\ u < snapshot.next => \E k \in DOMAIN page : page[k].uid = u
      BY <1>13, <3>1
    <3>3. \A u \in box.mail : start <= u /\ u < remaining =>
            (\E k \in DOMAIN c : c[k] = u) \/ (omitted' /\ \A k \in DOMAIN c : u < c[k])
      <4>1. \A u \in found : (\E k \in DOMAIN c : c[k] = u) \/ (omitted' /\ \A k \in DOMAIN c : u < c[k])
        BY <1>6, <1>9 DEF Chosen
      <4>2. QED
        BY <1>12, <3>1, <4>1
    <3>4. QED
      BY <1>7, <2>1, <2>2, <2>4, <3>2, <3>3 DEF WholeInv
  <2>7. ReadInv'
    BY <2>1 DEF ReadInv
  <2>8. TypeOK'
    BY <1>7, <1>10, <1>11, <2>1 DEF Inv, TypeOK
  <2>9. SnapshotInv'
    BY <1>1, <1>7, <2>1 DEF Inv, SnapshotInv, Underway
  <2>10. QED
    BY <2>5, <2>6, <2>7, <2>8, <2>9 DEF Inv
<1>16. QED
  BY <1>14, <1>15

\* The answer to a UID SEARCH, for a page or for a read.
LEMMA SearchStep ==
  ASSUME Inv, NEW wire \in Wires(NextWindow), Search(wire) PROVE Inv'
<1> DEFINE r == UIDSearchWindow(wire, NextWindow, width(NextWindow), LineBudget)
           w == NextWindow
<1>1. pc = "search" /\ selected /\ Underway
  BY DEF Search, Underway
<1>2. Mail
  BY TypeGives DEF Inv
<1>3. IsWindow(w) /\ (kind # "page" => w.Start = id.uid /\ w.End = id.uid)
  BY <1>1, WindowIs DEF Inv
<1>4. Right(wire, w)
  BY <1>2, <1>3, WiresAreRight
<1>5. /\ r.err \in SearchCodes
      /\ r.err = "none" <=> Unambiguous(wire, w, LineBudget)
      /\ r.err = "none" => r.uids \in SUBSET (w.Start .. w.End)
      /\ r.err = "none" /\ Truthful(wire, w, box.mail) => r.uids = box.mail \cap (w.Start .. w.End)
  BY <1>4 DEF Right
<1>6. /\ truthful' = (truthful /\ Truthful(wire, w, box.mail))
      /\ judged' = (judged /\ (r.err = "none" <=> Unambiguous(wire, w, LineBudget)))
      /\ CASE kind = "page" /\ r.err = "none" -> PageWindow(r.uids)
           [] kind = "page" /\ r.err # "none" -> Fail(r.err)
           [] kind # "page" /\ requireMessageUID(r) = "none" ->
                /\ pc' = "fetch"
                /\ UNCHANGED <<box, selected, op, attempt, locals, reply>>
           [] OTHER -> Fail(requireMessageUID(r))
  BY DEF Search
<1> HIDE DEF r, w
<1>7. judged' = TRUE
  BY <1>5, <1>6 DEF Inv
<1>8. truthful' \in BOOLEAN /\ (truthful' => truthful)
      /\ (truthful' /\ r.err = "none" => r.uids = box.mail \cap (w.Start .. w.End))
  BY <1>5, <1>6
<1>9. CASE kind = "page" /\ r.err = "none"
  <2>1. PageWindow(r.uids)
    BY <1>6, <1>9
  <2>2. r.uids \in SUBSET (NextWindow.Start .. NextWindow.End)
    BY <1>5, <1>9 DEF w
  <2>3. truthful' => r.uids = box.mail \cap (NextWindow.Start .. NextWindow.End)
    BY <1>8, <1>9 DEF w
  <2>4. QED
    BY <1>1, <1>7, <1>8, <1>9, <2>1, <2>2, <2>3, PageWindowKeeps
<1>10. CASE kind = "page" /\ r.err # "none"
  <2>1. Fail(r.err)
    BY <1>6, <1>10
  <2>2. r.err \in Codes
    BY <1>5, <1>10 DEF SearchCodes, Codes, OutOfStepCodes
  <2>3. QED
    BY <1>1, <1>7, <1>8, <1>10, <2>1, <2>2, FailKeeps
<1>11. CASE kind # "page" /\ requireMessageUID(r) = "none"
  <2>1. pc' = "fetch" /\ UNCHANGED <<box, selected, op, attempt, locals, reply>>
    BY <1>6, <1>11
  <2>2. /\ box' = box /\ selected' = selected /\ kind' = kind /\ id' = id
        /\ attempt' = attempt /\ snapshot' = snapshot /\ remaining' = remaining
        /\ windows' = windows /\ page' = page /\ bytes' = bytes /\ omitted' = omitted
        /\ uids' = uids /\ reply' = reply
    BY <2>1 DEF op, locals
  <2>3. {selected, omitted, truthful, judged}' \subseteq BOOLEAN
    BY <1>7, <1>8, <2>2 DEF Inv, TypeOK
  <2>4. TypeOK'
    BY <2>1, <2>2, <2>3 DEF Inv, TypeOK
  <2>5. SnapshotInv'
    BY <1>1, <2>1, <2>2 DEF Inv, SnapshotInv, Underway
  <2>6. PageInv' /\ WholeInv' /\ ReadInv'
    BY <1>11, <2>1, <2>2 DEF PageInv, WholeInv, ReadInv
  <2>7. QED
    BY <1>7, <2>4, <2>5, <2>6 DEF Inv
<1>12. CASE kind # "page" /\ requireMessageUID(r) # "none"
  <2>1. Fail(requireMessageUID(r))
    BY <1>6, <1>12
  <2>2. r.err = "none" /\ truthful' => r.uids = box.mail \cap (id.uid .. id.uid)
    BY <1>3, <1>8, <1>12
  <2>3. QED
    BY <1>1, <1>5, <1>7, <1>8, <1>12, <2>1, <2>2, ReadFinds
<1>13. QED
  BY <1>9, <1>10, <1>11, <1>12

\* A window of a page was fetched.
LEMMA PageItemsKeeps ==
  ASSUME Inv, pc = "fetch", selected, kind = "page", NEW S, NEW answer \in Seq(S),
         Whole(uids, answer), AllHonest(answer), NEW size \in ItemBytes, PageItems(answer, size),
         truthful' = truthful, judged' = judged
  PROVE  Inv'
<1> DEFINE start == NextWindow.Start  its == Items(answer)  msgs == page \o its
           charged == bytes + Len(answer) * size + Len(msgs) - (IF page = <<>> THEN 1 ELSE Len(page))
<1>1. /\ Underway /\ OnePage(page, remaining) /\ Len(page) < MaxResults /\ windows < MaxWindows
      /\ remaining <= snapshot.next /\ 1 < remaining
      /\ uids # <<>> /\ Len(uids) <= MaxResults - Len(page)
      /\ omitted => Len(uids) = MaxResults - Len(page)
      /\ \A k \in DOMAIN uids : /\ start <= uids[k] /\ uids[k] < remaining
                                /\ \A j \in DOMAIN uids : j < k => uids[k] < uids[j]
  BY DEF Inv, PageInv, Underway
<1>2. start \in Nat /\ 1 <= start /\ start < remaining
  BY <1>1, WindowIs DEF Inv
<1>3. /\ remaining \in 0 .. MaxUID + 1 /\ MaxUID \in Nat /\ windows \in 0 .. MaxWindows /\ MaxWindows \in Nat
      /\ page \in Seq(Item) /\ Len(page) \in Nat /\ snapshot.next \in Nat /\ bytes \in Int
      /\ MaxResults \in Nat /\ MaxOutputBytes \in Nat /\ reply \in Reply /\ box.mail \subseteq Nat \ {0}
      /\ box.gen \in Nat
  <2>1. /\ MaxUID \in Nat /\ MaxWindows \in Nat /\ snapshot.next \in Nat /\ MaxResults \in Nat
        /\ MaxOutputBytes \in Nat /\ box.mail \subseteq Nat \ {0} /\ box.gen \in Nat
    BY TypeGives DEF Inv
  <2>2. /\ remaining \in 0 .. MaxUID + 1 /\ windows \in 0 .. MaxWindows /\ page \in Seq(Item)
        /\ bytes \in Int /\ reply \in Reply
    BY DEF Inv, TypeOK
  <2>3. Len(page) \in Nat
    BY <2>2
  <2>4. QED
    BY <2>1, <2>2, <2>3
<1>10. omitted \in BOOLEAN /\ truthful \in BOOLEAN
  BY DEF Inv, TypeOK
<1>4. uids \in Seq(Nat) /\ Len(uids) \in Nat /\ Descends(uids)
  <2> DEFINE T == 1 .. MaxUID
  <2>1. uids \in Seq(T) /\ T \subseteq Nat
    BY DEF Inv, TypeOK
  <2> HIDE DEF T
  <2>2. uids \in Seq(Nat) /\ Len(uids) \in Nat
    BY <2>1, SeqWidens
  <2>3. QED
    BY <1>1, <2>2 DEF Descends
<1>5. snapshot.gen = box.gen
  BY <1>1 DEF Inv, SnapshotInv
<1>6. Listed(its, uids)
  BY <1>3, <1>4, <1>5, ItemsAreListed
<1>7. CASE charged > MaxOutputBytes
  <2>1. Fail("bounds_exceeded")
    BY <1>7 DEF PageItems
  <2>2. "bounds_exceeded" \in Codes
    BY DEF Codes, OutOfStepCodes
  <2>3. judged' = TRUE
    BY DEF Inv
  <2>4. QED
    BY <1>10, <2>1, <2>2, <2>3, FailKeeps
<1>8. CASE ~(charged > MaxOutputBytes)
  <2>1. /\ page' = msgs /\ bytes' = charged /\ remaining' = start /\ windows' = windows + 1
        /\ LoopHead(start, windows + 1, msgs, omitted)
        /\ box' = box /\ selected' = selected /\ kind' = "page" /\ id' = id /\ attempt' = attempt
        /\ snapshot' = snapshot /\ omitted' = omitted /\ uids' = uids
    BY <1>8 DEF PageItems, op
  <2>2. its \in Seq(Item) /\ Len(its) = Len(uids)
    BY <1>6 DEF Listed
  <2> HIDE DEF its, start
  <2>3. /\ msgs \in Seq(Item) /\ Len(msgs) = Len(page) + Len(uids) /\ Len(msgs) \in Nat
        /\ \A i \in 1 .. Len(page) : msgs[i] = page[i]
        /\ \A i \in 1 .. Len(uids) : msgs[i + Len(page)] = its[i]
    <3>1. /\ page \o its \in Seq(Item) /\ Len(page \o its) = Len(page) + Len(its)
          /\ \A i \in 1 .. Len(page) + Len(its) : (page \o its)[i] =
                 IF i <= Len(page) THEN page[i] ELSE its[i - Len(page)]
      BY <1>3, <2>2, ConcatProperties
    <3> HIDE DEF msgs
    <3>2. /\ msgs \in Seq(Item) /\ Len(msgs) = Len(page) + Len(uids)
          /\ \A i \in 1 .. Len(page) + Len(uids) : msgs[i] = IF i <= Len(page) THEN page[i] ELSE its[i - Len(page)]
      BY <2>2, <3>1 DEF msgs
    <3>3. \A i \in 1 .. Len(page) : msgs[i] = page[i]
      BY <1>3, <1>4, <3>2
    <3>4. ASSUME NEW i \in 1 .. Len(uids) PROVE msgs[i + Len(page)] = its[i]
      <4>1. i + Len(page) \in 1 .. Len(page) + Len(uids) /\ ~(i + Len(page) <= Len(page))
            /\ (i + Len(page)) - Len(page) = i
        BY <1>3, <1>4
      <4>2. QED
        BY <3>2, <4>1
    <3>5. QED
      BY <1>3, <1>4, <3>2, <3>3, <3>4
  <2>4. charged \in Int
    <3>1. size \in Nat /\ Len(answer) \in Nat
      BY ReadAssumption
    <3>2. Len(answer) * size \in Nat
      BY <3>1
    <3>3. (IF page = <<>> THEN 1 ELSE Len(page)) \in Int
      BY <1>3
    <3> DEFINE a == Len(answer) * size  n == Len(msgs)  p == IF page = <<>> THEN 1 ELSE Len(page)
    <3>4. a \in Int /\ n \in Int /\ p \in Int /\ bytes \in Int
      BY <1>3, <2>3, <3>2, <3>3
    <3>5. charged = bytes + a + n - p
      OBVIOUS
    <3> HIDE DEF a, n, p, charged
    <3>6. QED
      BY <3>4, <3>5
  <2> HIDE DEF msgs, charged
  <2>5. DOMAIN msgs = 1 .. Len(msgs) /\ DOMAIN page = 1 .. Len(page) /\ DOMAIN its = 1 .. Len(uids)
    BY <1>3, <2>2, <2>3
  <2>6. ASSUME NEW k \in DOMAIN msgs
        PROVE  \/ k \in DOMAIN page /\ msgs[k] = page[k]
               \/ k - Len(page) \in DOMAIN its /\ msgs[k] = its[k - Len(page)] /\ k > Len(page)
    <3>1. CASE k <= Len(page)
      BY <1>3, <2>3, <2>5, <3>1
    <3>2. CASE ~(k <= Len(page))
      <4>1. k - Len(page) \in 1 .. Len(uids) /\ (k - Len(page)) + Len(page) = k /\ k > Len(page)
        BY <1>3, <1>4, <2>3, <2>5, <3>2
      <4>2. msgs[(k - Len(page)) + Len(page)] = its[k - Len(page)]
        BY <2>3, <4>1
      <4>3. QED
        BY <2>5, <4>1, <4>2
    <3>3. QED
      BY <3>1, <3>2
  <2>7. \A i \in DOMAIN its : /\ its[i].uid \in Nat /\ start <= its[i].uid /\ its[i].uid < remaining
                              /\ its[i].of = <<snapshot.gen, its[i].uid>>
                              /\ \A j \in DOMAIN its : j < i => its[i].uid < its[j].uid
    <3>1. \A u \in Range(uids) : u \in Nat /\ start <= u /\ u < remaining
      BY <1>1, <1>4 DEF Range, start
    <3>2. QED
      BY <1>6, <3>1 DEF Listed
  <2>8. \A k \in DOMAIN page : /\ page[k].uid \in Nat /\ remaining <= page[k].uid /\ page[k].uid < snapshot.next
                               /\ page[k].of = <<snapshot.gen, page[k].uid>>
                               /\ \A j \in DOMAIN page : j < k => page[k].uid < page[j].uid
    <3>1. \A m \in Item : m.uid \in Nat
      BY DEF Item
    <3>2. \A k \in DOMAIN page : page[k] \in Item
      BY <1>3
    <3>3. QED
      BY <1>1, <3>1, <3>2 DEF OnePage
  <2>9. OnePage(page, remaining)'
    <3>1. ASSUME NEW k \in DOMAIN msgs
          PROVE  /\ msgs[k].of = <<snapshot.gen, msgs[k].uid>>
                 /\ start <= msgs[k].uid /\ msgs[k].uid < snapshot.next
                 /\ \A j \in DOMAIN msgs : j < k => msgs[k].uid < msgs[j].uid
      <4>1. CASE k \in DOMAIN page /\ msgs[k] = page[k]
        <5>1. \A j \in DOMAIN msgs : j < k => j \in DOMAIN page /\ msgs[j] = page[j]
          BY <1>3, <2>3, <2>5, <4>1
        <5>2. msgs[k].of = <<snapshot.gen, msgs[k].uid>> /\ remaining <= msgs[k].uid
              /\ msgs[k].uid < snapshot.next /\ msgs[k].uid \in Nat
          BY <2>8, <4>1
        <5>3. start <= msgs[k].uid
          BY <1>2, <1>3, <5>2
        <5>4. \A j \in DOMAIN msgs : j < k => msgs[k].uid < msgs[j].uid
          BY <2>8, <4>1, <5>1
        <5>5. QED
          BY <5>2, <5>3, <5>4
      <4>2. CASE k - Len(page) \in DOMAIN its /\ msgs[k] = its[k - Len(page)] /\ k > Len(page)
        <5> DEFINE i == k - Len(page)
        <5>1. i \in DOMAIN its /\ msgs[k] = its[i]
          BY <4>2
        <5> HIDE DEF i
        <5>2. msgs[k].uid \in Nat /\ msgs[k].of = <<snapshot.gen, msgs[k].uid>> /\ start <= msgs[k].uid
              /\ msgs[k].uid < remaining
          BY <2>7, <5>1
        <5>3. msgs[k].uid < snapshot.next
          BY <1>1, <1>3, <5>2
        <5>4. ASSUME NEW j \in DOMAIN msgs, j < k PROVE msgs[k].uid < msgs[j].uid
          <6>1. CASE j \in DOMAIN page /\ msgs[j] = page[j]
            <7>1. msgs[j].uid \in Nat /\ remaining <= msgs[j].uid
              BY <2>8, <6>1
            <7>2. QED
              BY <1>3, <5>2, <7>1
          <6>2. CASE j - Len(page) \in DOMAIN its /\ msgs[j] = its[j - Len(page)]
            <7>1. j - Len(page) < i
              BY <1>3, <2>5, <5>4 DEF i
            <7>2. its[i].uid < its[j - Len(page)].uid
              BY <2>7, <5>1, <6>2, <7>1
            <7>3. QED
              BY <5>1, <6>2, <7>2
          <6>3. QED
            BY <2>6, <6>1, <6>2
        <5>5. QED
          BY <5>2, <5>3, <5>4
      <4>3. QED
        BY <2>6, <4>1, <4>2
    <3>2. QED
      BY <2>1, <3>1 DEF OnePage
  <2>10. Covers(page, remaining, omitted)'
    <3>1. SUFFICES ASSUME truthful, NEW u \in box.mail, start <= u, u < snapshot.next
                   PROVE  (\E k \in DOMAIN msgs : msgs[k].uid = u)
                          \/ (omitted /\ \A k \in DOMAIN msgs : u < msgs[k].uid)
      BY <2>1 DEF Covers
    <3>2. u \in Nat
      BY <1>3
    <3>3. CASE remaining <= u
      <4>1. PICK k \in DOMAIN page : page[k].uid = u
        BY <1>1, <1>5, <3>1, <3>3 DEF Inv, WholeInv
      <4>2. k \in DOMAIN msgs /\ msgs[k] = page[k]
        BY <1>3, <1>4, <2>3, <2>5
      <4>3. QED
        BY <4>1, <4>2
    <3>4. CASE ~(remaining <= u)
      <4>1. u < remaining
        BY <1>3, <3>2, <3>4
      <4>2. (\E k \in DOMAIN uids : uids[k] = u) \/ (omitted /\ \A k \in DOMAIN uids : u < uids[k])
        BY <1>5, <3>1, <4>1 DEF Inv, WholeInv, start
      <4>3. ASSUME NEW x \in DOMAIN uids, uids[x] = u PROVE \E k \in DOMAIN msgs : msgs[k].uid = u
        <5>1. u \in Range(uids)
          BY <4>3 DEF Range
        <5>2. PICK i \in DOMAIN its : its[i].uid = u
          BY <1>6, <5>1 DEF Listed
        <5>3. i + Len(page) \in DOMAIN msgs /\ msgs[i + Len(page)] = its[i]
          BY <1>3, <1>4, <2>3, <2>5
        <5>4. QED
          BY <5>2, <5>3
      <4>4. ASSUME omitted, \A k \in DOMAIN uids : u < uids[k]
            PROVE  \A k \in DOMAIN msgs : u < msgs[k].uid
        <5>1. \A v \in Range(uids) : u < v
          BY <4>4 DEF Range
        <5>2. \A i \in DOMAIN its : u < its[i].uid
          BY <1>6, <5>1 DEF Listed
        <5>3. \A k \in DOMAIN page : u < page[k].uid
          BY <1>3, <2>8, <3>2, <4>1
        <5>4. QED
          BY <2>6, <5>2, <5>3
      <4>5. QED
        BY <4>2, <4>3, <4>4
    <3>5. QED
      BY <3>3, <3>4
  <2>11. Len(msgs) <= MaxResults /\ (omitted => Len(msgs) = MaxResults)
    BY <1>1, <1>3, <1>4, <2>3
  <2>12. PageInv' /\ WholeInv' /\ ReadInv' /\ pc' \in {"search", "done"} /\ reply' \in Reply
    <3> DEFINE won == windows + 1
    <3>1. won \in Nat /\ windows' = won /\ LoopHead(start, won, msgs, omitted)
      BY <1>3, <2>1
    <3>2. /\ box'.mail \subseteq Nat \ {0} /\ snapshot'.next \in Nat /\ start <= snapshot'.next
      BY <1>1, <1>2, <1>3, <2>1 DEF start
    <3> HIDE DEF won
    <3>3. start \in Nat /\ 1 <= start
      BY <1>2 DEF start
    <3>4. QED
      BY <1>3, <1>10, <2>1, <2>3, <2>9, <2>10, <2>11, <3>1, <3>2, <3>3, LoopKeeps
  <2>13. TypeOK'
    <3>1. remaining' \in 0 .. MaxUID + 1 /\ windows' \in 0 .. MaxWindows
      BY <1>1, <1>2, <1>3, <2>1 DEF start
    <3>2. kind' \in Kinds /\ pc' \in {"idle", "examine", "search", "fetch", "done"}
      BY <2>1, <2>12 DEF Kinds
    <3>3. page' \in Seq(Item) /\ Len(page') <= MaxResults /\ bytes' \in Int /\ bytes' <= MaxOutputBytes
      BY <1>3, <1>8, <2>1, <2>3, <2>4, <2>11
    <3>4. {selected, omitted, truthful, judged}' \subseteq BOOLEAN
      BY <2>1 DEF Inv, TypeOK
    <3>5. QED
      BY <2>1, <2>12, <3>1, <3>2, <3>3, <3>4 DEF Inv, TypeOK
  <2>14. SnapshotInv'
    BY <1>1, <2>1, <2>12 DEF Inv, SnapshotInv, Underway
  <2>15. QED
    BY <2>12, <2>13, <2>14 DEF Inv
<1>9. QED
  BY <1>7, <1>8

\* The answer to a FETCH: what is accepted is what was asked for.
LEMMA FetchStep ==
  ASSUME Inv, NEW answer \in FetchAnswers(Requested), NEW size \in ItemBytes, Fetch(answer, size)
  PROVE  Inv'
<1> DEFINE code == IF kind \in {"page", "metadata"} THEN UIDFetchMetadata(Requested, answer)
                   ELSE UIDFetchBody(id.uid, answer)
<1>1. /\ pc = "fetch" /\ selected /\ Underway /\ truthful' = truthful /\ judged' = judged
      /\ CASE code # "none" -> Fail(code)
           [] code = "none" /\ kind = "page" -> PageItems(answer, size)
           [] OTHER -> Return([NoReply EXCEPT !.messages =
                               <<[gen |-> id.gen, uid |-> id.uid, of |-> answer[1].of]>>])
  BY DEF Fetch, Underway
<1>2. Mail /\ id.uid \in Nat /\ id.gen \in Nat /\ box.gen \in Nat
  BY TypeGives DEF Inv
<1>3. PICK S : answer \in Seq(S)
  BY <1>2, AnswerIsList
<1>4. Descends(Requested) /\ (kind # "page" => Requested = <<id.uid>>)
  <2>1. CASE kind = "page"
    <3> DEFINE T == 1 .. MaxUID
    <3>1. uids \in Seq(T) /\ T \subseteq Nat
      BY DEF Inv, TypeOK
    <3> HIDE DEF T
    <3>2. uids \in Seq(Nat)
      BY <3>1, SeqWidens
    <3>3. \A k \in DOMAIN uids : \A j \in DOMAIN uids : j < k => uids[k] < uids[j]
      BY <1>1, <2>1 DEF Inv, PageInv
    <3>4. QED
      BY <2>1, <3>2, <3>3 DEF Descends, Requested
  <2>2. CASE kind # "page"
    <3>1. <<id.uid>> \in Seq(Nat) /\ DOMAIN <<id.uid>> = {1}
      BY <1>2
    <3>2. Descends(<<id.uid>>)
      BY <3>1 DEF Descends
    <3>3. QED
      BY <2>2, <3>2 DEF Requested
  <2>3. QED
    BY <2>1, <2>2
<1>5. truthful' \in BOOLEAN /\ judged' = TRUE
  BY <1>1 DEF Inv, TypeOK
<1>6. CASE code # "none"
  <2>1. Fail(code)
    BY <1>1, <1>6
  <2>2. code \in {"none", "imap_protocol_error", "bounds_exceeded"}
    <3>1. \A m : FetchedMessage(m) \in {"none", "imap_protocol_error", "bounds_exceeded"}
      BY DEF FetchedMessage
    <3>2. UIDFetchBody(id.uid, answer) \in {"none", "imap_protocol_error", "bounds_exceeded"}
      BY <3>1 DEF UIDFetchBody
    <3>3. UIDFetchMetadata(Requested, answer) \in {"none", "imap_protocol_error", "bounds_exceeded"}
      BY <3>1 DEF UIDFetchMetadata
    <3>4. QED
      BY <3>2, <3>3
  <2> HIDE DEF code
  <2>3. code \in Codes /\ code # "stale_message_id"
    BY <1>6, <2>2 DEF Codes, OutOfStepCodes
  <2>4. QED
    BY <1>1, <1>5, <1>6, <2>1, <2>3, FailKeeps
<1>7. CASE code = "none"
  <2>1. Whole(Requested, answer)
    <3>1. /\ UIDFetchMetadata(Requested, answer) = "none" => Whole(Requested, answer)
          /\ UIDFetchBody(id.uid, answer) = "none" => Whole(<<id.uid>>, answer)
      BY <1>3, AcceptedIsWhole
    <3>2. CASE kind \in {"page", "metadata"}
      BY <1>7, <3>1, <3>2
    <3>3. CASE kind \notin {"page", "metadata"}
      BY <1>4, <1>7, <3>1, <3>3
    <3>4. QED
      BY <3>2, <3>3
  <2>2. AllHonest(answer)
    BY <1>2, <1>4, <2>1, WholeIsHonest
  <2>3. CASE kind = "page"
    <3>1. PageItems(answer, size)
      BY <1>1, <1>7, <2>3
    <3>2. Whole(uids, answer)
      BY <2>1, <2>3 DEF Requested
    <3>3. QED
      BY <1>1, <1>3, <2>2, <2>3, <3>1, <3>2, PageItemsKeeps
  <2>4. CASE kind # "page"
    <3> DEFINE m == [gen |-> id.gen, uid |-> id.uid, of |-> answer[1].of]
    <3>1. Return([NoReply EXCEPT !.messages = <<m>>])
      BY <1>1, <1>7, <2>4
    <3>2. answer[1].of = <<box.gen, id.uid>>
      BY <1>3, <1>4, <2>1, <2>2, <2>4, ReadIsHonest
    <3>3. box.gen = id.gen
      BY <1>1, <2>4 DEF Inv, SnapshotInv
    <3>4. m \in Item /\ m.of = <<id.gen, id.uid>>
      BY <1>2, <3>2, <3>3 DEF Item
    <3> HIDE DEF m
    <3>5. /\ box' = box /\ selected' = selected /\ kind' = kind /\ id' = id
          /\ attempt' = attempt /\ snapshot' = snapshot /\ remaining' = remaining
          /\ windows' = windows /\ page' = page /\ bytes' = bytes /\ omitted' = omitted
          /\ uids' = uids /\ pc' = "done"
          /\ reply' = [err |-> "none", messages |-> <<m>>, truncated |-> FALSE]
      BY <3>1 DEF Return, NoReply, op, locals
    <3>6. reply' \in Reply
      <4>1. <<m>> \in Seq(Item) /\ FALSE \in BOOLEAN
        BY <3>4
      <4>2. QED
        BY <3>5, <4>1, FullPage
    <3>7. {selected, omitted, truthful, judged}' \subseteq BOOLEAN
      BY <1>1, <3>5 DEF Inv, TypeOK
    <3>8. TypeOK'
      BY <3>5, <3>6, <3>7 DEF Inv, TypeOK
    <3>9. SnapshotInv'
      BY <3>5 DEF Inv, SnapshotInv, Underway
    <3>10. PageInv' /\ WholeInv'
      BY <2>4, <3>5 DEF PageInv, WholeInv
    <3>11. ReadInv'
      <4>1. reply'.err = "none" /\ reply'.messages[1] = m
        BY <3>5
      <4>2. QED
        BY <3>4, <3>5, <4>1 DEF ReadInv
    <3>12. QED
      BY <1>5, <3>8, <3>9, <3>10, <3>11 DEF Inv
  <2>5. QED
    BY <2>3, <2>4
<1>8. QED
  BY <1>6, <1>7

-----------------------------------------------------------------------------
(* The theorems.                                                           *)

\* The invariant holds at first,
LEMMA InitHolds ==
  ASSUME Init PROVE Inv
<1>1. PICK m \in SUBSET (1 .. MaxUID - 1) : box = [gen |-> 1, next |-> MaxUID, mail |-> m]
  BY DEF Init
<1>2. /\ selected = FALSE /\ pc = "idle" /\ kind = "page" /\ id = NoId /\ attempt = 0
      /\ snapshot = [gen |-> 0, next |-> 0] /\ remaining = 0 /\ windows = 0
      /\ page = <<>> /\ bytes = 2 /\ omitted = FALSE /\ uids = <<>>
      /\ reply = NoReply /\ truthful = TRUE /\ judged = TRUE
  BY DEF Init
<1>3. MaxUID \in Nat \ {0} /\ MaxGenerations \in Nat \ {0} /\ MaxResults \in Nat /\ MaxWindows \in Nat
  BY ReadAssumption
<1>4. m \subseteq 1 .. MaxUID
  BY <1>3
<1>5. /\ box \in [gen : 1 .. MaxGenerations, next : 1 .. MaxUID + 1, mail : SUBSET (1 .. MaxUID)]
      /\ box.mail \subseteq 1 .. box.next - 1 /\ box.gen = 1 /\ box.next = MaxUID
  BY <1>1, <1>3, <1>4
<1>6. id \in [signed : BOOLEAN, gen : 0 .. MaxGenerations, uid : 0 .. MaxUID] /\ id.gen = 0 /\ id.uid = 0
  BY <1>2, <1>3 DEF NoId
<1>7. snapshot \in [gen : 0 .. MaxGenerations, next : 0 .. MaxUID + 1] /\ snapshot.gen = 0 /\ snapshot.next = 0
  BY <1>2, <1>3
<1>8. reply \in Reply
  <2>1. "none" \in Codes \cup {"none", "mailbox_not_found"}
    OBVIOUS
  <2>2. QED
    BY <1>2, <2>1, EmptyPage DEF NoReply
<1>9. page \in Seq(Item) /\ Len(page) <= MaxResults /\ uids \in Seq(1 .. MaxUID) /\ bytes \in Int
      /\ page = <<>>
  BY <1>2, <1>3
<1>10. {selected, omitted, truthful, judged} \subseteq BOOLEAN
  BY <1>2
<1>11. TypeOK
  BY <1>2, <1>3, <1>5, <1>6, <1>7, <1>8, <1>9, <1>10 DEF TypeOK, Kinds
<1>12. SnapshotInv
  BY <1>2, <1>3, <1>5, <1>6, <1>7 DEF SnapshotInv, Underway
<1>13. PageInv /\ WholeInv /\ ReadInv
  BY <1>2 DEF PageInv, WholeInv, ReadInv, Underway, Returned
<1>14. QED
  BY <1>2, <1>11, <1>12, <1>13 DEF Inv

\* and each step keeps it.
LEMMA NextKeeps ==
  ASSUME Inv, [Next]_vars PROVE Inv'
<1>1. ASSUME NEW q \in {"ok", "unnamed", "oversized"}, SearchMailPage(q) PROVE Inv'
  BY <1>1, SearchMailPageStep
<1>2. ASSUME NEW k \in Kinds \ {"page"}, NEW i \in Ids, GetMessage(k, i) PROVE Inv'
  BY <1>2, GetMessageStep
<1>3. CASE Examine
  BY <1>3, ExamineStep
<1>4. ASSUME NEW code \in FailureCodes, CommandFails(code) PROVE Inv'
  BY <1>4, CommandFailsStep
<1>5. ASSUME NEW wire \in Wires(NextWindow), Search(wire) PROVE Inv'
  BY <1>5, SearchStep
<1>6. ASSUME NEW answer \in FetchAnswers(Requested), NEW size \in ItemBytes, Fetch(answer, size) PROVE Inv'
  BY <1>6, FetchStep
<1>7. CASE Take
  BY <1>7, TakeStep
<1>8. CASE Deliver
  BY <1>8, DeliverStep
<1>9. ASSUME NEW u \in box.mail, Expunge(u) PROVE Inv'
  BY <1>9, ExpungeStep
<1>10. ASSUME NEW m \in SUBSET (1 .. MaxUID - 1), Recreate(m) PROVE Inv'
  BY <1>10, RecreateStep
<1>11. CASE UNCHANGED vars
  BY <1>11, StutterStep
<1>12. QED
  BY <1>1, <1>2, <1>3, <1>4, <1>5, <1>6, <1>7, <1>8, <1>9, <1>10, <1>11 DEF Next

\* The inductive invariant of searches and reads.
THEOREM ReadsInvariant == Spec => []Inv
<1>1. Init => Inv
  BY InitHolds
<1>2. Inv /\ [Next]_vars => Inv'
  BY NextKeeps
<1>3. QED
  BY <1>1, <1>2, PTL DEF Spec

\* The locals of SearchMailPage stay within the bounds of the configuration:
\* results, windows, output bytes.
THEOREM ReadsTypeCorrect == Spec => []TypeOK
<1>1. Inv => TypeOK
  BY DEF Inv
<1>2. QED
  BY <1>1, ReadsInvariant, PTL

\* A page is of one snapshot, in strictly descending order, each item the
\* metadata of the message it names, across windows, replays and other
\* clients: validateFetchedMetadataUIDs lets no other answer through.
THEOREM PagesAreOneSnapshot == Spec => []PageIsOneSnapshot
<1>1. ASSUME Inv PROVE PageIsOneSnapshot
  <2>1. SUFFICES ASSUME Returned, kind = "page", NEW i \in DOMAIN reply.messages
                 PROVE  /\ reply.messages[i].of = <<snapshot.gen, reply.messages[i].uid>>
                        /\ reply.messages[i].uid < snapshot.next
                        /\ i > 1 => reply.messages[i].uid < reply.messages[i - 1].uid
    BY DEF PageIsOneSnapshot
  <2>2. OnePage(reply.messages, 1)
    BY <1>1, <2>1 DEF Inv, PageInv
  <2>3. reply.messages \in Seq(Item)
    BY <1>1 DEF Inv, TypeOK, Reply
  <2>4. i > 1 => i - 1 \in DOMAIN reply.messages /\ i - 1 < i
    BY <2>3
  <2>5. QED
    BY <2>2, <2>4 DEF OnePage
<1>2. QED
  BY <1>1, ReadsInvariant, PTL

\* A page of a truthful server leaves nothing out silently: windows of any
\* width meet without a gap, and what there is no room for is older than all
\* that is listed.
THEOREM PagesAreWhole == Spec => []PageIsWhole
<1>1. ASSUME Inv PROVE PageIsWhole
  <2>1. Returned /\ kind = "page" /\ truthful /\ box.gen = snapshot.gen => PageIsWhole
    BY <1>1 DEF Inv, WholeInv
  <2>2. QED
    BY <2>1 DEF PageIsWhole
<1>2. QED
  BY <1>1, ReadsInvariant, PTL

\* The observer and the decoder together accept an answer to UID SEARCH exactly
\* when it can be read in one way, for every window and line budget.
THEOREM EveryAnswerIsJudged == Spec => []AnswersAreJudged
<1>1. Inv => AnswersAreJudged
  BY DEF Inv, AnswersAreJudged
<1>2. QED
  BY <1>1, ReadsInvariant, PTL

\* A read returns the message its identifier names, and calls an identifier
\* stale only when the message is gone.
THEOREM AllReadsAreTrue == Spec => []ReadsAreTrue
<1>1. Inv => ReadsAreTrue
  BY DEF Inv, ReadInv, ReadsAreTrue
<1>2. QED
  BY <1>1, ReadsInvariant, PTL
=============================================================================
