--------------------------- MODULE MailServerProofs ---------------------------
(***************************************************************************)
(* Proofs about the mail server: the stdio loop (StdioServer) and the      *)
(* tools behind it (MailTools, with Threads and Mime).                     *)
(*                                                                         *)
(* The loops of the code are folds and recursive functions of the model.   *)
(* Each has a predicate that says what its first k turns have to have left *)
(* (Joins, LinksGood, DepthsGood, WalkGood ...).  It is shown for no turn, *)
(* and for one turn more, and so for all of them: there would be a least k *)
(* at which it fails (LeastNat).                                           *)
(***************************************************************************)
EXTENDS StdioServer, MailTools, FiniteSetTheorems, FunctionTheorems, SequenceTheorems,
        NaturalsInduction, WellFoundedInduction, TLAPS
\* Induction over the natural numbers, for membership in a set: the set of
\* counterexamples has no least element.
LEMMA NatInSet ==
  ASSUME NEW T, 0 \in T, \A n \in Nat : n \in T => n + 1 \in T
  PROVE  Nat \subseteq T
<1> DEFINE U == {n \in Nat : n \notin T}
<1> SUFFICES ASSUME U # {} PROVE FALSE
  OBVIOUS
<1>1. PICK m \in U : \A y \in U : ~(<<y, m>> \in OpToRel(<, Nat))
  BY NatLessThanWellFounded, WFMin
<1>2. m \in Nat /\ m # 0
  OBVIOUS
<1>3. ASSUME NEW y \in Nat, y < m PROVE <<y, m>> \in OpToRel(<, Nat)
  BY <1>2, <1>3 DEF OpToRel
<1>4. m - 1 \in Nat /\ m - 1 < m /\ (m - 1) + 1 = m
  BY <1>2
<1>5. m - 1 \notin U
  BY <1>1, <1>3, <1>4
<1>6. QED
  BY <1>2, <1>4, <1>5

\* A set of natural numbers that is not empty has a least one.
LEMMA LeastNat ==
  ASSUME NEW S \in SUBSET Nat, S # {}
  PROVE  Min(S) \in S /\ \A x \in S : Min(S) <= x
<1>1. PICK m \in S : \A y \in S : ~(<<y, m>> \in OpToRel(<, Nat))
  BY NatLessThanWellFounded, WFMin
<1>2. ASSUME NEW y \in S PROVE m <= y
  <2>1. ~(y < m)
    BY <1>1 DEF OpToRel
  <2>2. QED
    BY <2>1
<1>3. QED
  BY <1>2 DEF Min

-----------------------------------------------------------------------------
(* The bytes of a stream.                                                  *)

\* f joins the first n elements of q.
Joins(f, q, n) == f = [i \in 1 .. n |-> IF i = 1 THEN q[i] ELSE f[i - 1] \o q[i]]

\* There is such a function for every n.
LEMMA JoinsExist ==
  ASSUME NEW q, NEW n \in Nat
  PROVE  \E f : Joins(f, q, n)
<1> DEFINE T == {k \in Nat : \E f : Joins(f, q, k)}
<1>1. 0 \in T
  <2>1. Joins([i \in 1 .. 0 |-> q], q, 0)
    BY DEF Joins
  <2>2. QED
    BY <2>1
<1>2. ASSUME NEW k \in Nat, k \in T PROVE k + 1 \in T
  <2>1. PICK f : Joins(f, q, k)
    BY <1>2
  <2>2. \A i \in 1 .. k : f[i] = IF i = 1 THEN q[i] ELSE f[i - 1] \o q[i]
    BY <2>1 DEF Joins
  <2> DEFINE last == IF k + 1 = 1 THEN q[k + 1] ELSE f[(k + 1) - 1] \o q[k + 1]
             g == [i \in 1 .. k + 1 |-> IF i = k + 1 THEN last ELSE f[i]]
  <2>3. ASSUME NEW i \in 1 .. k + 1
        PROVE  g[i] = IF i = 1 THEN q[i] ELSE g[i - 1] \o q[i]
    <3>1. CASE i = k + 1
      <4>1. g[i] = last
        BY <3>1
      <4>2. i # 1 => g[i - 1] = f[i - 1]
        BY <2>3, <3>1
      <4> HIDE DEF g
      <4>3. QED
        BY <3>1, <4>1, <4>2
    <3>2. CASE i # k + 1
      <4>1. i \in 1 .. k /\ g[i] = f[i]
        BY <2>3, <3>2
      <4>2. i # 1 => g[i - 1] = f[i - 1]
        BY <2>3, <3>2
      <4> HIDE DEF g
      <4>3. QED
        BY <2>2, <4>1, <4>2
    <3>3. QED
      BY <3>1, <3>2
  <2>4. g = [i \in 1 .. k + 1 |-> g[i]]
    OBVIOUS
  <2> HIDE DEF g
  <2>5. Joins(g, q, k + 1)
    BY <2>3, <2>4 DEF Joins
  <2>6. QED
    BY <2>5
<1>3. Nat \subseteq T
  <2> HIDE DEF T
  <2>1. QED
    BY <1>1, <1>2, NatInSet
<1>4. QED
  BY <1>3

\* FlattenSeq is the last value of one.
LEMMA FlattenUnfolds ==
  ASSUME NEW q, Len(q) \in Nat \ {0}
  PROVE  \E f : Joins(f, q, Len(q)) /\ FlattenSeq(q) = f[Len(q)]
<1>1. PICK g : Joins(g, q, Len(q))
  BY JoinsExist
<1>2. FlattenSeq(q) = (CHOOSE f : Joins(f, q, Len(q)))[Len(q)]
  BY DEF FlattenSeq, Joins
<1>3. Joins(CHOOSE f : Joins(f, q, Len(q)), q, Len(q))
  BY <1>1
<1>4. QED
  BY <1>2, <1>3

\* Bytes: the frame and the position in it.  Keys of a thread: the string and
\* its suffix.
Places == Nat \X Nat


\* The elements of two sequences in a row.
LEMMA ConcatAt ==
  ASSUME NEW S, NEW a \in Seq(S), NEW b \in Seq(S)
  PROVE  /\ a \o b \in Seq(S) /\ Len(a \o b) = Len(a) + Len(b)
         /\ \A k \in 1 .. Len(a) : (a \o b)[k] = a[k]
         /\ \A k \in 1 .. Len(b) : (a \o b)[Len(a) + k] = b[k]
  OBVIOUS

\* The bytes of frame i, of length l.
FrameOf(i, l) == [p \in 1 .. l |-> <<i, p>>]

\* The bytes of one frame.
LEMMA FrameBytes ==
  ASSUME NEW i \in Nat, NEW l \in Nat
  PROVE  /\ FrameOf(i, l) \in Seq(Places) /\ Len(FrameOf(i, l)) = l
         /\ \A p \in 1 .. l : FrameOf(i, l)[p] = <<i, p>>
<1> DEFINE b == FrameOf(i, l)
<1>1. \A p \in 1 .. l : b[p] = <<i, p>> /\ b[p] \in Places
  BY DEF Places, FrameOf
<1>2. b \in [1 .. l -> Places]
  <2>1. b = [p \in 1 .. l |-> b[p]]
    BY DEF FrameOf
  <2> HIDE DEF b
  <2>2. QED
    BY <1>1, <2>1
<1>3. QED
  BY <1>1, <1>2

\* The bytes of a stream, one frame after the other.
Bytes(s) == FlattenSeq([i \in DOMAIN s |-> [p \in 1 .. s[i].len |-> <<i, p>>]])

\* Frame i of the stream s is the bytes off[i] + 1 .. off[i + 1] of w.
Laid(s, w, off) ==
  /\ off \in [1 .. Len(s) + 1 -> Nat] /\ off[1] = 0
  /\ \A i \in 1 .. Len(s) : off[i + 1] = off[i] + s[i].len
  /\ w \in Seq(Places) /\ Len(w) = off[Len(s) + 1]
  /\ \A i \in 1 .. Len(s) : \A p \in 1 .. s[i].len : w[off[i] + p] = <<i, p>>
  /\ \A k \in 1 .. Len(w) : \E i \in 1 .. Len(s) : off[i] < k /\ k <= off[i + 1]

\* The part of Laid that the first m frames make up, v long.
LaidTo(s, v, off, m) ==
  /\ v \in Seq(Places) /\ Len(v) = off[m + 1]
  /\ \A i \in 1 .. m : \A p \in 1 .. s[i].len : v[off[i] + p] = <<i, p>>
  /\ \A k \in 1 .. Len(v) : \E i \in 1 .. m : off[i] < k /\ k <= off[i + 1]

\* Frames laid one after the other.
LEMMA LaysNext ==
  ASSUME NEW s \in Seq(Frames), NEW m \in Nat, m + 1 <= Len(s), NEW off,
         off \in [1 .. Len(s) + 1 -> Nat],
         \A i \in 1 .. m + 1 : off[i + 1] = off[i] + s[i].len,
         \A i \in 1 .. m : off[i + 1] <= off[m + 1],
         NEW v, LaidTo(s, v, off, m), NEW b, b = FrameOf(m + 1, s[m + 1].len)
  PROVE  LaidTo(s, v \o b, off, m + 1)
<1> DEFINE l == s[m + 1].len  u == v \o b
<1>1. l \in Nat \ {0} /\ m + 1 \in Nat /\ m + 1 \in 1 .. Len(s)
  <2>1. m + 1 \in 1 .. Len(s)
    OBVIOUS
  <2>2. s[m + 1] \in Frames
    BY <2>1
  <2>3. QED
    BY <2>1, <2>2 DEF Frames
<1>2. b \in Seq(Places) /\ Len(b) = l /\ \A p \in 1 .. l : b[p] = <<m + 1, p>>
  <2>1. b = FrameOf(m + 1, l)
    OBVIOUS
  <2>2. l \in Nat /\ m + 1 \in Nat
    BY <1>1
  <2> HIDE DEF l, u
  <2>3. /\ FrameOf(m + 1, l) \in Seq(Places) /\ Len(FrameOf(m + 1, l)) = l
        /\ \A p \in 1 .. l : FrameOf(m + 1, l)[p] = <<m + 1, p>>
    BY <2>2, FrameBytes
  <2>4. QED
    BY <2>1, <2>3
<1>3. v \in Seq(Places) /\ Len(v) = off[m + 1] /\ Len(v) \in Nat
  BY DEF LaidTo
<1> HIDE DEF l
<1>4. u \in Seq(Places) /\ Len(u) = Len(v) + l
  BY <1>2, <1>3, ConcatAt
<1>5. \A k \in 1 .. Len(v) : u[k] = v[k]
  BY <1>2, <1>3, ConcatAt
<1>6. \A p \in 1 .. l : u[Len(v) + p] = <<m + 1, p>>
  <2>1. u \in Seq(Places) /\ \A p \in 1 .. Len(b) : u[Len(v) + p] = b[p]
    BY <1>2, <1>3, ConcatAt
  <2> HIDE DEF u
  <2>2. QED
    BY <1>2, <2>1
<1> HIDE DEF u
<1>7. off[(m + 1) + 1] = off[m + 1] + l
  BY <1>1 DEF l
<1>8. ASSUME NEW i \in 1 .. m + 1, NEW p \in 1 .. s[i].len PROVE u[off[i] + p] = <<i, p>>
  <2>1. CASE i = m + 1
    BY <1>3, <1>6, <2>1 DEF l
  <2>2. CASE i # m + 1
    <3>1. i \in 1 .. m /\ off[i] \in Nat /\ off[i + 1] = off[i] + s[i].len /\ off[i + 1] <= off[m + 1]
      BY <1>1, <2>2
    <3>0. off[i] + s[i].len <= off[m + 1]
      BY <3>1
    <3>2. s[i].len \in Nat
      <4>1. s[i] \in Frames
        BY <3>1, <1>1
      <4>2. QED
        BY <4>1 DEF Frames
    <3>3. off[i] + p \in 1 .. Len(v)
      <4>1. p \in Nat /\ p >= 1 /\ p <= s[i].len /\ off[m + 1] \in Nat
        BY <1>3, <1>8, <3>2
      <4> HIDE DEF l, u
      <4> DEFINE x == off[i]  y == off[m + 1]  z == s[i].len
      <4>2. x + p \in Nat /\ x + p >= 1 /\ x + p <= y
        <5>1. x \in Nat /\ y \in Nat /\ z \in Nat /\ x + z <= y /\ p \in Nat /\ p >= 1 /\ p <= z
          BY <3>0, <3>1, <3>2, <4>1
        <5> HIDE DEF x, y, z
        <5>2. QED
          BY <5>1
      <4>3. QED
        BY <1>3, <4>2
    <3>4. QED
      BY <1>5, <3>1, <3>3 DEF LaidTo
  <2>3. QED
    BY <2>1, <2>2
<1>9. ASSUME NEW k \in 1 .. Len(u) PROVE \E i \in 1 .. m + 1 : off[i] < k /\ k <= off[i + 1]
  <2>1. CASE k <= Len(v)
    <3>1. k \in 1 .. Len(v)
      BY <1>3, <2>1
    <3>2. PICK i \in 1 .. m : off[i] < k /\ k <= off[i + 1]
      BY <3>1 DEF LaidTo
    <3>3. QED
      BY <3>2
  <2>2. CASE k > Len(v)
    <3>1. off[m + 1] < k /\ k <= off[(m + 1) + 1]
      BY <1>1, <1>3, <1>4, <1>7, <2>2
    <3>2. m + 1 \in 1 .. m + 1
      OBVIOUS
    <3>3. QED
      BY <3>1, <3>2
  <2>3. k <= Len(v) \/ k > Len(v)
    <3>1. k \in Nat
      BY <1>1, <1>3, <1>4
    <3>2. QED
      BY <1>3, <3>1
  <2>4. QED
    BY <2>1, <2>2, <2>3
<1>10. Len(u) = off[(m + 1) + 1]
  BY <1>3, <1>4, <1>7
<1>11. QED
  BY <1>4, <1>8, <1>9, <1>10 DEF LaidTo, u

\* The bytes of a stream are its frames, one after the other.
LEMMA BytesAreLaid ==
  ASSUME NEW s \in Seq(Frames)
  PROVE  \E off : Laid(s, Bytes(s), off)
<1> DEFINE n == Len(s)
           q == [i \in 1 .. n |-> [p \in 1 .. s[i].len |-> <<i, p>>]]
<1>1. n \in Nat /\ DOMAIN s = 1 .. n /\ \A i \in 1 .. n : s[i].len \in Nat \ {0}
  <2>1. \A i \in 1 .. n : s[i] \in Frames
    OBVIOUS
  <2>2. QED
    BY <2>1 DEF Frames
<1>2. Bytes(s) = FlattenSeq(q) /\ Len(q) = n
  BY <1>1 DEF Bytes
<1>3. CASE n = 0
  <2>1. Bytes(s) = <<>>
    <3>1. q = <<>>
      BY <1>3
    <3>2. FlattenSeq(q) = q
      BY <1>2, <1>3 DEF FlattenSeq
    <3>3. QED
      BY <1>2, <3>1, <3>2
  <2> DEFINE z == [i \in 1 .. Len(s) + 1 |-> 0]
  <2>2. z \in [1 .. Len(s) + 1 -> Nat] /\ z[1] = 0 /\ z[Len(s) + 1] = 0
    BY <1>3
  <2>3. <<>> \in Seq(Places) /\ Len(<<>>) = 0
    OBVIOUS
  <2> HIDE DEF z
  <2>4. Laid(s, <<>>, z)
    BY <1>3, <2>2, <2>3 DEF Laid
  <2>5. QED
    BY <2>1, <2>4
<1>4. CASE n # 0
  <2>1. PICK f : Joins(f, q, n) /\ FlattenSeq(q) = f[n]
    <3>1. Len(q) \in Nat \ {0}
      BY <1>1, <1>2, <1>4
    <3> HIDE DEF q
    <3>2. QED
      BY <1>2, <3>1, FlattenUnfolds
  <2>2. \A i \in 1 .. n : f[i] = IF i = 1 THEN q[i] ELSE f[i - 1] \o q[i]
    <3> HIDE DEF q, n
    <3>1. QED
      BY <2>1 DEF Joins
  <2>3. \A i \in 1 .. n : q[i] = [p \in 1 .. s[i].len |-> <<i, p>>]
    OBVIOUS
  <2> HIDE DEF q
  <2> DEFINE off == [i \in 1 .. n + 1 |-> IF i = 1 THEN 0 ELSE Len(f[i - 1])]
             v(m) == IF m = 0 THEN <<>> ELSE f[m]
             Sound(m) == /\ LaidTo(s, v(m), off, m)
                         /\ \A i \in 1 .. m : off[i + 1] = off[i] + s[i].len /\ off[i + 1] \in Nat
                         /\ \A i \in 1 .. m : off[i + 1] <= off[m + 1]
             T == {m \in Nat : m <= n => Sound(m)}
  <2>4. off[1] = 0 /\ \A i \in 1 .. n : off[i + 1] = Len(f[i])
    BY <1>1
  <2>5. 0 \in T
    <3>1. LaidTo(s, <<>>, off, 0)
      <4>1. <<>> \in Seq(Places) /\ Len(<<>>) = 0 /\ 1 .. 0 = {} /\ 0 + 1 = 1
        OBVIOUS
      <4> HIDE DEF off
      <4>2. QED
        BY <2>4, <4>1 DEF LaidTo
    <3>2. QED
      BY <3>1
  <2>6. ASSUME NEW m \in Nat, m \in T PROVE m + 1 \in T
    <3> HIDE DEF Sound
    <3> SUFFICES ASSUME m + 1 <= n PROVE Sound(m + 1)
      OBVIOUS
    <3>1. Sound(m)
      BY <1>1, <2>6
    <3> USE DEF Sound
    <3>2. m + 1 \in 1 .. n /\ m + 1 # 0
      BY <1>1
    <3> DEFINE b == FrameOf(m + 1, s[m + 1].len)
    <3>3. v(m + 1) = v(m) \o b
      <4>1. q[m + 1] = b
        BY <2>3, <3>2 DEF FrameOf
      <4>2. b \in Seq(Places)
        <5>1. s[m + 1].len \in Nat /\ m + 1 \in Nat
          BY <1>1, <3>2
        <5>2. QED
          BY <5>1, FrameBytes
      <4> HIDE DEF b, off
      <4>3. <<>> \o b = b
        BY <4>2
      <4>4. f[m + 1] = IF m + 1 = 1 THEN b ELSE f[(m + 1) - 1] \o b
        BY <2>2, <3>2, <4>1
      <4>5. (m + 1) - 1 = m /\ (m + 1 = 1 <=> m = 0)
        OBVIOUS
      <4>6. QED
        BY <3>2, <4>3, <4>4, <4>5
    <3>4. Len(v(m + 1)) = off[m + 1] + s[m + 1].len
      <4>1. v(m) \in Seq(Places) /\ Len(v(m)) = off[m + 1]
        BY <3>1 DEF LaidTo
      <4>2. s[m + 1].len \in Nat
        BY <1>1, <3>2
      <4>3. b \in Seq(Places) /\ Len(b) = s[m + 1].len
        <5>1. m + 1 \in Nat
          OBVIOUS
        <5>2. QED
          BY <4>2, <5>1, FrameBytes
      <4> HIDE DEF b, v, off
      <4>4. Len(v(m) \o b) = Len(v(m)) + Len(b)
        BY <4>1, <4>3, ConcatAt
      <4>5. QED
        BY <3>3, <4>1, <4>3, <4>4
    <3>5. off[(m + 1) + 1] = off[m + 1] + s[m + 1].len
      BY <2>4, <3>2, <3>4
    <3>6. off[m + 1] \in Nat /\ s[m + 1].len \in Nat
      <4>1. s[m + 1].len \in Nat
        BY <1>1, <3>2
      <4>2. v(m) \in Seq(Places) /\ Len(v(m)) = off[m + 1]
        BY <3>1 DEF LaidTo
      <4> HIDE DEF off, v
      <4>3. QED
        BY <4>1, <4>2
    <3> DEFINE top == [i \in 1 .. Len(s) + 1 |-> IF i <= m + 2 THEN off[i] ELSE 0]
    <3> HIDE DEF off, v
    <3>7. ASSUME NEW i \in 1 .. m + 1
          PROVE  /\ off[i + 1] = off[i] + s[i].len /\ off[i + 1] \in Nat
                 /\ off[i + 1] <= off[(m + 1) + 1] /\ off[i] \in Nat
      <4>1. CASE i = m + 1
        BY <3>5, <3>6, <4>1
      <4>2. CASE i # m + 1
        <5>1. i \in 1 .. m
          BY <4>2
        <5>2. off[i + 1] = off[i] + s[i].len /\ off[i + 1] \in Nat /\ off[i + 1] <= off[m + 1]
          BY <3>1, <5>1
        <5>3. off[i] \in Nat
          <6>1. CASE i = 1
            BY <2>4, <6>1
          <6>2. CASE i # 1
            <7>1. i - 1 \in 1 .. m /\ (i - 1) + 1 = i
              BY <5>1, <6>2
            <7>2. off[(i - 1) + 1] \in Nat
              BY <3>1, <7>1
            <7>3. QED
              BY <7>1, <7>2
          <6>3. QED
            BY <6>1, <6>2
        <5>4. QED
          BY <3>5, <3>6, <5>2, <5>3
      <4>3. QED
        BY <4>1, <4>2
    <3>8. LaidTo(s, v(m + 1), off, m + 1)
      <4>1. top \in [1 .. Len(s) + 1 -> Nat]
        <5>1. ASSUME NEW i \in 1 .. m + 2 PROVE off[i] \in Nat
          <6>1. CASE i = m + 2
            <7>1. (m + 1) + 1 = m + 2 /\ m + 1 \in 1 .. m + 1
              OBVIOUS
            <7>2. QED
              BY <3>7, <6>1, <7>1
          <6>2. CASE i # m + 2
            <7>1. i \in 1 .. m + 1
              BY <6>2
            <7>2. QED
              BY <3>7, <7>1
          <6>3. QED
            BY <6>1, <6>2
        <5>2. QED
          BY <1>1, <5>1
      <4>2. \A i \in 1 .. m + 2 : top[i] = off[i]
        BY <1>1
      <4> HIDE DEF top, b
      <4>3. \A i \in 1 .. m + 1 : i \in 1 .. m + 2 /\ i + 1 \in 1 .. m + 2
        OBVIOUS
      <4>4. \A i \in 1 .. m + 1 : top[i] = off[i] /\ top[i + 1] = off[i + 1]
        BY <4>2, <4>3
      <4>5. \A i \in 1 .. m + 1 : top[i + 1] = top[i] + s[i].len
        BY <3>7, <4>4
      <4>6. \A i \in 1 .. m : i \in 1 .. m + 1
        OBVIOUS
      <4>7. m + 1 \in 1 .. m + 1
        OBVIOUS
      <4>8. \A i \in 1 .. m : top[i + 1] <= top[m + 1]
        BY <3>1, <4>4, <4>6, <4>7
      <4>9. LaidTo(s, v(m), top, m)
        BY <3>1, <4>4, <4>6, <4>7 DEF LaidTo
      <4>10. LaidTo(s, v(m) \o b, top, m + 1)
        BY <4>1, <4>5, <4>8, <4>9, LaysNext DEF b
      <4>11. QED
        BY <3>3, <4>4, <4>7, <4>10 DEF LaidTo
    <3>9. QED
      BY <3>7, <3>8
  <2>7. n \in T
    <3> HIDE DEF T
    <3>1. QED
      BY <1>1, <2>5, <2>6, NatInSet
  <2>8. Sound(n) /\ v(n) = Bytes(s)
    <3> HIDE DEF Sound
    <3>1. Sound(n)
      BY <1>1, <2>7
    <3>2. QED
      BY <1>2, <1>4, <2>1, <3>1
  <2>9. off \in [1 .. n + 1 -> Nat]
    <3>1. ASSUME NEW i \in 1 .. n + 1 PROVE off[i] \in Nat
      <4>1. CASE i = 1
        BY <2>4, <4>1
      <4>2. CASE i # 1
        <5>1. i - 1 \in 1 .. n /\ (i - 1) + 1 = i
          BY <1>1, <4>2
        <5> HIDE DEF off
        <5>2. off[(i - 1) + 1] \in Nat
          BY <2>8, <5>1
        <5>3. QED
          BY <5>1, <5>2
      <4>3. QED
        BY <4>1, <4>2
    <3>2. QED
      BY <3>1
  <2> HIDE DEF off, v
  <2>10. Laid(s, Bytes(s), off)
    BY <2>4, <2>8, <2>9 DEF Laid, LaidTo
  <2>11. QED
    BY <2>10
<1>5. QED
  BY <1>3, <1>4

\* Frames follow each other.
LEMMA OffGrows ==
  ASSUME NEW s \in Seq(Frames), NEW w, NEW off, Laid(s, w, off),
         NEW i \in 1 .. Len(s) + 1, NEW j \in 1 .. Len(s) + 1, i < j
  PROVE  off[i] < off[j] /\ off[i] + s[i].len <= off[j]
<1> DEFINE n == Len(s)
           T == {d \in Nat : i + d + 1 <= n + 1 => off[i] + s[i].len <= off[i + d + 1]}
<1>1. n \in Nat /\ i \in 1 .. n
  OBVIOUS
<1>2. \A k \in 1 .. n : /\ off[k] \in Nat /\ off[k + 1] \in Nat /\ s[k].len \in Nat \ {0}
                        /\ off[k + 1] = off[k] + s[k].len
  <2>1. \A k \in 1 .. n : s[k] \in Frames /\ k \in 1 .. n + 1 /\ k + 1 \in 1 .. n + 1
    OBVIOUS
  <2>2. QED
    BY <2>1 DEF Laid, Frames
<1>3. 0 \in T
  <2>1. i + 0 + 1 = i + 1
    OBVIOUS
  <2>2. QED
    BY <1>1, <1>2, <2>1
<1>4. ASSUME NEW d \in Nat, d \in T PROVE d + 1 \in T
  <2> SUFFICES ASSUME i + (d + 1) + 1 <= n + 1
               PROVE  off[i] + s[i].len <= off[i + (d + 1) + 1]
    OBVIOUS
  <2>1. i + d + 1 \in 1 .. n /\ i + d + 1 <= n + 1 /\ i + (d + 1) + 1 = (i + d + 1) + 1
    BY <1>1
  <2>2. off[i] + s[i].len <= off[i + d + 1]
    BY <1>4, <2>1
  <2>3. off[(i + d + 1) + 1] >= off[i + d + 1] /\ off[i + d + 1] \in Nat /\ off[(i + d + 1) + 1] \in Nat
    <3> DEFINE k == i + d + 1
    <3>1. k \in 1 .. n
      BY <2>1
    <3> HIDE DEF k
    <3> DEFINE x == off[k]  y == off[k + 1]  z == s[k].len
    <3>4. x \in Nat /\ y \in Nat /\ z \in Nat \ {0} /\ y = x + z
      BY <1>2, <3>1
    <3>2. y >= x /\ x \in Nat /\ y \in Nat
      <4> HIDE DEF x, y, z
      <4>1. QED
        BY <3>4
    <3>3. QED
      BY <3>2 DEF k
  <2>4. off[i] + s[i].len \in Nat
    BY <1>1, <1>2
  <2>5. QED
    BY <2>1, <2>2, <2>3, <2>4
<1>5. j - i - 1 \in T
  <2>1. j - i - 1 \in Nat
    BY <1>1
  <2> HIDE DEF T
  <2>2. QED
    BY <1>3, <1>4, <2>1, NatInSet
<1>6. i + (j - i - 1) + 1 = j /\ j <= n + 1
  BY <1>1
<1>7. off[i] + s[i].len <= off[j]
  BY <1>5, <1>6
<1>8. QED
  <2> DEFINE x == off[i]  y == off[j]  z == s[i].len
  <2>1. x \in Nat /\ y \in Nat /\ z \in Nat \ {0} /\ x + z <= y
    BY <1>1, <1>2, <1>7 DEF Laid
  <2>2. x < y /\ x + z <= y
    <3> HIDE DEF x, y, z
    <3>1. QED
      BY <2>1
  <2>3. QED
    BY <2>2

\* The frame a byte belongs to, and its position there.
LEMMA ByteAt ==
  ASSUME NEW s \in Seq(Frames), NEW w, NEW off, Laid(s, w, off),
         NEW k \in 1 .. Len(w), NEW i \in 1 .. Len(s), off[i] < k, k <= off[i + 1]
  PROVE  w[k] = <<i, k - off[i]>> /\ w[k][1] = i /\ w[k][2] = k - off[i]
<1>1. off[i] \in Nat /\ off[i + 1] \in Nat /\ off[i + 1] = off[i] + s[i].len /\ s[i].len \in Nat
  <2>1. s[i] \in Frames /\ i \in 1 .. Len(s) + 1 /\ i + 1 \in 1 .. Len(s) + 1
    OBVIOUS
  <2>2. QED
    BY <2>1 DEF Laid, Frames
<1>2. k \in Nat /\ k - off[i] \in 1 .. s[i].len /\ off[i] + (k - off[i]) = k
  <2>1. Len(w) \in Nat
    BY DEF Laid
  <2>2. k \in Nat
    BY <2>1
  <2>3. QED
    BY <1>1, <2>2
<1>3. w[off[i] + (k - off[i])] = <<i, k - off[i]>>
  BY <1>2 DEF Laid
<1>4. QED
  BY <1>2, <1>3

\* Every byte belongs to the frame it says.
LEMMA ByteOf ==
  ASSUME NEW s \in Seq(Frames), NEW w, NEW off, Laid(s, w, off), NEW k \in 1 .. Len(w)
  PROVE  /\ w[k][1] \in 1 .. Len(s) /\ off[w[k][1]] < k /\ k <= off[w[k][1] + 1]
         /\ w[k][2] = k - off[w[k][1]]
<1>1. PICK i \in 1 .. Len(s) : off[i] < k /\ k <= off[i + 1]
  BY DEF Laid
<1>2. w[k][1] = i /\ w[k][2] = k - off[i]
  BY <1>1, ByteAt
<1>3. QED
  BY <1>1, <1>2

-----------------------------------------------------------------------------
(* One line of the input.                                                  *)

\* The stream is laid out on the wire, and part of it has arrived.
Wired(off) ==
  /\ stream \in Streams /\ Laid(stream, wire, off)
  /\ arrived \in 0 .. Len(wire) /\ source \in {"open", "eof", "broken"}

\* The reader stands at frame i.
StandsAt(off, i) ==
  /\ Wired(off) /\ i \in 1 .. Len(stream) + 1 /\ taken = off[i] /\ taken <= arrived

\* The types StandsAt gives.
LEMMA StandsTypes ==
  ASSUME NEW off, NEW i, StandsAt(off, i)
  PROVE  /\ stream \in Seq(Frames) /\ wire \in Seq(Places) /\ Len(wire) \in Nat
         /\ arrived \in Nat /\ taken \in Nat /\ arrived <= Len(wire)
         /\ MaxFrameBytes \in Nat \ {0} /\ Len(stream) \in Nat
<1>1. stream \in Seq(Frames) /\ MaxFrameBytes \in Nat \ {0}
  BY StdioAssumption DEF StandsAt, Wired
<1>2. wire \in Seq(Places)
  BY DEF StandsAt, Wired, Laid
<1>3. taken \in Nat
  BY <1>1 DEF StandsAt, Wired, Laid
<1>4. QED
  BY <1>1, <1>2, <1>3 DEF StandsAt, Wired

\* ReadSlice sees the bytes after those taken, all of them unless its buffer is
\* full.
LEMMA BufferIs ==
  ASSUME NEW off, NEW i, StandsAt(off, i)
  PROVE  /\ Buffer \in Seq(Places) /\ Len(Buffer) \in Nat /\ taken + Len(Buffer) <= arrived
         /\ Len(Buffer) <= MaxFrameBytes => taken + Len(Buffer) = arrived
         /\ \A k \in 1 .. Len(Buffer) : Buffer[k] = wire[taken + k]
<1> DEFINE end == IF arrived > taken + MaxFrameBytes + 1 THEN taken + MaxFrameBytes + 1 ELSE arrived
           n == end - taken
<1>1. /\ wire \in Seq(Places) /\ Len(wire) \in Nat /\ arrived \in Nat /\ taken \in Nat
      /\ arrived <= Len(wire) /\ MaxFrameBytes \in Nat \ {0} /\ taken <= arrived
  BY StandsTypes DEF StandsAt, Wired
<1>2. /\ n \in Nat /\ taken + n <= arrived
      /\ n <= MaxFrameBytes => taken + n = arrived
  BY <1>1
<1>3. Buffer = [k \in 1 .. n |-> wire[taken + k]]
  BY DEF Buffer
<1> HIDE DEF n, end
<1>4. ASSUME NEW k \in 1 .. n PROVE wire[taken + k] \in Places
  <2>1. taken + k \in 1 .. Len(wire)
    BY <1>1, <1>2
  <2>2. QED
    BY <1>1, <2>1
<1>5. Buffer \in Seq(Places) /\ Len(Buffer) = n
  BY <1>2, <1>3, <1>4
<1>6. QED
  BY <1>2, <1>3, <1>5

\* The first newline of the buffer.
LEMMA FirstNewline ==
  ASSUME Len(Buffer) \in Nat
  PROVE  /\ SelectInSeq(Buffer, Newline) \in 0 .. Len(Buffer)
         /\ SelectInSeq(Buffer, Newline) > 0 => Newline(Buffer[SelectInSeq(Buffer, Newline)])
         /\ \A k \in 1 .. Len(Buffer) :
              Newline(Buffer[k]) => /\ SelectInSeq(Buffer, Newline) > 0
                                    /\ SelectInSeq(Buffer, Newline) <= k
<1> DEFINE I == {k \in 1 .. Len(Buffer) : Newline(Buffer[k])}
           m == SelectInSeq(Buffer, Newline)
<1>1. m = IF I # {} THEN Min(I) ELSE 0
  BY DEF SelectInSeq
<1>2. I \in SUBSET Nat
  OBVIOUS
<1> HIDE DEF m
<1>3. CASE I = {}
  <2>1. m = 0
    BY <1>1, <1>3
  <2>2. \A k \in 1 .. Len(Buffer) : ~Newline(Buffer[k])
    BY <1>3
  <2>3. QED
    BY <2>1, <2>2 DEF m
<1>4. CASE I # {}
  <2>1. m \in I /\ \A x \in I : m <= x
    <3>1. m = Min(I)
      BY <1>1, <1>4
    <3> HIDE DEF I
    <3>2. QED
      BY <1>2, <1>4, <3>1, LeastNat
  <2>2. m \in 1 .. Len(Buffer) /\ Newline(Buffer[m])
    BY <2>1
  <2>3. \A k \in 1 .. Len(Buffer) : Newline(Buffer[k]) => m <= k
    BY <2>1
  <2>4. /\ m \in 0 .. Len(Buffer)
        /\ m > 0 => Newline(Buffer[m])
        /\ \A k \in 1 .. Len(Buffer) : Newline(Buffer[k]) => m > 0 /\ m <= k
    <3> HIDE DEF I
    <3>1. m \in 0 .. Len(Buffer) /\ m > 0
      BY <2>2
    <3>2. QED
      BY <2>2, <2>3, <3>1
  <2>5. QED
    BY <2>4 DEF m
<1>5. QED
  BY <1>3, <1>4

\* Where a frame lies, and that its newline is on the wire unless it is last.
LEMMA FrameLies ==
  ASSUME NEW off, Wired(off), NEW j \in 1 .. Len(stream)
  PROVE  /\ off[j] \in Nat /\ off[j + 1] \in Nat /\ stream[j].len \in Nat /\ stream[j].len > 0
         /\ off[j + 1] = off[j] + stream[j].len /\ off[j + 1] <= Len(wire)
         /\ j < Len(stream) => stream[j].ended
         /\ Body(j) \in Nat /\ Body(j) <= stream[j].len
         /\ stream[j].tail # 1
<1>1. stream \in Seq(Frames) /\ Len(stream) \in Nat /\ Laid(stream, wire, off) /\ Len(wire) \in Nat
  <2>1. stream \in Seq(Frames) /\ Laid(stream, wire, off) /\ wire \in Seq(Places)
    BY StdioAssumption DEF Wired, Laid
  <2>2. QED
    BY <2>1
<1>2. stream[j] \in Frames
  BY <1>1
<1>3. /\ stream[j].len \in Nat /\ stream[j].len > 0 /\ stream[j].tail # 1
      /\ off[j] \in Nat /\ off[j + 1] \in Nat /\ off[j + 1] = off[j] + stream[j].len
  <2>1. stream[j].len \in Nat \ {0} /\ stream[j].tail \in Nat \ {1}
    BY <1>2 DEF Frames
  <2>2. j \in 1 .. Len(stream) + 1 /\ j + 1 \in 1 .. Len(stream) + 1
    BY <1>1
  <2>3. off[j] \in Nat /\ off[j + 1] \in Nat /\ off[j + 1] = off[j] + stream[j].len
    BY <1>1, <2>2 DEF Laid
  <2>4. \A x \in Nat \ {0} : x \in Nat /\ x > 0
    OBVIOUS
  <2>5. QED
    BY <2>1, <2>3, <2>4
<1>4. j < Len(stream) => stream[j].ended
  BY <1>1, StdioAssumption DEF Wired
<1>5. off[j + 1] <= Len(wire)
  <2>1. Len(wire) = off[Len(stream) + 1]
    BY <1>1 DEF Laid
  <2>2. CASE j = Len(stream)
    BY <1>1, <2>1, <2>2
  <2>3. CASE j < Len(stream)
    <3>1. j + 1 \in 1 .. Len(stream) + 1 /\ Len(stream) + 1 \in 1 .. Len(stream) + 1 /\ j + 1 < Len(stream) + 1
      BY <1>1, <2>3
    <3>2. off[j + 1] < off[Len(stream) + 1]
      BY <1>1, <3>1, OffGrows
    <3>3. QED
      BY <1>1, <1>3, <2>1, <3>2
  <2>4. QED
    BY <1>1, <2>2, <2>3
<1>6. Body(j) \in Nat /\ Body(j) <= stream[j].len
  <2> DEFINE l == stream[j].len
  <2>1. l \in Nat /\ l > 0 /\ Body(j) = IF stream[j].ended THEN l - 1 ELSE l
    BY <1>3 DEF Body
  <2>2. (Body(j) = l \/ Body(j) = l - 1) /\ l \in Nat /\ l > 0
    BY <2>1
  <2> HIDE DEF l
  <2>3. Body(j) \in Nat /\ Body(j) <= l
    BY <2>2
  <2>4. QED
    BY <2>3 DEF l
<1>7. QED
  BY <1>3, <1>4, <1>5, <1>6

\* A byte of the buffer that comes before every newline is one of frame i, and
\* a newline that comes first is its last byte.
LEMMA LineIs ==
  ASSUME NEW off, NEW i, StandsAt(off, i), NEW m \in 1 .. Len(Buffer),
         \A k \in 1 .. Len(Buffer) : Newline(Buffer[k]) => m <= k
  PROVE  /\ i \in 1 .. Len(stream) /\ Len(Buffer) \in Nat
         /\ \A k \in 1 .. m : wire[taken + k] = <<i, k>>
         /\ taken + m <= off[i + 1] /\ taken + m <= arrived
         /\ Newline(Buffer[m]) => taken + m = off[i + 1]
<1>1. /\ stream \in Seq(Frames) /\ wire \in Seq(Places) /\ Len(wire) \in Nat
      /\ arrived \in Nat /\ taken \in Nat /\ arrived <= Len(wire) /\ Len(stream) \in Nat
      /\ Laid(stream, wire, off) /\ i \in 1 .. Len(stream) + 1 /\ taken = off[i]
  BY StandsTypes DEF StandsAt, Wired
<1>2. /\ Len(Buffer) \in Nat /\ taken + Len(Buffer) <= arrived
      /\ \A k \in 1 .. Len(Buffer) : Buffer[k] = wire[taken + k]
  BY BufferIs
<1>3. m \in Nat /\ m >= 1 /\ taken + m \in 1 .. Len(wire) /\ taken + m <= arrived
  BY <1>1, <1>2
<1>4. i \in 1 .. Len(stream)
  <2>1. CASE i = Len(stream) + 1
    <3>1. taken = Len(wire)
      BY <1>1, <2>1 DEF Laid
    <3>2. QED
      BY <1>1, <1>3, <3>1
  <2>2. QED
    BY <1>1, <2>1
<1>5. /\ off[i] \in Nat /\ off[i + 1] \in Nat /\ stream[i].len \in Nat /\ stream[i].len > 0
      /\ off[i + 1] = off[i] + stream[i].len /\ off[i + 1] <= Len(wire)
      /\ i < Len(stream) => stream[i].ended
  BY <1>4, FrameLies DEF StandsAt
<1>6. \A p \in 1 .. stream[i].len : wire[taken + p] = <<i, p>>
  BY <1>1, <1>4 DEF Laid
<1>7. taken + m <= off[i + 1]
  <2> SUFFICES ASSUME taken + m > off[i + 1] PROVE FALSE
    BY <1>1, <1>3, <1>5
  <2> DEFINE l == stream[i].len
  <2>1. i # Len(stream)
    <3> SUFFICES ASSUME i = Len(stream) PROVE FALSE
      OBVIOUS
    <3>1. Len(wire) = off[i + 1]
      BY <1>1 DEF Laid
    <3>2. QED
      BY <1>1, <1>3, <3>1
  <2>2. stream[i].ended
    BY <1>1, <1>4, <1>5, <2>1
  <2>3. l \in Nat /\ l > 0 /\ l < m /\ l \in 1 .. Len(Buffer)
    <3> DEFINE x == off[i + 1]  n == Len(Buffer)
    <3>1. l \in Nat /\ l > 0 /\ x = taken + l /\ taken + m > x /\ taken \in Nat /\ n \in Nat /\ m \in 1 .. n
      BY <1>1, <1>2, <1>5
    <3> HIDE DEF l, x, n
    <3>2. l \in Nat /\ l > 0 /\ l < m /\ l \in 1 .. n
      BY <1>3, <3>1
    <3>3. QED
      BY <3>2 DEF n
  <2>4. Buffer[l] = <<i, l>>
    <3>1. l \in 1 .. l
      BY <2>3
    <3>2. wire[taken + l] = <<i, l>>
      BY <1>6, <3>1
    <3> HIDE DEF l
    <3>3. QED
      BY <1>2, <2>3, <3>2
  <2>5. Newline(Buffer[l])
    BY <2>2, <2>4 DEF Newline
  <2> HIDE DEF l
  <2>6. m <= l
    BY <2>3, <2>5
  <2>7. QED
    BY <1>3, <2>3, <2>6
<1>8. \A k \in 1 .. m : k \in 1 .. stream[i].len
  <2> DEFINE l == stream[i].len  x == off[i + 1]
  <2>1. l \in Nat /\ x = taken + l /\ taken + m <= x /\ taken \in Nat
    BY <1>1, <1>5, <1>7
  <2> HIDE DEF l, x
  <2>2. m <= l
    BY <1>3, <2>1
  <2>3. \A k \in 1 .. m : k \in 1 .. l
    BY <1>3, <2>1, <2>2
  <2>4. QED
    BY <2>3 DEF l
<1>9. \A k \in 1 .. m : wire[taken + k] = <<i, k>>
  BY <1>6, <1>8
<1>10. Newline(Buffer[m]) => taken + m = off[i + 1]
  <2> SUFFICES ASSUME Newline(Buffer[m]) PROVE taken + m = off[i + 1]
    OBVIOUS
  <2>1. Buffer[m] = <<i, m>>
    BY <1>2, <1>3, <1>9
  <2>2. m = stream[i].len
    BY <2>1 DEF Newline
  <2>3. QED
    BY <1>1, <1>5, <2>2
<1>11. QED
  BY <1>2, <1>3, <1>4, <1>7, <1>9, <1>10

-----------------------------------------------------------------------------
(* What the reader lets through.                                           *)

\* How a reader may have ended.
Errors == {"none", "too_large", "invalid", "eof", "broken"}

\* Frame i was let through, and what it was let through for stays true.
Settled(off, i) ==
  /\ i \in 1 .. Len(stream) /\ stream[i].doc \in Admissible
  /\ off[i] + Body(i) <= arrived
  /\ \/ off[i + 1] <= arrived /\ stream[i].len <= MaxFrameBytes
     \/ source # "open" /\ arrived < off[i + 1] /\ arrived - off[i] <= MaxFrameBytes

\* There is a line to read, or there will be none.
Readable ==
  Len(Buffer) > MaxFrameBytes \/ source # "open" \/ SelectInSeq(Buffer, Newline) > 0

\* The slice of a line: frame i, or what has arrived of it.
LEMMA SliceOfLine ==
  ASSUME NEW off, NEW i, StandsAt(off, i), SelectInSeq(Buffer, Newline) > 0
  PROVE  /\ ReadSlice.err = "none" /\ ReadSlice.frame \in Seq(Places)
         /\ Len(ReadSlice.frame) \in Nat \ {0} /\ i \in 1 .. Len(stream)
         /\ \A k \in 1 .. Len(ReadSlice.frame) : ReadSlice.frame[k] = wire[taken + k] /\ wire[taken + k] = <<i, k>>
         /\ taken + Len(ReadSlice.frame) = off[i + 1] /\ off[i + 1] <= arrived
<1> DEFINE m == SelectInSeq(Buffer, Newline)
<1>1. /\ Buffer \in Seq(Places) /\ Len(Buffer) \in Nat
      /\ \A k \in 1 .. Len(Buffer) : Buffer[k] = wire[taken + k]
  BY BufferIs
<1>2. /\ m \in 0 .. Len(Buffer) /\ m > 0 /\ Newline(Buffer[m])
      /\ \A k \in 1 .. Len(Buffer) : Newline(Buffer[k]) => m <= k
  BY <1>1, FirstNewline
<1> DEFINE f == [k \in 1 .. m |-> Buffer[k]]
<1>3. ReadSlice = [frame |-> f, err |-> "none"]
  BY DEF ReadSlice
<1>4. ReadSlice.frame = f /\ ReadSlice.err = "none"
  BY <1>3
<1> HIDE DEF m
<1>5. m \in 1 .. Len(Buffer) /\ m \in Nat \ {0}
  BY <1>1, <1>2
<1>6. /\ i \in 1 .. Len(stream) /\ \A k \in 1 .. m : wire[taken + k] = <<i, k>>
      /\ taken + m <= arrived /\ taken + m = off[i + 1]
  BY <1>2, <1>5, LineIs
<1>7. \A k \in 1 .. m : k \in 1 .. Len(Buffer)
  BY <1>1, <1>5
<1>8. f \in Seq(Places) /\ Len(f) = m
  <2>1. \A k \in 1 .. m : Buffer[k] \in Places
    BY <1>1, <1>7
  <2>2. QED
    BY <1>5, <2>1
<1>9. \A k \in 1 .. m : f[k] = wire[taken + k]
  BY <1>1, <1>7
<1> HIDE DEF f
<1>10. QED
  BY <1>4, <1>5, <1>6, <1>8, <1>9

\* The slice at the end of the source: what has arrived of frame i, if anything.
LEMMA SliceAtEnd ==
  ASSUME NEW off, NEW i, StandsAt(off, i), ~(SelectInSeq(Buffer, Newline) > 0),
         Len(Buffer) <= MaxFrameBytes
  PROVE  /\ ReadSlice.err = source /\ ReadSlice.frame \in Seq(Places)
         /\ Len(ReadSlice.frame) \in Nat
         /\ taken + Len(ReadSlice.frame) = arrived
         /\ Len(ReadSlice.frame) > 0 =>
              /\ i \in 1 .. Len(stream) /\ arrived <= off[i + 1]
              /\ \A k \in 1 .. Len(ReadSlice.frame) : ReadSlice.frame[k] = wire[taken + k] /\ wire[taken + k] = <<i, k>>
<1> DEFINE m == Len(Buffer)
<1>1. /\ Buffer \in Seq(Places) /\ m \in Nat /\ taken + m = arrived
      /\ \A k \in 1 .. m : Buffer[k] = wire[taken + k]
  BY BufferIs
<1>2. MaxFrameBytes \in Nat
  BY StdioAssumption
<1>3. SelectInSeq(Buffer, Newline) = 0 /\ \A k \in 1 .. m : ~Newline(Buffer[k])
  <2> DEFINE q == SelectInSeq(Buffer, Newline)
  <2>1. q \in 0 .. Len(Buffer) /\ ~(q > 0) /\ \A k \in 1 .. Len(Buffer) : Newline(Buffer[k]) => q > 0
    BY <1>1, FirstNewline
  <2> HIDE DEF q
  <2>2. q = 0
    BY <1>1, <2>1
  <2>3. QED
    BY <2>1, <2>2 DEF q
<1>4. ReadSlice = [frame |-> Buffer, err |-> source]
  <2>1. ~(Len(Buffer) > MaxFrameBytes)
    BY <1>1, <1>2
  <2>2. QED
    BY <1>3, <2>1 DEF ReadSlice
<1>5. ReadSlice.frame = Buffer /\ ReadSlice.err = source
  BY <1>4
<1>6. ASSUME m > 0
      PROVE  /\ i \in 1 .. Len(stream) /\ arrived <= off[i + 1]
             /\ \A k \in 1 .. m : wire[taken + k] = <<i, k>>
  <2>1. m \in 1 .. Len(Buffer) /\ \A k \in 1 .. Len(Buffer) : Newline(Buffer[k]) => m <= k
    BY <1>1, <1>3, <1>6
  <2> HIDE DEF m
  <2>2. /\ i \in 1 .. Len(stream) /\ \A k \in 1 .. m : wire[taken + k] = <<i, k>>
        /\ taken + m <= off[i + 1]
    BY <2>1, LineIs
  <2>3. QED
    BY <1>1, <2>2
<1>7. QED
  BY <1>1, <1>5, <1>6

\* A full buffer.
LEMMA SliceOfFull ==
  ASSUME NEW off, NEW i, StandsAt(off, i), ~(SelectInSeq(Buffer, Newline) > 0),
         Len(Buffer) > MaxFrameBytes
  PROVE  /\ ReadSlice.err = "full" /\ ReadSlice.frame = Buffer
<1>1. Len(Buffer) \in Nat
  BY BufferIs
<1>2. SelectInSeq(Buffer, Newline) = 0
  <2> DEFINE m == SelectInSeq(Buffer, Newline)
  <2>1. m \in 0 .. Len(Buffer) /\ ~(m > 0)
    BY <1>1, FirstNewline
  <2> HIDE DEF m
  <2>2. m = 0
    BY <1>1, <2>1
  <2>3. QED
    BY <2>2 DEF m
<1>3. ReadSlice = [frame |-> Buffer, err |-> "full"]
  BY <1>2 DEF ReadSlice
<1>4. QED
  BY <1>3

\* A frame that is admitted is the frame the reader stands at.
LEMMA ValidIs ==
  ASSUME NEW off, NEW i, StandsAt(off, i), i \in 1 .. Len(stream),
         NEW f \in Seq(Places), Len(f) \in Nat \ {0},
         \A k \in 1 .. Len(f) : f[k] = <<i, k>>, ValidFrame(f)
  PROVE  Body(i) <= Len(f) /\ stream[i].doc \in Admissible
<1>1. 1 \in 1 .. Len(f) /\ Len(f) \in 1 .. Len(f)
  OBVIOUS
<1>2. f[1][1] = i /\ f[1][2] = 1 /\ Last(f)[2] = Len(f)
  BY <1>1 DEF Last
<1>3. stream[i].tail # 1
  BY FrameLies DEF StandsAt
<1>4. QED
  BY <1>2, <1>3 DEF ValidFrame

\* What is admitted is frame i, whole; without an error the reader then stands
\* at the next one.
LEMMA AdmitIs ==
  ASSUME NEW off, NEW i, StandsAt(off, i), Readable
  PROVE  /\ ReadSlice.frame \in Seq(Places) /\ taken + Len(ReadSlice.frame) <= arrived
         /\ \/ Admit(ReadSlice).pending = <<>> /\ Admit(ReadSlice).err \in Errors \ {"none"}
            \/ /\ Admit(ReadSlice).pending = ReadSlice.frame /\ ReadSlice.frame # <<>>
               /\ Admit(ReadSlice).err \in {"none", "eof"}
               /\ Admit(ReadSlice).err = "none" => taken + Len(ReadSlice.frame) = off[i + 1]
               /\ Settled(off, i)
               /\ \A k \in 1 .. Len(ReadSlice.frame) :
                    ReadSlice.frame[k] = wire[taken + k] /\ wire[taken + k] = <<i, k>>
<1> DEFINE r == ReadSlice  a == Admit(r)
<1>1. /\ stream \in Seq(Frames) /\ arrived \in Nat /\ taken \in Nat /\ MaxFrameBytes \in Nat
      /\ Len(stream) \in Nat /\ taken = off[i] /\ source \in {"open", "eof", "broken"}
  BY StandsTypes DEF StandsAt, Wired
<1>2. CASE SelectInSeq(Buffer, Newline) > 0
  <2>1. /\ r.err = "none" /\ r.frame \in Seq(Places)
        /\ Len(r.frame) \in Nat \ {0} /\ i \in 1 .. Len(stream)
        /\ \A k \in 1 .. Len(r.frame) : r.frame[k] = wire[taken + k] /\ wire[taken + k] = <<i, k>>
        /\ taken + Len(r.frame) = off[i + 1] /\ off[i + 1] <= arrived
    BY <1>2, SliceOfLine
  <2> HIDE DEF r
  <2>2. r.frame # <<>>
    BY <2>1
  <2>3. CASE Len(r.frame) > MaxFrameBytes
    <3>0. ~(Len(r.frame) <= MaxFrameBytes)
      BY <1>1, <2>1, <2>3
    <3>1. a = [pending |-> <<>>, err |-> "too_large"]
      BY <2>3, <3>0 DEF Admit
    <3>2. a.pending = <<>> /\ a.err \in Errors \ {"none"}
      BY <3>1 DEF Errors
    <3>3. taken + Len(r.frame) <= arrived
      BY <2>1
    <3>4. QED
      BY <2>1, <3>2, <3>3 DEF r
  <2>4. CASE Len(r.frame) <= MaxFrameBytes /\ ~ValidFrame(r.frame)
    <3>0. ~(Len(r.frame) > MaxFrameBytes) /\ ~(r.err = "full") /\ ~(r.err = "broken")
      BY <1>1, <2>1, <2>4
    <3>1. a = [pending |-> <<>>, err |-> "invalid"]
      BY <2>1, <2>2, <2>4, <3>0 DEF Admit
    <3>2. a.pending = <<>> /\ a.err \in Errors \ {"none"}
      BY <3>1 DEF Errors
    <3>3. taken + Len(r.frame) <= arrived
      BY <2>1
    <3>4. QED
      BY <2>1, <3>2, <3>3 DEF r
  <2>5. CASE Len(r.frame) <= MaxFrameBytes /\ ValidFrame(r.frame)
    <3>0. ~(Len(r.frame) > MaxFrameBytes) /\ ~(r.err = "full") /\ ~(r.err = "broken")
      BY <1>1, <2>1, <2>5
    <3>1. a = [pending |-> r.frame, err |-> "none"]
      BY <2>1, <2>2, <2>5, <3>0 DEF Admit
    <3>2. a.pending = r.frame /\ a.err = "none"
      BY <3>1
    <3>3. \A k \in 1 .. Len(r.frame) : r.frame[k] = <<i, k>>
      BY <2>1
    <3>4. Body(i) <= Len(r.frame) /\ stream[i].doc \in Admissible
      BY <2>1, <2>5, <3>3, ValidIs
    <3>5. /\ off[i] \in Nat /\ off[i + 1] \in Nat /\ stream[i].len \in Nat
          /\ off[i + 1] = off[i] + stream[i].len
          /\ Body(i) \in Nat /\ Body(i) <= stream[i].len
      BY <2>1, FrameLies DEF StandsAt
    <3>6. off[i] + Body(i) <= arrived /\ stream[i].len <= MaxFrameBytes
      <4> DEFINE l == stream[i].len  x == off[i]  y == off[i + 1]  b == Body(i)  z == Len(r.frame)
      <4>1. /\ l \in Nat /\ x \in Nat /\ y \in Nat /\ b \in Nat /\ z \in Nat /\ y = x + l /\ b <= l
            /\ x + z = y /\ y <= arrived /\ z <= MaxFrameBytes
        BY <1>1, <2>1, <2>5, <3>5
      <4> HIDE DEF l, x, y, b, z
      <4>2. x + b <= arrived /\ l <= MaxFrameBytes
        BY <1>1, <4>1
      <4>3. QED
        BY <4>2 DEF l, x, b
    <3>7. Settled(off, i)
      BY <2>1, <3>4, <3>6 DEF Settled
    <3>8. taken + Len(r.frame) <= arrived
      BY <2>1
    <3>9. QED
      BY <2>1, <2>2, <3>2, <3>7, <3>8 DEF r
  <2>6. Len(r.frame) > MaxFrameBytes \/ Len(r.frame) <= MaxFrameBytes
    BY <1>1, <2>1
  <2>7. QED
    BY <2>3, <2>4, <2>5, <2>6
<1>3. CASE ~(SelectInSeq(Buffer, Newline) > 0) /\ Len(Buffer) > MaxFrameBytes
  <2>1. r.err = "full" /\ r.frame = Buffer
    BY <1>3, SliceOfFull
  <2>2. r.frame \in Seq(Places) /\ taken + Len(r.frame) <= arrived
    BY <2>1, BufferIs
  <2> HIDE DEF r
  <2>3. a = [pending |-> <<>>, err |-> "too_large"]
    BY <2>1 DEF Admit
  <2>4. a.pending = <<>> /\ a.err \in Errors \ {"none"}
    BY <2>3 DEF Errors
  <2>5. QED
    BY <2>2, <2>4 DEF r
<1>4. CASE ~(SelectInSeq(Buffer, Newline) > 0) /\ ~(Len(Buffer) > MaxFrameBytes)
  <2>0. Len(Buffer) \in Nat /\ Len(Buffer) <= MaxFrameBytes
    BY <1>1, <1>4, BufferIs
  <2>1. /\ r.err = source /\ r.frame \in Seq(Places) /\ Len(r.frame) \in Nat
        /\ taken + Len(r.frame) = arrived
        /\ Len(r.frame) > 0 =>
             /\ i \in 1 .. Len(stream) /\ arrived <= off[i + 1]
             /\ \A k \in 1 .. Len(r.frame) : r.frame[k] = wire[taken + k] /\ wire[taken + k] = <<i, k>>
    BY <1>4, <2>0, SliceAtEnd
  <2>2. source \in {"eof", "broken"}
    BY <1>1, <1>4 DEF Readable
  <2>3. taken + Len(r.frame) <= arrived
    BY <1>1, <2>1
  <2>4. Len(r.frame) <= MaxFrameBytes
    <3>1. taken + Len(Buffer) = arrived
      BY <2>0, BufferIs
    <3>2. QED
      BY <1>1, <2>0, <2>1, <3>1
  <2> HIDE DEF r
  <2>5. CASE r.err = "broken" \/ r.frame = <<>>
    <3>1. a = [pending |-> <<>>, err |-> r.err]
      <4>1. ~(Len(r.frame) > MaxFrameBytes) /\ r.err # "full"
        BY <1>1, <2>1, <2>2, <2>4
      <4>2. QED
        BY <2>4, <2>5, <4>1 DEF Admit
    <3>2. a.pending = <<>> /\ a.err \in Errors \ {"none"}
      BY <2>1, <2>2, <3>1 DEF Errors
    <3>3. QED
      BY <2>1, <2>3, <3>2 DEF r
  <2>6. CASE r.err = "eof" /\ r.frame # <<>> /\ ~ValidFrame(r.frame)
    <3>1. a = [pending |-> <<>>, err |-> "invalid"]
      <4>1. ~(Len(r.frame) > MaxFrameBytes) /\ r.err # "full" /\ r.err # "broken"
        BY <1>1, <2>1, <2>4, <2>6
      <4>2. QED
        BY <2>4, <2>6, <4>1 DEF Admit
    <3>2. a.pending = <<>> /\ a.err \in Errors \ {"none"}
      BY <3>1 DEF Errors
    <3>3. QED
      BY <2>1, <2>3, <3>2 DEF r
  <2>7. CASE r.err = "eof" /\ r.frame # <<>> /\ ValidFrame(r.frame)
    <3>1. a = [pending |-> r.frame, err |-> "eof"]
      <4>1. ~(Len(r.frame) > MaxFrameBytes) /\ r.err # "full" /\ r.err # "broken"
        BY <1>1, <2>1, <2>4, <2>7
      <4>2. QED
        BY <2>4, <2>7, <4>1 DEF Admit
    <3>2. a.pending = r.frame /\ a.err = "eof"
      BY <3>1
    <3>3. Len(r.frame) > 0 /\ Len(r.frame) \in Nat \ {0}
      BY <2>1, <2>7
    <3>4. /\ i \in 1 .. Len(stream) /\ arrived <= off[i + 1]
          /\ \A k \in 1 .. Len(r.frame) : r.frame[k] = wire[taken + k] /\ wire[taken + k] = <<i, k>>
      BY <2>1, <3>3
    <3>5. \A k \in 1 .. Len(r.frame) : r.frame[k] = <<i, k>>
      BY <3>4
    <3>6. Body(i) <= Len(r.frame) /\ stream[i].doc \in Admissible
      BY <2>1, <2>7, <3>3, <3>4, <3>5, ValidIs
    <3>7. /\ off[i] \in Nat /\ off[i + 1] \in Nat /\ stream[i].len \in Nat
          /\ off[i + 1] = off[i] + stream[i].len /\ Body(i) \in Nat
      BY <3>4, FrameLies DEF StandsAt
    <3>8. /\ off[i] + Body(i) <= arrived
          /\ \/ off[i + 1] <= arrived /\ stream[i].len <= MaxFrameBytes
             \/ arrived < off[i + 1] /\ arrived - off[i] <= MaxFrameBytes
      <4> DEFINE l == stream[i].len  x == off[i]  y == off[i + 1]  b == Body(i)  z == Len(r.frame)
      <4>1. /\ l \in Nat /\ x \in Nat /\ y \in Nat /\ b \in Nat /\ z \in Nat /\ y = x + l /\ b <= z
            /\ x + z = arrived /\ arrived <= y /\ z <= MaxFrameBytes
        BY <1>1, <2>1, <2>4, <3>4, <3>6, <3>7
      <4> HIDE DEF l, x, y, b, z
      <4>2. /\ x + b <= arrived
            /\ (y <= arrived /\ l <= MaxFrameBytes) \/ (arrived < y /\ arrived - x <= MaxFrameBytes)
        BY <1>1, <4>1
      <4>3. QED
        BY <4>2 DEF l, x, y, b
    <3>9. Settled(off, i)
      BY <2>1, <2>7, <3>4, <3>6, <3>8 DEF Settled
    <3>10. QED
      BY <2>1, <2>3, <2>7, <3>2, <3>4, <3>9 DEF r
  <2>8. QED
    BY <2>1, <2>2, <2>5, <2>6, <2>7
<1>5. QED
  BY <1>2, <1>3, <1>4

\* A settled frame is good: what has arrived of it is its object and fits.
LEMMA SettledGood ==
  ASSUME NEW off, Wired(off), NEW i, Settled(off, i)
  PROVE  Good(i)
<1> DEFINE S == {k \in 1 .. arrived : wire[k][1] = i}
           x == off[i]  y == off[i + 1]  l == stream[i].len  b == Body(i)
           z == IF y <= arrived THEN y ELSE arrived
<1>1. stream \in Seq(Frames) /\ Laid(stream, wire, off) /\ wire \in Seq(Places)
      /\ MaxFrameBytes \in Nat /\ i \in 1 .. Len(stream) /\ Len(stream) \in Nat
      /\ Len(wire) \in Nat /\ arrived \in Nat /\ arrived <= Len(wire)
  <2>1. /\ stream \in Seq(Frames) /\ Laid(stream, wire, off) /\ wire \in Seq(Places)
        /\ MaxFrameBytes \in Nat /\ i \in 1 .. Len(stream)
    BY StdioAssumption DEF Wired, Laid, Settled
  <2>2. QED
    BY <2>1 DEF Wired
<1>2. x \in Nat /\ y \in Nat /\ l \in Nat /\ y = x + l /\ b \in Nat /\ b <= l
  BY <1>1, FrameLies
<1>3. S = (x + 1) .. z
  <2>1. ASSUME NEW k \in S PROVE k \in (x + 1) .. z
    <3>1. k \in 1 .. Len(wire) /\ k \in 1 .. arrived /\ wire[k][1] = i
      BY <1>1
    <3>2. off[i] < k /\ k <= off[i + 1]
      BY <1>1, <3>1, ByteOf
    <3> HIDE DEF S
    <3>3. k \in Nat /\ x < k /\ k <= y /\ k <= arrived
      BY <1>1, <3>1, <3>2
    <3> HIDE DEF x, y
    <3>4. QED
      BY <1>1, <1>2, <3>3
  <2>2. ASSUME NEW k \in (x + 1) .. z PROVE k \in S
    <3>1. k \in Nat /\ x < k /\ k <= y /\ k <= arrived /\ k >= 1
      <4> HIDE DEF x, y
      <4>1. QED
        BY <1>1, <1>2
    <3>2. k \in 1 .. Len(wire) /\ k \in 1 .. arrived
      BY <1>1, <3>1
    <3>3. wire[k][1] = i
      BY <1>1, <3>1, <3>2, ByteAt
    <3>4. QED
      BY <3>2, <3>3
  <2> HIDE DEF S, x, z
  <2>3. QED
    BY <2>1, <2>2
<1>4. /\ x + b <= arrived
      /\ (y <= arrived /\ l <= MaxFrameBytes) \/ (arrived < y /\ arrived - x <= MaxFrameBytes)
  BY DEF Settled
<1>5. stream[i].doc \in Admissible
  BY DEF Settled
<1>6. Sent(i) = Cardinality((x + 1) .. z)
  BY <1>3 DEF Sent
<1> HIDE DEF x, y, l, b, S
<1>7. x + 1 \in Int /\ z \in Int /\ z >= x /\ b <= z - x /\ z - x <= MaxFrameBytes
  BY <1>1, <1>2, <1>4
<1>8. Cardinality((x + 1) .. z) = z - x
  <2> HIDE DEF z
  <2>1. Cardinality((x + 1) .. z) = IF x + 1 > z THEN 0 ELSE z - (x + 1) + 1
    BY <1>7, FS_Interval
  <2>2. QED
    BY <1>2, <1>7, <2>1
<1>9. b <= Sent(i) /\ Sent(i) <= MaxFrameBytes
  BY <1>6, <1>7, <1>8
<1>10. QED
  BY <1>5, <1>9 DEF Good, b

\* What a read of c bytes takes of p, and what it leaves.
Handed(p, c) == [k \in 1 .. c |-> p[k]]
Retained(p, c) == [k \in 1 .. Len(p) - c |-> p[c + k]]

\* The bytes d, then the bytes p, are those w begins with.
InOrder(d, p, w) ==
  /\ d \in Seq(Places) /\ p \in Seq(Places)
  /\ \A k \in 1 .. Len(d) : d[k] = w[k]
  /\ \A k \in 1 .. Len(p) : p[k] = w[Len(d) + k]

\* c of the bytes p that follow the bytes d are handed over.
LEMMA HandsOver ==
  ASSUME NEW d, NEW p, NEW w, InOrder(d, p, w), NEW c \in 0 .. Len(p)
  PROVE  /\ InOrder(d \o Handed(p, c), Retained(p, c), w)
         /\ Len(d \o Handed(p, c)) = Len(d) + c /\ Len(Retained(p, c)) = Len(p) - c
         /\ Handed(p, c) \in Seq(Places) /\ Len(Handed(p, c)) = c
         /\ \A k \in 1 .. c : Handed(p, c)[k] = w[Len(d) + k]
<1>0. /\ d \in Seq(Places) /\ p \in Seq(Places)
      /\ \A k \in 1 .. Len(d) : d[k] = w[k]
      /\ \A k \in 1 .. Len(p) : p[k] = w[Len(d) + k]
  BY DEF InOrder
<1> DEFINE f == Handed(p, c)  r == Retained(p, c)
<1>1. Len(d) \in Nat /\ Len(p) \in Nat /\ c \in Nat /\ c <= Len(p) /\ Len(p) - c \in Nat
  BY <1>0
<1>2. f \in Seq(Places) /\ Len(f) = c /\ \A k \in 1 .. c : f[k] = p[k] /\ k \in 1 .. Len(p)
  <2>1. \A k \in 1 .. c : k \in 1 .. Len(p) /\ p[k] \in Places
    BY <1>0, <1>1
  <2>2. QED
    BY <1>1, <2>1 DEF Handed
<1>3. \A k \in 1 .. Len(p) - c : c + k \in 1 .. Len(p) /\ p[c + k] \in Places
  <2>1. \A k \in 1 .. Len(p) - c : c + k \in 1 .. Len(p)
    BY <1>1
  <2>2. QED
    BY <1>0, <2>1
<1>4. r \in Seq(Places) /\ Len(r) = Len(p) - c /\ \A k \in 1 .. Len(p) - c : r[k] = p[c + k]
  BY <1>1, <1>3 DEF Retained
<1> HIDE DEF f, r
<1>5. /\ d \o f \in Seq(Places) /\ Len(d \o f) = Len(d) + Len(f)
      /\ \A k \in 1 .. Len(d) : (d \o f)[k] = d[k]
      /\ \A k \in 1 .. Len(f) : (d \o f)[Len(d) + k] = f[k]
  <2>1. d \in Seq(Places) /\ f \in Seq(Places)
    BY <1>0, <1>2
  <2>2. \A e, g : d = e /\ f = g =>
          /\ e \o g \in Seq(Places) /\ Len(e \o g) = Len(e) + Len(g)
          /\ \A k \in 1 .. Len(e) : (e \o g)[k] = e[k]
          /\ \A k \in 1 .. Len(g) : (e \o g)[Len(e) + k] = g[k]
    BY <2>1, ConcatAt
  <2>3. QED
    BY <2>2
<1>6. ASSUME NEW k \in 1 .. Len(d) + c PROVE (d \o f)[k] = w[k]
  <2>1. CASE k <= Len(d)
    <3>1. k \in 1 .. Len(d)
      BY <1>1, <2>1
    <3>2. QED
      BY <1>0, <1>5, <3>1
  <2>2. CASE k > Len(d)
    <3>1. k - Len(d) \in 1 .. c /\ Len(d) + (k - Len(d)) = k
      BY <1>1, <2>2
    <3>2. (d \o f)[Len(d) + (k - Len(d))] = f[k - Len(d)]
      BY <1>2, <1>5, <3>1
    <3>3. f[k - Len(d)] = w[Len(d) + (k - Len(d))]
      BY <1>0, <1>2, <3>1
    <3>4. QED
      BY <3>1, <3>2, <3>3
  <2>3. k <= Len(d) \/ k > Len(d)
    BY <1>1
  <2>4. QED
    BY <2>1, <2>2, <2>3
<1>7. ASSUME NEW k \in 1 .. Len(p) - c PROVE r[k] = w[(Len(d) + c) + k]
  <2>1. p[c + k] = w[Len(d) + (c + k)]
    BY <1>0, <1>3
  <2>2. Len(d) + (c + k) = (Len(d) + c) + k
    BY <1>1
  <2>3. QED
    BY <1>4, <2>1, <2>2
<1>8. \A k \in 1 .. c : f[k] = w[Len(d) + k]
  BY <1>0, <1>2
<1>9. InOrder(d \o f, r, w)
  BY <1>2, <1>4, <1>5, <1>6, <1>7 DEF InOrder
<1>10. QED
  BY <1>2, <1>4, <1>5, <1>8, <1>9 DEF f, r

-----------------------------------------------------------------------------
(* The inductive invariant.                                                *)

\* The reader consumed t bytes, gave out d, holds p and stopped with e.
Holds(off, d, p, t, e) ==
  /\ d \in Seq(Places) /\ p \in Seq(Places) /\ t \in 0 .. arrived /\ e \in Errors
  /\ Len(d) + Len(p) <= t
  /\ \A k \in 1 .. Len(d) : d[k] = wire[k]
  /\ \A k \in 1 .. Len(p) : p[k] = wire[Len(d) + k]
  /\ \A k \in 1 .. Len(d) + Len(p) : Settled(off, wire[k][1])
  /\ e = "none" => Len(d) + Len(p) = t /\ \E i \in 1 .. Len(stream) + 1 : t = off[i]

\* Calls of admitted frames; those that ran are tool calls whose arguments decode.
Asked ==
  {c \in [frame : 1 .. Len(stream), state : {"queued", "ran", "refused"}] :
     /\ stream[c.frame].doc \in Admissible
     /\ c.state = "ran" => stream[c.frame].doc \in Callable \cap Decodable}

\* The invariant, for frames that begin at off.
FrameInv(off) ==
  /\ Wired(off) /\ Holds(off, delivered, pending, taken, terminalErr)
  /\ calls \in Seq(Asked)

\* The inductive invariant of the stdio loop.
StdioInv == \E off : FrameInv(off)

\* Handing bytes over keeps what the reader holds in order.
LEMMA HoldsHanded ==
  ASSUME NEW off, Wired(off), NEW d, NEW p, NEW t, NEW e, Holds(off, d, p, t, e), NEW c \in 0 .. Len(p)
  PROVE  Holds(off, d \o Handed(p, c), Retained(p, c), t, e)
<1>1. d \in Seq(Places) /\ p \in Seq(Places) /\ Len(d) \in Nat /\ Len(p) \in Nat /\ c \in Nat
  <2>1. d \in Seq(Places) /\ p \in Seq(Places)
    BY DEF Holds
  <2>2. QED
    BY <2>1
<1>2. /\ \A k \in 1 .. Len(d) : d[k] = wire[k]
      /\ \A k \in 1 .. Len(p) : p[k] = wire[Len(d) + k]
  BY DEF Holds
<1> DEFINE u == d \o Handed(p, c)  v == Retained(p, c)
<1>3. /\ u \in Seq(Places) /\ v \in Seq(Places)
      /\ Len(u) = Len(d) + c /\ Len(v) = Len(p) - c
      /\ \A k \in 1 .. Len(d) + c : u[k] = wire[k]
      /\ \A k \in 1 .. Len(p) - c : v[k] = wire[(Len(d) + c) + k]
  <2>1. InOrder(d, p, wire)
    BY <1>1, <1>2 DEF InOrder
  <2>2. /\ InOrder(d \o Handed(p, c), Retained(p, c), wire)
        /\ Len(d \o Handed(p, c)) = Len(d) + c /\ Len(Retained(p, c)) = Len(p) - c
        /\ Handed(p, c) \in Seq(Places) /\ Len(Handed(p, c)) = c
        /\ \A k \in 1 .. c : Handed(p, c)[k] = wire[Len(d) + k]
    BY <2>1, HandsOver
  <2>4. /\ InOrder(u, v, wire) /\ Len(u) = Len(d) + c /\ Len(v) = Len(p) - c
    BY <2>2
  <2> HIDE DEF u, v
  <2>3. QED
    BY <2>4 DEF InOrder
<1> HIDE DEF u, v
<1>4. Len(u) + Len(v) = Len(d) + Len(p)
  BY <1>1, <1>3
<1>5. /\ \A k \in 1 .. Len(u) : u[k] = wire[k]
      /\ \A k \in 1 .. Len(v) : v[k] = wire[Len(u) + k]
  BY <1>3
<1>6. /\ t \in 0 .. arrived /\ e \in Errors /\ Len(u) + Len(v) <= t
      /\ \A k \in 1 .. Len(u) + Len(v) : Settled(off, wire[k][1])
      /\ e = "none" => Len(u) + Len(v) = t /\ \E i \in 1 .. Len(stream) + 1 : t = off[i]
  BY <1>4 DEF Holds
<1>7. Holds(off, u, v, t, e)
  BY <1>3, <1>5, <1>6 DEF Holds
<1>8. QED
  BY <1>7 DEF u, v

\* A finite set of bytes is what is handed over.
LEMMA HandedFinite ==
  ASSUME NEW b \in Seq(Places), NEW Q, Q \subseteq Range(b)
  PROVE  Cardinality(Q) \in Nat /\ (Cardinality(Q) > 0 => Len(b) \in Nat \ {0})
<1>1. Len(b) \in Nat /\ DOMAIN b = 1 .. Len(b)
  OBVIOUS
<1>2. IsFiniteSet(1 .. Len(b)) /\ IsFiniteSet({})
  BY <1>1, FS_Interval, FS_EmptySet
<1>3. b \in Surjection(1 .. Len(b), Range(b))
  <2>1. b \in [1 .. Len(b) -> Range(b)]
    BY <1>1 DEF Range
  <2>2. \A y \in Range(b) : \E x \in 1 .. Len(b) : b[x] = y
    BY <1>1 DEF Range
  <2>3. QED
    BY <2>1, <2>2 DEF Surjection
<1>4. IsFiniteSet(Range(b))
  BY <1>2, <1>3, FS_Surjection
<1>5. IsFiniteSet(Q)
  BY <1>4, FS_Subset
<1>6. Cardinality(Q) \in Nat
  BY <1>5, FS_CardinalityType
<1>7. Len(b) = 0 => Q = {}
  BY <1>1 DEF Range
<1>8. Cardinality({}) = 0
  BY FS_EmptySet
<1>9. QED
  <2>1. CASE Len(b) = 0
    <3>1. Cardinality(Q) = 0
      BY <1>7, <1>8, <2>1
    <3>2. QED
      BY <1>6, <3>1
  <2>2. CASE Len(b) # 0
    BY <1>1, <1>6, <2>2
  <2>3. QED
    BY <2>1, <2>2

\* The calls dispatched are of the frames handed over.
LEMMA DispatchedAsked ==
  ASSUME NEW off, Wired(off), NEW p, NEW t, NEW e, Holds(off, delivered, p, t, e),
         NEW c \in 0 .. Len(p), calls \in Seq(Asked)
  PROVE  Dispatched(Handed(p, c)) \in Seq(Asked)
<1> DEFINE b == Handed(p, c)
           Q == {x \in Range(b) : x[2] = Body(x[1])}
           n == Cardinality(Q)
           one == [frame |-> b[1][1], state |-> "queued"]
           more == [k \in 1 .. n |-> one]
<1>1. /\ delivered \in Seq(Places) /\ p \in Seq(Places)
      /\ \A k \in 1 .. Len(delivered) : delivered[k] = wire[k]
      /\ \A k \in 1 .. Len(p) : p[k] = wire[Len(delivered) + k]
  BY DEF Holds
<1>2. /\ b \in Seq(Places) /\ Len(b) = c /\ \A k \in 1 .. c : b[k] = wire[Len(delivered) + k]
  <2>1. InOrder(delivered, p, wire)
    BY <1>1 DEF InOrder
  <2>2. QED
    BY <2>1, HandsOver
<1>3. Dispatched(b) = calls \o more
  BY DEF Dispatched
<1> HIDE DEF b
<1>4. n \in Nat /\ (n > 0 => Len(b) \in Nat \ {0})
  BY <1>2, HandedFinite
<1>5. ASSUME n > 0 PROVE one \in Asked
  <2>1. Len(delivered) + 1 \in 1 .. Len(delivered) + Len(p) /\ 1 \in 1 .. c
    BY <1>1, <1>2, <1>4, <1>5
  <2>2. b[1] = wire[Len(delivered) + 1]
    BY <1>2, <2>1
  <2>3. Settled(off, b[1][1])
    BY <2>1, <2>2 DEF Holds
  <2>4. b[1][1] \in 1 .. Len(stream) /\ stream[b[1][1]].doc \in Admissible
    BY <2>3 DEF Settled
  <2>5. QED
    BY <2>4 DEF Asked
<1> HIDE DEF n, one
<1>6. more \in Seq(Asked)
  <2>1. CASE n = 0
    BY <2>1
  <2>2. CASE n # 0
    <3>1. one \in Asked
      BY <1>4, <1>5, <2>2
    <3>2. QED
      BY <1>4, <3>1
  <2>3. QED
    BY <2>1, <2>2
<1> HIDE DEF more
<1>7. calls \o more \in Seq(Asked)
  BY <1>6
<1>8. QED
  BY <1>3, <1>7 DEF b

\* A line read is held after what was given out.
LEMMA HoldsAdmitted ==
  ASSUME NEW off, FrameInv(off), pending = <<>>, terminalErr = "none", Readable
  PROVE  Holds(off, delivered, Admit(ReadSlice).pending, taken + Len(ReadSlice.frame), Admit(ReadSlice).err)
<1>1. /\ Wired(off) /\ delivered \in Seq(Places) /\ Len(delivered) + Len(pending) = taken
      /\ taken \in 0 .. arrived /\ \A k \in 1 .. Len(delivered) : delivered[k] = wire[k]
      /\ \A k \in 1 .. Len(delivered) + Len(pending) : Settled(off, wire[k][1])
  BY DEF FrameInv, Holds
<1>2. PICK i \in 1 .. Len(stream) + 1 : taken = off[i]
  BY DEF FrameInv, Holds
<1>3. StandsAt(off, i)
  <2>1. arrived \in Nat /\ taken <= arrived
    <3>1. wire \in Seq(Places) /\ arrived \in 0 .. Len(wire)
      BY <1>1 DEF Wired, Laid
    <3>2. QED
      BY <1>1, <3>1
  <2>2. QED
    BY <1>1, <1>2, <2>1 DEF StandsAt
<1> DEFINE r == ReadSlice.frame  a == Admit(ReadSlice)  t == taken + Len(r)
<1>4. /\ r \in Seq(Places) /\ t <= arrived
      /\ \/ a.pending = <<>> /\ a.err \in Errors \ {"none"}
         \/ /\ a.pending = r /\ r # <<>>
            /\ a.err \in {"none", "eof"}
            /\ a.err = "none" => t = off[i + 1]
            /\ Settled(off, i)
            /\ \A k \in 1 .. Len(r) : r[k] = wire[taken + k] /\ wire[taken + k] = <<i, k>>
  BY <1>3, AdmitIs
<1>5. /\ Len(delivered) = taken /\ taken \in Nat /\ arrived \in Nat /\ Len(stream) \in Nat
      /\ Len(r) \in Nat
  <2>1. Len(pending) = 0 /\ Len(delivered) \in Nat
    BY <1>1
  <2>2. stream \in Seq(Frames) /\ arrived \in Nat
    BY <1>3, StandsTypes
  <2>3. Len(r) \in Nat
    BY <1>4
  <2> HIDE DEF r
  <2>4. QED
    BY <1>1, <2>1, <2>2, <2>3
<1>6. t \in 0 .. arrived /\ t \in Nat
  <2> HIDE DEF r
  <2>1. QED
    BY <1>4, <1>5
<1> HIDE DEF r, a
<1>7. \A k \in 1 .. Len(delivered) : Settled(off, wire[k][1])
  <2>1. \A k \in 1 .. Len(delivered) : k \in 1 .. Len(delivered) + Len(pending)
    BY <1>1
  <2>2. QED
    BY <1>1, <2>1
<1>8. CASE a.pending = <<>> /\ a.err \in Errors \ {"none"}
  <2>1. a.pending \in Seq(Places) /\ Len(a.pending) = 0
    BY <1>8
  <2> DEFINE p == a.pending
  <2>2. /\ Len(delivered) + Len(p) = Len(delivered) /\ Len(delivered) <= t
    BY <1>5, <1>6, <2>1
  <2> HIDE DEF p, t
  <2>3. Holds(off, delivered, p, t, a.err)
    BY <1>1, <1>6, <1>7, <1>8, <2>1, <2>2 DEF Holds, p
  <2>4. QED
    BY <2>3 DEF p, t, r, a
<1>9. CASE /\ a.pending = r /\ r # <<>> /\ a.err \in {"none", "eof"}
           /\ a.err = "none" => t = off[i + 1]
           /\ Settled(off, i)
           /\ \A k \in 1 .. Len(r) : r[k] = wire[taken + k] /\ wire[taken + k] = <<i, k>>
  <2>1. ASSUME NEW k \in 1 .. Len(delivered) + Len(r) PROVE Settled(off, wire[k][1])
    <3>1. CASE k <= Len(delivered)
      <4>1. k \in 1 .. Len(delivered)
        BY <1>5, <3>1
      <4>2. QED
        BY <1>7, <4>1
    <3>2. CASE ~(k <= Len(delivered))
      <4>1. k - taken \in 1 .. Len(r) /\ taken + (k - taken) = k
        BY <1>5, <3>2
      <4>2. wire[taken + (k - taken)] = <<i, k - taken>>
        BY <1>9, <4>1
      <4>3. wire[k][1] = i
        BY <4>1, <4>2
      <4>4. QED
        BY <1>9, <4>3
    <3>3. QED
      BY <3>1, <3>2
  <2>2. a.err = "none" => \E j \in 1 .. Len(stream) + 1 : t = off[j]
    <3> SUFFICES ASSUME a.err = "none" PROVE \E j \in 1 .. Len(stream) + 1 : t = off[j]
      OBVIOUS
    <3>1. t = off[i + 1]
      BY <1>9
    <3>2. i \in 1 .. Len(stream)
      BY <1>9 DEF Settled
    <3>3. i + 1 \in 1 .. Len(stream) + 1
      BY <1>5, <3>2
    <3> HIDE DEF t
    <3>4. QED
      BY <3>1, <3>3
  <2>3. Len(delivered) + Len(r) = t /\ Len(delivered) + Len(r) <= t
    BY <1>5
  <2>4. a.err \in Errors
    BY <1>9 DEF Errors
  <2>5. \A k \in 1 .. Len(r) : r[k] = wire[Len(delivered) + k]
    BY <1>5, <1>9
  <2> HIDE DEF t
  <2>6. Holds(off, delivered, r, t, a.err)
    BY <1>1, <1>4, <1>6, <2>1, <2>2, <2>3, <2>4, <2>5 DEF Holds
  <2>7. QED
    BY <1>9, <2>6 DEF t, r, a
<1>10. QED
  BY <1>4, <1>8, <1>9

-----------------------------------------------------------------------------
(* Every step keeps the invariant.                                         *)

\* Initially the reader stands before the first frame.
LEMMA StdioInitInv ==
  StdioInit => StdioInv
<1> SUFFICES ASSUME StdioInit PROVE StdioInv
  OBVIOUS
<1>1. stream \in Seq(Frames) /\ stream \in Streams /\ wire = Bytes(stream)
  BY StdioAssumption DEF StdioInit, Bytes
<1>2. PICK off : Laid(stream, wire, off)
  BY <1>1, BytesAreLaid
<1>3. Wired(off)
  <2>1. Len(wire) \in Nat
    BY <1>2 DEF Laid
  <2>2. QED
    BY <1>1, <1>2, <2>1 DEF Wired, StdioInit
<1>4. Holds(off, delivered, pending, taken, terminalErr)
  <2>1. <<>> \in Seq(Places) /\ Len(<<>>) = 0 /\ 0 \in 0 .. arrived /\ 1 \in 1 .. Len(stream) + 1
    BY <1>1 DEF StdioInit
  <2>2. off[1] = 0
    BY <1>2 DEF Laid
  <2>3. QED
    BY <2>1, <2>2 DEF Holds, StdioInit, Errors
<1>5. calls \in Seq(Asked)
  BY DEF StdioInit
<1>6. QED
  BY <1>3, <1>4, <1>5 DEF StdioInv, FrameInv

\* The invariant speaks of the client, the reader and the calls only.
LEMMA FrameInvKept ==
  ASSUME NEW off, FrameInv(off), UNCHANGED <<client, arrived, source, reader, calls>>
  PROVE  FrameInv(off)'
<1>1. /\ stream' = stream /\ wire' = wire /\ arrived' = arrived /\ source' = source
      /\ taken' = taken /\ pending' = pending /\ terminalErr' = terminalErr
      /\ delivered' = delivered /\ calls' = calls
  BY DEF client, reader
<1>2. QED
  BY <1>1 DEF FrameInv, Wired, Holds, Settled, Body, Asked

\* What is settled stays so while bytes arrive and the source ends.
LEMMA SettledStays ==
  ASSUME NEW off, NEW i, Wired(off), Settled(off, i), UNCHANGED client,
         \/ source = "open" /\ arrived' \in Nat /\ arrived' >= arrived
         \/ UNCHANGED <<arrived, source>>
  PROVE  Settled(off, i)'
<1>1. stream' = stream /\ wire' = wire
  BY DEF client
<1>2. Body(i)' = Body(i)
  BY <1>1 DEF Body
<1>3. CASE UNCHANGED <<arrived, source>>
  BY <1>1, <1>2, <1>3 DEF Settled
<1>4. CASE source = "open" /\ arrived' \in Nat /\ arrived' >= arrived
  <2> DEFINE x == off[i]  y == off[i + 1]  b == Body(i)
  <2>1. i \in 1 .. Len(stream) /\ stream[i].doc \in Admissible
    BY DEF Settled
  <2>2. x \in Nat /\ y \in Nat /\ b \in Nat
    BY <2>1, FrameLies
  <2>3. x + b <= arrived /\ y <= arrived /\ stream[i].len <= MaxFrameBytes
    BY <1>4 DEF Settled
  <2>4. arrived \in Nat
    <3>1. Len(wire) \in Nat
      BY DEF Wired, Laid
    <3>2. QED
      BY <3>1 DEF Wired
  <2> HIDE DEF x, y, b
  <2>5. x + b <= arrived' /\ y <= arrived'
    BY <1>4, <2>2, <2>3, <2>4
  <2>6. QED
    BY <1>1, <1>2, <2>1, <2>3, <2>5 DEF Settled, x, y, b
<1>5. QED
  BY <1>3, <1>4

\* Arrivals and the end of the source change nothing the reader holds.
LEMMA ClientKeeps ==
  ASSUME NEW off, FrameInv(off), UNCHANGED <<client, reader, calls>>, source = "open",
         arrived' \in arrived .. Len(wire), source' \in {"open", "eof", "broken"}
  PROVE  FrameInv(off)'
<1>1. /\ stream' = stream /\ wire' = wire
      /\ taken' = taken /\ pending' = pending /\ terminalErr' = terminalErr
      /\ delivered' = delivered /\ calls' = calls
  BY DEF client, reader
<1>2. Wired(off) /\ Holds(off, delivered, pending, taken, terminalErr) /\ calls \in Seq(Asked)
  BY DEF FrameInv
<1>3. Len(wire) \in Nat /\ arrived \in Nat
  <2>1. Len(wire) \in Nat
    BY <1>2 DEF Wired, Laid
  <2>2. QED
    BY <1>2, <2>1 DEF Wired
<1>4. arrived' \in Nat /\ arrived' >= arrived /\ arrived' \in 0 .. Len(wire)
  BY <1>3
<1>5. Wired(off)'
  BY <1>1, <1>2, <1>4 DEF Wired
<1>6. ASSUME NEW k \in 1 .. Len(delivered) + Len(pending) PROVE Settled(off, wire[k][1])'
  <2> DEFINE i == wire[k][1]
  <2>1. Settled(off, i)
    BY <1>2 DEF Holds
  <2>2. i' = i
    BY <1>1
  <2> HIDE DEF i
  <2>3. Settled(off, i)'
    <3>1. UNCHANGED client
      OBVIOUS
    <3>2. QED
      BY <1>2, <1>4, <2>1, <2>2, <3>1, SettledStays DEF Settled, Body
  <2>4. QED
    BY <2>2, <2>3 DEF i
<1>7. taken' \in 0 .. arrived'
  BY <1>1, <1>2, <1>3, <1>4 DEF Holds
<1>8. Holds(off, delivered, pending, taken, terminalErr)'
  BY <1>1, <1>2, <1>6, <1>7 DEF Holds
<1>9. (calls \in Seq(Asked))'
  BY <1>1, <1>2 DEF Asked
<1>10. QED
  BY <1>5, <1>8, <1>9 DEF FrameInv

\* What a Read leaves of a line a: count bytes are handed over.
LEMMA ReadGives ==
  ASSUME NEW off, Wired(off), calls \in Seq(Asked), UNCHANGED <<client, arrived, source>>,
         NEW p, NEW t, NEW e, Holds(off, delivered, p, t, e), NEW c \in 0 .. Len(p),
         taken' = t, terminalErr' = e, delivered' = delivered \o Handed(p, c), pending' = Retained(p, c),
         calls' = Dispatched(Handed(p, c))
  PROVE  FrameInv(off)'
<1>1. stream' = stream /\ wire' = wire /\ arrived' = arrived /\ source' = source
  BY DEF client
<1>2. Holds(off, delivered', pending', taken', terminalErr')
  <2>1. Holds(off, delivered \o Handed(p, c), Retained(p, c), t, e)
    BY HoldsHanded
  <2>2. QED
    BY <2>1
<1>3. calls' \in Seq(Asked)
  <2>1. Dispatched(Handed(p, c)) \in Seq(Asked)
    BY DispatchedAsked
  <2>2. QED
    BY <2>1
<1>4. Wired(off)'
  BY <1>1 DEF Wired
<1>5. Holds(off, delivered, pending, taken, terminalErr)'
  BY <1>1, <1>2 DEF Holds, Settled, Body
<1>6. (calls \in Seq(Asked))'
  BY <1>1, <1>3 DEF Asked
<1>7. QED
  BY <1>4, <1>5, <1>6 DEF FrameInv

\* One Read keeps the invariant.
LEMMA ReadKeeps ==
  ASSUME NEW off, FrameInv(off), NEW n \in Nat, Read(n)
  PROVE  FrameInv(off)'
<1>1. Wired(off) /\ Holds(off, delivered, pending, taken, terminalErr) /\ calls \in Seq(Asked)
  BY DEF FrameInv
<1>2. UNCHANGED <<client, arrived, source>>
  BY DEF Read
<1>3. CASE n = 0
  <2>1. UNCHANGED <<client, arrived, source, reader, calls>>
    BY <1>3 DEF Read
  <2>2. QED
    BY <2>1, FrameInvKept
<1>4. CASE n # 0 /\ pending = <<>> /\ terminalErr # "none"
  <2>1. UNCHANGED <<client, arrived, source, reader, calls>>
    BY <1>4 DEF Read
  <2>2. QED
    BY <2>1, FrameInvKept
<1>5. CASE n # 0 /\ ~(pending = <<>> /\ terminalErr # "none")
  <2> DEFINE a == IF pending = <<>> THEN Admit(ReadSlice) ELSE [pending |-> pending, err |-> terminalErr]
             p == a.pending  e == a.err
             t == IF pending = <<>> THEN taken + Len(ReadSlice.frame) ELSE taken
             c == IF n < Len(p) THEN n ELSE Len(p)
             b == [i \in 1 .. c |-> p[i]]
  <2>1. /\ taken' = t /\ pending' = [i \in 1 .. Len(p) - c |-> p[c + i]] /\ terminalErr' = e
        /\ delivered' = delivered \o b /\ calls' = Dispatched(b)
    BY <1>5 DEF Read
  <2>2. Holds(off, delivered, p, t, e)
    <3>1. CASE pending = <<>>
      <4>1. terminalErr = "none"
        BY <1>5, <3>1
      <4>2. Readable
        <5>1. n > 0
          BY <1>5
        <5>2. QED
          BY <3>1, <4>1, <5>1 DEF Read, Readable
      <4>3. Holds(off, delivered, Admit(ReadSlice).pending, taken + Len(ReadSlice.frame), Admit(ReadSlice).err)
        BY <3>1, <4>1, <4>2, HoldsAdmitted
      <4>4. QED
        BY <3>1, <4>3
    <3>2. CASE pending # <<>>
      <4>1. p = pending /\ e = terminalErr /\ t = taken
        BY <3>2
      <4> HIDE DEF p, e, t
      <4>2. QED
        BY <1>1, <4>1
    <3>3. QED
      BY <3>1, <3>2
  <2>3. pending' = Retained(p, c) /\ delivered' = delivered \o Handed(p, c) /\ calls' = Dispatched(Handed(p, c))
    <3> HIDE DEF p, c
    <3>1. QED
      BY <2>1 DEF Handed, Retained
  <2> HIDE DEF a, p, e, t
  <2>4. c \in 0 .. Len(p)
    <3>1. Len(p) \in Nat
      <4>1. p \in Seq(Places)
        BY <2>2 DEF Holds
      <4>2. QED
        BY <4>1
    <3>2. QED
      BY <3>1
  <2> HIDE DEF c
  <2>5. QED
    BY <1>1, <1>2, <2>1, <2>2, <2>3, <2>4, ReadGives
<1>6. QED
  BY <1>3, <1>4, <1>5

\* A call that ran is a tool call whose arguments decode.
LEMMA HandleKeeps ==
  ASSUME NEW off, FrameInv(off), NEW i \in DOMAIN calls, HandleCall(i)
  PROVE  FrameInv(off)'
<1>1. /\ stream' = stream /\ wire' = wire /\ arrived' = arrived /\ source' = source
      /\ taken' = taken /\ pending' = pending /\ terminalErr' = terminalErr
      /\ delivered' = delivered
  BY DEF HandleCall, client, reader
<1>2. calls \in Seq(Asked)
  BY DEF FrameInv
<1> DEFINE s == IF stream[calls[i].frame].doc \in Callable \cap Decodable THEN "ran" ELSE "refused"
           x == [calls[i] EXCEPT !.state = s]
<1>3. calls[i] \in Asked
  BY <1>2
<1>4. x \in Asked
  <2>1. /\ calls[i] \in [frame : 1 .. Len(stream), state : {"queued", "ran", "refused"}]
        /\ stream[calls[i].frame].doc \in Admissible
    BY <1>3 DEF Asked
  <2>2. s \in {"queued", "ran", "refused"} /\ (s = "ran" => stream[calls[i].frame].doc \in Callable \cap Decodable)
    OBVIOUS
  <2> HIDE DEF s
  <2>3. x \in [frame : 1 .. Len(stream), state : {"queued", "ran", "refused"}]
    BY <2>1, <2>2
  <2>4. x.frame = calls[i].frame /\ x.state = s
    BY <2>1
  <2> HIDE DEF x
  <2>5. QED
    BY <2>1, <2>2, <2>3, <2>4 DEF Asked
<1>5. calls' = [calls EXCEPT ![i] = x]
  BY DEF HandleCall
<1> HIDE DEF x
<1>6. calls' \in Seq(Asked)
  BY <1>2, <1>4, <1>5
<1>7. (calls \in Seq(Asked))'
  BY <1>1, <1>6 DEF Asked
<1>8. Wired(off)' /\ Holds(off, delivered, pending, taken, terminalErr)'
  BY <1>1 DEF FrameInv, Wired, Holds, Settled, Body
<1>9. QED
  BY <1>7, <1>8 DEF FrameInv

\* Every step keeps the invariant.
LEMMA StdioStep ==
  ASSUME StdioInv, [StdioNext]_stdioVars
  PROVE  StdioInv'
<1>1. PICK off : FrameInv(off)
  BY DEF StdioInv
<1> SUFFICES FrameInv(off)'
  BY DEF StdioInv
<1>2. ASSUME NEW n \in ReadSizes, Read(n) PROVE FrameInv(off)'
  <2>1. n \in Nat
    BY StdioAssumption
  <2>2. QED
    BY <1>1, <1>2, <2>1, ReadKeeps
<1>3. ASSUME NEW i \in DOMAIN calls, HandleCall(i) PROVE FrameInv(off)'
  BY <1>1, <1>3, HandleKeeps
<1>4. ASSUME Connect \/ StoreStop \/ EndContext \/ AfterFunc \/ ReadClosed \/ Close \/ UNCHANGED stdioVars PROVE FrameInv(off)'
  <2>1. UNCHANGED <<client, arrived, source, reader, calls>>
    BY <1>4 DEF Connect, StoreStop, EndContext, AfterFunc, ReadClosed, Close, stdioVars
  <2>2. QED
    BY <1>1, <2>1, FrameInvKept
<1>5. Len(wire) \in Nat /\ arrived \in Nat /\ arrived <= Len(wire)
  <2>1. Len(wire) \in Nat
    BY <1>1 DEF FrameInv, Wired, Laid
  <2>2. QED
    BY <1>1, <2>1 DEF FrameInv, Wired
<1>6. ASSUME NEW n \in 1 .. 3, Send(n) PROVE FrameInv(off)'
  <2>1. UNCHANGED <<client, reader, calls>> /\ source = "open" /\ source' = "open"
    BY <1>6 DEF Send
  <2>2. arrived' \in arrived .. Len(wire)
    BY <1>5, <1>6 DEF Send
  <2>3. QED
    BY <1>1, <2>1, <2>2, ClientKeeps
<1>7. ASSUME NEW how \in {"eof", "broken"}, Hangup(how) PROVE FrameInv(off)'
  <2>1. UNCHANGED <<client, reader, calls>> /\ source = "open" /\ source' \in {"open", "eof", "broken"}
    BY <1>7 DEF Hangup
  <2>2. arrived' \in arrived .. Len(wire)
    BY <1>5, <1>7 DEF Hangup
  <2>3. QED
    BY <1>1, <2>1, <2>2, ClientKeeps
<1>8. QED
  BY <1>2, <1>3, <1>4, <1>6, <1>7 DEF StdioNext

\* The bytes of every frame up to the one of a byte held are held, so all of
\* those frames are good.
LEMMA InvWholeFrames ==
  StdioInv => OnlyWholeFrames
<1> SUFFICES ASSUME NEW off, FrameInv(off) PROVE OnlyWholeFrames
  BY DEF StdioInv
<1>1. /\ Wired(off) /\ delivered \in Seq(Places) /\ pending \in Seq(Places)
      /\ taken \in 0 .. arrived /\ Len(delivered) + Len(pending) <= taken
      /\ \A k \in 1 .. Len(delivered) : delivered[k] = wire[k]
      /\ \A k \in 1 .. Len(delivered) + Len(pending) : Settled(off, wire[k][1])
  BY DEF FrameInv, Holds
<1>2. stream \in Seq(Frames) /\ Len(stream) \in Nat /\ Laid(stream, wire, off) /\ Len(wire) \in Nat
      /\ arrived \in 0 .. Len(wire)
  <2>1. stream \in Seq(Frames) /\ Laid(stream, wire, off) /\ wire \in Seq(Places)
    BY <1>1, StdioAssumption DEF Wired, Laid
  <2>2. QED
    BY <1>1, <2>1 DEF Wired
<1>3. Len(delivered) \in Nat /\ Len(pending) \in Nat /\ DOMAIN delivered = 1 .. Len(delivered)
  BY <1>1
<1>4. delivered = [k \in DOMAIN delivered |-> wire[k]]
  <2>1. delivered = [k \in DOMAIN delivered |-> delivered[k]]
    BY <1>1
  <2>2. QED
    BY <1>1, <1>3, <2>1
<1>5. ASSUME NEW k \in 1 .. Len(delivered) PROVE delivered[k][1] \in Leading
  <2> DEFINE i == wire[k][1]
  <2>1. k \in 1 .. Len(wire) /\ k \in 1 .. Len(delivered) + Len(pending)
    BY <1>1, <1>2, <1>3
  <2>2. i \in 1 .. Len(stream) /\ off[i] < k /\ k <= off[i + 1]
    BY <1>2, <2>1, ByteOf
  <2> HIDE DEF i
  <2>3. ASSUME NEW j \in 1 .. i PROVE Good(j)
    <3>1. j \in 1 .. Len(stream) /\ j <= i
      BY <1>2, <2>2
    <3>2. off[j] \in Nat /\ off[j + 1] \in Nat /\ off[j + 1] = off[j] + stream[j].len
          /\ stream[j].len \in Nat /\ stream[j].len > 0 /\ off[j + 1] <= Len(wire)
      BY <1>1, <3>1, FrameLies
    <3>3. off[j] <= off[i] /\ off[i] \in Nat
      <4>1. CASE j = i
        BY <3>2, <4>1
      <4>2. CASE j # i
        <5>1. j \in 1 .. Len(stream) + 1 /\ i \in 1 .. Len(stream) + 1 /\ j < i
          BY <1>2, <2>2, <3>1, <4>2
        <5>2. off[j] < off[i]
          BY <1>2, <5>1, OffGrows
        <5>3. off[i] \in Nat
          BY <1>1, <2>2, FrameLies
        <5>4. QED
          BY <3>2, <5>2, <5>3
      <4>3. QED
        BY <4>1, <4>2
    <3>4. off[j] + 1 \in 1 .. Len(wire) /\ off[j] < off[j] + 1 /\ off[j] + 1 <= off[j + 1]
          /\ off[j] + 1 \in 1 .. Len(delivered) + Len(pending)
      <4> DEFINE x == off[j]  y == off[j + 1]  z == off[i]  l == stream[j].len
      <4>1. x \in Nat /\ y \in Nat /\ y = x + l /\ l \in Nat /\ l > 0 /\ y <= Len(wire) /\ x <= z /\ z < k /\ z \in Nat
        BY <2>2, <3>2, <3>3
      <4> HIDE DEF x, y, z, l
      <4>2. x + 1 \in 1 .. Len(wire) /\ x < x + 1 /\ x + 1 <= y /\ x + 1 \in 1 .. Len(delivered) + Len(pending)
        BY <1>2, <1>3, <4>1
      <4>3. QED
        BY <4>2 DEF x, y
    <3>5. wire[off[j] + 1][1] = j
      BY <1>2, <3>1, <3>4, ByteAt
    <3>6. Settled(off, j)
      BY <1>1, <3>4, <3>5
    <3>7. QED
      BY <1>1, <3>6, SettledGood
  <2>4. i \in DOMAIN stream
    BY <1>2, <2>2
  <2>5. i \in Leading
    BY <2>3, <2>4 DEF Leading
  <2>6. delivered[k] = wire[k]
    BY <1>1
  <2>7. QED
    BY <2>5, <2>6 DEF i
<1>6. {b[1] : b \in Range(delivered)} \subseteq Leading
  BY <1>3, <1>5 DEF Range
<1>7. QED
  BY <1>4, <1>6 DEF OnlyWholeFrames

\* The SDK gets whole admitted frames in order and nothing of or after a frame
\* that is too long, ambiguous or cut short, for every stream, every frame bound
\* and every size of its reads.
THEOREM WholeFrames ==
  StdioSpec => []OnlyWholeFrames
<1>1. StdioInit => StdioInv
  BY StdioInitInv
<1>2. StdioInv /\ [StdioNext]_stdioVars => StdioInv'
  BY StdioStep
<1>3. StdioInv => OnlyWholeFrames
  BY InvWholeFrames
<1>4. QED
  BY <1>1, <1>2, <1>3, PTL DEF StdioSpec

\* A tool that ran got through the three checks.
RanChecked ==
  \A i \in DOMAIN calls : calls[i].state = "ran" =>
    stream[calls[i].frame].doc \in Admissible \cap Callable \cap Decodable

\* Frames that were run passed both checks.
LEMMA InvChecked ==
  StdioInv => RanChecked
<1> SUFFICES ASSUME NEW off, FrameInv(off) PROVE RanChecked
  BY DEF StdioInv
<1>1. calls \in Seq(Asked)
  BY DEF FrameInv
<1>2. \A i \in DOMAIN calls : calls[i] \in Asked
  BY <1>1
<1>3. QED
  BY <1>2 DEF Asked, RanChecked

\* No tool runs on a document that the frame reader, the SDK or decodeArguments
\* refuses, however frames arrive and calls queue up: what RanUnambiguously rests on.
THEOREM RanPassedBoth ==
  StdioSpec => []RanChecked
<1>1. StdioInit => StdioInv
  BY StdioInitInv
<1>2. StdioInv /\ [StdioNext]_stdioVars => StdioInv'
  BY StdioStep
<1>3. StdioInv => RanChecked
  BY InvChecked
<1>4. QED
  BY <1>1, <1>2, <1>3, PTL DEF StdioSpec

-----------------------------------------------------------------------------
(* Loops: FoldLeft, prefix by prefix.                                      *)

\* The last of the first n + 1 places.
LEMMA MaxUpTo ==
  ASSUME NEW n \in Nat
  PROVE  /\ Max(1 .. n + 1) = n + 1
         /\ (1 .. n + 1) \ {n + 1} = 1 .. n /\ 1 .. n + 1 # {}
         /\ 1 .. n \in SUBSET (1 .. n + 1)
<1>1. n + 1 \in 1 .. n + 1 /\ \A y \in 1 .. n + 1 : y <= n + 1
  OBVIOUS
<1>2. ASSUME NEW x \in 1 .. n + 1, \A y \in 1 .. n + 1 : y <= x PROVE x = n + 1
  BY <1>1, <1>2
<1>3. Max(1 .. n + 1) = n + 1
  BY <1>1, <1>2 DEF Max
<1>4. QED
  BY <1>1, <1>3

\* One turn of the loop m with the parameters w.
Turn(m, w, p, e) ==
  CASE m = "keys" -> Append(p, stableThreadKey(e, p))
    [] m = "link" -> linkParent(p, e, w[1], w[2])
    [] m = "bound" -> boundDepth(p, e, w)
    [] m = "body" -> parseEntity(p, w[e], e)
    [] m = "structure" -> visit(p, w[e], e)

\* The whole loop over c, from q.
Loop(m, w, q, c) ==
  CASE m = "keys" -> FoldLeft(LAMBDA p, e : Append(p, stableThreadKey(e, p)), q, c)
    [] m = "link" -> FoldLeft(LAMBDA p, e : linkParent(p, e, w[1], w[2]), q, c)
    [] m = "bound" -> FoldLeft(LAMBDA p, e : boundDepth(p, e, w), q, c)
    [] m = "body" -> FoldLeft(LAMBDA p, e : parseEntity(p, w[e], e), q, c)
    [] m = "structure" -> FoldLeft(LAMBDA p, e : visit(p, w[e], e), q, c)

\* The loops of the code that are folds here.
Loops == {"keys", "link", "bound", "body", "structure"}

\* f[t] is q after the elements of c at the places t.
Runs(m, w, f, q, c) ==
  f = [t \in SUBSET DOMAIN c |-> IF t = {} THEN q ELSE Turn(m, w, f[t \ {Max(t)}], c[Max(t)])]

\* Where such a function exists, Loop is its value.
LEMMA LoopUnfolds ==
  ASSUME NEW m \in Loops, NEW w, NEW q, NEW c, NEW g, Runs(m, w, g, q, c)
  PROVE  \E f : Runs(m, w, f, q, c) /\ Loop(m, w, q, c) = f[DOMAIN c]
<1> DEFINE R(f) == f = [t \in SUBSET DOMAIN c |->
                         IF t = {} THEN q ELSE Turn(m, w, f[t \ {Max(t)}], c[Max(t)])]
<1>1. R(CHOOSE f : R(f))
  <2>1. R(g)
    BY DEF Runs
  <2> HIDE DEF R
  <2>2. QED
    BY <2>1
<1>2. CASE m = "keys"
  <2> DEFINE K(f) == f = [t \in SUBSET DOMAIN c |->
                           IF t = {} THEN q ELSE Append(f[t \ {Max(t)}], stableThreadKey(c[Max(t)], f[t \ {Max(t)}]))]
  <2>1. \A f : R(f) <=> K(f)
    BY <1>2 DEF Turn
  <2>2. Loop(m, w, q, c) = (CHOOSE f : K(f))[DOMAIN c]
    BY <1>2 DEF Loop, FoldLeft, MapThenFoldSet
  <2> HIDE DEF R, K
  <2>3. K(CHOOSE f : K(f))
    BY <1>1, <2>1
  <2>4. QED
    BY <2>1, <2>2, <2>3 DEF Runs, R
<1>3. CASE m = "link"
  <2> DEFINE K(f) == f = [t \in SUBSET DOMAIN c |->
                           IF t = {} THEN q ELSE linkParent(f[t \ {Max(t)}], c[Max(t)], w[1], w[2])]
  <2>1. \A f : R(f) <=> K(f)
    BY <1>3 DEF Turn
  <2>2. Loop(m, w, q, c) = (CHOOSE f : K(f))[DOMAIN c]
    BY <1>3 DEF Loop, FoldLeft, MapThenFoldSet
  <2> HIDE DEF R, K
  <2>3. K(CHOOSE f : K(f))
    BY <1>1, <2>1
  <2>4. QED
    BY <2>1, <2>2, <2>3 DEF Runs, R
<1>4. CASE m = "bound"
  <2> DEFINE K(f) == f = [t \in SUBSET DOMAIN c |->
                           IF t = {} THEN q ELSE boundDepth(f[t \ {Max(t)}], c[Max(t)], w)]
  <2>1. \A f : R(f) <=> K(f)
    BY <1>4 DEF Turn
  <2>2. Loop(m, w, q, c) = (CHOOSE f : K(f))[DOMAIN c]
    BY <1>4 DEF Loop, FoldLeft, MapThenFoldSet
  <2> HIDE DEF R, K
  <2>3. K(CHOOSE f : K(f))
    BY <1>1, <2>1
  <2>4. QED
    BY <2>1, <2>2, <2>3 DEF Runs, R
<1>5. CASE m = "body"
  <2> DEFINE K(f) == f = [t \in SUBSET DOMAIN c |->
                           IF t = {} THEN q ELSE parseEntity(f[t \ {Max(t)}], w[c[Max(t)]], c[Max(t)])]
  <2>1. \A f : R(f) <=> K(f)
    BY <1>5 DEF Turn
  <2>2. Loop(m, w, q, c) = (CHOOSE f : K(f))[DOMAIN c]
    BY <1>5 DEF Loop, FoldLeft, MapThenFoldSet
  <2> HIDE DEF R, K
  <2>3. K(CHOOSE f : K(f))
    BY <1>1, <2>1
  <2>4. QED
    BY <2>1, <2>2, <2>3 DEF Runs, R
<1>6. CASE m = "structure"
  <2> DEFINE K(f) == f = [t \in SUBSET DOMAIN c |->
                           IF t = {} THEN q ELSE visit(f[t \ {Max(t)}], w[c[Max(t)]], c[Max(t)])]
  <2>1. \A f : R(f) <=> K(f)
    BY <1>6 DEF Turn
  <2>2. Loop(m, w, q, c) = (CHOOSE f : K(f))[DOMAIN c]
    BY <1>6 DEF Loop, FoldLeft, MapThenFoldSet
  <2> HIDE DEF R, K
  <2>3. K(CHOOSE f : K(f))
    BY <1>1, <2>1
  <2>4. QED
    BY <2>1, <2>2, <2>3 DEF Runs, R
<1>7. QED
  BY <1>2, <1>3, <1>4, <1>5, <1>6 DEF Loops

\* Runs, for the first n places.
RunsTo(m, w, f, q, c, n) ==
  f = [t \in SUBSET (1 .. n) |-> IF t = {} THEN q ELSE Turn(m, w, f[t \ {Max(t)}], c[Max(t)])]

\* Such a function exists for every length.
LEMMA RunsExist ==
  ASSUME NEW m, NEW w, NEW q, NEW c, NEW n \in Nat
  PROVE  \E f : RunsTo(m, w, f, q, c, n)
<1> DEFINE T == {k \in Nat : \E f : RunsTo(m, w, f, q, c, k)}
<1>1. 0 \in T
  <2>1. RunsTo(m, w, [t \in SUBSET (1 .. 0) |-> q], q, c, 0)
    <3>1. 1 .. 0 = {} /\ \A t \in SUBSET (1 .. 0) : t = {}
      OBVIOUS
    <3>2. QED
      BY <3>1 DEF RunsTo
  <2>2. QED
    BY <2>1
<1>2. ASSUME NEW k \in Nat, k \in T PROVE k + 1 \in T
  <2>1. PICK f : RunsTo(m, w, f, q, c, k)
    BY <1>2
  <2> DEFINE g == [t \in SUBSET (1 .. k + 1) |->
                     IF k + 1 \in t THEN Turn(m, w, f[t \ {k + 1}], c[k + 1]) ELSE f[t]]
  <2>2. ASSUME NEW t \in SUBSET (1 .. k + 1)
        PROVE  g[t] = IF t = {} THEN q ELSE Turn(m, w, g[t \ {Max(t)}], c[Max(t)])
    <3>1. CASE k + 1 \in t
      <4>1. Max(t) = k + 1
        <5>1. ASSUME NEW x \in t, \A y \in t : y <= x PROVE x = k + 1
          BY <3>1, <5>1
        <5>2. \A y \in t : y <= k + 1
          OBVIOUS
        <5>3. QED
          BY <3>1, <5>1, <5>2 DEF Max
      <4>2. t \ {k + 1} \in SUBSET (1 .. k + 1) /\ k + 1 \notin t \ {k + 1}
        OBVIOUS
      <4>3. g[t \ {k + 1}] = f[t \ {k + 1}] /\ g[t] = Turn(m, w, f[t \ {k + 1}], c[k + 1])
        BY <3>1, <4>2
      <4> HIDE DEF g
      <4>4. QED
        BY <3>1, <4>1, <4>3
    <3>2. CASE k + 1 \notin t
      <4> DEFINE u == t \ {Max(t)}
      <4>1. t \in SUBSET (1 .. k) /\ u \in SUBSET (1 .. k + 1) /\ k + 1 \notin u
        <5>1. \A x \in t : x \in 1 .. k + 1 /\ x # k + 1
          BY <3>2
        <5>2. t \subseteq 1 .. k /\ u \subseteq t
          BY <5>1
        <5>3. QED
          BY <3>2, <5>2
      <4> HIDE DEF u
      <4>2. g[t] = f[t] /\ g[u] = f[u]
        BY <3>2, <4>1
      <4>3. f[t] = IF t = {} THEN q ELSE Turn(m, w, f[t \ {Max(t)}], c[Max(t)])
        BY <2>1, <4>1 DEF RunsTo
      <4> HIDE DEF g
      <4>4. QED
        BY <4>2, <4>3 DEF u
    <3>3. QED
      BY <3>1, <3>2
  <2>3. g = [t \in SUBSET (1 .. k + 1) |-> g[t]]
    OBVIOUS
  <2> HIDE DEF g
  <2>4. RunsTo(m, w, g, q, c, k + 1)
    BY <2>2, <2>3 DEF RunsTo
  <2>5. QED
    BY <2>4
<1>3. Nat \subseteq T
  <2> HIDE DEF T
  <2>1. QED
    BY <1>1, <1>2, NatInSet
<1>4. QED
  BY <1>3

\* h[k] is q after the first k elements of c, which has n.
Turns(m, w, h, q, c, n) ==
  /\ h[0] = q /\ Loop(m, w, q, c) = h[n]
  /\ \A k \in Nat : k < n => h[k + 1] = Turn(m, w, h[k], c[k + 1])

\* The turns of a loop.
LEMMA LoopTurns ==
  ASSUME NEW m \in Loops, NEW w, NEW q, NEW n \in Nat, NEW c, DOMAIN c = 1 .. n
  PROVE  \E h : Turns(m, w, h, q, c, n)
<1>1. PICK g : RunsTo(m, w, g, q, c, n)
  BY RunsExist
<1>2. Runs(m, w, g, q, c)
  BY <1>1 DEF RunsTo, Runs
<1>3. PICK f : Runs(m, w, f, q, c) /\ Loop(m, w, q, c) = f[1 .. n]
  BY <1>2, LoopUnfolds
<1>4. \A t \in SUBSET DOMAIN c : f[t] = IF t = {} THEN q ELSE Turn(m, w, f[t \ {Max(t)}], c[Max(t)])
  BY <1>3 DEF Runs
<1> DEFINE h == [k \in 0 .. n |-> f[1 .. k]]
<1>5. h[0] = q
  <2>1. 1 .. 0 = {} /\ 1 .. 0 \in SUBSET DOMAIN c /\ 0 \in 0 .. n
    OBVIOUS
  <2>2. f[1 .. 0] = q
    BY <1>4, <2>1
  <2>3. QED
    BY <2>1, <2>2
<1>6. ASSUME NEW k \in Nat, k < n PROVE h[k + 1] = Turn(m, w, h[k], c[k + 1])
  <2>1. k \in 0 .. n /\ k + 1 \in 0 .. n /\ 1 .. k + 1 \in SUBSET DOMAIN c
    BY <1>6
  <2>2. Max(1 .. k + 1) = k + 1 /\ (1 .. k + 1) \ {k + 1} = 1 .. k /\ 1 .. k + 1 # {}
    BY MaxUpTo
  <2>3. f[1 .. k + 1] = Turn(m, w, f[(1 .. k + 1) \ {Max(1 .. k + 1)}], c[Max(1 .. k + 1)])
    BY <1>4, <2>1, <2>2
  <2>4. f[1 .. k + 1] = Turn(m, w, f[1 .. k], c[k + 1])
    BY <2>2, <2>3
  <2>5. h[k + 1] = f[1 .. k + 1] /\ h[k] = f[1 .. k]
    BY <2>1
  <2>6. QED
    BY <2>4, <2>5
<1>7. h[n] = f[1 .. n]
  OBVIOUS
<1> HIDE DEF h
<1>8. Turns(m, w, h, q, c, n)
  BY <1>3, <1>5, <1>6, <1>7 DEF Turns
<1>9. QED
  BY <1>8

-----------------------------------------------------------------------------
(* Sorting: the place of x in S is the number of elements before it.       *)

\* What R puts before x.
Before(S, R, x) == {y \in S : <<y, x>> \in R}

\* R orders S, without ties.
TotalOrder(S, R) ==
  /\ \A x \in S : <<x, x>> \notin R
  /\ \A x, y, z \in S : <<x, y>> \in R /\ <<y, z>> \in R => <<x, z>> \in R
  /\ \A x, y \in S : x # y => <<x, y>> \in R \/ <<y, x>> \in R

\* What comes later has more before it.
LEMMA BeforeGrows ==
  ASSUME NEW S, IsFiniteSet(S), NEW R, TotalOrder(S, R), NEW x \in S, NEW y \in S, <<x, y>> \in R
  PROVE  Cardinality(Before(S, R, x)) < Cardinality(Before(S, R, y))
<1> DEFINE X == Before(S, R, x)  Y == Before(S, R, y)
<1>1. X \subseteq Y /\ x \in Y /\ x \notin X /\ Y \subseteq S
  BY DEF Before, TotalOrder
<1> HIDE DEF X, Y
<1>2. IsFiniteSet(Y) /\ Cardinality(Y) \in Nat
  BY <1>1, FS_Subset, FS_CardinalityType
<1>3. X \in SUBSET Y /\ X # Y
  BY <1>1
<1>4. Cardinality(X) <= Cardinality(Y) /\ Cardinality(X) # Cardinality(Y) /\ IsFiniteSet(X)
  BY <1>2, <1>3, FS_Subset
<1>5. Cardinality(X) \in Nat
  BY <1>4, FS_CardinalityType
<1>6. QED
  BY <1>2, <1>4, <1>5 DEF X, Y

\* The number is below that of all.
LEMMA BeforeRange ==
  ASSUME NEW S, IsFiniteSet(S), NEW R, TotalOrder(S, R), NEW x \in S
  PROVE  Cardinality(S) \in Nat /\ Cardinality(Before(S, R, x)) + 1 \in 1 .. Cardinality(S)
<1> DEFINE X == Before(S, R, x)
<1>1. X \subseteq S /\ x \notin X /\ X # S
  BY DEF Before, TotalOrder
<1> HIDE DEF X
<1>2. Cardinality(S) \in Nat
  BY FS_CardinalityType
<1>3. IsFiniteSet(X) /\ Cardinality(X) <= Cardinality(S) /\ Cardinality(X) # Cardinality(S)
  BY <1>1, FS_Subset
<1>4. Cardinality(X) \in Nat
  BY <1>3, FS_CardinalityType
<1>5. QED
  BY <1>2, <1>3, <1>4 DEF X

\* Two have two places.
LEMMA PlaceOwn ==
  ASSUME NEW S, IsFiniteSet(S), NEW R, TotalOrder(S, R), NEW x \in S, NEW y \in S,
         Cardinality(Before(S, R, x)) = Cardinality(Before(S, R, y))
  PROVE  x = y
<1> DEFINE a == Cardinality(Before(S, R, x))  b == Cardinality(Before(S, R, y))
<1>1. a \in Nat /\ b \in Nat
  BY FS_Subset, FS_CardinalityType DEF Before
<1>2. <<x, y>> \in R => a < b
  BY BeforeGrows
<1>3. <<y, x>> \in R => b < a
  BY BeforeGrows
<1>4. ~(a < b) /\ ~(b < a)
  BY <1>1
<1>5. QED
  BY <1>2, <1>3, <1>4 DEF TotalOrder

\* Every place is taken by exactly one.
LEMMA PlaceTaken ==
  ASSUME NEW S, IsFiniteSet(S), NEW R, TotalOrder(S, R), NEW k \in 1 .. Cardinality(S)
  PROVE  \E x \in S : Cardinality(Before(S, R, x)) = k - 1
<1> DEFINE n == Cardinality(S)  r == [x \in S |-> Cardinality(Before(S, R, x)) + 1]
<1>1. n \in Nat
  BY FS_CardinalityType
<1>2. ASSUME NEW x \in S, NEW y \in S, r[x] = r[y] PROVE x = y
  <2> DEFINE a == Cardinality(Before(S, R, x))  b == Cardinality(Before(S, R, y))
  <2>1. a + 1 = b + 1
    BY <1>2
  <2>2. a + 1 \in 1 .. n /\ b + 1 \in 1 .. n
    BY BeforeRange
  <2>3. <<x, y>> \in R => a < b
    BY BeforeGrows
  <2>4. <<y, x>> \in R => b < a
    BY BeforeGrows
  <2>5. a \in Nat /\ b \in Nat
    BY FS_Subset, FS_CardinalityType DEF Before
  <2> HIDE DEF a, b
  <2>6. ~(a < b) /\ ~(b < a)
    BY <2>1, <2>5
  <2>7. QED
    BY <2>3, <2>4, <2>6 DEF TotalOrder
<1>3. r \in [S -> 1 .. n]
  BY BeforeRange
<1>4. r \in Injection(S, 1 .. n)
  BY <1>2, <1>3 DEF Injection, IsInjective
<1>5. IsFiniteSet(1 .. n) /\ Cardinality(1 .. n) = n
  BY <1>1, FS_Interval
<1> HIDE DEF r, n
<1>6. r \in Surjection(S, 1 .. n)
  BY <1>4, <1>5, FS_Injection DEF n
<1>7. PICK x \in S : r[x] = k
  BY <1>6 DEF Surjection, n
<1>8. Cardinality(Before(S, R, x)) + 1 = k
  BY <1>7 DEF r
<1>9. Cardinality(Before(S, R, x)) \in Nat
  BY FS_Subset, FS_CardinalityType DEF Before
<1>10. k \in Nat
  BY <1>1 DEF n
<1>11. QED
  BY <1>8, <1>9, <1>10

-----------------------------------------------------------------------------
(* Threads: the order of the messages.                                     *)

\* Message i of ms comes before message j.
Earlier(ms, i, j) ==
  threadMessageBefore([message |-> ms[i], inputIndex |-> i], [message |-> ms[j], inputIndex |-> j])

\* That order, as a relation.
EarlierPairs(ms) == {p \in (DOMAIN ms) \X (DOMAIN ms) : Earlier(ms, p[1], p[2])}

\* threadMessageBefore, without the records.
LEMMA EarlierIs ==
  ASSUME NEW ms \in Seq(ThreadMessages), NEW i \in DOMAIN ms, NEW j \in DOMAIN ms
  PROVE  Earlier(ms, i, j) <=>
           \/ ms[i].ReceivedAt < ms[j].ReceivedAt
           \/ ms[i].ReceivedAt = ms[j].ReceivedAt /\ ms[i].Key < ms[j].Key
           \/ /\ ms[i].ReceivedAt = ms[j].ReceivedAt /\ ms[i].Key = ms[j].Key
              /\ ms[i].MessageID < ms[j].MessageID
           \/ /\ ms[i].ReceivedAt = ms[j].ReceivedAt /\ ms[i].Key = ms[j].Key
              /\ ms[i].MessageID = ms[j].MessageID /\ i < j
<1>1. /\ ms[i].ReceivedAt \in Nat /\ ms[j].ReceivedAt \in Nat /\ ms[i].Key \in Nat /\ ms[j].Key \in Nat
      /\ ms[i].MessageID \in Nat /\ ms[j].MessageID \in Nat
  <2>1. ms[i] \in ThreadMessages /\ ms[j] \in ThreadMessages
    OBVIOUS
  <2>2. QED
    BY <2>1 DEF ThreadMessages
<1> DEFINE a == ms[i].ReceivedAt  b == ms[j].ReceivedAt  c == ms[i].Key  d == ms[j].Key
           e == ms[i].MessageID  f == ms[j].MessageID
<1>2. Earlier(ms, i, j) <=>
        CASE a # b -> a < b
          [] a = b /\ c # d -> c < d
          [] a = b /\ c = d /\ e # f -> e < f
          [] OTHER -> i < j
  BY DEF Earlier, threadMessageBefore
<1>3. a \in Nat /\ b \in Nat /\ c \in Nat /\ d \in Nat /\ e \in Nat /\ f \in Nat
  BY <1>1
<1> HIDE DEF a, b, c, d, e, f
<1>4. Earlier(ms, i, j) <=>
        \/ a < b
        \/ a = b /\ c < d
        \/ a = b /\ c = d /\ e < f
        \/ a = b /\ c = d /\ e = f /\ i < j
  <2>1. CASE a # b
    BY <1>2, <1>3, <2>1
  <2>2. CASE a = b /\ c # d
    BY <1>2, <1>3, <2>2
  <2>3. CASE a = b /\ c = d /\ e # f
    BY <1>2, <1>3, <2>3
  <2>4. CASE a = b /\ c = d /\ e = f
    BY <1>2, <1>3, <2>4
  <2>5. QED
    BY <2>1, <2>2, <2>3, <2>4
<1>5. QED
  BY <1>4 DEF a, b, c, d, e, f

\* It orders the messages, equal ones by their place in the input.
LEMMA EarlierOrders ==
  ASSUME NEW ms \in Seq(ThreadMessages)
  PROVE  TotalOrder(DOMAIN ms, EarlierPairs(ms))
<1> DEFINE D == DOMAIN ms  R == EarlierPairs(ms)
<1>0. \A i \in D : i \in Nat /\ ms[i].ReceivedAt \in Nat /\ ms[i].Key \in Nat /\ ms[i].MessageID \in Nat
  <2>1. \A i \in D : i \in Nat /\ ms[i] \in ThreadMessages
    OBVIOUS
  <2>2. QED
    BY <2>1 DEF ThreadMessages
<1>1. \A i, j \in D : <<i, j>> \in R <=> Earlier(ms, i, j)
  BY DEF EarlierPairs
<1> HIDE DEF R
<1> DEFINE a == [i \in D |-> ms[i].ReceivedAt]  b == [i \in D |-> ms[i].Key]  c == [i \in D |-> ms[i].MessageID]
<1>6. ASSUME NEW i \in D, NEW j \in D
      PROVE  <<i, j>> \in R <=>
        \/ a[i] < a[j]
        \/ a[i] = a[j] /\ b[i] < b[j]
        \/ a[i] = a[j] /\ b[i] = b[j] /\ c[i] < c[j]
        \/ a[i] = a[j] /\ b[i] = b[j] /\ c[i] = c[j] /\ i < j
  <2>1. a[i] = ms[i].ReceivedAt /\ a[j] = ms[j].ReceivedAt /\ b[i] = ms[i].Key /\ b[j] = ms[j].Key
        /\ c[i] = ms[i].MessageID /\ c[j] = ms[j].MessageID
    OBVIOUS
  <2> HIDE DEF a, b, c
  <2>2. <<i, j>> \in R <=> Earlier(ms, i, j)
    BY <1>1
  <2>3. QED
    BY <2>1, <2>2, EarlierIs
<1>7. D \subseteq Nat /\ a \in [D -> Nat] /\ b \in [D -> Nat] /\ c \in [D -> Nat]
  BY <1>0
<1> HIDE DEF D, a, b, c
<1>2. ASSUME NEW i \in D PROVE <<i, i>> \notin R
  BY <1>6, <1>7
<1>3. ASSUME NEW i \in D, NEW j \in D, i # j PROVE <<i, j>> \in R \/ <<j, i>> \in R
  <2>1. /\ i \in Nat /\ j \in Nat /\ a[i] \in Nat /\ a[j] \in Nat /\ b[i] \in Nat /\ b[j] \in Nat
        /\ c[i] \in Nat /\ c[j] \in Nat
    BY <1>7
  <2>2. QED
    BY <1>3, <1>6, <2>1
<1>4. ASSUME NEW i \in D, NEW j \in D, NEW k \in D, <<i, j>> \in R, <<j, k>> \in R PROVE <<i, k>> \in R
  <2>1. /\ i \in Nat /\ j \in Nat /\ a[i] \in Nat /\ a[j] \in Nat /\ b[i] \in Nat /\ b[j] \in Nat
        /\ c[i] \in Nat /\ c[j] \in Nat /\ k \in Nat /\ a[k] \in Nat /\ b[k] \in Nat /\ c[k] \in Nat
    BY <1>7
  <2>2. /\ \/ a[i] < a[j]
           \/ a[i] = a[j] /\ b[i] < b[j]
           \/ a[i] = a[j] /\ b[i] = b[j] /\ c[i] < c[j]
           \/ a[i] = a[j] /\ b[i] = b[j] /\ c[i] = c[j] /\ i < j
        /\ \/ a[j] < a[k]
           \/ a[j] = a[k] /\ b[j] < b[k]
           \/ a[j] = a[k] /\ b[j] = b[k] /\ c[j] < c[k]
           \/ a[j] = a[k] /\ b[j] = b[k] /\ c[j] = c[k] /\ j < k
    BY <1>4, <1>6
  <2>3. \/ a[i] < a[k]
        \/ a[i] = a[k] /\ b[i] < b[k]
        \/ a[i] = a[k] /\ b[i] = b[k] /\ c[i] < c[k]
        \/ a[i] = a[k] /\ b[i] = b[k] /\ c[i] = c[k] /\ i < k
    BY <2>1, <2>2
  <2>4. QED
    BY <1>6, <2>3
<1>5. QED
  BY <1>2, <1>3, <1>4 DEF TotalOrder, R, D

\* earliestThreadMessages returns messages of its input, as many as fit.
LEMMA EarliestFound ==
  ASSUME NEW ms \in Seq(ThreadMessages), NEW limit \in Nat
  PROVE  /\ earliestThreadMessages(ms, limit) \in Seq(ThreadMessages)
         /\ Len(earliestThreadMessages(ms, limit)) = IF Len(ms) > limit THEN limit ELSE Len(ms)
         /\ \A k \in DOMAIN earliestThreadMessages(ms, limit) :
              \E i \in DOMAIN ms : earliestThreadMessages(ms, limit)[k] = ms[i]
         /\ Len(ms) <= limit => \A i \in DOMAIN ms :
              \E k \in DOMAIN earliestThreadMessages(ms, limit) : earliestThreadMessages(ms, limit)[k] = ms[i]
<1> DEFINE D == DOMAIN ms  n == Len(ms)  o == IF n > limit THEN limit ELSE n
           R == EarlierPairs(ms)
           C(k) == CHOOSE i \in D : Cardinality(Before(D, R, i)) = k - 1
           e == earliestThreadMessages(ms, limit)
<1>1. n \in Nat /\ D = 1 .. n /\ o \in Nat /\ o <= n
  OBVIOUS
<1>2. IsFiniteSet(D) /\ Cardinality(D) = n
  <2> HIDE DEF n
  <2>0. 1 \in Int /\ n \in Int
    BY <1>1
  <2>1. IsFiniteSet(1 .. n) /\ Cardinality(1 .. n) = IF 1 > n THEN 0 ELSE n - 1 + 1
    BY <2>0, FS_Interval
  <2>2. QED
    BY <1>1, <2>1
<1>3. \A i \in D : Before(D, R, i) =
        {j \in D : threadMessageBefore([k \in D |-> [message |-> ms[k], inputIndex |-> k]][j],
                                       [k \in D |-> [message |-> ms[k], inputIndex |-> k]][i])}
  BY DEF Before, EarlierPairs, Earlier
<1>4. e = [k \in 1 .. o |-> ms[C(k)]]
  <2> DEFINE E(k) == CHOOSE i \in D : Cardinality({j \in D :
                 threadMessageBefore([z \in D |-> [message |-> ms[z], inputIndex |-> z]][j],
                                     [z \in D |-> [message |-> ms[z], inputIndex |-> z]][i])}) = k - 1
  <2>1. e = [k \in 1 .. o |-> ms[E(k)]]
    BY DEF earliestThreadMessages
  <2>2. \A k : E(k) = C(k)
    BY <1>3
  <2> HIDE DEF E, C
  <2>3. QED
    BY <2>1, <2>2
<1>5. ASSUME NEW k \in 1 .. o PROVE C(k) \in D /\ Cardinality(Before(D, R, C(k))) = k - 1
  <2>1. k \in 1 .. Cardinality(D)
    BY <1>1, <1>2
  <2>2. \E i \in D : Cardinality(Before(D, R, i)) = k - 1
    BY <1>2, <2>1, PlaceTaken, EarlierOrders
  <2>3. QED
    BY <2>2
<1> HIDE DEF C, e
<1>6. \A k \in 1 .. o : ms[C(k)] \in ThreadMessages
  BY <1>5
<1>7. e \in Seq(ThreadMessages) /\ Len(e) = o /\ DOMAIN e = 1 .. o
  BY <1>1, <1>4, <1>6
<1>8. \A k \in 1 .. o : e[k] = ms[C(k)]
  BY <1>4
<1>9. ASSUME n <= limit, NEW i \in D PROVE \E k \in 1 .. o : e[k] = ms[i]
  <2> DEFINE c == Cardinality(Before(D, R, i))
  <2>1. c + 1 \in 1 .. Cardinality(D) /\ c \in Nat
    <3>1. TotalOrder(D, R)
      BY EarlierOrders
    <3>2. c \in Nat
      BY <1>2, FS_Subset, FS_CardinalityType DEF Before
    <3>3. QED
      BY <1>2, <3>1, <3>2, BeforeRange
  <2> HIDE DEF c
  <2>2. o = n
    <3> HIDE DEF n
    <3>1. ~(n > limit)
      BY <1>1, <1>9
    <3>2. QED
      BY <3>1
  <2>3. c + 1 \in 1 .. o
    BY <1>2, <2>1, <2>2
  <2>4. C(c + 1) \in D /\ Cardinality(Before(D, R, C(c + 1))) = (c + 1) - 1
    BY <1>5, <2>3
  <2>5. Cardinality(Before(D, R, C(c + 1))) = c
    BY <2>1, <2>4
  <2>6. C(c + 1) = i
    BY <1>2, <2>4, <2>5, EarlierOrders, PlaceOwn DEF c
  <2>7. QED
    BY <1>8, <2>3, <2>6
<1>10. QED
  BY <1>5, <1>7, <1>8, <1>9 DEF e

-----------------------------------------------------------------------------
(* Threads: distinct keys.                                                 *)

\* What the key of a message begins with.
Base(m) == IF m.Key # 0 THEN m.Key ELSE m.MessageID

\* A suffix not taken is found, so the key is a new one.
LEMMA FreshKey ==
  ASSUME NEW m \in ThreadMessages, NEW ks \in Seq(Places)
  PROVE  /\ stableThreadKey(m, ks) \in Places /\ stableThreadKey(m, ks)[1] = Base(m)
         /\ \A i \in DOMAIN ks : ks[i] # stableThreadKey(m, ks)
<1> DEFINE b == Base(m)  n == Len(ks)  J == {j \in DOMAIN ks : ks[j][1] = b}
           used == {ks[i][2] : i \in J}
           F == {s \in 1 .. n + 1 : s \notin used}
           P(s) == s \notin used /\ \A t \in 1 .. s - 1 : t \in used
           c == CHOOSE s \in 1 .. n + 1 : P(s)
<1>1. n \in Nat /\ DOMAIN ks = 1 .. n /\ b \in Nat
  BY DEF Base, ThreadMessages
<1>2. \A i \in DOMAIN ks : ks[i] \in Places /\ ks[i] = <<ks[i][1], ks[i][2]>> /\ ks[i][2] \in Nat
  BY DEF Places
<1>3. stableThreadKey(m, ks) = <<b, c>>
  BY DEF stableThreadKey, Base
<1> HIDE DEF b, c
<1>4. F # {}
  <2> SUFFICES ASSUME F = {} PROVE FALSE
    OBVIOUS
  <2>1. 1 .. n + 1 \subseteq used
    OBVIOUS
  <2>2. IsFiniteSet(1 .. n) /\ Cardinality(1 .. n) = n /\ IsFiniteSet(1 .. n + 1) /\ Cardinality(1 .. n + 1) = n + 1
    <3> HIDE DEF n
    <3>1. 1 \in Int /\ n \in Int /\ n + 1 \in Int
      BY <1>1
    <3>2. /\ IsFiniteSet(1 .. n) /\ Cardinality(1 .. n) = IF 1 > n THEN 0 ELSE n - 1 + 1
      BY <3>1, FS_Interval
    <3>3. /\ IsFiniteSet(1 .. n + 1) /\ Cardinality(1 .. n + 1) = IF 1 > n + 1 THEN 0 ELSE (n + 1) - 1 + 1
      BY <3>1, FS_Interval
    <3>4. QED
      BY <1>1, <3>2, <3>3
  <2>3. J \subseteq 1 .. n
    BY <1>1
  <2> DEFINE f == [i \in J |-> ks[i][2]]
  <2>4. f \in Surjection(J, used)
    <3>1. f \in [J -> used] /\ \A y \in used : \E i \in J : f[i] = y
      OBVIOUS
    <3>2. QED
      BY <3>1 DEF Surjection
  <2> HIDE DEF f, used, J
  <2>5. IsFiniteSet(J) /\ Cardinality(J) <= n /\ Cardinality(J) \in Nat
    <3> HIDE DEF n
    <3>1. IsFiniteSet(J) /\ Cardinality(J) <= Cardinality(1 .. n)
      BY <2>2, <2>3, FS_Subset
    <3>2. QED
      BY <2>2, <3>1, FS_CardinalityType
  <2>6. IsFiniteSet(used) /\ Cardinality(used) <= Cardinality(J)
    BY <2>4, <2>5, FS_Surjection
  <2>7. Cardinality(used) \in Nat
    BY <2>6, FS_CardinalityType
  <2>8. Cardinality(1 .. n + 1) <= Cardinality(used)
    BY <2>1, <2>6, FS_Subset
  <2>9. QED
    BY <1>1, <2>2, <2>5, <2>6, <2>7, <2>8
<1>5. P(Min(F)) /\ Min(F) \in 1 .. n + 1
  <2>1. F \in SUBSET Nat
    BY <1>1
  <2> DEFINE a == Min(F)
  <2>2. a \in F /\ \A x \in F : a <= x
    <3> HIDE DEF F
    <3>1. QED
      BY <1>4, <2>1, LeastNat
  <2> HIDE DEF a
  <2>3. ASSUME NEW t \in 1 .. a - 1 PROVE t \in used
    <3>1. a \in 1 .. n + 1
      BY <2>2
    <3>2. t \in 1 .. n + 1 /\ ~(a <= t)
      BY <1>1, <3>1
    <3>3. t \notin F
      BY <2>2, <3>2
    <3>4. QED
      BY <3>2, <3>3
  <2>4. P(a) /\ a \in 1 .. n + 1
    BY <2>2, <2>3
  <2>5. QED
    BY <2>4 DEF a
<1>6. c \in 1 .. n + 1 /\ c \notin used
  <2> HIDE DEF F, used
  <2>1. P(c) /\ c \in 1 .. n + 1
    <3> HIDE DEF P
    <3>1. QED
      BY <1>5 DEF c
  <2>2. QED
    BY <2>1
<1>7. ASSUME NEW i \in DOMAIN ks PROVE ks[i] # <<b, c>>
  <2> SUFFICES ASSUME ks[i] = <<b, c>> PROVE FALSE
    OBVIOUS
  <2>1. ks[i][1] = b /\ ks[i][2] = c
    OBVIOUS
  <2>2. c \in used
    BY <2>1
  <2>3. QED
    BY <1>6, <2>2
<1>8. c \in Nat
  BY <1>1, <1>6
<1>9. <<b, c>> \in Places /\ <<b, c>>[1] = b
  BY <1>1, <1>8 DEF Places
<1>10. QED
  BY <1>3, <1>7, <1>9 DEF b

\* The first k keys.
KeysGood(ks, ordered, k) ==
  /\ ks \in Seq(Places) /\ Len(ks) = k
  /\ \A i \in 1 .. k : ks[i][1] = Base(ordered[i])
  /\ \A i, j \in 1 .. k : ks[i] = ks[j] => i = j

\* One more key.
LEMMA KeyAdded ==
  ASSUME NEW ordered \in Seq(ThreadMessages), NEW k \in Nat, k < Len(ordered), NEW ks, KeysGood(ks, ordered, k)
  PROVE  KeysGood(Append(ks, stableThreadKey(ordered[k + 1], ks)), ordered, k + 1)
<1> DEFINE m == ordered[k + 1]  x == stableThreadKey(m, ks)  u == Append(ks, x)
<1>1. m \in ThreadMessages /\ k + 1 \in Nat
  OBVIOUS
<1>2. ks \in Seq(Places) /\ Len(ks) = k /\ DOMAIN ks = 1 .. k
  BY DEF KeysGood
<1>3. x \in Places /\ x[1] = Base(m) /\ \A i \in 1 .. k : ks[i] # x
  <2> HIDE DEF m
  <2>1. x \in Places /\ x[1] = Base(m) /\ \A i \in DOMAIN ks : ks[i] # x
    BY <1>1, <1>2, FreshKey
  <2>2. QED
    BY <1>2, <2>1
<1> HIDE DEF x
<1>4. u \in Seq(Places) /\ Len(u) = k + 1 /\ u[k + 1] = x /\ \A i \in 1 .. k : u[i] = ks[i]
  BY <1>2, <1>3
<1> HIDE DEF u
<1>5. \A i \in 1 .. k + 1 : i \in 1 .. k \/ i = k + 1
  OBVIOUS
<1>6. \A i \in 1 .. k + 1 : u[i][1] = Base(ordered[i])
  BY <1>3, <1>4, <1>5 DEF KeysGood, m
<1>7. \A i, j \in 1 .. k + 1 : u[i] = u[j] => i = j
  BY <1>3, <1>4, <1>5 DEF KeysGood
<1>8. QED
  BY <1>4, <1>6, <1>7 DEF KeysGood, u, x, m

\* ThreadKeys gives every message a key of its own, which begins with its base.
LEMMA KeysDistinct ==
  ASSUME NEW ordered \in Seq(ThreadMessages)
  PROVE  KeysGood(ThreadKeys(ordered), ordered, Len(ordered))
<1> DEFINE n == Len(ordered)
<1>1. n \in Nat /\ DOMAIN ordered = 1 .. n
  OBVIOUS
<1>2. ThreadKeys(ordered) = Loop("keys", 0, <<>>, ordered)
  BY DEF ThreadKeys, Loop
<1>3. "keys" \in Loops
  BY DEF Loops
<1> HIDE DEF n
<1>4. PICK h : Turns("keys", 0, h, <<>>, ordered, n)
  BY <1>1, <1>3, LoopTurns
<1> DEFINE T == {k \in Nat : k <= n => KeysGood(h[k], ordered, k)}
<1>5. 0 \in T
  <2>1. h[0] = <<>>
    BY <1>4 DEF Turns
  <2>2. KeysGood(<<>>, ordered, 0)
    BY DEF KeysGood
  <2>3. QED
    BY <2>1, <2>2
<1>6. ASSUME NEW k \in Nat, k \in T PROVE k + 1 \in T
  <2> SUFFICES ASSUME k + 1 <= n PROVE KeysGood(h[k + 1], ordered, k + 1)
    OBVIOUS
  <2>1. k < n /\ k <= n
    BY <1>1
  <2>2. KeysGood(h[k], ordered, k)
    BY <1>6, <2>1
  <2>3. h[k + 1] = Append(h[k], stableThreadKey(ordered[k + 1], h[k]))
    BY <1>4, <2>1 DEF Turns, Turn
  <2>4. QED
    BY <2>1, <2>2, <2>3, KeyAdded DEF n
<1>7. n \in T
  <2> HIDE DEF T
  <2>1. QED
    BY <1>1, <1>5, <1>6, NatInSet
<1>8. KeysGood(h[n], ordered, n)
  BY <1>1, <1>7
<1>9. QED
  BY <1>2, <1>4, <1>8 DEF Turns, n

-----------------------------------------------------------------------------
(* Threads: parents.                                                       *)

\* A bounded set of natural numbers that is not empty has a greatest one.
LEMMA GreatestNat ==
  ASSUME NEW b \in Nat, NEW S \in SUBSET (0 .. b), S # {}
  PROVE  Max(S) \in S /\ \A x \in S : x <= Max(S)
<1> DEFINE U == {b - x : x \in S}
<1>1. U \in SUBSET Nat /\ U # {}
  <2>1. \A x \in S : b - x \in Nat
    OBVIOUS
  <2>2. U \subseteq Nat
    BY <2>1
  <2>3. PICK x \in S : TRUE
    OBVIOUS
  <2>4. b - x \in U
    OBVIOUS
  <2> HIDE DEF U
  <2>5. QED
    BY <2>2, <2>4
<1>2. Min(U) \in U /\ \A u \in U : Min(U) <= u
  <2> HIDE DEF U
  <2>1. QED
    BY <1>1, LeastNat
<1>3. PICK m \in S : Min(U) = b - m
  BY <1>2
<1>4. ASSUME NEW x \in S PROVE x <= m
  <2>1. b - m <= b - x
    BY <1>2, <1>3
  <2>2. x \in Nat /\ m \in Nat
    OBVIOUS
  <2>3. QED
    BY <2>1, <2>2
<1>5. QED
  BY <1>4 DEF Max

\* The message an identifier names.
LEMMA IdentifiedIs ==
  ASSUME NEW ordered \in Seq(ThreadMessages), NEW mid
  PROVE  /\ Identified(ordered, mid) \in 0 .. Len(ordered)
         /\ Identified(ordered, mid) > 0 =>
              mid # 0 /\ ordered[Identified(ordered, mid)].MessageID = mid
         /\ \A j \in 1 .. Len(ordered) : mid # 0 /\ ordered[j].MessageID = mid => Identified(ordered, mid) > 0
<1> DEFINE I == {j \in 1 .. Len(ordered) : ordered[j].MessageID = mid}  p == Identified(ordered, mid)
<1>1. Len(ordered) \in Nat /\ I \in SUBSET Nat
  OBVIOUS
<1>2. CASE mid = 0
  <2>1. p = 0
    BY <1>2 DEF Identified
  <2> HIDE DEF p
  <2>2. QED
    BY <1>1, <1>2, <2>1 DEF p
<1>3. CASE mid # 0 /\ I = {}
  <2>1. p = 0
    BY <1>3 DEF Identified, SelectInSeq
  <2>2. \A j \in 1 .. Len(ordered) : ordered[j].MessageID # mid
    BY <1>3
  <2> HIDE DEF p, I
  <2>3. QED
    BY <1>1, <2>1, <2>2 DEF p
<1>4. CASE mid # 0 /\ I # {}
  <2>1. p = Min(I)
    BY <1>4 DEF Identified, SelectInSeq
  <2> HIDE DEF p
  <2>2. Min(I) \in I
    <3> HIDE DEF I
    <3>1. QED
      BY <1>1, <1>4, LeastNat
  <2>3. p \in 1 .. Len(ordered) /\ ordered[p].MessageID = mid
    BY <2>1, <2>2
  <2> HIDE DEF I
  <2>4. p > 0 /\ p \in 0 .. Len(ordered)
    BY <1>1, <2>3
  <2>5. QED
    BY <1>4, <2>3, <2>4 DEF p
<1>5. QED
  BY <1>2, <1>3, <1>4

\* The references that count are among the references.
LEMMA LastRefsIs ==
  ASSUME NEW refs \in Seq(Nat), NEW max \in Nat
  PROVE  /\ LastRefs(refs, max) \in Seq(Nat)
         /\ \A i \in DOMAIN LastRefs(refs, max) : \E k \in DOMAIN refs : LastRefs(refs, max)[i] = refs[k]
         /\ Len(refs) <= max => LastRefs(refs, max) = refs
<1>1. Len(refs) \in Nat
  OBVIOUS
<1>2. CASE Len(refs) > max
  <2> DEFINE a == Len(refs) - max + 1  q == SubSeq(refs, a, Len(refs))
  <2>1. LastRefs(refs, max) = q /\ ~(Len(refs) <= max)
    BY <1>1, <1>2 DEF LastRefs
  <2>2. a \in 1 .. Len(refs) + 1 /\ a >= 1
    BY <1>1, <1>2
  <2>3. q = [i \in 1 .. Len(refs) - a + 1 |-> refs[a + i - 1]]
    BY <1>1, <2>2
  <2>4. \A i \in 1 .. Len(refs) - a + 1 : a + i - 1 \in DOMAIN refs
    BY <1>1, <2>2
  <2>5. Len(refs) - a + 1 \in Nat
    BY <1>1, <1>2
  <2> HIDE DEF q, a
  <2>6. q \in Seq(Nat) /\ DOMAIN q = 1 .. Len(refs) - a + 1
    BY <2>3, <2>4, <2>5
  <2>7. QED
    BY <2>1, <2>3, <2>4, <2>6
<1>3. CASE ~(Len(refs) > max)
  BY <1>3 DEF LastRefs
<1>4. QED
  BY <1>2, <1>3

\* A parent is a message that is named; without a limit in the way, one is
\* found when there is one.
LEMMA ParentNamed ==
  ASSUME NEW ordered \in Seq(ThreadMessages), NEW m \in ThreadMessages, NEW maxRefs \in Nat
  PROVE  /\ parentFor(m, ordered, maxRefs) \in 0 .. Len(ordered)
         /\ parentFor(m, ordered, maxRefs) > 0 =>
              ordered[parentFor(m, ordered, maxRefs)].MessageID \in
                {m.InReplyTo} \cup {m.References[k] : k \in DOMAIN m.References}
         /\ Len(m.References) <= maxRefs => \A j \in 1 .. Len(ordered) :
              /\ ordered[j].MessageID # 0
              /\ \/ \E k \in DOMAIN m.References : m.References[k] = ordered[j].MessageID
                 \/ m.References = <<>> /\ m.InReplyTo = ordered[j].MessageID
              => parentFor(m, ordered, maxRefs) > 0
<1> DEFINE n == Len(ordered)  refs == LastRefs(m.References, maxRefs)
           named == IF refs = <<>> THEN <<m.InReplyTo>> ELSE refs
           I == {i \in 1 .. Len(named) : Identified(ordered, named[i]) > 0}
           p == parentFor(m, ordered, maxRefs)
<1>1. n \in Nat /\ m.References \in Seq(Nat) /\ m.InReplyTo \in Nat
  BY DEF ThreadMessages
<1>2. /\ refs \in Seq(Nat) /\ \A i \in DOMAIN refs : \E k \in DOMAIN m.References : refs[i] = m.References[k]
      /\ Len(m.References) <= maxRefs => refs = m.References
  BY <1>1, LastRefsIs
<1>3. p = LET here == IF I # {} THEN Max(I) ELSE 0
          IN IF here = 0 THEN 0 ELSE Identified(ordered, named[here])
  BY DEF parentFor, SelectLastInSeq
<1> HIDE DEF p, refs
<1>4. named \in Seq(Nat) /\ Len(named) \in Nat /\ DOMAIN named = 1 .. Len(named)
  <2>1. named \in Seq(Nat)
    <3>1. CASE refs = <<>>
      <4>1. named = <<m.InReplyTo>> /\ <<m.InReplyTo>> \in Seq(Nat)
        BY <1>1, <3>1
      <4>2. QED
        BY <4>1
    <3>2. CASE refs # <<>>
      BY <1>2, <3>2
    <3>3. QED
      BY <3>1, <3>2
  <2> HIDE DEF named
  <2>2. QED
    BY <2>1
<1>5. \A i \in 1 .. Len(named) :
        named[i] \in {m.InReplyTo} \cup {m.References[k] : k \in DOMAIN m.References}
  <2>1. CASE refs = <<>>
    BY <2>1
  <2>2. CASE refs # <<>>
    BY <1>2, <2>2
  <2>3. QED
    BY <2>1, <2>2
<1>6. ASSUME Len(m.References) <= maxRefs, NEW j \in 1 .. n, ordered[j].MessageID # 0,
             \/ \E k \in DOMAIN m.References : m.References[k] = ordered[j].MessageID
             \/ m.References = <<>> /\ m.InReplyTo = ordered[j].MessageID
      PROVE  I # {}
  <2>1. refs = m.References
    BY <1>2, <1>6
  <2>2. \E i \in 1 .. Len(named) : named[i] = ordered[j].MessageID
    <3>1. CASE m.References = <<>>
      <4>1. m.InReplyTo = ordered[j].MessageID
        BY <1>6, <3>1
      <4>2. named = <<m.InReplyTo>>
        BY <2>1, <3>1
      <4>3. QED
        BY <4>1, <4>2
    <3>2. CASE m.References # <<>>
      <4>1. PICK k \in DOMAIN m.References : m.References[k] = ordered[j].MessageID
        BY <1>6, <3>2
      <4>2. named = m.References
        BY <2>1, <3>2
      <4> HIDE DEF named
      <4>3. QED
        BY <1>4, <4>1, <4>2
    <3>3. QED
      BY <3>1, <3>2
  <2>3. PICK i \in 1 .. Len(named) : named[i] = ordered[j].MessageID
    BY <2>2
  <2> HIDE DEF named
  <2>4. Identified(ordered, named[i]) > 0
    BY <1>6, <2>3, IdentifiedIs
  <2>5. QED
    BY <2>4
<1> HIDE DEF named
<1>7. CASE I = {}
  <2>1. p = 0
    BY <1>3, <1>7
  <2>2. ~(p > 0) /\ p \in 0 .. n
    BY <1>1, <2>1
  <2>3. QED
    BY <1>6, <1>7, <2>2 DEF p
<1>8. CASE I # {}
  <2> DEFINE i == Max(I)
  <2>1. i \in I
    <3>1. I \in SUBSET (0 .. Len(named))
      BY <1>4
    <3> HIDE DEF I
    <3>2. QED
      BY <1>4, <1>8, <3>1, GreatestNat
  <2> HIDE DEF i
  <2>2. i \in 1 .. Len(named) /\ Identified(ordered, named[i]) > 0 /\ i # 0
    BY <1>4, <2>1
  <2>3. p = Identified(ordered, named[i])
    <3> HIDE DEF I
    <3>1. QED
      BY <1>3, <1>8, <2>2 DEF i
  <2>4. p \in 0 .. n /\ p > 0 /\ ordered[p].MessageID = named[i]
    <3>1. Identified(ordered, named[i]) \in 0 .. n /\ ordered[Identified(ordered, named[i])].MessageID = named[i]
      BY <2>2, IdentifiedIs
    <3>2. QED
      BY <2>2, <2>3, <3>1
  <2>5. QED
    BY <1>5, <2>2, <2>4 DEF p
<1>9. QED
  BY <1>7, <1>8

\* r ranks the messages: every parent is below.
Ranked(P, n, r, b) ==
  /\ P \in [1 .. n -> 0 .. n] /\ r \in [1 .. n -> 0 .. b]
  /\ \A i \in 1 .. n : P[i] # 0 => r[P[i]] < r[i]

\* A link that wouldCycle lets through leaves a ranking: what is not above the
\* parent is lifted over it.
LEMMA LinkKeeps ==
  ASSUME NEW n \in Nat, NEW b \in Nat, NEW P, NEW r, Ranked(P, n, r, b),
         NEW i \in 1 .. n, P[i] = 0, NEW p \in 1 .. n, ~wouldCycle(i, p, P)
  PROVE  \E c \in Nat : \E s : Ranked([P EXCEPT ![i] = p], n, s, c)
<1>1. P \in [1 .. n -> 0 .. n] /\ r \in [1 .. n -> 0 .. b] /\ DOMAIN P = 1 .. n
  BY DEF Ranked
<1>2. PICK above \in SUBSET (1 .. n) :
        p \in above /\ (\A j \in above : P[j] # 0 => P[j] \in above) /\ i \notin above
  BY <1>1 DEF wouldCycle
<1> DEFINE a == r[p]
           s == [j \in 1 .. n |-> IF j \in above THEN r[j] ELSE r[j] + (a + 1)]
           Q == [P EXCEPT ![i] = p]
<1>3. a \in Nat /\ a <= b /\ b + (b + 1) \in Nat
  BY <1>1
<1>4. \A j \in 1 .. n : r[j] \in Nat /\ r[j] <= b
  BY <1>1
<1>5. s \in [1 .. n -> 0 .. b + (b + 1)]
  <2>1. ASSUME NEW j \in 1 .. n PROVE r[j] \in 0 .. b + (b + 1) /\ r[j] + (a + 1) \in 0 .. b + (b + 1)
    <3> DEFINE x == r[j]
    <3>1. x \in Nat /\ x <= b
      BY <1>4
    <3> HIDE DEF x, a
    <3>2. x \in 0 .. b + (b + 1) /\ x + (a + 1) \in 0 .. b + (b + 1)
      BY <1>3, <3>1
    <3>3. QED
      BY <3>2 DEF x
  <2> HIDE DEF a
  <2>2. QED
    BY <2>1
<1>6. Q \in [1 .. n -> 0 .. n]
  BY <1>1
<1>7. ASSUME NEW j \in 1 .. n, Q[j] # 0 PROVE s[Q[j]] < s[j]
  <2>1. CASE j = i
    <3>1. Q[j] = p /\ s[p] = a /\ s[j] = r[j] + (a + 1)
      BY <1>1, <1>2, <2>1
    <3> DEFINE x == r[j]
    <3>2. x \in Nat
      BY <1>4
    <3> HIDE DEF a, x
    <3>3. a < x + (a + 1)
      BY <1>3, <3>2
    <3> HIDE DEF s, Q
    <3>4. QED
      BY <3>1, <3>3 DEF x
  <2>2. CASE j # i
    <3>1. Q[j] = P[j] /\ P[j] # 0 /\ P[j] \in 1 .. n /\ r[P[j]] < r[j]
      BY <1>1, <1>7, <2>2 DEF Ranked
    <3> DEFINE x == r[j]  y == r[P[j]]
    <3>2. x \in Nat /\ y \in Nat /\ y < x
      BY <1>4, <3>1
    <3>3. j \in above => P[j] \in above
      BY <1>2, <3>1
    <3>4. /\ s[j] = IF j \in above THEN x ELSE x + (a + 1)
          /\ s[P[j]] = IF P[j] \in above THEN y ELSE y + (a + 1)
      BY <3>1
    <3> HIDE DEF s, Q, x, y, a
    <3>5. s[P[j]] < s[j]
      BY <1>3, <3>2, <3>3, <3>4
    <3>6. QED
      BY <3>1, <3>5
  <2>3. QED
    BY <2>1, <2>2
<1> HIDE DEF s, Q
<1>8. Ranked(Q, n, s, b + (b + 1))
  BY <1>5, <1>6, <1>7 DEF Ranked
<1>9. QED
  BY <1>3, <1>8 DEF Q

\* The links after k messages.
LinksGood(s, ordered, maxRefs, k) ==
  LET n == Len(ordered) IN
  /\ s.parents \in [1 .. n -> 0 .. n] /\ s.cycle \in BOOLEAN
  /\ \E b \in Nat : \E r : Ranked(s.parents, n, r, b)
  /\ \A i \in 1 .. n : s.parents[i] \in {0, parentFor(ordered[i], ordered, maxRefs)}
  /\ \A i \in 1 .. n : i > k => s.parents[i] = 0
  /\ ~s.cycle => \A i \in 1 .. k : s.parents[i] = parentFor(ordered[i], ordered, maxRefs)

\* One more link.
LEMMA LinkAdded ==
  ASSUME NEW ordered \in Seq(ThreadMessages), NEW maxRefs \in Nat, NEW k \in Nat, k < Len(ordered),
         NEW s, LinksGood(s, ordered, maxRefs, k)
  PROVE  LinksGood(linkParent(s, k + 1, ordered, maxRefs), ordered, maxRefs, k + 1)
<1> DEFINE n == Len(ordered)  i == k + 1  p == parentFor(ordered[i], ordered, maxRefs)
           cyclic == p > 0 /\ wouldCycle(i, p, s.parents)
           P == s.parents
           Q == [P EXCEPT ![i] = IF cyclic THEN 0 ELSE p]
           t == linkParent(s, i, ordered, maxRefs)
<1>1. n \in Nat /\ i \in 1 .. n
  OBVIOUS
<1>2. P \in [1 .. n -> 0 .. n] /\ s.cycle \in BOOLEAN /\ P[i] = 0
  BY <1>1 DEF LinksGood
<1>3. t.parents = Q /\ t.cycle = (s.cycle \/ cyclic)
  BY DEF linkParent
<1>4. p \in 0 .. n
  <2>1. ordered[i] \in ThreadMessages
    BY <1>1
  <2>2. QED
    BY <2>1, ParentNamed
<1>5. PICK b \in Nat : \E r : Ranked(P, n, r, b)
  BY DEF LinksGood
<1>6. PICK r : Ranked(P, n, r, b)
  BY <1>5
<1>7. cyclic \in BOOLEAN
  OBVIOUS
<1>8. \A j \in 1 .. n : P[j] \in {0, parentFor(ordered[j], ordered, maxRefs)}
  BY DEF LinksGood
<1>9. \A j \in 1 .. n : j > k => P[j] = 0
  BY DEF LinksGood
<1>10. ~s.cycle => \A j \in 1 .. k : P[j] = parentFor(ordered[j], ordered, maxRefs)
  BY DEF LinksGood
<1>11. \E c \in Nat : \E u : Ranked(Q, n, u, c)
  <2>1. CASE cyclic \/ p = 0
    <3>1. Q = P
      BY <1>1, <1>2, <2>1
    <3> HIDE DEF Q, P
    <3>2. QED
      BY <1>5, <3>1
  <2>2. CASE ~(cyclic \/ p = 0)
    <3>1. p > 0 /\ p \in 1 .. n /\ ~wouldCycle(i, p, P) /\ Q = [P EXCEPT ![i] = p]
      BY <1>1, <1>4, <2>2
    <3> HIDE DEF Q, P, p, i, cyclic, n
    <3>2. \E c \in Nat : \E u : Ranked([P EXCEPT ![i] = p], n, u, c)
      BY <1>1, <1>2, <1>6, <3>1, LinkKeeps
    <3>3. QED
      BY <3>1, <3>2
  <2>3. QED
    BY <2>1, <2>2
<1> HIDE DEF P
<1>12. Q \in [1 .. n -> 0 .. n]
  BY <1>1, <1>2, <1>4
<1>13. \A j \in 1 .. n : Q[j] = IF j = i THEN (IF cyclic THEN 0 ELSE p) ELSE P[j]
  BY <1>2
<1> HIDE DEF Q, cyclic, t
<1>14. \A j \in 1 .. n : Q[j] \in {0, parentFor(ordered[j], ordered, maxRefs)}
  BY <1>8, <1>13
<1>15. \A j \in 1 .. n : j > i => Q[j] = 0
  <2>1. \A j \in 1 .. n : j > i => j > k /\ j # i
    OBVIOUS
  <2>2. QED
    BY <1>9, <1>13, <2>1
<1>16. ~t.cycle => \A j \in 1 .. i : Q[j] = parentFor(ordered[j], ordered, maxRefs)
  <2>1. \A j \in 1 .. i : j \in 1 .. n /\ (j = i \/ j \in 1 .. k)
    BY <1>1
  <2> SUFFICES ASSUME ~t.cycle, NEW j \in 1 .. i PROVE Q[j] = parentFor(ordered[j], ordered, maxRefs)
    OBVIOUS
  <2>2. ~s.cycle /\ ~cyclic
    BY <1>3
  <2>3. QED
    BY <1>10, <1>13, <2>1, <2>2
<1>17. t.cycle \in BOOLEAN
  BY <1>2, <1>3, <1>7
<1>18. QED
  BY <1>3, <1>11, <1>12, <1>14, <1>15, <1>16, <1>17 DEF LinksGood, n, t, i

\* The links of all messages.
LEMMA LinksFound ==
  ASSUME NEW ordered \in Seq(ThreadMessages), NEW maxRefs \in Nat
  PROVE  LinksGood(Linked(ordered, maxRefs), ordered, maxRefs, Len(ordered))
<1> DEFINE n == Len(ordered)  w == <<ordered, maxRefs>>  c == [i \in DOMAIN ordered |-> i]
           q == [parents |-> [i \in DOMAIN ordered |-> 0], cycle |-> FALSE]
<1>1. n \in Nat /\ DOMAIN c = 1 .. n /\ w[1] = ordered /\ w[2] = maxRefs
  OBVIOUS
<1>2. Linked(ordered, maxRefs) = Loop("link", w, q, c)
  <2> DEFINE K(f) == f = [t \in SUBSET DOMAIN c |->
                           IF t = {} THEN q ELSE linkParent(f[t \ {Max(t)}], c[Max(t)], ordered, maxRefs)]
             R(f) == f = [t \in SUBSET DOMAIN c |->
                           IF t = {} THEN q ELSE linkParent(f[t \ {Max(t)}], c[Max(t)], w[1], w[2])]
  <2>1. Linked(ordered, maxRefs) = (CHOOSE f : K(f))[DOMAIN c]
    BY DEF Linked, FoldLeft, MapThenFoldSet
  <2>2. Loop("link", w, q, c) = (CHOOSE f : R(f))[DOMAIN c]
    BY DEF Loop, FoldLeft, MapThenFoldSet
  <2>3. \A f : K(f) <=> R(f)
    BY <1>1
  <2> HIDE DEF K, R
  <2>4. (CHOOSE f : K(f)) = (CHOOSE f : R(f))
    BY <2>3
  <2>5. QED
    BY <2>1, <2>2, <2>4
<1>3. "link" \in Loops
  BY DEF Loops
<1>4. \A k \in Nat : k < n => c[k + 1] = k + 1
  OBVIOUS
<1>5. LinksGood(q, ordered, maxRefs, 0)
  <2> DEFINE P == [i \in 1 .. n |-> 0]
  <2>1. q.parents = P /\ q.cycle = FALSE
    OBVIOUS
  <2>2. P \in [1 .. n -> 0 .. n] /\ \A i \in 1 .. n : P[i] = 0
    BY <1>1
  <2>3. P \in [1 .. n -> 0 .. 0]
    OBVIOUS
  <2> HIDE DEF P, q
  <2>4. Ranked(P, n, P, 0)
    BY <2>2, <2>3 DEF Ranked
  <2>5. \E b \in Nat : \E r : Ranked(P, n, r, b)
    BY <2>4
  <2>6. \A i \in 1 .. 0 : FALSE
    OBVIOUS
  <2> HIDE DEF n
  <2>7. QED
    BY <2>1, <2>2, <2>5, <2>6 DEF LinksGood, n
<1> HIDE DEF n, c, q, w
<1>6. PICK h : Turns("link", w, h, q, c, n)
  BY <1>1, <1>3, LoopTurns
<1> DEFINE T == {k \in Nat : k <= n => LinksGood(h[k], ordered, maxRefs, k)}
<1>7. 0 \in T
  <2>1. h[0] = q
    BY <1>6 DEF Turns
  <2>2. QED
    BY <1>5, <2>1
<1>8. ASSUME NEW k \in Nat, k \in T PROVE k + 1 \in T
  <2> SUFFICES ASSUME k + 1 <= n PROVE LinksGood(h[k + 1], ordered, maxRefs, k + 1)
    OBVIOUS
  <2>1. k < n /\ k <= n
    BY <1>1
  <2>2. LinksGood(h[k], ordered, maxRefs, k)
    BY <1>8, <2>1
  <2>3. h[k + 1] = linkParent(h[k], k + 1, ordered, maxRefs)
    BY <1>1, <1>4, <1>6, <2>1 DEF Turns, Turn
  <2>4. QED
    BY <2>1, <2>2, <2>3, LinkAdded DEF n
<1>9. n \in T
  <2> HIDE DEF T
  <2>1. QED
    BY <1>1, <1>7, <1>8, NatInSet
<1>10. LinksGood(h[n], ordered, maxRefs, n)
  BY <1>1, <1>9
<1>11. QED
  BY <1>2, <1>6, <1>10 DEF Turns, n

-----------------------------------------------------------------------------
(* Threads: depths.                                                        *)

\* D gives every message its depth.
Depths(P, n, D) == \A i \in 1 .. n : D[i] = IF P[i] = 0 THEN 0 ELSE D[P[i]] + 1

\* The same, for the messages of rank below m.
DepthsTo(P, n, r, D, m) ==
  \A i \in 1 .. n : r[i] < m => D[i] = (IF P[i] = 0 THEN 0 ELSE D[P[i]] + 1) /\ D[i] <= r[i]

\* Depths of one more rank.
LEMMA DepthsGrow ==
  ASSUME NEW n \in Nat, NEW b \in Nat, NEW P, NEW r, Ranked(P, n, r, b), NEW m \in Nat,
         NEW D \in [1 .. n -> Nat], DepthsTo(P, n, r, D, m)
  PROVE  \E F \in [1 .. n -> Nat] : DepthsTo(P, n, r, F, m + 1)
<1>1. P \in [1 .. n -> 0 .. n] /\ r \in [1 .. n -> 0 .. b]
  BY DEF Ranked
<1>2. \A i \in 1 .. n : P[i] # 0 => P[i] \in 1 .. n
  BY <1>1
<1> DEFINE F == [i \in 1 .. n |-> IF r[i] < m THEN D[i] ELSE IF P[i] = 0 THEN 0 ELSE D[P[i]] + 1]
<1>3. F \in [1 .. n -> Nat]
  <2>1. \A i \in 1 .. n : D[i] \in Nat /\ (P[i] # 0 => D[P[i]] + 1 \in Nat)
    BY <1>2
  <2>2. QED
    BY <2>1
<1>4. ASSUME NEW i \in 1 .. n, r[i] < m + 1
      PROVE  F[i] = (IF P[i] = 0 THEN 0 ELSE F[P[i]] + 1) /\ F[i] <= r[i]
  <2>1. r[i] \in Nat
    BY <1>1
  <2>2. CASE P[i] = 0
    <3>1. F[i] = 0
      BY <2>2 DEF DepthsTo
    <3> HIDE DEF F
    <3>2. QED
      BY <2>1, <2>2, <3>1
  <2>3. CASE P[i] # 0
    <3> DEFINE p == P[i]  x == r[i]  y == r[p]  d == D[p]
    <3>1. p \in 1 .. n /\ y \in Nat /\ d \in Nat /\ y < x
      BY <1>1, <1>2, <2>3 DEF Ranked
    <3>2. y < m
      <4> HIDE DEF x, y
      <4>1. QED
        BY <1>4, <2>1, <3>1 DEF x
    <3>3. d <= y
      BY <3>1, <3>2 DEF DepthsTo
    <3>4. F[p] = d
      BY <3>1, <3>2
    <3>5. F[i] = d + 1
      BY <2>3 DEF DepthsTo
    <3>6. x \in Nat
      BY <2>1
    <3> HIDE DEF F, x, y, d
    <3>7. d + 1 <= x
      BY <3>1, <3>3, <3>6
    <3>8. QED
      BY <2>3, <3>4, <3>5, <3>7 DEF x
  <2>4. QED
    BY <2>2, <2>3
<1> HIDE DEF F
<1>5. DepthsTo(P, n, r, F, m + 1)
  BY <1>4 DEF DepthsTo
<1>6. QED
  BY <1>3, <1>5

\* What is ranked has depths.
LEMMA DepthsExist ==
  ASSUME NEW n \in Nat, NEW b \in Nat, NEW P, NEW r, Ranked(P, n, r, b)
  PROVE  \E D \in [1 .. n -> 0 .. b] : Depths(P, n, D)
<1>1. P \in [1 .. n -> 0 .. n] /\ r \in [1 .. n -> 0 .. b]
  BY DEF Ranked
<1> DEFINE T == {m \in Nat : \E D \in [1 .. n -> Nat] : DepthsTo(P, n, r, D, m)}
<1>2. 0 \in T
  <2> DEFINE D == [i \in 1 .. n |-> 0]
  <2>1. D \in [1 .. n -> Nat] /\ \A i \in 1 .. n : ~(r[i] < 0)
    BY <1>1
  <2>2. DepthsTo(P, n, r, D, 0)
    BY <2>1 DEF DepthsTo
  <2> HIDE DEF D
  <2>3. QED
    BY <2>1, <2>2
<1>3. ASSUME NEW m \in Nat, m \in T PROVE m + 1 \in T
  <2>1. PICK D \in [1 .. n -> Nat] : DepthsTo(P, n, r, D, m)
    BY <1>3
  <2>2. \E F \in [1 .. n -> Nat] : DepthsTo(P, n, r, F, m + 1)
    BY <2>1, DepthsGrow
  <2>3. QED
    BY <2>2
<1>4. b + 1 \in T
  <2> HIDE DEF T
  <2>1. b + 1 \in Nat
    OBVIOUS
  <2>2. QED
    BY <1>2, <1>3, <2>1, NatInSet
<1>5. PICK D \in [1 .. n -> Nat] : DepthsTo(P, n, r, D, b + 1)
  BY <1>4
<1>6. \A i \in 1 .. n : r[i] < b + 1 /\ r[i] <= b /\ r[i] \in Nat
  BY <1>1
<1>7. Depths(P, n, D) /\ \A i \in 1 .. n : D[i] <= r[i]
  BY <1>5, <1>6 DEF DepthsTo, Depths
<1>8. D \in [1 .. n -> 0 .. b]
  <2>1. ASSUME NEW i \in 1 .. n PROVE D[i] \in 0 .. b
    <3>1. D[i] \in Nat /\ D[i] <= r[i] /\ r[i] <= b /\ r[i] \in Nat
      BY <1>6, <1>7
    <3>2. QED
      BY <3>1
  <2>2. QED
    BY <2>1
<1>9. QED
  BY <1>7, <1>8

\* The depths are ranks.
LEMMA DepthsRank ==
  ASSUME NEW n \in Nat, NEW b \in Nat, NEW P \in [1 .. n -> 0 .. n], NEW D \in [1 .. n -> 0 .. b],
         Depths(P, n, D)
  PROVE  Ranked(P, n, D, b) /\ \A i \in 1 .. n : D[i] \in Nat /\ (D[i] = 0 <=> P[i] = 0)
<1>1. \A i \in 1 .. n : D[i] \in Nat
  OBVIOUS
<1>2. ASSUME NEW i \in 1 .. n, P[i] # 0 PROVE D[P[i]] < D[i] /\ D[i] # 0
  <2>1. P[i] \in 1 .. n /\ D[i] = D[P[i]] + 1
    BY <1>2 DEF Depths
  <2>2. D[P[i]] \in Nat
    BY <1>1, <2>1
  <2>3. QED
    BY <2>1, <2>2
<1>3. \A i \in 1 .. n : P[i] = 0 => D[i] = 0
  BY DEF Depths
<1>4. QED
  BY <1>1, <1>2, <1>3 DEF Ranked

\* resolveThreadDepth finds the depth, whatever depths it finds on the way.
LEMMA DepthResolved ==
  ASSUME NEW n \in Nat, NEW b \in Nat, NEW P \in [1 .. n -> 0 .. n], NEW D \in [1 .. n -> 0 .. b],
         Depths(P, n, D), NEW known \in [1 .. n -> Nat],
         \A j \in 1 .. n : known[j] > 0 => known[j] = D[j], NEW i \in 1 .. n
  PROVE  resolveThreadDepth(i, P, known) = D[i]
<1> DEFINE K(f) == f = [j \in DOMAIN P |->
                          IF P[j] = 0 THEN 0
                          ELSE (IF known[P[j]] > 0 THEN known[P[j]] ELSE f[P[j]]) + 1]
           g == CHOOSE f : K(f)
<1>1. resolveThreadDepth(i, P, known) = g[i]
  BY DEF resolveThreadDepth
<1>2. \A j \in 1 .. n : P[j] # 0 => P[j] \in 1 .. n
  OBVIOUS
<1>3. K(D)
  <2>1. D = [j \in DOMAIN P |-> D[j]]
    OBVIOUS
  <2>2. \A j \in 1 .. n : D[j] = IF P[j] = 0 THEN 0
                                 ELSE (IF known[P[j]] > 0 THEN known[P[j]] ELSE D[P[j]]) + 1
    BY <1>2 DEF Depths
  <2>3. QED
    BY <2>1, <2>2
<1>4. K(g)
  <2> HIDE DEF K
  <2>1. QED
    BY <1>3
<1>5. \A j \in 1 .. n : g[j] = IF P[j] = 0 THEN 0
                               ELSE (IF known[P[j]] > 0 THEN known[P[j]] ELSE g[P[j]]) + 1
  <2> HIDE DEF g
  <2>1. QED
    BY <1>4
<1> HIDE DEF g, K
<1>6. \A j \in 1 .. n : D[j] \in Nat /\ (D[j] = 0 <=> P[j] = 0)
  BY DepthsRank
<1> DEFINE T == {m \in Nat : \A j \in 1 .. n : D[j] = m => g[j] = D[j]}
<1>7. 0 \in T
  BY <1>5, <1>6
<1>8. ASSUME NEW m \in Nat, m \in T PROVE m + 1 \in T
  <2> SUFFICES ASSUME NEW j \in 1 .. n, D[j] = m + 1 PROVE g[j] = D[j]
    OBVIOUS
  <2>1. P[j] # 0 /\ P[j] \in 1 .. n
    BY <1>2, <1>6
  <2>2. D[j] = D[P[j]] + 1
    BY <2>1 DEF Depths
  <2>3. D[P[j]] = m
    <3> DEFINE x == D[P[j]]
    <3>1. x \in Nat /\ m + 1 = x + 1
      BY <1>6, <2>1, <2>2
    <3> HIDE DEF x
    <3>2. x = m
      BY <3>1
    <3>3. QED
      BY <3>2 DEF x
  <2>4. g[P[j]] = D[P[j]]
    BY <1>8, <2>1, <2>3
  <2>5. QED
    BY <1>5, <2>1, <2>2, <2>4
<1>9. D[i] \in T
  <2> HIDE DEF T
  <2>1. QED
    BY <1>6, <1>7, <1>8, NatInSet
<1>10. QED
  BY <1>1, <1>9

\* F is D up to max.
SameTo(n, D, F, max) == \A j \in 1 .. n : D[j] <= max => F[j] = D[j]

\* Cutting a link above depth max leaves the depths up to max.
LEMMA CutKeeps ==
  ASSUME NEW n \in Nat, NEW b \in Nat, NEW P \in [1 .. n -> 0 .. n], NEW D \in [1 .. n -> 0 .. b],
         Depths(P, n, D), NEW i \in 1 .. n, NEW max \in Nat, D[i] > max
  PROVE  \E F \in [1 .. n -> 0 .. b] : Depths([P EXCEPT ![i] = 0], n, F) /\ SameTo(n, D, F, max)
<1> DEFINE Q == [P EXCEPT ![i] = 0]
<1>1. Q \in [1 .. n -> 0 .. n] /\ \A j \in 1 .. n : Q[j] = IF j = i THEN 0 ELSE P[j]
  OBVIOUS
<1>2. Ranked(P, n, D, b) /\ \A j \in 1 .. n : D[j] \in Nat /\ (D[j] = 0 <=> P[j] = 0)
  BY DepthsRank
<1> HIDE DEF Q
<1>3. Ranked(Q, n, D, b)
  BY <1>1, <1>2 DEF Ranked
<1>4. PICK F \in [1 .. n -> 0 .. b] : Depths(Q, n, F)
  BY <1>3, DepthsExist
<1> DEFINE T == {m \in Nat : \A j \in 1 .. n : D[j] = m /\ D[j] <= max => F[j] = D[j]}
<1>5. \A j \in 1 .. n : D[j] <= max => Q[j] = P[j]
  <2>1. \A j \in 1 .. n : D[j] <= max => j # i
    BY <1>2
  <2>2. QED
    BY <1>1, <2>1
<1>6. 0 \in T
  BY <1>2, <1>4, <1>5 DEF Depths
<1>7. ASSUME NEW m \in Nat, m \in T PROVE m + 1 \in T
  <2> SUFFICES ASSUME NEW j \in 1 .. n, D[j] = m + 1, D[j] <= max PROVE F[j] = D[j]
    OBVIOUS
  <2>1. P[j] # 0 /\ P[j] \in 1 .. n /\ Q[j] = P[j]
    <3>1. P[j] # 0
      BY <1>2
    <3>2. QED
      BY <1>5, <3>1
  <2>2. D[j] = D[P[j]] + 1 /\ F[j] = F[P[j]] + 1
    BY <1>4, <2>1 DEF Depths
  <2>3. D[P[j]] = m /\ D[P[j]] <= max
    <3> DEFINE x == D[P[j]]
    <3>1. x \in Nat /\ m + 1 = x + 1 /\ m + 1 <= max
      BY <1>2, <2>1, <2>2
    <3> HIDE DEF x
    <3>2. x = m /\ m <= max
      BY <3>1
    <3>3. QED
      BY <3>2 DEF x
  <2>4. F[P[j]] = D[P[j]]
    BY <1>7, <2>1, <2>3
  <2>5. QED
    BY <2>2, <2>4
<1>8. ASSUME NEW j \in 1 .. n, D[j] <= max PROVE F[j] = D[j]
  <2>1. D[j] \in T
    <3> HIDE DEF T
    <3>1. QED
      BY <1>2, <1>6, <1>7, NatInSet
  <2>2. QED
    BY <1>8, <2>1
<1>9. QED
  BY <1>4, <1>8 DEF Q, SameTo

\* The state of the loop over depths after k messages.
DepthsGood(s, P, n, max, k) ==
  /\ s.parents \in [1 .. n -> 0 .. n] /\ s.depths \in [1 .. n -> Nat] /\ s.deep \in BOOLEAN
  /\ \E b \in Nat : \E D \in [1 .. n -> 0 .. b] :
       Depths(s.parents, n, D) /\ \A j \in 1 .. k : s.depths[j] = D[j] /\ D[j] <= max
  /\ \A j \in 1 .. n : j > k => s.depths[j] = 0
  /\ \A j \in 1 .. n : s.parents[j] \in {0, P[j]}
  /\ ~s.deep => s.parents = P

\* One more depth.
LEMMA DepthAdded ==
  ASSUME NEW n \in Nat, NEW P, NEW max \in Nat, NEW k \in Nat, k < n, NEW s, DepthsGood(s, P, n, max, k)
  PROVE  DepthsGood(boundDepth(s, k + 1, max), P, n, max, k + 1)
<1> DEFINE i == k + 1  Q == s.parents  K == s.depths  d == resolveThreadDepth(i, Q, K)
           t == boundDepth(s, i, max)
<1>1. /\ i \in 1 .. n /\ i \in Nat
      /\ \A j \in 1 .. i : j \in 1 .. n /\ (j = i \/ j \in 1 .. k)
      /\ \A j \in 1 .. n : j \in 1 .. k \/ j > k
      /\ \A j \in 1 .. n : j > i => j > k /\ j # i
  OBVIOUS
<1>2. Q \in [1 .. n -> 0 .. n] /\ K \in [1 .. n -> Nat] /\ s.deep \in BOOLEAN
  BY DEF DepthsGood
<1>3. PICK b \in Nat : \E D \in [1 .. n -> 0 .. b] :
        Depths(Q, n, D) /\ \A j \in 1 .. k : K[j] = D[j] /\ D[j] <= max
  BY DEF DepthsGood
<1>4. PICK D \in [1 .. n -> 0 .. b] : Depths(Q, n, D) /\ \A j \in 1 .. k : K[j] = D[j] /\ D[j] <= max
  BY <1>3
<1>5. /\ \A j \in 1 .. n : j > k => K[j] = 0
      /\ \A j \in 1 .. n : Q[j] \in {0, P[j]}
      /\ ~s.deep => Q = P
  BY DEF DepthsGood
<1>6. /\ t.parents = IF d > max THEN [Q EXCEPT ![i] = 0] ELSE Q
      /\ t.depths = [K EXCEPT ![i] = IF d > max THEN 0 ELSE d]
      /\ t.deep = (s.deep \/ d > max)
  BY DEF boundDepth
<1> HIDE DEF t, Q, K, i
<1>7. \A j \in 1 .. n : K[j] > 0 => K[j] = D[j]
  <2>1. \A j \in 1 .. n : K[j] > 0 => j \in 1 .. k
    <3>1. ~(0 > 0)
      OBVIOUS
    <3>2. QED
      BY <1>1, <1>5, <3>1
  <2>2. QED
    BY <1>4, <2>1
<1>8. d = D[i]
  BY <1>1, <1>2, <1>4, <1>7, DepthResolved
<1> HIDE DEF d
<1>9. d \in Nat
  BY <1>1, <1>8
<1>10. (d > max) \in BOOLEAN
  OBVIOUS
<1>11. CASE d > max
  <2>1. PICK F \in [1 .. n -> 0 .. b] : Depths([Q EXCEPT ![i] = 0], n, F) /\ SameTo(n, D, F, max)
    <3>1. D[i] > max
      BY <1>8, <1>11
    <3>2. QED
      BY <1>1, <1>2, <1>4, <3>1, CutKeeps
  <2> DEFINE R == [Q EXCEPT ![i] = 0]  M == [K EXCEPT ![i] = 0]
  <2>2. t.parents = R /\ t.depths = M /\ t.deep
    BY <1>6, <1>11
  <2>3. /\ R \in [1 .. n -> 0 .. n] /\ \A j \in 1 .. n : R[j] = IF j = i THEN 0 ELSE Q[j]
        /\ M \in [1 .. n -> Nat] /\ \A j \in 1 .. n : M[j] = IF j = i THEN 0 ELSE K[j]
    BY <1>1, <1>2
  <2>4. Depths(R, n, F)
    BY <2>1
  <2> HIDE DEF R, M
  <2>5. F[i] = 0
    BY <1>1, <2>3, <2>4 DEF Depths
  <2>6. \A j \in 1 .. i : M[j] = F[j] /\ F[j] <= max
    <3>1. 0 <= max
      OBVIOUS
    <3>2. \A j \in 1 .. k : j \in 1 .. n
      BY <1>1
    <3>3. \A j \in 1 .. k : K[j] = F[j] /\ F[j] <= max
      BY <1>4, <2>1, <3>2 DEF SameTo
    <3>4. QED
      BY <1>1, <2>3, <2>5, <3>1, <3>3
  <2>7. \A j \in 1 .. n : j > i => M[j] = 0
    BY <1>1, <1>5, <2>3
  <2>8. \A j \in 1 .. n : R[j] \in {0, P[j]}
    BY <1>5, <2>3
  <2>9. QED
    <3>1. t.deep \in BOOLEAN
      BY <1>2, <1>6, <1>10
    <3>2. \E bb \in Nat : \E DD \in [1 .. n -> 0 .. bb] :
            Depths(R, n, DD) /\ \A j \in 1 .. i : M[j] = DD[j] /\ DD[j] <= max
      BY <2>4, <2>6
    <3>3. ~t.deep => t.parents = P
      BY <2>2
    <3>4. t.parents = R /\ t.depths = M
      BY <2>2
    <3>5. DepthsGood(t, P, n, max, i)
      BY <2>3, <2>7, <2>8, <3>1, <3>2, <3>3, <3>4 DEF DepthsGood
    <3>6. QED
      BY <3>5 DEF t, i
<1>12. CASE ~(d > max)
  <2> DEFINE M == [K EXCEPT ![i] = d]
  <2>1. t.parents = Q /\ t.depths = M /\ t.deep = s.deep
    BY <1>2, <1>6, <1>12
  <2>2. M \in [1 .. n -> Nat] /\ \A j \in 1 .. n : M[j] = IF j = i THEN d ELSE K[j]
    BY <1>1, <1>2, <1>9
  <2> HIDE DEF M
  <2>3. d <= max
    BY <1>9, <1>12
  <2>4. \A j \in 1 .. i : M[j] = D[j] /\ D[j] <= max
    BY <1>1, <1>4, <1>8, <2>2, <2>3
  <2>5. \A j \in 1 .. n : j > i => M[j] = 0
    BY <1>1, <1>5, <2>2
  <2>6. QED
    <3>1. \E bb \in Nat : \E DD \in [1 .. n -> 0 .. bb] :
            Depths(Q, n, DD) /\ \A j \in 1 .. i : M[j] = DD[j] /\ DD[j] <= max
      BY <1>4, <2>4
    <3>2. t.deep \in BOOLEAN /\ (~t.deep => t.parents = P)
      BY <1>2, <1>5, <2>1
    <3>3. t.parents = Q /\ t.depths = M
      BY <2>1
    <3>4. DepthsGood(t, P, n, max, i)
      BY <1>2, <1>5, <2>2, <2>5, <3>1, <3>2, <3>3 DEF DepthsGood
    <3>5. QED
      BY <3>4 DEF t, i
<1>13. QED
  BY <1>11, <1>12

\* The depths of all messages.
LEMMA DepthsFound ==
  ASSUME NEW n \in Nat, NEW b \in Nat, NEW P, NEW r, Ranked(P, n, r, b), NEW max \in Nat
  PROVE  DepthsGood(Bounded(P, max), P, n, max, n)
<1> DEFINE c == [i \in DOMAIN P |-> i]
           q == [parents |-> P, depths |-> [i \in DOMAIN P |-> 0], deep |-> FALSE]
<1>1. P \in [1 .. n -> 0 .. n] /\ DOMAIN c = 1 .. n /\ DOMAIN P = 1 .. n
  BY DEF Ranked
<1>2. Bounded(P, max) = Loop("bound", max, q, c)
  BY DEF Bounded, Loop
<1>3. "bound" \in Loops
  BY DEF Loops
<1>4. \A k \in Nat : k < n => c[k + 1] = k + 1
  BY <1>1
<1>5. DepthsGood(q, P, n, max, 0)
  <2> DEFINE Z == [i \in 1 .. n |-> 0]
  <2>1. q.parents = P /\ q.deep = FALSE /\ q.depths = Z
    BY <1>1
  <2>2. Z \in [1 .. n -> Nat] /\ \A i \in 1 .. n : Z[i] = 0
    OBVIOUS
  <2>3. PICK D \in [1 .. n -> 0 .. b] : Depths(P, n, D)
    BY DepthsExist
  <2>4. \A i \in 1 .. 0 : FALSE
    OBVIOUS
  <2> HIDE DEF Z, q
  <2>5. QED
    BY <1>1, <2>1, <2>2, <2>3, <2>4 DEF DepthsGood
<1> HIDE DEF c, q
<1>6. PICK h : Turns("bound", max, h, q, c, n)
  BY <1>1, <1>3, LoopTurns
<1> DEFINE T == {k \in Nat : k <= n => DepthsGood(h[k], P, n, max, k)}
<1>7. 0 \in T
  <2>1. h[0] = q
    BY <1>6 DEF Turns
  <2>2. QED
    BY <1>5, <2>1
<1>8. ASSUME NEW k \in Nat, k \in T PROVE k + 1 \in T
  <2> SUFFICES ASSUME k + 1 <= n PROVE DepthsGood(h[k + 1], P, n, max, k + 1)
    OBVIOUS
  <2>1. k < n /\ k <= n
    BY <1>1
  <2>2. DepthsGood(h[k], P, n, max, k)
    BY <1>8, <2>1
  <2>3. h[k + 1] = boundDepth(h[k], k + 1, max)
    BY <1>4, <1>6, <2>1 DEF Turns, Turn
  <2>4. QED
    BY <2>1, <2>2, <2>3, DepthAdded
<1>9. n \in T
  <2> HIDE DEF T
  <2>1. QED
    BY <1>7, <1>8, NatInSet
<1>10. DepthsGood(h[n], P, n, max, n)
  BY <1>9
<1>11. QED
  BY <1>2, <1>6, <1>10 DEF Turns

-----------------------------------------------------------------------------
(* Threads: what BuildThread returns.                                      *)

\* The nodes are messages of the input under keys that begin with theirs.
NodesFrom(t, ms) ==
  /\ t.nodes \in Seq([key : Places, message : ThreadMessages, depth : Nat, parent : {<<>>} \cup Places])
  /\ \A i \in DOMAIN t.nodes :
       /\ \E j \in DOMAIN ms : t.nodes[i].message = ms[j]
       /\ t.nodes[i].key[1] = Base(t.nodes[i].message)
  /\ ~TruncatedThread(t) => \A j \in DOMAIN ms : \E i \in DOMAIN t.nodes : t.nodes[i].message = ms[j]

\* BuildThread returns a forest within the depth limit, whatever the messages
\* name as their parents, and without a flag it keeps every message and link.
THEOREM BuildsForest ==
  ASSUME NEW ms \in Seq(ThreadMessages), NEW limit \in Nat, NEW maxRefs \in Nat, NEW maxDepth \in Nat
  PROVE  /\ IsForest(BuildThread(ms, limit, maxRefs, maxDepth), maxDepth)
         /\ KeepsLinks(BuildThread(ms, limit, maxRefs, maxDepth), ms)
         /\ NodesFrom(BuildThread(ms, limit, maxRefs, maxDepth), ms)
<1> DEFINE ordered == earliestThreadMessages(ms, limit)
           keys == ThreadKeys(ordered)  linked == Linked(ordered, maxRefs)
           L == linked.parents
           bounded == Bounded(L, maxDepth)
           n == Len(ordered)  B == bounded.parents  K == bounded.depths
           Pa(i) == IF B[i] = 0 THEN <<>> ELSE keys[B[i]]
           node(i) == [key |-> keys[i], message |-> ordered[i], depth |-> K[i], parent |-> Pa(i)]
           t == BuildThread(ms, limit, maxRefs, maxDepth)
<1>1. /\ ordered \in Seq(ThreadMessages) /\ n = IF Len(ms) > limit THEN limit ELSE Len(ms)
      /\ \A k \in DOMAIN ordered : \E i \in DOMAIN ms : ordered[k] = ms[i]
      /\ Len(ms) <= limit => \A i \in DOMAIN ms : \E k \in DOMAIN ordered : ordered[k] = ms[i]
  BY EarliestFound
<1>2. /\ t.nodes = [i \in DOMAIN ordered |-> node(i)]
      /\ t.messages = (Len(ms) > limit)
      /\ t.references = (\E i \in DOMAIN ordered : Len(ordered[i].References) > maxRefs)
      /\ t.cycle = linked.cycle /\ t.depth = bounded.deep
  BY DEF BuildThread
<1> HIDE DEF ordered, t
<1>3. n \in Nat /\ DOMAIN ordered = 1 .. n /\ Len(ms) \in Nat
  BY <1>1
<1>4. KeysGood(keys, ordered, n)
  BY <1>1, KeysDistinct
<1>5. LinksGood(linked, ordered, maxRefs, n)
  BY <1>1, LinksFound
<1> HIDE DEF keys, linked, node, Pa
<1>6. PICK b \in Nat : \E r : Ranked(L, n, r, b)
  BY <1>5 DEF LinksGood
<1>7. PICK r : Ranked(L, n, r, b)
  BY <1>6
<1>8. DepthsGood(bounded, L, n, maxDepth, n)
  <2> HIDE DEF L, n
  <2>1. QED
    BY <1>3, <1>7, DepthsFound
<1> HIDE DEF bounded
<1>9. B \in [1 .. n -> 0 .. n] /\ K \in [1 .. n -> Nat] /\ bounded.deep \in BOOLEAN
  BY <1>8 DEF DepthsGood
<1>10. PICK bb \in Nat : \E D \in [1 .. n -> 0 .. bb] :
         Depths(B, n, D) /\ \A j \in 1 .. n : K[j] = D[j] /\ D[j] <= maxDepth
  BY <1>8 DEF DepthsGood
<1>11. PICK D \in [1 .. n -> 0 .. bb] :
         Depths(B, n, D) /\ \A j \in 1 .. n : K[j] = D[j] /\ D[j] <= maxDepth
  BY <1>10
<1>12. (\A j \in 1 .. n : B[j] \in {0, L[j]}) /\ (~bounded.deep => B = L)
  BY <1>8 DEF DepthsGood
<1>13. /\ L \in [1 .. n -> 0 .. n] /\ linked.cycle \in BOOLEAN
       /\ \A i \in 1 .. n : L[i] \in {0, parentFor(ordered[i], ordered, maxRefs)}
       /\ ~linked.cycle => \A i \in 1 .. n : L[i] = parentFor(ordered[i], ordered, maxRefs)
  BY <1>5 DEF LinksGood
<1>14. /\ keys \in Seq(Places) /\ Len(keys) = n /\ DOMAIN keys = 1 .. n
       /\ \A i \in 1 .. n : keys[i][1] = Base(ordered[i])
       /\ \A i, j \in 1 .. n : keys[i] = keys[j] => i = j
  BY <1>4 DEF KeysGood
<1>15. \A x \in Places : x # <<>>
  BY DEF Places
<1>16. \A i \in 1 .. n : keys[i] \in Places /\ keys[i] # <<>> /\ ordered[i] \in ThreadMessages
  BY <1>1, <1>3, <1>14, <1>15
<1> HIDE DEF n, L, B, K
<1>17. \A i \in 1 .. n : B[i] # 0 => B[i] \in 1 .. n
  BY <1>3, <1>9
<1>18. \A i \in 1 .. n : /\ Pa(i) \in {<<>>} \cup Places
                         /\ Pa(i) = <<>> <=> B[i] = 0
                         /\ B[i] # 0 => Pa(i) = keys[B[i]]
  BY <1>16, <1>17 DEF Pa
<1>19. \A i \in 1 .. n : /\ K[i] \in Nat /\ K[i] <= maxDepth
                         /\ K[i] = 0 <=> B[i] = 0
                         /\ B[i] # 0 => K[i] = K[B[i]] + 1
  <2>1. \A i \in 1 .. n : D[i] \in Nat /\ (D[i] = 0 <=> B[i] = 0)
    BY <1>3, <1>9, <1>11, DepthsRank
  <2>2. \A i \in 1 .. n : B[i] # 0 => D[i] = D[B[i]] + 1
    BY <1>11 DEF Depths
  <2>3. QED
    BY <1>9, <1>11, <1>17, <2>1, <2>2
<1>20. \A i \in 1 .. n : /\ parentFor(ordered[i], ordered, maxRefs) \in 0 .. n
                         /\ parentFor(ordered[i], ordered, maxRefs) > 0 =>
                              ordered[parentFor(ordered[i], ordered, maxRefs)].MessageID \in
                                {ordered[i].InReplyTo}
                                  \cup {ordered[i].References[k] : k \in DOMAIN ordered[i].References}
  BY <1>1, <1>16, ParentNamed DEF n
<1>21. \A i \in 1 .. n : B[i] # 0 =>
         ordered[B[i]].MessageID \in
           {ordered[i].InReplyTo} \cup {ordered[i].References[k] : k \in DOMAIN ordered[i].References}
  <2> SUFFICES ASSUME NEW i \in 1 .. n, B[i] # 0
               PROVE  ordered[B[i]].MessageID \in
                        {ordered[i].InReplyTo}
                          \cup {ordered[i].References[k] : k \in DOMAIN ordered[i].References}
    OBVIOUS
  <2>1. B[i] = parentFor(ordered[i], ordered, maxRefs)
    BY <1>12, <1>13
  <2>2. B[i] > 0
    BY <1>3, <1>17
  <2>3. QED
    BY <1>20, <2>1, <2>2
<1>22. DOMAIN t.nodes = 1 .. n /\ \A i \in 1 .. n : t.nodes[i] = node(i)
  BY <1>2, <1>3
<1>23. \A i : node(i).key = keys[i] /\ node(i).message = ordered[i] /\ node(i).depth = K[i] /\ node(i).parent = Pa(i)
  BY DEF node
<1>24. \A i \in 1 .. n : /\ t.nodes[i].key = keys[i] /\ t.nodes[i].message = ordered[i]
                         /\ t.nodes[i].depth = K[i] /\ t.nodes[i].parent = Pa(i)
  BY <1>22, <1>23
<1>25. IsForest(t, maxDepth)
  <2> SUFFICES ASSUME NEW i \in 1 .. n
               PROVE  /\ \A j \in 1 .. n : t.nodes[j].key = t.nodes[i].key => j = i
                      /\ t.nodes[i].depth <= maxDepth
                      /\ t.nodes[i].parent = <<>> <=> t.nodes[i].depth = 0
                      /\ t.nodes[i].parent # <<>> =>
                           \E j \in {j \in 1 .. n : t.nodes[j].key = t.nodes[i].parent} :
                             /\ t.nodes[i].depth = t.nodes[j].depth + 1
                             /\ t.nodes[j].message.MessageID \in
                                  {t.nodes[i].message.InReplyTo}
                                    \cup {t.nodes[i].message.References[k] : k \in DOMAIN t.nodes[i].message.References}
    BY <1>22 DEF IsForest
  <2>1. \A j \in 1 .. n : t.nodes[j].key = t.nodes[i].key => j = i
    BY <1>14, <1>24
  <2>2. t.nodes[i].depth <= maxDepth /\ (t.nodes[i].parent = <<>> <=> t.nodes[i].depth = 0)
    BY <1>18, <1>19, <1>24
  <2>3. ASSUME t.nodes[i].parent # <<>>
        PROVE  \E j \in {j \in 1 .. n : t.nodes[j].key = t.nodes[i].parent} :
                 /\ t.nodes[i].depth = t.nodes[j].depth + 1
                 /\ t.nodes[j].message.MessageID \in
                      {t.nodes[i].message.InReplyTo}
                        \cup {t.nodes[i].message.References[k] : k \in DOMAIN t.nodes[i].message.References}
    <3>1. B[i] # 0 /\ B[i] \in 1 .. n
      BY <1>17, <1>18, <1>24, <2>3
    <3>2. t.nodes[B[i]].key = t.nodes[i].parent
      BY <1>18, <1>24, <3>1
    <3>3. t.nodes[i].depth = t.nodes[B[i]].depth + 1
      BY <1>19, <1>24, <3>1
    <3>4. t.nodes[B[i]].message.MessageID \in
            {t.nodes[i].message.InReplyTo}
              \cup {t.nodes[i].message.References[k] : k \in DOMAIN t.nodes[i].message.References}
      <4>1. t.nodes[B[i]].message = ordered[B[i]] /\ t.nodes[i].message = ordered[i]
        BY <1>24, <3>1
      <4>2. ordered[B[i]].MessageID \in
              {ordered[i].InReplyTo} \cup {ordered[i].References[k] : k \in DOMAIN ordered[i].References}
        BY <1>21, <3>1
      <4>3. QED
        BY <4>1, <4>2
    <3>5. QED
      BY <3>1, <3>2, <3>3, <3>4
  <2>4. QED
    BY <2>1, <2>2, <2>3
<1>26. KeepsLinks(t, ms)
  <2> SUFFICES ASSUME ~TruncatedThread(t)
               PROVE  /\ Len(t.nodes) = Len(ms)
                      /\ \A i, j \in 1 .. n :
                           /\ t.nodes[j].message.MessageID # 0
                           /\ \/ \E k \in DOMAIN t.nodes[i].message.References :
                                   t.nodes[i].message.References[k] = t.nodes[j].message.MessageID
                              \/ t.nodes[i].message.References = <<>>
                                 /\ t.nodes[i].message.InReplyTo = t.nodes[j].message.MessageID
                           => t.nodes[i].parent # <<>>
    BY <1>22 DEF KeepsLinks
  <2>1. ~t.messages /\ ~t.references /\ ~t.cycle /\ ~t.depth
    BY DEF TruncatedThread
  <2>2. ~(Len(ms) > limit)
    BY <1>2, <2>1
  <2>3. Len(t.nodes) = Len(ms)
    <3>1. Len(t.nodes) = n
      BY <1>2, <1>3
    <3>2. QED
      BY <1>1, <2>2, <3>1
  <2>4. \A i \in 1 .. n : ~(Len(ordered[i].References) > maxRefs)
    BY <1>2, <1>3, <2>1
  <2>5. \A i \in 1 .. n : B[i] = parentFor(ordered[i], ordered, maxRefs)
    BY <1>2, <1>12, <1>13, <2>1
  <2>6. ASSUME NEW i \in 1 .. n, NEW j \in 1 .. n, ordered[j].MessageID # 0,
               \/ \E k \in DOMAIN ordered[i].References : ordered[i].References[k] = ordered[j].MessageID
               \/ ordered[i].References = <<>> /\ ordered[i].InReplyTo = ordered[j].MessageID
        PROVE  Pa(i) # <<>>
    <3> DEFINE m == ordered[i]
    <3>1. m \in ThreadMessages
      BY <1>16
    <3>2. Len(m.References) \in Nat
      BY <3>1 DEF ThreadMessages
    <3>3. Len(m.References) <= maxRefs
      <4> DEFINE x == Len(m.References)
      <4>1. x \in Nat /\ ~(x > maxRefs)
        BY <2>4, <3>2
      <4> HIDE DEF x
      <4>2. x <= maxRefs
        BY <4>1
      <4>3. QED
        BY <4>2 DEF x
    <3>4. parentFor(m, ordered, maxRefs) > 0
      <4>1. \A k \in 1 .. n :
              /\ ordered[k].MessageID # 0
              /\ \/ \E l \in DOMAIN m.References : m.References[l] = ordered[k].MessageID
                 \/ m.References = <<>> /\ m.InReplyTo = ordered[k].MessageID
              => parentFor(m, ordered, maxRefs) > 0
        <5> HIDE DEF m
        <5>1. QED
          BY <1>1, <3>1, <3>3, ParentNamed DEF n
      <4>2. QED
        BY <2>6, <4>1
    <3>5. B[i] # 0
      BY <2>5, <3>4
    <3>6. QED
      BY <1>18, <3>5
  <2>7. QED
    BY <1>24, <2>3, <2>6
<1>27. NodesFrom(t, ms)
  <2>1. t.nodes \in Seq([key : Places, message : ThreadMessages, depth : Nat, parent : {<<>>} \cup Places])
    <3> DEFINE S == [key : Places, message : ThreadMessages, depth : Nat, parent : {<<>>} \cup Places]
    <3>1. \A i \in 1 .. n : node(i) \in S
      BY <1>16, <1>18, <1>19 DEF node
    <3>2. t.nodes = [i \in 1 .. n |-> node(i)]
      BY <1>2, <1>3
    <3> HIDE DEF S
    <3>3. t.nodes \in Seq(S)
      BY <1>3, <3>1, <3>2
    <3>4. QED
      BY <3>3 DEF S
  <2>2. ASSUME NEW i \in 1 .. n
        PROVE  (\E j \in DOMAIN ms : t.nodes[i].message = ms[j]) /\ t.nodes[i].key[1] = Base(t.nodes[i].message)
    <3>1. t.nodes[i].key = keys[i] /\ t.nodes[i].message = ordered[i]
      BY <1>24
    <3>2. keys[i][1] = Base(ordered[i])
      BY <1>14
    <3>3. \E j \in DOMAIN ms : ordered[i] = ms[j]
      BY <1>1, <1>3
    <3>4. QED
      BY <3>1, <3>2, <3>3
  <2>3. ASSUME ~TruncatedThread(t), NEW j \in DOMAIN ms PROVE \E i \in 1 .. n : t.nodes[i].message = ms[j]
    <3>1. ~t.messages
      BY <2>3 DEF TruncatedThread
    <3>2. ~(Len(ms) > limit)
      BY <1>2, <3>1
    <3>3. Len(ms) <= limit
      BY <1>3, <3>2
    <3>4. PICK k \in 1 .. n : ordered[k] = ms[j]
      BY <1>1, <1>3, <3>3
    <3>5. QED
      BY <1>24, <3>4
  <2>4. QED
    BY <1>22, <2>1, <2>2, <2>3 DEF NodesFrom
<1>28. QED
  BY <1>25, <1>26, <1>27 DEF t

-----------------------------------------------------------------------------
(* Tools: pages, lists and what is left of them.                           *)

\* Identities a server of this mailbox may have issued.
Ids == [gen : 1 .. 2, uid : UIDs]

\* What a read tool lists under an identity is what the identity names.
ReadItems == {Item(id) : id \in Ids}

\* Results that list elements of S.
Results(S) == [items : Seq(S), extras : Nat, truncated : BOOLEAN]

\* The identities some items have.
Identities(items) == {items[i].id : i \in DOMAIN items}

\* A page lists matching messages, all of them when it is not cut.
LEMMA PageIs ==
  ASSUME NEW M \in SUBSET Nat, IsFiniteSet(M), NEW n \in Nat
  PROVE  /\ SearchPage(M, n).messages \in Seq([gen : {box.gen}, uid : M])
         /\ SearchPage(M, n).truncated \in BOOLEAN
         /\ ~SearchPage(M, n).truncated => \A u \in M :
              \E i \in DOMAIN SearchPage(M, n).messages :
                SearchPage(M, n).messages[i] = [gen |-> box.gen, uid |-> u]
<1> DEFINE c == Cardinality(M)  most == IF n < c THEN n ELSE c
           R == {p \in M \X M : p[1] > p[2]}
           q == [i \in 1 .. most |-> [gen |-> box.gen, uid |-> Newest(M, i)]]
<1>1. c \in Nat
  BY FS_CardinalityType
<1>2. SearchPage(M, n).messages = q /\ SearchPage(M, n).truncated = (most < c)
  BY DEF SearchPage
<1>3. most \in Nat /\ most <= c
  BY <1>1
<1>4. TotalOrder(M, R)
  <2>1. \A x, y : <<x, y>> \in R <=> x \in M /\ y \in M /\ x > y
    OBVIOUS
  <2> HIDE DEF R
  <2>2. QED
    BY <2>1 DEF TotalOrder
<1>5. \A u \in M : {v \in M : v > u} = Before(M, R, u)
  BY DEF Before
<1> HIDE DEF R, c
<1>6. ASSUME NEW k \in 1 .. c PROVE Newest(M, k) \in M /\ Cardinality(Before(M, R, Newest(M, k))) = k - 1
  <2>1. PICK u \in M : Cardinality(Before(M, R, u)) = k - 1
    BY <1>4, PlaceTaken DEF c
  <2>2. Cardinality({v \in M : v > u}) = k - 1
    BY <1>5, <2>1
  <2>3. Newest(M, k) \in M /\ Cardinality({v \in M : v > Newest(M, k)}) = k - 1
    BY <2>2 DEF Newest
  <2>4. QED
    BY <1>5, <2>3
<1>7. \A k \in 1 .. most : k \in 1 .. c /\ Newest(M, k) \in M
  <2>1. \A k \in 1 .. most : k \in 1 .. c
    BY <1>1, <1>3
  <2>2. QED
    BY <1>6, <2>1
<1>8. q \in Seq([gen : {box.gen}, uid : M]) /\ DOMAIN q = 1 .. most
  <2>1. \A i \in 1 .. most : [gen |-> box.gen, uid |-> Newest(M, i)] \in [gen : {box.gen}, uid : M]
    BY <1>7
  <2> HIDE DEF most
  <2>2. QED
    BY <1>3, <2>1
<1>9. ASSUME ~(most < c), NEW u \in M PROVE \E i \in 1 .. most : q[i] = [gen |-> box.gen, uid |-> u]
  <2> DEFINE a == Cardinality(Before(M, R, u))
  <2>1. a + 1 \in 1 .. c /\ a \in Nat
    <3>1. a \in Nat
      BY FS_Subset, FS_CardinalityType DEF Before
    <3>2. QED
      BY <1>4, <3>1, BeforeRange DEF c
  <2> HIDE DEF a
  <2>2. most = c
    BY <1>1, <1>3, <1>9
  <2>3. a + 1 \in 1 .. most
    BY <2>1, <2>2
  <2>4. Newest(M, a + 1) \in M /\ Cardinality(Before(M, R, Newest(M, a + 1))) = (a + 1) - 1
    BY <1>6, <2>1
  <2>5. Cardinality(Before(M, R, Newest(M, a + 1))) = a
    BY <2>1, <2>4
  <2>6. Newest(M, a + 1) = u
    BY <1>4, <2>4, <2>5, PlaceOwn DEF a
  <2>7. q[a + 1] = [gen |-> box.gen, uid |-> u]
    BY <2>3, <2>6
  <2>8. QED
    BY <2>3, <2>7
<1> HIDE DEF q, most
<1> DEFINE pg == SearchPage(M, n)
<1>10. pg.messages = q /\ pg.truncated \in BOOLEAN /\ (~pg.truncated => ~(most < c))
  <2>1. (most < c) \in BOOLEAN
    OBVIOUS
  <2>2. QED
    BY <1>2, <2>1
<1> HIDE DEF pg
<1>11. pg.messages \in Seq([gen : {box.gen}, uid : M]) /\ DOMAIN pg.messages = 1 .. most
  BY <1>8, <1>10
<1>12. ~pg.truncated => \A u \in M : \E i \in DOMAIN pg.messages : pg.messages[i] = [gen |-> box.gen, uid |-> u]
  BY <1>9, <1>10, <1>11
<1>13. QED
  BY <1>10, <1>11, <1>12 DEF pg

\* flatMessageResults lists what the page does, and says when it does not.
LEMMA FlatIs ==
  ASSUME NEW page, page.messages \in Seq(Ids), page.truncated \in BOOLEAN, NEW limit \in Nat
  PROVE  /\ flatMessageResults(page, limit) \in Results(ReadItems)
         /\ ~flatMessageResults(page, limit).truncated =>
              /\ ~page.truncated
              /\ \A i \in DOMAIN page.messages :
                   page.messages[i] \in Identities(flatMessageResults(page, limit).items)
<1> DEFINE n == Len(page.messages)  o == IF n > limit THEN limit ELSE n
           q == [i \in 1 .. o |-> Item(page.messages[i])]
           f == flatMessageResults(page, limit)
<1>1. n \in Nat /\ DOMAIN page.messages = 1 .. n
  OBVIOUS
<1>2. o \in Nat /\ o <= n
  BY <1>1
<1>3. f = [items |-> q, extras |-> 0, truncated |-> page.truncated \/ n > limit]
  BY DEF flatMessageResults
<1>4. \A i \in 1 .. o : i \in 1 .. n
  BY <1>1, <1>2
<1>5. \A i \in 1 .. o : Item(page.messages[i]) \in ReadItems
  BY <1>1, <1>4 DEF ReadItems
<1> HIDE DEF o
<1>6. q \in Seq(ReadItems)
  BY <1>2, <1>5
<1> HIDE DEF n, f
<1>7. (page.truncated \/ n > limit) \in BOOLEAN
  OBVIOUS
<1>8. f \in Results(ReadItems)
  <2> HIDE DEF q
  <2>1. QED
    BY <1>3, <1>6, <1>7 DEF Results
<1>9. f.items = q /\ f.truncated = (page.truncated \/ n > limit)
  BY <1>3
<1>10. ASSUME ~f.truncated
       PROVE  ~page.truncated /\ \A i \in DOMAIN page.messages : page.messages[i] \in Identities(f.items)
  <2>1. ~page.truncated /\ ~(n > limit)
    BY <1>9, <1>10
  <2>2. o = n
    BY <2>1 DEF o
  <2>3. \A i \in 1 .. n : q[i].id = page.messages[i]
    BY <2>2 DEF Item
  <2>4. DOMAIN q = 1 .. n
    BY <2>2
  <2> HIDE DEF q
  <2>5. QED
    BY <1>1, <1>9, <2>1, <2>3, <2>4 DEF Identities
<1>11. QED
  BY <1>8, <1>10 DEF f

\* Halving never adds.
LEMMA HalvedIs ==
  ASSUME NEW n \in Nat, NEW up, NEW most, NEW least \in Nat
  PROVE  Halved(n, up, most, least) \in 0 .. n
<1>1. CASE n <= least
  BY <1>1 DEF Halved
<1>2. CASE ~(n <= least)
  <2> DEFINE S == {least} \cup {m \in Halves(n, up) : m <= most}
  <2>1. S \in SUBSET (0 .. n) /\ S # {}
    <3>1. Halves(n, up) \subseteq 0 .. n
      BY DEF Halves
    <3>2. least \in 0 .. n
      BY <1>2
    <3>3. QED
      BY <3>1, <3>2
  <2>2. Halved(n, up, most, least) = Max(S)
    BY <1>2 DEF Halved
  <2> HIDE DEF S
  <2>3. QED
    BY <2>1, <2>2, GreatestNat
<1>3. QED
  BY <1>1, <1>2

\* What shrinking leaves: a prefix, all of it unless it says so, and all
\* items of a message tool.
LEMMA ShrunkIs ==
  ASSUME NEW S, NEW r \in Results(S), NEW room
  PROVE  /\ Shrunk(r, room) \in Results(S)
         /\ Identity => Shrunk(r, room).items = r.items
         /\ ~Shrunk(r, room).truncated =>
              ~r.truncated /\ Shrunk(r, room).items = r.items /\ Shrunk(r, room).extras = r.extras
<1> DEFINE isThread == call.tool = "get_thread"
           x == Halved(r.extras, FALSE, room - Len(r.items), 0)
           count == IF Identity THEN Len(r.items)
                    ELSE Halved(Len(r.items), isThread, room - x, IF isThread THEN 1 ELSE 0)
           q == [i \in 1 .. count |-> r.items[i]]
           s == Shrunk(r, room)
<1>1. s = [items |-> q, extras |-> x, truncated |-> r.truncated \/ q # r.items \/ x # r.extras]
  BY DEF Shrunk
<1>2. r.items \in Seq(S) /\ r.extras \in Nat /\ r.truncated \in BOOLEAN
  BY DEF Results
<1>3. Len(r.items) \in Nat /\ DOMAIN r.items = 1 .. Len(r.items)
      /\ r.items = [i \in 1 .. Len(r.items) |-> r.items[i]]
  BY <1>2
<1>4. x \in Nat
  <2>1. x \in 0 .. r.extras
    BY <1>2, HalvedIs
  <2> HIDE DEF x
  <2>2. QED
    BY <1>2, <2>1
<1> HIDE DEF x
<1>5. count \in 0 .. Len(r.items)
  <2>1. CASE Identity
    BY <1>3, <2>1
  <2>2. CASE ~Identity
    <3> DEFINE l == IF isThread THEN 1 ELSE 0
    <3>1. l \in Nat /\ count = Halved(Len(r.items), isThread, room - x, l)
      BY <2>2
    <3> HIDE DEF l, count, isThread
    <3>2. QED
      BY <1>3, <3>1, HalvedIs
  <2>3. QED
    BY <2>1, <2>2
<1>6. Identity => q = r.items
  BY <1>3
<1> HIDE DEF count
<1>7. \A i \in 1 .. count : r.items[i] \in S
  <2>1. \A i \in 1 .. count : i \in 1 .. Len(r.items)
    BY <1>3, <1>5
  <2>2. QED
    BY <1>2, <1>3, <2>1
<1>8. q \in Seq(S)
  BY <1>3, <1>5, <1>7
<1> HIDE DEF q, s
<1>9. (r.truncated \/ q # r.items \/ x # r.extras) \in BOOLEAN
  OBVIOUS
<1>10. s \in Results(S)
  BY <1>1, <1>4, <1>8, <1>9 DEF Results
<1>11. s.items = q /\ s.extras = x /\ s.truncated = (r.truncated \/ q # r.items \/ x # r.extras)
  BY <1>1
<1>12. QED
  BY <1>6, <1>10, <1>11 DEF s

\* What a client gets of a result, triage apart.
LEMMA EncodedIs ==
  ASSUME ToolAssumption, NEW S, NEW r \in Results(S), NEW room \in Rooms, call.tool # "triage"
  PROVE  /\ encodeBounded(r, room).items \in Seq(S)
         /\ Identity /\ encodeBounded(r, room).err = "none" => encodeBounded(r, room).items = r.items
         /\ ~encodeBounded(r, room).truncated /\ encodeBounded(r, room).err = "none" =>
              /\ ~r.truncated
              /\ encodeBounded(r, room).items = r.items /\ encodeBounded(r, room).extras = r.extras
<1> DEFINE s == Shrunk(r, room)  fits == Len(s.items) + s.extras <= room  e == encodeBounded(r, room)
<1>1. /\ s \in Results(S) /\ (Identity => s.items = r.items)
      /\ ~s.truncated => ~r.truncated /\ s.items = r.items /\ s.extras = r.extras
  BY ShrunkIs
<1>2. e = CASE call.tool = "triage" -> Answer(r)
            [] call.tool # "triage" /\ fits -> Answer(s)
            [] Identity /\ ~fits /\ room > -2 -> Answer([r EXCEPT !.extras = 0, !.truncated = TRUE])
            [] Identity /\ ~fits /\ room = -2 -> [NoReply EXCEPT !.err = "bounds_exceeded"]
            [] OTHER -> [NoReply EXCEPT !.truncated = TRUE]
  BY DEF encodeBounded
<1> HIDE DEF s, fits, e
<1>3. r.items \in Seq(S) /\ s.items \in Seq(S)
  BY <1>1 DEF Results
<1>4. room > -2 \/ room = -2
  BY DEF ToolAssumption
<1>5. CASE fits
  <2>1. e = Answer(s)
    BY <1>2, <1>5
  <2>2. e.items = s.items /\ e.extras = s.extras /\ e.truncated = s.truncated
    BY <2>1 DEF Answer
  <2>3. QED
    BY <1>1, <1>3, <2>2 DEF e
<1>6. CASE ~fits /\ Identity /\ room > -2
  <2>1. e = Answer([r EXCEPT !.extras = 0, !.truncated = TRUE])
    BY <1>2, <1>6
  <2>2. e.items = r.items /\ e.truncated = TRUE
    BY <2>1 DEF Answer, Results
  <2>3. QED
    BY <1>3, <2>2 DEF e
<1>7. CASE ~fits /\ Identity /\ room = -2
  <2>1. e = [NoReply EXCEPT !.err = "bounds_exceeded"]
    <3>1. ~(room > -2)
      BY <1>7
    <3>2. QED
      BY <1>2, <1>7, <3>1
  <2>2. e.err = "bounds_exceeded" /\ e.items = <<>>
    BY <2>1 DEF NoReply, Answer, NoResult
  <2>3. <<>> \in Seq(S)
    OBVIOUS
  <2>4. QED
    BY <2>2, <2>3 DEF e
<1>8. CASE ~fits /\ ~Identity
  <2>1. e = [NoReply EXCEPT !.truncated = TRUE]
    BY <1>2, <1>8
  <2>2. e.truncated = TRUE /\ e.items = <<>>
    BY <2>1 DEF NoReply, Answer, NoResult
  <2>3. <<>> \in Seq(S)
    OBVIOUS
  <2>4. QED
    BY <1>8, <2>2, <2>3 DEF e
<1>9. QED
  BY <1>4, <1>5, <1>6, <1>7, <1>8

-----------------------------------------------------------------------------
(* Messages: one step of a walk.                                           *)

\* The states of a walk.
Walks ==
  [parts : Nat, open : Nat, attachments : Seq(Nat), text : Nat, source : {"none", "plain", "html"},
   flags : SUBSET {"Attachments", "Text", "MIMEDepth", "MIMEParts"},
   err : {"none", "malformed_mime", "malformed_encoding"}, stopped : BOOLEAN]

\* A container whose parts are walked.
Opens(e) == e.depth <= MaxMIMEDepth /\ e.kind = "multipart" /\ ~e.attached

\* What the entity after e may belong to.
NextOpen(e) == IF Opens(e) THEN e.depth + 1 ELSE e.depth

\* The attachments after entity i, and the source of text.
NextAttachments(a, e, i) ==
  IF e.depth <= MaxMIMEDepth /\ e.attached /\ Len(a) < MaxAttachmentCount THEN Append(a, i) ELSE a

NextSource(s, e) ==
  IF e.depth <= MaxMIMEDepth /\ ~e.attached /\ (e.kind = "plain" \/ (e.kind = "html" /\ s = "none"))
  THEN (IF s = "plain" THEN s ELSE e.kind) ELSE s

\* What every step of a walk does to an entity it visits, unless it fails.
Stepped(w, v, e, i) ==
  /\ v.open = NextOpen(e) /\ v.attachments = NextAttachments(w.attachments, e, i)
  /\ v.flags = {} => /\ e.depth <= MaxMIMEDepth /\ (e.attached => Len(w.attachments) < MaxAttachmentCount)
                     /\ ~v.stopped

\* appendAttachment appends while there is room, and says when there is not.
LEMMA AttachmentStep ==
  ASSUME MimeAssumption, NEW w \in Walks, NEW e \in Entities, NEW i \in Nat
  PROVE  LET v == appendAttachment(w, e, i) IN
         /\ v \in Walks /\ w.flags \subseteq v.flags
         /\ v.err = w.err /\ v.open = w.open /\ v.parts = w.parts /\ v.stopped = w.stopped /\ v.source = w.source
         /\ v.attachments = IF Len(w.attachments) < MaxAttachmentCount THEN Append(w.attachments, i) ELSE w.attachments
         /\ v.flags = {} => Len(w.attachments) < MaxAttachmentCount
<1> DEFINE v == appendAttachment(w, e, i)
<1>1. Len(w.attachments) \in Nat /\ MaxAttachmentCount \in Nat
  BY DEF Walks, MimeAssumption
<1>2. CASE Len(w.attachments) >= MaxAttachmentCount
  <2>1. v = [w EXCEPT !.flags = @ \cup {"Attachments"}]
    BY <1>2 DEF appendAttachment
  <2>2. ~(Len(w.attachments) < MaxAttachmentCount)
    BY <1>1, <1>2
  <2>3. v \in Walks
    BY <2>1 DEF Walks
  <2>4. /\ v.flags = w.flags \cup {"Attachments"} /\ v.err = w.err /\ v.open = w.open /\ v.parts = w.parts
        /\ v.stopped = w.stopped /\ v.source = w.source /\ v.attachments = w.attachments
    BY <2>1 DEF Walks
  <2> HIDE DEF v
  <2>5. QED
    BY <2>2, <2>3, <2>4 DEF v
<1>3. CASE ~(Len(w.attachments) >= MaxAttachmentCount)
  <2> DEFINE a == Append(w.attachments, i)  x == IF e.long THEN {"Attachments"} ELSE {}
  <2>1. v = [w EXCEPT !.attachments = a, !.flags = @ \cup x]
    BY <1>3 DEF appendAttachment
  <2>2. Len(w.attachments) < MaxAttachmentCount
    BY <1>1, <1>3
  <2>3. a \in Seq(Nat) /\ x \subseteq {"Attachments"}
    BY DEF Walks
  <2> HIDE DEF a, x
  <2>4. v \in Walks
    BY <2>1, <2>3 DEF Walks
  <2>5. /\ v.flags = w.flags \cup x /\ v.err = w.err /\ v.open = w.open /\ v.parts = w.parts
        /\ v.stopped = w.stopped /\ v.source = w.source /\ v.attachments = a
    BY <2>1 DEF Walks
  <2> HIDE DEF v
  <2>6. QED
    BY <2>2, <2>4, <2>5 DEF v, a
<1>4. QED
  BY <1>2, <1>3

\* What looking at an entity within the depth limit does.
Looked(w, v, e, i) ==
  /\ v \in Walks /\ w.flags \subseteq v.flags /\ v.parts = w.parts /\ v.stopped = w.stopped
  /\ v.err = "none" =>
       /\ v.open = NextOpen(e) /\ v.attachments = NextAttachments(w.attachments, e, i)
       /\ v.flags = {} /\ e.attached => Len(w.attachments) < MaxAttachmentCount

\* An attachment, in either walk.
LEMMA LookAttachment ==
  ASSUME MimeAssumption, NEW w \in Walks, NEW e \in Entities, NEW i \in Nat,
         e.depth <= MaxMIMEDepth, w.open = e.depth, e.attached
  PROVE  /\ Looked(w, appendAttachment(w, e, i), e, i)
         /\ appendAttachment(w, e, i).source = NextSource(w.source, e)
<1> DEFINE v == appendAttachment(w, e, i)
<1>1. /\ v \in Walks /\ w.flags \subseteq v.flags
      /\ v.err = w.err /\ v.open = w.open /\ v.parts = w.parts /\ v.stopped = w.stopped /\ v.source = w.source
      /\ v.attachments = IF Len(w.attachments) < MaxAttachmentCount THEN Append(w.attachments, i) ELSE w.attachments
      /\ v.flags = {} => Len(w.attachments) < MaxAttachmentCount
  BY AttachmentStep
<1> HIDE DEF v
<1>2. NextOpen(e) = e.depth /\ NextSource(w.source, e) = w.source
  BY DEF NextOpen, Opens, NextSource
<1>3. v.attachments = NextAttachments(w.attachments, e, i)
  BY <1>1 DEF NextAttachments
<1>4. QED
  BY <1>1, <1>2, <1>3 DEF Looked, v

\* Anything else that does not open: only flags, text or an error.
LEMMA LookPlain ==
  ASSUME NEW w \in Walks, NEW e \in Entities, NEW i \in Nat, w.open = e.depth, ~e.attached, ~Opens(e),
         NEW v \in Walks, w.flags \subseteq v.flags, v.parts = w.parts, v.stopped = w.stopped,
         v.open = w.open, v.attachments = w.attachments
  PROVE  Looked(w, v, e, i)
<1>1. NextOpen(e) = e.depth /\ NextAttachments(w.attachments, e, i) = w.attachments
  BY DEF NextOpen, NextAttachments
<1>2. QED
  BY <1>1 DEF Looked

\* An entity that fails.
Fails(w, v) == \E c \in {"malformed_mime", "malformed_encoding"} : v = [w EXCEPT !.err = c]

\* Then nothing else is said of the walk.
LEMMA LookFails ==
  ASSUME NEW w \in Walks, NEW e, NEW i, NEW v, Fails(w, v)
  PROVE  Looked(w, v, e, i) /\ v.err # "none"
<1>1. PICK c \in {"malformed_mime", "malformed_encoding"} : v = [w EXCEPT !.err = c]
  BY DEF Fails
<1>2. v \in Walks
  BY <1>1 DEF Walks
<1>3. v.flags = w.flags /\ v.parts = w.parts /\ v.stopped = w.stopped /\ v.err = c
  BY <1>1 DEF Walks
<1>4. v.err # "none"
  BY <1>3
<1>5. QED
  BY <1>2, <1>3, <1>4 DEF Looked

\* A container that is walked.
LEMMA LookOpens ==
  ASSUME NEW w \in Walks, NEW e \in Entities, NEW i, Opens(e)
  PROVE  /\ Looked(w, [w EXCEPT !.open = e.depth + 1], e, i)
         /\ [w EXCEPT !.open = e.depth + 1].source = NextSource(w.source, e)
         /\ [w EXCEPT !.open = e.depth + 1].err = w.err /\ [w EXCEPT !.open = e.depth + 1].flags = w.flags
<1> DEFINE v == [w EXCEPT !.open = e.depth + 1]
<1>1. e.depth + 1 \in Nat
  BY DEF Entities
<1>2. v \in Walks
  BY <1>1 DEF Walks
<1>3. /\ v.flags = w.flags /\ v.parts = w.parts /\ v.stopped = w.stopped /\ v.err = w.err /\ v.source = w.source
      /\ v.attachments = w.attachments /\ v.open = e.depth + 1
  BY DEF Walks
<1>4. NextOpen(e) = e.depth + 1 /\ NextAttachments(w.attachments, e, i) = w.attachments
      /\ NextSource(w.source, e) = w.source /\ ~e.attached
  BY DEF NextOpen, NextAttachments, NextSource, Opens
<1> HIDE DEF v
<1>5. QED
  BY <1>2, <1>3, <1>4 DEF Looked, v

\* A flag for what is not looked into.
LEMMA LookFlags ==
  ASSUME NEW w \in Walks, NEW e \in Entities, NEW i \in Nat, w.open = e.depth, ~e.attached, ~Opens(e),
         NEW c \in {"Text", "MIMEDepth"}
  PROVE  /\ Looked(w, [w EXCEPT !.flags = @ \cup {c}], e, i)
         /\ [w EXCEPT !.flags = @ \cup {c}].source = w.source
         /\ [w EXCEPT !.flags = @ \cup {c}].err = w.err /\ [w EXCEPT !.flags = @ \cup {c}].flags # {}
<1> DEFINE v == [w EXCEPT !.flags = @ \cup {c}]
<1>1. v \in Walks
  BY DEF Walks
<1>2. /\ v.flags = w.flags \cup {c} /\ v.parts = w.parts /\ v.stopped = w.stopped /\ v.err = w.err
      /\ v.source = w.source /\ v.attachments = w.attachments /\ v.open = w.open
  BY DEF Walks
<1> HIDE DEF v
<1>3. Looked(w, v, e, i)
  BY <1>1, <1>2, LookPlain
<1>4. QED
  BY <1>2, <1>3 DEF v

\* Text that decodes.
LEMMA LookText ==
  ASSUME MimeAssumption, NEW w \in Walks, NEW e \in Entities, NEW i \in Nat,
         w.open = e.depth, ~e.attached, e.depth <= MaxMIMEDepth, e.kind \in {"plain", "html"}
  PROVE  Looked(w, takeText(w, e), e, i) /\ takeText(w, e).source = NextSource(w.source, e)
<1> DEFINE kept == IF e.bytes > MaxDecodedTextBytes THEN MaxDecodedTextBytes ELSE e.bytes
           x == IF e.bytes > MaxDecodedTextBytes THEN {"Text"} ELSE {}
           f == [w EXCEPT !.flags = @ \cup x]
           v == takeText(w, e)
<1>1. kept \in Nat /\ x \subseteq {"Text"}
  BY DEF Entities, MimeAssumption
<1>2. v = IF w.source = "none" \/ (e.kind = "plain" /\ w.source = "html")
          THEN [f EXCEPT !.source = e.kind, !.text = kept] ELSE f
  BY DEF takeText
<1> HIDE DEF x, kept
<1>3. f \in Walks /\ f.flags = w.flags \cup x /\ f.parts = w.parts /\ f.stopped = w.stopped
      /\ f.source = w.source /\ f.attachments = w.attachments /\ f.open = w.open
  BY <1>1 DEF Walks
<1>4. ~Opens(e) /\ w.source \in {"none", "plain", "html"}
  BY DEF Opens, Walks
<1> HIDE DEF f, v
<1>5. CASE w.source = "none" \/ (e.kind = "plain" /\ w.source = "html")
  <2>1. v = [f EXCEPT !.source = e.kind, !.text = kept]
    BY <1>2, <1>5
  <2>2. v \in Walks /\ v.flags = f.flags /\ v.parts = f.parts /\ v.stopped = f.stopped
        /\ v.source = e.kind /\ v.attachments = f.attachments /\ v.open = f.open
    BY <1>1, <1>3, <2>1 DEF Walks
  <2>3. NextSource(w.source, e) = e.kind
    BY <1>5 DEF NextSource
  <2>4. Looked(w, v, e, i)
    BY <1>3, <1>4, <2>2, LookPlain
  <2>5. QED
    BY <2>2, <2>3, <2>4 DEF v
<1>6. CASE ~(w.source = "none" \/ (e.kind = "plain" /\ w.source = "html"))
  <2>1. v = f
    BY <1>2, <1>6
  <2>2. NextSource(w.source, e) = w.source
    BY <1>4, <1>6 DEF NextSource
  <2>3. Looked(w, v, e, i)
    BY <1>3, <1>4, <2>1, LookPlain
  <2>4. QED
    BY <1>3, <2>1, <2>2, <2>3 DEF v
<1>7. QED
  BY <1>5, <1>6

\* The entity itself, in the walk of the body.
LEMMA CollectStep ==
  ASSUME MimeAssumption, NEW w \in Walks, NEW e \in Entities, NEW i \in Nat,
         e.depth <= MaxMIMEDepth, w.open = e.depth
  PROVE  /\ Looked(w, collect(w, e, i), e, i)
         /\ collect(w, e, i).err = "none" => collect(w, e, i).source = NextSource(w.source, e)
<1> DEFINE v == collect(w, e, i)
<1>1. e.kind \in {"multipart", "rfc822", "global", "plain", "html", "other"}
  BY DEF Entities
<1>2. Looked(w, w, e, i) \/ e.attached \/ Opens(e)
  BY LookPlain
<1>3. CASE e.bad = "type"
  <2>1. v = [w EXCEPT !.err = "malformed_mime"]
    BY <1>3 DEF collect
  <2>2. Looked(w, v, e, i) /\ v.err # "none"
    <3>1. Fails(w, v)
      BY <2>1 DEF Fails
    <3> HIDE DEF v
    <3>2. QED
      BY <3>1, LookFails
  <2> HIDE DEF v
  <2>3. QED
    BY <2>2 DEF v
<1>4. CASE e.bad # "type" /\ e.attached
  <2>1. v = appendAttachment(w, e, i)
    BY <1>4 DEF collect
  <2>2. QED
    BY <1>4, <2>1, LookAttachment
<1>5. CASE e.bad # "type" /\ ~e.attached /\ e.kind = "multipart"
  <2>1. v = IF e.bad = "boundary" THEN [w EXCEPT !.err = "malformed_mime"] ELSE [w EXCEPT !.open = e.depth + 1]
    BY <1>5 DEF collect
  <2>2. Opens(e)
    BY <1>5 DEF Opens
  <2>3. CASE e.bad = "boundary"
    <3>1. v = [w EXCEPT !.err = "malformed_mime"]
      BY <2>1, <2>3
    <3>2. Looked(w, v, e, i) /\ v.err # "none"
      <4>1. Fails(w, v)
        BY <3>1 DEF Fails
      <4> HIDE DEF v
      <4>2. QED
        BY <4>1, LookFails
    <3> HIDE DEF v
    <3>3. QED
      BY <3>2 DEF v
  <2>4. CASE e.bad # "boundary"
    BY <2>1, <2>2, <2>4, LookOpens
  <2>5. QED
    BY <2>3, <2>4
<1>6. CASE e.bad # "type" /\ ~e.attached /\ e.kind = "rfc822"
  <2>1. v = [w EXCEPT !.flags = @ \cup {"MIMEDepth"}]
    BY <1>6 DEF collect
  <2>2. ~Opens(e) /\ NextSource(w.source, e) = w.source
    BY <1>6 DEF Opens, NextSource
  <2>3. QED
    BY <1>6, <2>1, <2>2, LookFlags
<1>7. CASE e.bad # "type" /\ ~e.attached /\ e.kind \in {"plain", "html"}
  <2>1. v = IF e.bad = "text" THEN [w EXCEPT !.err = "malformed_encoding"] ELSE takeText(w, e)
    BY <1>7 DEF collect
  <2>2. CASE e.bad = "text"
    <3>1. Fails(w, v)
      BY <2>1, <2>2 DEF Fails
    <3> HIDE DEF v
    <3>2. Looked(w, v, e, i) /\ v.err # "none"
      BY <3>1, LookFails
    <3>3. QED
      BY <3>2 DEF v
  <2>3. CASE e.bad # "text"
    BY <1>7, <2>1, <2>3, LookText
  <2>4. QED
    BY <2>2, <2>3
<1>8. CASE e.bad # "type" /\ ~e.attached /\ e.kind \in {"global", "other"}
  <2>1. v = w
    BY <1>8 DEF collect
  <2>2. ~Opens(e) /\ NextSource(w.source, e) = w.source
    BY <1>8 DEF Opens, NextSource
  <2>3. QED
    BY <1>2, <1>8, <2>1, <2>2
<1>9. QED
  BY <1>1, <1>3, <1>4, <1>5, <1>6, <1>7, <1>8

\* The entity itself, in the walk of the structure.
LEMMA ProjectStep ==
  ASSUME MimeAssumption, NEW w \in Walks, NEW e \in Entities, NEW i \in Nat,
         e.depth <= MaxMIMEDepth, w.open = e.depth
  PROVE  /\ Looked(w, project(w, e, i), e, i)
         /\ project(w, e, i).err = "none" /\ project(w, e, i).flags = {} =>
              e.attached \/ e.kind \notin {"rfc822", "global"}
<1> DEFINE v == project(w, e, i)
<1>1. e.kind \in {"multipart", "rfc822", "global", "plain", "html", "other"} /\ ~(e.depth > MaxMIMEDepth)
  BY DEF Entities, MimeAssumption
<1>2. Looked(w, w, e, i) \/ e.attached \/ Opens(e)
  BY LookPlain
<1>3. CASE e.bad = "type"
  <2>1. v = [w EXCEPT !.err = "malformed_mime"]
    BY <1>1, <1>3 DEF project
  <2>2. Looked(w, v, e, i) /\ v.err # "none"
    <3>1. Fails(w, v)
      BY <2>1 DEF Fails
    <3> HIDE DEF v
    <3>2. QED
      BY <3>1, LookFails
  <2> HIDE DEF v
  <2>3. QED
    BY <2>2 DEF v
<1>4. CASE e.bad # "type" /\ e.attached
  <2>1. v = appendAttachment(w, e, i)
    BY <1>1, <1>4 DEF project
  <2>2. QED
    BY <1>4, <2>1, LookAttachment
<1>5. CASE e.bad # "type" /\ ~e.attached /\ e.kind = "multipart"
  <2>1. v = [w EXCEPT !.open = e.depth + 1]
    BY <1>1, <1>5 DEF project
  <2>2. Opens(e)
    BY <1>5 DEF Opens
  <2>3. QED
    BY <1>5, <2>1, <2>2, LookOpens
<1>6. CASE e.bad # "type" /\ ~e.attached /\ e.kind \in {"rfc822", "global"}
  <2>1. v = [w EXCEPT !.flags = @ \cup {"MIMEDepth"}]
    BY <1>1, <1>6 DEF project
  <2>2. ~Opens(e)
    BY <1>6 DEF Opens
  <2>3. QED
    BY <1>6, <2>1, <2>2, LookFlags
<1>7. CASE e.bad # "type" /\ ~e.attached /\ e.kind \in {"plain", "html", "other"}
  <2>1. v = w
    BY <1>1, <1>7 DEF project
  <2>2. ~Opens(e)
    BY <1>7 DEF Opens
  <2>3. QED
    BY <1>2, <1>7, <2>1, <2>2
<1>8. QED
  BY <1>1, <1>3, <1>4, <1>5, <1>6, <1>7

\* What no step undoes.
Kept(w, v) == v \in Walks /\ w.flags \subseteq v.flags /\ (v.err = "none" => w.err = "none")

\* A step of the walk of the body.
Collected(w, v, e, i) ==
  /\ Stepped(w, v, e, i) /\ v.source = NextSource(w.source, e)
  /\ v.parts = IF e.depth > MaxMIMEDepth THEN w.parts ELSE w.parts + 1
  /\ v.stopped <=> v.parts >= MaxMIMEParts /\ (e.depth > 0 \/ v.open > e.depth)

\* A step of the walk of the structure that has not counted to the limit.
Projected(w, v, e, i) ==
  /\ Stepped(w, v, e, i) /\ v.parts = w.parts + 1 /\ ~v.stopped
  /\ v.flags = {} => e.attached \/ e.kind \notin {"rfc822", "global"}

\* parseEntity.
LEMMA BodyStep ==
  ASSUME MimeAssumption, NEW w \in Walks, NEW e \in Entities, NEW i \in Nat
  PROVE  /\ Kept(w, parseEntity(w, e, i))
         /\ ~Visits(w, e) => parseEntity(w, e, i) = w
         /\ Visits(w, e) /\ parseEntity(w, e, i).err = "none" => Collected(w, parseEntity(w, e, i), e, i)
<1> DEFINE v == parseEntity(w, e, i)
<1>1. CASE ~Visits(w, e)
  <2>1. v = w
    BY <1>1 DEF parseEntity
  <2> HIDE DEF v
  <2>2. QED
    BY <1>1, <2>1 DEF Kept, v
<1>2. CASE Visits(w, e)
  <2> DEFINE c == [w EXCEPT !.open = e.depth, !.parts = @ + 1]
             seen == IF e.depth > MaxMIMEDepth
                     THEN [w EXCEPT !.open = e.depth, !.flags = @ \cup {"MIMEDepth"}]
                     ELSE collect(c, e, i)
  <2>1. v = IF PartsSpent(seen, e)
            THEN [seen EXCEPT !.stopped = TRUE, !.flags = @ \cup {"MIMEParts"}] ELSE seen
    BY <1>2 DEF parseEntity
  <2>2. e.depth \in Nat /\ w.parts + 1 \in Nat /\ MaxMIMEDepth \in Nat /\ w.err = "none" /\ ~w.stopped
        /\ w.stopped \in BOOLEAN
    BY <1>2 DEF Entities, Walks, MimeAssumption, Visits
  <2>3. /\ seen \in Walks /\ w.flags \subseteq seen.flags /\ ~seen.stopped
        /\ seen.err = "none" =>
             /\ seen.open = NextOpen(e) /\ seen.attachments = NextAttachments(w.attachments, e, i)
             /\ seen.parts = IF e.depth > MaxMIMEDepth THEN w.parts ELSE w.parts + 1
             /\ seen.source = NextSource(w.source, e)
             /\ seen.flags = {} =>
                  e.depth <= MaxMIMEDepth /\ (e.attached => Len(w.attachments) < MaxAttachmentCount)
    <3>1. CASE e.depth > MaxMIMEDepth
      <4>1. seen = [w EXCEPT !.open = e.depth, !.flags = @ \cup {"MIMEDepth"}] /\ ~(e.depth <= MaxMIMEDepth)
        BY <2>2, <3>1
      <4> HIDE DEF seen
      <4>2. seen \in Walks /\ seen.flags = w.flags \cup {"MIMEDepth"} /\ seen.parts = w.parts
            /\ seen.stopped = w.stopped /\ seen.source = w.source /\ seen.attachments = w.attachments
            /\ seen.open = e.depth
        BY <2>2, <4>1 DEF Walks
      <4>3. NextOpen(e) = e.depth /\ NextAttachments(w.attachments, e, i) = w.attachments
            /\ NextSource(w.source, e) = w.source
        BY <4>1 DEF NextOpen, Opens, NextAttachments, NextSource
      <4>4. QED
        BY <2>2, <3>1, <4>2, <4>3
    <3>2. CASE ~(e.depth > MaxMIMEDepth)
      <4>1. seen = collect(c, e, i) /\ e.depth <= MaxMIMEDepth
        BY <2>2, <3>2
      <4>2. c \in Walks /\ c.open = e.depth /\ c.parts = w.parts + 1 /\ c.flags = w.flags
            /\ c.stopped = w.stopped /\ c.source = w.source /\ c.attachments = w.attachments
        BY <2>2 DEF Walks
      <4> HIDE DEF seen, c
      <4>3. Looked(c, seen, e, i) /\ (seen.err = "none" => seen.source = NextSource(c.source, e))
        BY <4>1, <4>2, CollectStep
      <4>4. QED
        BY <2>2, <3>2, <4>1, <4>2, <4>3 DEF Looked
    <3>3. QED
      BY <3>1, <3>2
  <2> HIDE DEF seen, v
  <2>4. CASE PartsSpent(seen, e)
    <3>1. v = [seen EXCEPT !.stopped = TRUE, !.flags = @ \cup {"MIMEParts"}]
      BY <2>1, <2>4
    <3>2. v \in Walks /\ v.flags = seen.flags \cup {"MIMEParts"} /\ v.stopped = TRUE /\ v.err = seen.err
          /\ v.open = seen.open /\ v.parts = seen.parts /\ v.attachments = seen.attachments
          /\ v.source = seen.source
      BY <2>3, <3>1 DEF Walks
    <3>3. seen.parts >= MaxMIMEParts /\ (e.depth > 0 \/ seen.open > e.depth)
      BY <2>4 DEF PartsSpent
    <3>4. v.flags # {} /\ Kept(w, v)
      BY <2>2, <2>3, <3>2 DEF Kept
    <3>5. v.err = "none" => Collected(w, v, e, i)
      BY <2>3, <3>2, <3>3, <3>4 DEF Collected, Stepped
    <3>6. QED
      BY <1>2, <3>4, <3>5 DEF v
  <2>5. CASE ~PartsSpent(seen, e)
    <3>1. v = seen
      BY <2>1, <2>5
    <3>2. Kept(w, v)
      BY <2>2, <2>3, <3>1 DEF Kept
    <3>3. v.err = "none" => ~(v.parts >= MaxMIMEParts /\ (e.depth > 0 \/ v.open > e.depth))
      BY <2>5, <3>1 DEF PartsSpent
    <3>4. v.err = "none" => Collected(w, v, e, i)
      BY <2>3, <3>1, <3>3 DEF Collected, Stepped
    <3>5. QED
      BY <1>2, <3>2, <3>4 DEF v
  <2>6. QED
    BY <2>4, <2>5
<1>3. QED
  BY <1>1, <1>2

\* visit.
LEMMA VisitStep ==
  ASSUME MimeAssumption, NEW w \in Walks, NEW e \in Entities, NEW i \in Nat
  PROVE  /\ Kept(w, visit(w, e, i))
         /\ ~Visits(w, e) => visit(w, e, i) = w
         /\ Visits(w, e) /\ e.depth > 0 /\ w.parts >= MaxMIMEParts =>
              /\ visit(w, e, i).stopped /\ visit(w, e, i).flags # {}
              /\ visit(w, e, i).attachments = w.attachments
         /\ Visits(w, e) /\ ~(e.depth > 0 /\ w.parts >= MaxMIMEParts) /\ visit(w, e, i).err = "none" =>
              Projected(w, visit(w, e, i), e, i)
<1> DEFINE v == visit(w, e, i)
<1>1. CASE ~Visits(w, e)
  <2>1. v = w
    BY <1>1 DEF visit
  <2> HIDE DEF v
  <2>2. QED
    BY <1>1, <2>1 DEF Kept, v
<1>2. CASE Visits(w, e) /\ e.depth > 0 /\ w.parts >= MaxMIMEParts
  <2>1. v = [w EXCEPT !.stopped = TRUE, !.flags = @ \cup {"MIMEParts"}]
    BY <1>2 DEF visit
  <2> HIDE DEF v
  <2>2. v \in Walks /\ v.flags = w.flags \cup {"MIMEParts"} /\ v.stopped = TRUE /\ v.err = w.err
        /\ v.attachments = w.attachments
    BY <2>1 DEF Walks
  <2>3. Kept(w, v) /\ v.flags # {}
    BY <2>2 DEF Kept
  <2>4. QED
    BY <1>2, <2>2, <2>3 DEF v
<1>3. CASE Visits(w, e) /\ ~(e.depth > 0 /\ w.parts >= MaxMIMEParts)
  <2> DEFINE c == [w EXCEPT !.open = e.depth, !.parts = @ + 1]
  <2>1. v = project(c, e, i)
    BY <1>3 DEF visit
  <2>2. e.depth \in Nat /\ w.parts + 1 \in Nat /\ MaxMIMEDepth \in Nat /\ w.err = "none" /\ ~w.stopped
        /\ w.stopped \in BOOLEAN
    BY <1>3 DEF Entities, Walks, MimeAssumption, Visits
  <2>3. c \in Walks /\ c.open = e.depth /\ c.parts = w.parts + 1 /\ c.flags = w.flags
        /\ c.stopped = w.stopped /\ c.source = w.source /\ c.attachments = w.attachments /\ c.err = w.err
    BY <2>2 DEF Walks
  <2> HIDE DEF v, c
  <2>4. CASE e.depth <= MaxMIMEDepth
    <3>1. /\ Looked(c, v, e, i)
          /\ v.err = "none" /\ v.flags = {} => e.attached \/ e.kind \notin {"rfc822", "global"}
      BY <2>1, <2>3, <2>4, ProjectStep
    <3>2. Kept(w, v)
      BY <2>2, <2>3, <3>1 DEF Kept, Looked
    <3>3. v.err = "none" => Projected(w, v, e, i)
      BY <2>2, <2>3, <2>4, <3>1 DEF Projected, Stepped, Looked
    <3>4. QED
      BY <1>3, <3>2, <3>3 DEF v
  <2>5. CASE ~(e.depth <= MaxMIMEDepth)
    <3>1. e.depth > MaxMIMEDepth
      BY <2>2, <2>5
    <3>2. v = [c EXCEPT !.flags = @ \cup {"MIMEDepth"}]
      BY <2>1, <2>5, <3>1 DEF project
    <3>3. v \in Walks /\ v.flags = c.flags \cup {"MIMEDepth"} /\ v.parts = c.parts
          /\ v.stopped = c.stopped /\ v.attachments = c.attachments /\ v.open = c.open
      BY <2>3, <3>2 DEF Walks
    <3>4. NextOpen(e) = e.depth /\ NextAttachments(w.attachments, e, i) = w.attachments
      BY <2>5 DEF NextOpen, Opens, NextAttachments
    <3>5. Kept(w, v) /\ v.flags # {}
      BY <2>2, <2>3, <3>3 DEF Kept
    <3>6. Projected(w, v, e, i)
      BY <2>2, <2>3, <3>3, <3>4, <3>5 DEF Projected, Stepped
    <3>7. QED
      BY <1>3, <3>5, <3>6 DEF v
  <2>6. QED
    BY <2>4, <2>5
<1>4. QED
  BY <1>1, <1>2, <1>3

-----------------------------------------------------------------------------
(* Messages: the tree.                                                     *)

\* Where an entity at depth d after the first k would belong.
Above(tree, k, d) == {j \in 1 .. k : tree[j].depth < d}
Owner(tree, k, d) == IF Above(tree, k, d) = {} THEN 0 ELSE Max(Above(tree, k, d))

\* in says which entities are in the tree proper.
Encloses(tree, in, j) == j = 0 \/ (tree[j].kind = "multipart" /\ ~tree[j].attached /\ in[j])
Inside(tree, in, k) == \A i \in 1 .. k : in[i] = Encloses(tree, in, Parent(tree, i))

\* Parent, as an owner.
LEMMA ParentOwner ==
  ASSUME NEW tree \in Seq(Entities), NEW i \in 1 .. Len(tree)
  PROVE  Parent(tree, i) = Owner(tree, i - 1, tree[i].depth) /\ Parent(tree, i) \in 0 .. i - 1
<1> DEFINE A == Above(tree, i - 1, tree[i].depth)
<1>1. i - 1 \in Nat /\ A \in SUBSET (0 .. i - 1)
  BY DEF Above
<1>2. Parent(tree, i) = IF A = {} THEN 0 ELSE Max(A)
  BY DEF Parent, Above, Max
<1> HIDE DEF A
<1>3. A # {} => Max(A) \in A
  BY <1>1, GreatestNat
<1>4. QED
  BY <1>1, <1>2, <1>3 DEF Owner, A

\* One more entity owns what is deeper than itself.
LEMMA OwnerGrows ==
  ASSUME NEW tree \in Seq(Entities), NEW k \in Nat, k < Len(tree), NEW d \in Nat
  PROVE  Owner(tree, k + 1, d) = IF d <= tree[k + 1].depth THEN Owner(tree, k, d) ELSE k + 1
<1> DEFINE A == Above(tree, k, d)  B == Above(tree, k + 1, d)
<1>1. k + 1 \in 1 .. Len(tree)
  OBVIOUS
<1>2. tree[k + 1] \in Entities
  BY <1>1
<1>3. tree[k + 1].depth \in Nat
  BY <1>2 DEF Entities
<1>4. \A j \in 1 .. k + 1 : j \in 1 .. k \/ j = k + 1
  OBVIOUS
<1>5. \A j \in 1 .. k : j \in 1 .. k + 1
  OBVIOUS
<1>6. CASE d <= tree[k + 1].depth
  <2>1. ~(tree[k + 1].depth < d)
    BY <1>3, <1>6
  <2>2. A = B
    BY <1>4, <1>5, <2>1 DEF Above
  <2>3. QED
    BY <1>6, <2>2 DEF Owner
<1>7. CASE ~(d <= tree[k + 1].depth)
  <2>1. tree[k + 1].depth < d
    BY <1>3, <1>7
  <2>2. k + 1 \in B /\ B \subseteq 1 .. k + 1
    BY <2>1 DEF Above
  <2> HIDE DEF B
  <2>3. B \in SUBSET (0 .. k + 1) /\ B # {} /\ k + 1 \in Nat
    BY <2>2
  <2>4. Max(B) \in B /\ \A x \in B : x <= Max(B)
    BY <2>3, GreatestNat
  <2>5. Max(B) = k + 1
    <3>1. Max(B) \in 1 .. k + 1 /\ k + 1 <= Max(B)
      BY <2>2, <2>4
    <3> HIDE DEF Max
    <3>2. QED
      BY <3>1
  <2>6. QED
    BY <1>7, <2>3, <2>5 DEF Owner, B
<1>8. QED
  BY <1>6, <1>7

\* What is in the tree proper is found from the front.
LEMMA InsideExists ==
  ASSUME NEW tree \in Seq(Entities)
  PROVE  \E in \in [1 .. Len(tree) -> BOOLEAN] : Inside(tree, in, Len(tree))
<1> DEFINE n == Len(tree)
           T == {k \in Nat : k <= n => \E in \in [1 .. n -> BOOLEAN] : Inside(tree, in, k)}
<1>1. n \in Nat
  OBVIOUS
<1>2. 0 \in T
  <2>1. [i \in 1 .. n |-> TRUE] \in [1 .. n -> BOOLEAN]
    OBVIOUS
  <2>2. Inside(tree, [i \in 1 .. n |-> TRUE], 0)
    BY DEF Inside
  <2>3. QED
    BY <2>1, <2>2
<1>3. ASSUME NEW k \in Nat, k \in T PROVE k + 1 \in T
  <2> SUFFICES ASSUME k + 1 <= n PROVE \E in \in [1 .. n -> BOOLEAN] : Inside(tree, in, k + 1)
    OBVIOUS
  <2>1. k <= n /\ k + 1 \in 1 .. n
    BY <1>1
  <2>2. PICK in \in [1 .. n -> BOOLEAN] : Inside(tree, in, k)
    BY <1>3, <2>1
  <2> DEFINE b == Encloses(tree, in, Parent(tree, k + 1))  f == [in EXCEPT ![k + 1] = b]
  <2>3. \A i \in 1 .. k + 1 : Parent(tree, i) \in 0 .. k /\ (i \in 1 .. k \/ i = k + 1) /\ i \in 1 .. n
    <3>1. \A i \in 1 .. k + 1 : i \in 1 .. n /\ (i \in 1 .. k \/ i = k + 1)
      BY <1>1, <2>1
    <3>2. \A i \in 1 .. k + 1 : Parent(tree, i) \in 0 .. i - 1
      BY <3>1, ParentOwner
    <3>3. \A i \in 1 .. k + 1 : \A p \in 0 .. i - 1 : p \in 0 .. k
      OBVIOUS
    <3>4. QED
      BY <3>1, <3>2, <3>3
  <2>4. b \in BOOLEAN
    BY DEF Encloses
  <2>5. f \in [1 .. n -> BOOLEAN] /\ f[k + 1] = b /\ \A i \in 1 .. n : i # k + 1 => f[i] = in[i]
    BY <2>1, <2>4
  <2> HIDE DEF f
  <2>6. \A p \in 0 .. k : Encloses(tree, f, p) = Encloses(tree, in, p)
    <3>1. \A p \in 0 .. k : p = 0 \/ (p \in 1 .. n /\ p # k + 1)
      BY <1>1, <2>1
    <3>2. QED
      BY <2>5, <3>1 DEF Encloses
  <2>7. \A i \in 1 .. k : i # k + 1
    OBVIOUS
  <2>8. Inside(tree, f, k + 1)
    <3> SUFFICES ASSUME NEW i \in 1 .. k + 1 PROVE f[i] = Encloses(tree, f, Parent(tree, i))
      BY DEF Inside
    <3>1. Encloses(tree, f, Parent(tree, i)) = Encloses(tree, in, Parent(tree, i))
      BY <2>3, <2>6
    <3>2. f[i] = Encloses(tree, in, Parent(tree, i))
      BY <2>2, <2>3, <2>5, <2>7 DEF Inside
    <3>3. QED
      BY <3>1, <3>2
  <2>9. QED
    BY <2>5, <2>8
<1>4. n \in T
  <2> HIDE DEF T, n
  <2>1. QED
    BY <1>1, <1>2, <1>3, NatInSet
<1>5. QED
  BY <1>1, <1>4

\* InTree is such a choice.
LEMMA InTreeIs ==
  ASSUME NEW tree \in Seq(Entities)
  PROVE  \E in \in [1 .. Len(tree) -> BOOLEAN] :
           Inside(tree, in, Len(tree)) /\ InTree(tree) = {i \in 1 .. Len(tree) : in[i]}
<1> DEFINE n == Len(tree)
           K(f) == f = [i \in DOMAIN tree |->
                          Parent(tree, i) = 0 \/ (tree[Parent(tree, i)].kind = "multipart"
                            /\ ~tree[Parent(tree, i)].attached /\ f[Parent(tree, i)])]
           g == CHOOSE f : K(f)
<1>1. DOMAIN tree = 1 .. n
  OBVIOUS
<1>2. InTree(tree) = {i \in DOMAIN tree : g[i]}
  BY DEF InTree
<1>3. PICK in \in [1 .. n -> BOOLEAN] : Inside(tree, in, n)
  BY InsideExists
<1>4. K(in)
  <2>1. in = [i \in DOMAIN tree |-> in[i]]
    BY <1>1
  <2>2. \A i \in DOMAIN tree : in[i] = (Parent(tree, i) = 0 \/ (tree[Parent(tree, i)].kind = "multipart"
                            /\ ~tree[Parent(tree, i)].attached /\ in[Parent(tree, i)]))
    BY <1>1, <1>3 DEF Inside, Encloses
  <2>3. QED
    BY <2>1, <2>2
<1>5. K(g)
  <2> HIDE DEF K
  <2>1. QED
    BY <1>4
<1> HIDE DEF g
<1>6. \A i \in 1 .. n : g[i] = Encloses(tree, g, Parent(tree, i))
  BY <1>1, <1>5 DEF Encloses
<1>7. g \in [1 .. n -> BOOLEAN]
  <2> DEFINE E(i) == Parent(tree, i) = 0 \/ (tree[Parent(tree, i)].kind = "multipart"
                            /\ ~tree[Parent(tree, i)].attached /\ g[Parent(tree, i)])
  <2>1. \A i : E(i) \in BOOLEAN
    OBVIOUS
  <2>2. g = [i \in 1 .. n |-> E(i)]
    BY <1>1, <1>5
  <2> HIDE DEF E
  <2>3. QED
    BY <2>1, <2>2
<1>8. QED
  BY <1>1, <1>2, <1>6, <1>7 DEF Inside

\* After k entities a walk is open to depth o: an entity up to there would
\* be in the tree proper, a deeper one would not.
Reach(tree, in, k, o) ==
  \A d \in 1 .. tree[k].depth + 1 : d <= o <=> Encloses(tree, in, Owner(tree, k, d))

\* The same before the first entity, where the root is to come.
Reaches(tree, in, k, o) == (k = 0 => o = 0) /\ (k > 0 => Reach(tree, in, k, o))

\* One more entity: it is visited when it is in the tree proper.
LEMMA ReachStep ==
  ASSUME NEW tree, IsTree(tree), NEW in \in [1 .. Len(tree) -> BOOLEAN], Inside(tree, in, Len(tree)),
         NEW k \in Nat, k < Len(tree), NEW o \in Nat, Reaches(tree, in, k, o)
  PROVE  /\ in[k + 1] <=> tree[k + 1].depth <= o
         /\ ~(tree[k + 1].depth <= o) => Reaches(tree, in, k + 1, o)
         /\ tree[k + 1].depth <= o /\ tree[k + 1].depth <= MaxMIMEDepth =>
              Reaches(tree, in, k + 1, NextOpen(tree[k + 1]))
<1> DEFINE n == Len(tree)  e == tree[k + 1]  c == e.depth
<1>1. tree \in Seq(Entities) /\ n \in Nat /\ k + 1 \in 1 .. n /\ DOMAIN tree = 1 .. n
  BY DEF IsTree
<1>2. e \in Entities
  BY <1>1
<1>3. c \in Nat
  BY <1>2 DEF Entities
<1>4. /\ k = 0 => c = 0
      /\ k > 0 => c \in 1 .. tree[k].depth + 1
  <2>1. e.depth \in (IF k + 1 = 1 THEN {0} ELSE 1 .. tree[(k + 1) - 1].depth + 1)
    BY <1>1 DEF IsTree
  <2>2. (k + 1) - 1 = k /\ (k = 0 => k + 1 = 1) /\ (k > 0 => k + 1 # 1)
    OBVIOUS
  <2>3. QED
    BY <2>1, <2>2
<1>5. k > 0 => tree[k].depth \in Nat
  <2>1. k > 0 => tree[k] \in Entities
    BY <1>1
  <2>2. QED
    BY <2>1 DEF Entities
<1>6. in[k + 1] = Encloses(tree, in, Parent(tree, k + 1))
  BY <1>1 DEF Inside
<1>7. Parent(tree, k + 1) = Owner(tree, k, c) /\ Parent(tree, k + 1) \in 0 .. k
  <2>1. Parent(tree, k + 1) = Owner(tree, (k + 1) - 1, c) /\ Parent(tree, k + 1) \in 0 .. (k + 1) - 1
    BY <1>1, ParentOwner
  <2>2. (k + 1) - 1 = k
    OBVIOUS
  <2>3. QED
    BY <2>1, <2>2
<1>8. in[k + 1] <=> c <= o
  <2>1. CASE k = 0
    <3>1. Parent(tree, k + 1) = 0
      BY <1>7, <2>1
    <3>2. c <= o
      BY <1>4, <2>1 DEF Reaches
    <3>3. QED
      BY <1>6, <3>1, <3>2 DEF Encloses
  <2>2. CASE k > 0
    <3>1. c <= o <=> Encloses(tree, in, Owner(tree, k, c))
      BY <1>4, <2>2 DEF Reaches, Reach
    <3>2. QED
      BY <1>1, <1>6, <1>7, <3>1
  <2>3. QED
    BY <2>1, <2>2
<1> HIDE DEF n, e, c
<1>9. ASSUME NEW d \in 1 .. c + 1
      PROVE  /\ d <= c => Owner(tree, k + 1, d) = Owner(tree, k, d) /\ k > 0 /\ d \in 1 .. tree[k].depth + 1
             /\ ~(d <= c) => Owner(tree, k + 1, d) = k + 1 /\ d = c + 1
             /\ d \in Nat
  <2>1. d \in Nat
    BY <1>3
  <2>2. Owner(tree, k + 1, d) = IF d <= c THEN Owner(tree, k, d) ELSE k + 1
    BY <1>1, <2>1, OwnerGrows DEF c, e
  <2>3. d <= c => k > 0
    BY <1>3, <1>4, <2>1
  <2>4. d <= c => d \in 1 .. tree[k].depth + 1
    BY <1>3, <1>4, <1>5, <2>1, <2>3
  <2>5. ~(d <= c) => d = c + 1
    BY <1>3, <2>1
  <2>6. QED
    BY <2>1, <2>2, <2>3, <2>4, <2>5
<1>10. Encloses(tree, in, k + 1) <=> e.kind = "multipart" /\ ~e.attached /\ in[k + 1]
  BY DEF Encloses, e
<1>11. k + 1 > 0 /\ k + 1 # 0
  OBVIOUS
<1>12. ASSUME ~(c <= o) PROVE Reaches(tree, in, k + 1, o)
  <2> SUFFICES ASSUME NEW d \in 1 .. c + 1 PROVE d <= o <=> Encloses(tree, in, Owner(tree, k + 1, d))
    BY <1>11 DEF Reaches, Reach, c, e
  <2>1. CASE d <= c
    <3>1. d <= o <=> Encloses(tree, in, Owner(tree, k, d))
      BY <1>9, <2>1 DEF Reaches, Reach
    <3>2. Owner(tree, k + 1, d) = Owner(tree, k, d)
      BY <1>9, <2>1
    <3>3. QED
      BY <3>1, <3>2
  <2>2. CASE ~(d <= c)
    <3>1. ~(d <= o)
      BY <1>3, <1>9, <1>12, <2>2
    <3>2. ~Encloses(tree, in, k + 1)
      BY <1>8, <1>10, <1>12
    <3>3. Owner(tree, k + 1, d) = k + 1
      BY <1>9, <2>2
    <3>4. QED
      BY <3>1, <3>2, <3>3
  <2>3. QED
    BY <2>1, <2>2
<1>13. ASSUME c <= o, c <= MaxMIMEDepth PROVE Reaches(tree, in, k + 1, NextOpen(e))
  <2> DEFINE x == NextOpen(e)
  <2>1. x = IF e.kind = "multipart" /\ ~e.attached THEN c + 1 ELSE c
    BY <1>13 DEF NextOpen, Opens, c
  <2> HIDE DEF x
  <2> SUFFICES ASSUME NEW d \in 1 .. c + 1 PROVE d <= x <=> Encloses(tree, in, Owner(tree, k + 1, d))
    BY <1>11 DEF Reaches, Reach, c, e, x
  <2>2. CASE d <= c
    <3>1. d <= o /\ d <= x
      BY <1>3, <1>9, <1>13, <2>1, <2>2
    <3>2. Encloses(tree, in, Owner(tree, k, d))
      BY <1>9, <2>2, <3>1 DEF Reaches, Reach
    <3>3. Owner(tree, k + 1, d) = Owner(tree, k, d)
      BY <1>9, <2>2
    <3>4. QED
      BY <3>1, <3>2, <3>3
  <2>3. CASE ~(d <= c)
    <3>1. d = c + 1 /\ Owner(tree, k + 1, d) = k + 1
      BY <1>9, <2>3
    <3>2. d <= x <=> e.kind = "multipart" /\ ~e.attached
      BY <1>3, <2>1, <3>1
    <3>3. Encloses(tree, in, k + 1) <=> e.kind = "multipart" /\ ~e.attached
      BY <1>8, <1>10, <1>13
    <3>4. QED
      BY <3>1, <3>2, <3>3
  <2>4. QED
    BY <2>2, <2>3
<1>14. QED
  BY <1>8, <1>12, <1>13 DEF c, e

\* A walk without a flag has listed what is attached.
WalkGood(tree, in, w, k) ==
  /\ w \in Walks
  /\ w.err = "none" /\ w.flags = {} =>
       /\ ~w.stopped /\ Reaches(tree, in, k, w.open)
       /\ Range(w.attachments) = {i \in 1 .. k : in[i] /\ tree[i].attached}

\* A step without a flag.
LEMMA WalkStep ==
  ASSUME MimeAssumption, NEW tree, IsTree(tree), NEW in \in [1 .. Len(tree) -> BOOLEAN],
         Inside(tree, in, Len(tree)), NEW k \in Nat, k < Len(tree),
         NEW w, WalkGood(tree, in, w, k), NEW v, Kept(w, v),
         ~Visits(w, tree[k + 1]) => v = w,
         Visits(w, tree[k + 1]) /\ v.err = "none" /\ v.flags = {} => Stepped(w, v, tree[k + 1], k + 1)
  PROVE  /\ WalkGood(tree, in, v, k + 1)
         /\ v.err = "none" /\ v.flags = {} =>
              /\ w.err = "none" /\ w.flags = {} /\ (in[k + 1] <=> Visits(w, tree[k + 1]))
              /\ in[k + 1] => tree[k + 1].depth <= MaxMIMEDepth
<1> DEFINE n == Len(tree)  e == tree[k + 1]
           At(j) == {i \in 1 .. j : in[i] /\ tree[i].attached}
<1> SUFFICES ASSUME v.err = "none", v.flags = {}
             PROVE  /\ ~v.stopped /\ Reaches(tree, in, k + 1, v.open) /\ Range(v.attachments) = At(k + 1)
                    /\ w.err = "none" /\ w.flags = {} /\ (in[k + 1] <=> Visits(w, e))
                    /\ in[k + 1] => e.depth <= MaxMIMEDepth
  BY DEF WalkGood, Kept
<1>1. w \in Walks /\ w.err = "none" /\ w.flags = {}
  BY DEF WalkGood, Kept
<1>2. ~w.stopped /\ Reaches(tree, in, k, w.open) /\ Range(w.attachments) = At(k)
  BY <1>1 DEF WalkGood
<1>3. w.open \in Nat /\ w.attachments \in Seq(Nat)
  BY <1>1 DEF Walks
<1>4. /\ in[k + 1] <=> e.depth <= w.open
      /\ ~(e.depth <= w.open) => Reaches(tree, in, k + 1, w.open)
      /\ e.depth <= w.open /\ e.depth <= MaxMIMEDepth => Reaches(tree, in, k + 1, NextOpen(e))
  BY <1>2, <1>3, ReachStep
<1>5. Visits(w, e) <=> e.depth <= w.open
  BY <1>1, <1>2 DEF Visits
<1>6. \A i \in 1 .. k + 1 : i \in 1 .. k \/ i = k + 1
  OBVIOUS
<1>7. \A i \in 1 .. k : i \in 1 .. k + 1
  OBVIOUS
<1>8. k + 1 \in 1 .. k + 1
  OBVIOUS
<1>9. CASE ~Visits(w, e)
  <2>1. v = w /\ ~in[k + 1]
    BY <1>4, <1>5, <1>9
  <2>2. At(k + 1) = At(k)
    BY <1>6, <1>7, <2>1
  <2> HIDE DEF At
  <2>3. QED
    BY <1>1, <1>2, <1>4, <1>5, <1>9, <2>1, <2>2
<1>10. CASE Visits(w, e)
  <2>1. Stepped(w, v, e, k + 1) /\ in[k + 1]
    BY <1>4, <1>5, <1>10
  <2>2. /\ v.open = NextOpen(e) /\ v.attachments = NextAttachments(w.attachments, e, k + 1)
        /\ e.depth <= MaxMIMEDepth /\ (e.attached => Len(w.attachments) < MaxAttachmentCount) /\ ~v.stopped
    BY <2>1 DEF Stepped
  <2>3. v.attachments = IF e.attached THEN Append(w.attachments, k + 1) ELSE w.attachments
    BY <2>2 DEF NextAttachments
  <2>4. Range(v.attachments) = At(k + 1)
    <3>1. CASE e.attached
      <4>1. Range(Append(w.attachments, k + 1)) = Range(w.attachments) \cup {k + 1}
        <5> DEFINE a == w.attachments  b == Append(a, k + 1)
        <5>1. /\ b \in Seq(Nat) /\ Len(b) = Len(a) + 1 /\ DOMAIN b = 1 .. Len(a) + 1 /\ b[Len(a) + 1] = k + 1
              /\ DOMAIN a = 1 .. Len(a) /\ Len(a) \in Nat /\ \A i \in 1 .. Len(a) : b[i] = a[i]
          BY <1>3
        <5> HIDE DEF a, b
        <5>2. \A i \in 1 .. Len(a) + 1 : i \in 1 .. Len(a) \/ i = Len(a) + 1
          BY <5>1
        <5>3. \A i \in 1 .. Len(a) : i \in 1 .. Len(a) + 1
          BY <5>1
        <5>4. Len(a) + 1 \in 1 .. Len(a) + 1
          BY <5>1
        <5>5. Range(b) = Range(a) \cup {k + 1}
          BY <5>1, <5>2, <5>3, <5>4 DEF Range
        <5>6. QED
          BY <5>5 DEF a, b
      <4>2. At(k + 1) = At(k) \cup {k + 1}
        BY <1>6, <1>7, <1>8, <2>1, <3>1
      <4> HIDE DEF At
      <4>3. QED
        BY <1>2, <2>3, <3>1, <4>1, <4>2
    <3>2. CASE ~e.attached
      <4>1. At(k + 1) = At(k)
        BY <1>6, <1>7, <3>2
      <4> HIDE DEF At
      <4>2. QED
        BY <1>2, <2>3, <3>2, <4>1
    <3>3. QED
      BY <3>1, <3>2
  <2> HIDE DEF At
  <2>5. QED
    BY <1>1, <1>4, <1>5, <1>10, <2>1, <2>2, <2>4
<1>11. QED
  BY <1>9, <1>10

-----------------------------------------------------------------------------
(* Messages: the two walks, side by side.                                  *)

\* The text the body walk has after k entities.
HasText(tree, in, k, kind) == \E i \in 1 .. k : in[i] /\ ~tree[i].attached /\ tree[i].kind = kind

\* The text a reading of the first k entities has to choose.
SourceOf(tree, in, k) ==
  IF HasText(tree, in, k, "plain") THEN "plain" ELSE IF HasText(tree, in, k, "html") THEN "html" ELSE "none"

\* One more entity may have text.
LEMMA SourceGrows ==
  ASSUME NEW tree, NEW in, NEW k \in Nat, in[k + 1] => tree[k + 1].depth <= MaxMIMEDepth
  PROVE  SourceOf(tree, in, k + 1) =
           IF in[k + 1] THEN NextSource(SourceOf(tree, in, k), tree[k + 1]) ELSE SourceOf(tree, in, k)
<1> DEFINE e == tree[k + 1]
<1>1. (\A i \in 1 .. k + 1 : i \in 1 .. k \/ i = k + 1) /\ (\A i \in 1 .. k : i \in 1 .. k + 1) /\ k + 1 \in 1 .. k + 1
  OBVIOUS
<1>2. \A kind : HasText(tree, in, k + 1, kind) <=>
        HasText(tree, in, k, kind) \/ (in[k + 1] /\ ~e.attached /\ e.kind = kind)
  BY <1>1 DEF HasText
<1>3. HasText(tree, in, k + 1, "plain") <=>
        HasText(tree, in, k, "plain") \/ (in[k + 1] /\ ~e.attached /\ e.kind = "plain")
  BY <1>2
<1>4. HasText(tree, in, k + 1, "html") <=>
        HasText(tree, in, k, "html") \/ (in[k + 1] /\ ~e.attached /\ e.kind = "html")
  BY <1>2
<1> HIDE DEF e
<1>5. CASE in[k + 1]
  <2>1. e.depth <= MaxMIMEDepth
    BY <1>5 DEF e
  <2>2. SourceOf(tree, in, k + 1) = NextSource(SourceOf(tree, in, k), e)
    BY <1>3, <1>4, <1>5, <2>1 DEF SourceOf, NextSource
  <2>3. QED
    BY <1>5, <2>2 DEF e
<1>6. CASE ~in[k + 1]
  BY <1>3, <1>4, <1>6 DEF SourceOf
<1>7. QED
  BY <1>5, <1>6

\* What the body, and the structure, have after k entities.
BodyGood(tree, in, b, k) ==
  /\ WalkGood(tree, in, b, k)
  /\ b.err = "none" /\ b.flags = {} => b.source = SourceOf(tree, in, k)

StructureGood(tree, in, s, k) ==
  /\ WalkGood(tree, in, s, k)
  /\ s.err = "none" /\ s.flags = {} =>
       \A i \in 1 .. k : in[i] => tree[i].attached \/ tree[i].kind \notin {"rfc822", "global"}

\* One more entity in the walk of the body.
LEMMA BodyGrows ==
  ASSUME MimeAssumption, NEW tree, IsTree(tree), NEW in \in [1 .. Len(tree) -> BOOLEAN],
         Inside(tree, in, Len(tree)), NEW k \in Nat, k < Len(tree), NEW b, BodyGood(tree, in, b, k)
  PROVE  BodyGood(tree, in, parseEntity(b, tree[k + 1], k + 1), k + 1)
<1> DEFINE e == tree[k + 1]  v == parseEntity(b, e, k + 1)
<1>1. e \in Entities /\ k + 1 \in Nat
  BY DEF IsTree
<1>2. WalkGood(tree, in, b, k) /\ b \in Walks
  BY DEF BodyGood, WalkGood
<1>3. /\ Kept(b, v) /\ (~Visits(b, e) => v = b)
      /\ Visits(b, e) /\ v.err = "none" => Collected(b, v, e, k + 1)
  <2> HIDE DEF e
  <2>1. QED
    BY <1>1, <1>2, BodyStep
<1> HIDE DEF v
<1>4. Visits(b, e) /\ v.err = "none" /\ v.flags = {} => Stepped(b, v, e, k + 1) /\ v.source = NextSource(b.source, e)
  BY <1>3 DEF Collected
<1>5. /\ WalkGood(tree, in, v, k + 1)
      /\ v.err = "none" /\ v.flags = {} =>
           /\ b.err = "none" /\ b.flags = {} /\ (in[k + 1] <=> Visits(b, e))
           /\ in[k + 1] => e.depth <= MaxMIMEDepth
  BY <1>2, <1>3, <1>4, WalkStep
<1>6. ASSUME v.err = "none", v.flags = {} PROVE v.source = SourceOf(tree, in, k + 1)
  <2>1. b.source = SourceOf(tree, in, k)
    BY <1>5, <1>6 DEF BodyGood
  <2>2. SourceOf(tree, in, k + 1) = IF in[k + 1] THEN NextSource(SourceOf(tree, in, k), e) ELSE SourceOf(tree, in, k)
    BY <1>5, <1>6, SourceGrows
  <2>3. v.source = IF in[k + 1] THEN NextSource(b.source, e) ELSE b.source
    BY <1>3, <1>4, <1>5, <1>6
  <2>4. QED
    BY <2>1, <2>2, <2>3
<1>7. QED
  BY <1>5, <1>6 DEF BodyGood, v

\* One more entity in the walk of the structure.
LEMMA StructureGrows ==
  ASSUME MimeAssumption, NEW tree, IsTree(tree), NEW in \in [1 .. Len(tree) -> BOOLEAN],
         Inside(tree, in, Len(tree)), NEW k \in Nat, k < Len(tree), NEW s, StructureGood(tree, in, s, k)
  PROVE  StructureGood(tree, in, visit(s, tree[k + 1], k + 1), k + 1)
<1> DEFINE e == tree[k + 1]  v == visit(s, e, k + 1)
<1>1. e \in Entities /\ k + 1 \in Nat
  BY DEF IsTree
<1>2. WalkGood(tree, in, s, k) /\ s \in Walks
  BY DEF StructureGood, WalkGood
<1>3. /\ Kept(s, v) /\ (~Visits(s, e) => v = s)
      /\ Visits(s, e) /\ e.depth > 0 /\ s.parts >= MaxMIMEParts => v.flags # {}
      /\ Visits(s, e) /\ ~(e.depth > 0 /\ s.parts >= MaxMIMEParts) /\ v.err = "none" => Projected(s, v, e, k + 1)
  <2> HIDE DEF e
  <2>1. QED
    BY <1>1, <1>2, VisitStep
<1> HIDE DEF v
<1>4. Visits(s, e) /\ v.err = "none" /\ v.flags = {} =>
        Stepped(s, v, e, k + 1) /\ (e.attached \/ e.kind \notin {"rfc822", "global"})
  BY <1>3 DEF Projected
<1>5. /\ WalkGood(tree, in, v, k + 1)
      /\ v.err = "none" /\ v.flags = {} =>
           /\ s.err = "none" /\ s.flags = {} /\ (in[k + 1] <=> Visits(s, e))
           /\ in[k + 1] => e.depth <= MaxMIMEDepth
  BY <1>2, <1>3, <1>4, WalkStep
<1>6. ASSUME v.err = "none", v.flags = {}, NEW i \in 1 .. k + 1, in[i]
      PROVE  tree[i].attached \/ tree[i].kind \notin {"rfc822", "global"}
  <2>1. CASE i = k + 1
    BY <1>4, <1>5, <1>6, <2>1
  <2>2. CASE i # k + 1
    <3>1. i \in 1 .. k
      BY <2>2
    <3>2. QED
      BY <1>5, <1>6, <3>1 DEF StructureGood
  <2>3. QED
    BY <2>1, <2>2
<1>7. QED
  BY <1>5, <1>6 DEF StructureGood, v

\* a is where b starts.
Starts(a, b) == Len(a) <= Len(b) /\ \A i \in 1 .. Len(a) : a[i] = b[i]

\* The structure never lists what the body does not.
Abreast(b, s, k) ==
  b.err = "none" /\ s.err = "none" =>
    /\ ~s.stopped => s.attachments = b.attachments
    /\ ~s.stopped /\ ~b.stopped => b.open = s.open /\ b.parts <= s.parts
    /\ ~s.stopped /\ b.stopped => k > 0 /\ s.parts >= MaxMIMEParts
    /\ s.stopped => s.flags # {} /\ Starts(s.attachments, b.attachments)

\* Appending keeps the start.
LEMMA StartsGrows ==
  ASSUME NEW a \in Seq(Nat), NEW b \in Seq(Nat), Starts(a, b), NEW e, NEW i \in Nat
  PROVE  Starts(a, NextAttachments(b, e, i)) /\ Starts(a, a)
<1>1. Len(a) \in Nat /\ Len(b) \in Nat
  OBVIOUS
<1>2. Starts(a, a)
  BY <1>1 DEF Starts
<1> DEFINE c == Append(b, i)
<1>3. Len(c) = Len(b) + 1 /\ \A j \in 1 .. Len(b) : c[j] = b[j]
  OBVIOUS
<1> HIDE DEF c
<1>4. Starts(a, c)
  <2>1. Len(a) <= Len(c) /\ \A j \in 1 .. Len(a) : j \in 1 .. Len(b)
    BY <1>1, <1>3 DEF Starts
  <2>2. QED
    BY <1>3, <2>1 DEF Starts
<1>5. NextAttachments(b, e, i) \in {b, c}
  BY DEF NextAttachments, c
<1>6. QED
  BY <1>2, <1>4, <1>5

\* One more entity in both walks.
LEMMA AbreastGrows ==
  ASSUME MimeAssumption, NEW b \in Walks, NEW s \in Walks, NEW k \in Nat, Abreast(b, s, k),
         NEW e \in Entities, k > 0 => e.depth > 0
  PROVE  Abreast(parseEntity(b, e, k + 1), visit(s, e, k + 1), k + 1)
<1> DEFINE v == parseEntity(b, e, k + 1)  u == visit(s, e, k + 1)
           full == e.depth > 0 /\ s.parts >= MaxMIMEParts
<1>1. k + 1 \in Nat /\ k + 1 > 0
  OBVIOUS
<1>2. /\ Kept(b, v) /\ (~Visits(b, e) => v = b)
      /\ Visits(b, e) /\ v.err = "none" => Collected(b, v, e, k + 1)
  BY <1>1, BodyStep
<1>3. /\ Kept(s, u) /\ (~Visits(s, e) => u = s)
      /\ Visits(s, e) /\ full => u.stopped /\ u.flags # {} /\ u.attachments = s.attachments
      /\ Visits(s, e) /\ ~full /\ u.err = "none" => Projected(s, u, e, k + 1)
  BY <1>1, VisitStep
<1> HIDE DEF v, u
<1> SUFFICES ASSUME v.err = "none", u.err = "none"
             PROVE  /\ ~u.stopped => u.attachments = v.attachments
                    /\ ~u.stopped /\ ~v.stopped => v.open = u.open /\ v.parts <= u.parts
                    /\ ~u.stopped /\ v.stopped => k + 1 > 0 /\ u.parts >= MaxMIMEParts
                    /\ u.stopped => u.flags # {} /\ Starts(u.attachments, v.attachments)
  BY DEF Abreast, v, u
<1>4. b.err = "none" /\ s.err = "none" /\ v \in Walks /\ u \in Walks
  BY <1>2, <1>3 DEF Kept
<1>5. /\ ~s.stopped => s.attachments = b.attachments
      /\ ~s.stopped /\ ~b.stopped => b.open = s.open /\ b.parts <= s.parts
      /\ ~s.stopped /\ b.stopped => k > 0 /\ s.parts >= MaxMIMEParts
      /\ s.stopped => s.flags # {} /\ Starts(s.attachments, b.attachments)
  BY <1>4 DEF Abreast
<1>6. /\ s.attachments \in Seq(Nat) /\ b.attachments \in Seq(Nat) /\ u.attachments \in Seq(Nat)
      /\ b.parts \in Nat /\ s.parts \in Nat /\ v.parts \in Nat /\ u.parts \in Nat /\ MaxMIMEParts \in Nat
  BY <1>4 DEF Walks, MimeAssumption
<1>7. v.attachments \in {b.attachments, NextAttachments(b.attachments, e, k + 1)}
  BY <1>2 DEF Collected, Stepped
<1>8. CASE s.stopped
  <2>1. u = s
    BY <1>3, <1>8 DEF Visits
  <2>2. Starts(s.attachments, b.attachments) /\ s.flags # {}
    BY <1>5, <1>8
  <2>3. Starts(s.attachments, v.attachments)
    BY <1>1, <1>6, <1>7, <2>2, StartsGrows
  <2>4. QED
    BY <1>8, <2>1, <2>2, <2>3
<1>9. CASE ~s.stopped /\ b.stopped
  <2>1. v = b /\ s.attachments = b.attachments /\ k > 0 /\ s.parts >= MaxMIMEParts
    BY <1>2, <1>5, <1>9 DEF Visits
  <2>2. full
    BY <2>1
  <2>3. CASE Visits(s, e)
    <3>1. u.stopped /\ u.flags # {} /\ u.attachments = v.attachments
      BY <1>3, <2>1, <2>2, <2>3
    <3>2. Starts(u.attachments, u.attachments)
      BY <1>6 DEF Starts
    <3>3. QED
      BY <3>1, <3>2
  <2>4. CASE ~Visits(s, e)
    <3>1. u = s
      BY <1>3, <2>4
    <3>2. QED
      BY <1>1, <1>9, <2>1, <3>1
  <2>5. QED
    BY <2>3, <2>4
<1>10. CASE ~s.stopped /\ ~b.stopped
  <2>1. s.attachments = b.attachments /\ b.open = s.open /\ b.parts <= s.parts
    BY <1>5, <1>10
  <2>2. Visits(s, e) <=> Visits(b, e)
    BY <1>4, <1>10, <2>1 DEF Visits
  <2>3. CASE ~Visits(s, e)
    <3>1. u = s /\ v = b
      BY <1>2, <1>3, <2>2, <2>3
    <3>2. QED
      BY <1>10, <2>1, <3>1
  <2>4. CASE Visits(s, e) /\ full
    <3>1. u.stopped /\ u.flags # {} /\ u.attachments = b.attachments
      BY <1>3, <2>1, <2>4
    <3>2. Starts(b.attachments, b.attachments)
      BY <1>6 DEF Starts
    <3>3. Starts(b.attachments, v.attachments)
      BY <1>1, <1>6, <1>7, <3>2, StartsGrows
    <3>4. QED
      BY <3>1, <3>3
  <2>5. CASE Visits(s, e) /\ ~full
    <3>1. Projected(s, u, e, k + 1) /\ Collected(b, v, e, k + 1)
      BY <1>2, <1>3, <2>2, <2>5
    <3>2. u.attachments = v.attachments /\ u.open = v.open /\ ~u.stopped
      BY <2>1, <3>1 DEF Projected, Collected, Stepped
    <3>3. u.parts = s.parts + 1 /\ v.parts \in {b.parts, b.parts + 1}
      BY <3>1 DEF Projected, Collected
    <3>4. v.parts <= u.parts
      BY <1>6, <2>1, <3>3
    <3>5. v.stopped => v.parts >= MaxMIMEParts
      BY <3>1 DEF Collected
    <3>6. v.stopped => u.parts >= MaxMIMEParts
      BY <1>6, <3>4, <3>5
    <3>7. QED
      BY <1>1, <3>2, <3>4, <3>6
  <2>6. QED
    BY <2>3, <2>4, <2>5
<1>11. QED
  BY <1>8, <1>9, <1>10

\* Both walks after k entities.
Walked(tree, in, b, s, k) == BodyGood(tree, in, b, k) /\ StructureGood(tree, in, s, k) /\ Abreast(b, s, k)

\* Both walks, over the whole tree.
LEMMA BothWalked ==
  ASSUME MimeAssumption, NEW tree, IsTree(tree), NEW in \in [1 .. Len(tree) -> BOOLEAN],
         Inside(tree, in, Len(tree))
  PROVE  Walked(tree, in, normalizeMessage(tree), projectAttachmentStructure(tree), Len(tree))
<1> DEFINE n == Len(tree)  c == [i \in DOMAIN tree |-> i]
<1>1. n \in Nat /\ DOMAIN c = 1 .. n /\ tree \in Seq(Entities) /\ DOMAIN tree = 1 .. n
  BY DEF IsTree
<1>2. normalizeMessage(tree) = Loop("body", tree, NewWalk, c)
  BY DEF normalizeMessage, Loop
<1>3. projectAttachmentStructure(tree) = Loop("structure", tree, NewWalk, c)
  BY DEF projectAttachmentStructure, Loop
<1>4. "body" \in Loops /\ "structure" \in Loops
  BY DEF Loops
<1>5. \A k \in Nat : k < n => c[k + 1] = k + 1
  BY <1>1
<1> HIDE DEF c
<1>6. PICK h : Turns("body", tree, h, NewWalk, c, n)
  <2> HIDE DEF n
  <2>1. QED
    BY <1>1, <1>4, LoopTurns
<1>7. PICK g : Turns("structure", tree, g, NewWalk, c, n)
  <2> HIDE DEF n
  <2>1. QED
    BY <1>1, <1>4, LoopTurns
<1> DEFINE T == {k \in Nat : k <= n => Walked(tree, in, h[k], g[k], k)}
<1>8. 0 \in T
  <2>1. h[0] = NewWalk /\ g[0] = NewWalk
    BY <1>6, <1>7 DEF Turns
  <2>2. NewWalk \in Walks
    BY DEF NewWalk, Walks
  <2>3. /\ NewWalk.open = 0 /\ NewWalk.attachments = <<>> /\ NewWalk.source = "none" /\ NewWalk.stopped = FALSE
        /\ NewWalk.parts = 0
    BY DEF NewWalk
  <2>4. 1 .. 0 = {} /\ 0 <= 0 /\ ~(0 > 0)
    OBVIOUS
  <2>5. Range(<<>>) = {}
    BY DEF Range
  <2>6. Reaches(tree, in, 0, 0)
    BY <2>4 DEF Reaches
  <2>7. {i \in 1 .. 0 : in[i] /\ tree[i].attached} = {}
    BY <2>4
  <2>8. WalkGood(tree, in, NewWalk, 0)
    BY <2>2, <2>3, <2>5, <2>6, <2>7 DEF WalkGood
  <2>9. SourceOf(tree, in, 0) = "none"
    BY <2>4 DEF SourceOf, HasText
  <2>10. Abreast(NewWalk, NewWalk, 0)
    BY <2>3, <2>4 DEF Abreast
  <2>11. Walked(tree, in, NewWalk, NewWalk, 0)
    BY <2>3, <2>4, <2>8, <2>9, <2>10 DEF Walked, BodyGood, StructureGood
  <2>12. QED
    BY <2>1, <2>11
<1>9. ASSUME NEW k \in Nat, k \in T PROVE k + 1 \in T
  <2> SUFFICES ASSUME k + 1 <= n PROVE Walked(tree, in, h[k + 1], g[k + 1], k + 1)
    OBVIOUS
  <2>1. k < n /\ k <= n /\ k + 1 \in 1 .. n
    BY <1>1
  <2>2. BodyGood(tree, in, h[k], k) /\ StructureGood(tree, in, g[k], k) /\ Abreast(h[k], g[k], k)
    BY <1>9, <2>1 DEF Walked
  <2>3. h[k + 1] = parseEntity(h[k], tree[k + 1], k + 1)
    BY <1>5, <1>6, <2>1 DEF Turns, Turn
  <2>4. g[k + 1] = visit(g[k], tree[k + 1], k + 1)
    BY <1>5, <1>7, <2>1 DEF Turns, Turn
  <2>5. h[k] \in Walks /\ g[k] \in Walks
    BY <2>2 DEF BodyGood, StructureGood, WalkGood
  <2>6. tree[k + 1] \in Entities
    BY <1>1, <2>1
  <2>7. k > 0 => tree[k + 1].depth > 0
    <3>1. tree[k + 1].depth \in (IF k + 1 = 1 THEN {0} ELSE 1 .. tree[(k + 1) - 1].depth + 1)
      BY <1>1, <2>1 DEF IsTree
    <3>2. k > 0 => k + 1 # 1
      OBVIOUS
    <3>3. QED
      BY <3>1, <3>2
  <2>8. BodyGood(tree, in, h[k + 1], k + 1)
    BY <2>1, <2>2, <2>3, BodyGrows
  <2>9. StructureGood(tree, in, g[k + 1], k + 1)
    BY <2>1, <2>2, <2>4, StructureGrows
  <2>10. Abreast(h[k + 1], g[k + 1], k + 1)
    BY <2>2, <2>3, <2>4, <2>5, <2>6, <2>7, AbreastGrows
  <2>11. QED
    BY <2>8, <2>9, <2>10 DEF Walked
<1>10. n \in T
  <2> HIDE DEF T, n
  <2>1. QED
    BY <1>1, <1>8, <1>9, NatInSet
<1>11. Walked(tree, in, h[n], g[n], n)
  BY <1>1, <1>10
<1>12. QED
  BY <1>2, <1>3, <1>6, <1>7, <1>11 DEF Turns

\* What starts a sequence is a prefix of it.
LEMMA StartsPrefix ==
  ASSUME NEW a \in Seq(Nat), NEW b \in Seq(Nat), Starts(a, b)
  PROVE  IsPrefix(a, b)
<1>1. Len(a) \in Nat /\ Len(b) \in Nat /\ Len(a) <= Len(b)
  BY DEF Starts
<1>2. SubSeq(a, 1, Len(a)) = [i \in 1 .. Len(a) |-> a[i]]
  BY <1>1
<1>3. SubSeq(b, 1, Len(a)) = [i \in 1 .. Len(a) |-> b[i]]
  BY <1>1
<1>4. [i \in 1 .. Len(a) |-> a[i]] = [i \in 1 .. Len(a) |-> b[i]]
  BY DEF Starts
<1>5. QED
  BY <1>1, <1>2, <1>3, <1>4 DEF IsPrefix

\* NormalizeMessage and projectAttachmentStructure, for every tree: without a
\* flag nothing is missing, and the structure lists nothing the body does not.
THEOREM WalksHonest ==
  ASSUME MimeAssumption, NEW tree, IsTree(tree)
  PROVE  WalksAreHonest(tree)
<1> DEFINE n == Len(tree)  b == normalizeMessage(tree)  s == projectAttachmentStructure(tree)
<1>1. tree \in Seq(Entities) /\ n \in Nat
  BY DEF IsTree
<1>2. PICK in \in [1 .. n -> BOOLEAN] :
        Inside(tree, in, n) /\ InTree(tree) = {i \in 1 .. n : in[i]}
  BY <1>1, InTreeIs
<1>3. Walked(tree, in, b, s, n)
  BY <1>2, BothWalked
<1> HIDE DEF b, s
<1>4. b \in Walks /\ s \in Walks
  BY <1>3 DEF Walked, BodyGood, StructureGood, WalkGood
<1>5. b.attachments \in Seq(Nat) /\ s.attachments \in Seq(Nat)
  BY <1>4 DEF Walks
<1>6. Attachments(tree) = {i \in 1 .. n : in[i] /\ tree[i].attached}
  BY <1>2 DEF Attachments
<1>7. \A kind : Texts(tree, kind) # {} <=> HasText(tree, in, n, kind)
  BY <1>2 DEF Texts, HasText
<1>8. ASSUME b.err = "none", b.flags = {}
      PROVE  /\ Range(b.attachments) = Attachments(tree)
             /\ b.source = (CASE Texts(tree, "plain") # {} -> "plain"
                              [] Texts(tree, "plain") = {} /\ Texts(tree, "html") # {} -> "html"
                              [] OTHER -> "none")
  <2>1. Range(b.attachments) = Attachments(tree) /\ b.source = SourceOf(tree, in, n)
    BY <1>3, <1>6, <1>8 DEF Walked, BodyGood, WalkGood
  <2>2. Texts(tree, "plain") # {} <=> HasText(tree, in, n, "plain")
    BY <1>7
  <2>3. Texts(tree, "html") # {} <=> HasText(tree, in, n, "html")
    BY <1>7
  <2>4. QED
    BY <2>1, <2>2, <2>3 DEF SourceOf
<1>9. ASSUME s.err = "none", s.flags = {}
      PROVE  Range(s.attachments) = Attachments(tree) /\ Hidden(tree) = {}
  <2>1. Range(s.attachments) = Attachments(tree)
    BY <1>3, <1>6, <1>9 DEF Walked, StructureGood, WalkGood
  <2>2. \A i \in 1 .. n : in[i] => tree[i].attached \/ tree[i].kind \notin {"rfc822", "global"}
    BY <1>3, <1>9 DEF Walked, StructureGood
  <2>3. QED
    BY <1>2, <2>1, <2>2 DEF Hidden
<1>10. ASSUME b.err = "none", s.err = "none"
       PROVE  IsPrefix(s.attachments, b.attachments) /\ (s.flags = {} => s.attachments = b.attachments)
  <2>1. /\ ~s.stopped => s.attachments = b.attachments
        /\ s.stopped => s.flags # {} /\ Starts(s.attachments, b.attachments)
    BY <1>3, <1>10 DEF Walked, Abreast
  <2>2. Starts(b.attachments, b.attachments)
    BY <1>5 DEF Starts
  <2>3. Starts(s.attachments, b.attachments)
    BY <2>1, <2>2
  <2>4. QED
    BY <1>5, <2>1, <2>3, StartsPrefix
<1>11. QED
  BY <1>8, <1>9, <1>10 DEF WalksAreHonest, b, s

\* A reading without a flag lists at least as many attachments as there are.
LEMMA ReadingsCount ==
  ASSUME MimeAssumption, NEW tree, IsTree(tree), NEW w,
         w \in {normalizeMessage(tree), projectAttachmentStructure(tree)}
  PROVE  /\ Len(w.attachments) \in Nat
         /\ w.err = "none" /\ w.flags = {} => Cardinality(Attachments(tree)) <= Len(w.attachments)
<1> DEFINE n == Len(tree)
<1>1. tree \in Seq(Entities) /\ n \in Nat
  BY DEF IsTree
<1>2. PICK in \in [1 .. n -> BOOLEAN] :
        Inside(tree, in, n) /\ InTree(tree) = {i \in 1 .. n : in[i]}
  BY <1>1, InTreeIs
<1>3. Walked(tree, in, normalizeMessage(tree), projectAttachmentStructure(tree), n)
  BY <1>2, BothWalked
<1>4. w \in Walks
  BY <1>3 DEF Walked, BodyGood, StructureGood, WalkGood
<1> DEFINE a == w.attachments  m == Len(a)
<1>5. a \in Seq(Nat) /\ m \in Nat /\ DOMAIN a = 1 .. m
  BY <1>4 DEF Walks
<1>6. ASSUME w.err = "none", w.flags = {} PROVE Cardinality(Attachments(tree)) <= m
  <2>1. Range(a) = Attachments(tree)
    BY <1>6, WalksHonest DEF WalksAreHonest
  <2> HIDE DEF a, m
  <2>2. 1 \in Int /\ m \in Int
    BY <1>5
  <2>3. IsFiniteSet(1 .. m) /\ Cardinality(1 .. m) = IF 1 > m THEN 0 ELSE m - 1 + 1
    BY <2>2, FS_Interval
  <2>4. Cardinality(1 .. m) = m
    BY <1>5, <2>3
  <2>5. a \in Surjection(1 .. m, Range(a))
    BY <1>5 DEF Surjection, Range
  <2>6. Cardinality(Range(a)) <= Cardinality(1 .. m)
    BY <2>3, <2>5, FS_Surjection
  <2>7. QED
    BY <2>1, <2>4, <2>6
<1>7. QED
  BY <1>5, <1>6

-----------------------------------------------------------------------------
(* Messages: the header.                                                   *)

\* A name nothing has.
LEMMA GetAbsent ==
  ASSUME NEW S, NEW q \in Seq(S), NEW name, \A i \in DOMAIN q : q[i].name # name
  PROVE  Get(q, name) = Absent
<1>1. {i \in 1 .. Len(q) : q[i].name = name} = {}
  OBVIOUS
<1>2. SelectInSeq(q, LAMBDA f : f.name = name) = 0
  BY <1>1 DEF SelectInSeq
<1>3. QED
  BY <1>2 DEF Get

\* The first field of a name.
LEMMA GetFound ==
  ASSUME NEW S, NEW q \in Seq(S), NEW name, \E i \in DOMAIN q : q[i].name = name
  PROVE  \E i \in DOMAIN q : Get(q, name) = q[i] /\ q[i].name = name
<1> DEFINE I == {i \in 1 .. Len(q) : q[i].name = name}
<1>1. I \in SUBSET Nat /\ I # {} /\ DOMAIN q = 1 .. Len(q)
  OBVIOUS
<1>2. SelectInSeq(q, LAMBDA f : f.name = name) = Min(I)
  BY <1>1 DEF SelectInSeq
<1>3. Min(I) \in I
  <2> HIDE DEF I
  <2>1. QED
    BY <1>1, LeastNat
<1>4. Min(I) \in DOMAIN q /\ q[Min(I)].name = name /\ Min(I) # 0
  BY <1>1, <1>3
<1> HIDE DEF I
<1>5. Get(q, name) = q[Min(I)]
  BY <1>2, <1>4 DEF Get
<1>6. QED
  BY <1>4, <1>5

\* A name only x has.
LEMMA GetOnly ==
  ASSUME NEW S, NEW q \in Seq(S), NEW name, NEW x, x \in Range(q), x.name = name,
         \A y \in Range(q) : y.name = name => y = x
  PROVE  Get(q, name) = x
<1>1. \E i \in DOMAIN q : q[i].name = name
  BY DEF Range
<1>2. PICK i \in DOMAIN q : Get(q, name) = q[i] /\ q[i].name = name
  BY <1>1, GetFound
<1>3. QED
  BY <1>2 DEF Range

\* The fields of the thread block.
BlockNames == {"Subject", "Message-ID", "In-Reply-To", "References"}

\* What a header has of a name.
LEMMA GetNamed ==
  ASSUME NEW S, NEW header \in Seq(S), NEW name \in BlockNames
  PROVE  Get(header, name) # Absent => Get(header, name).name = name
<1>1. CASE \A i \in DOMAIN header : header[i].name # name
  BY <1>1, GetAbsent
<1>2. CASE ~(\A i \in DOMAIN header : header[i].name # name)
  BY <1>2, GetFound
<1>3. QED
  BY <1>1, <1>2

\* threadFieldBlock holds the thread fields of the header, and nothing else.
LEMMA BlockIs ==
  ASSUME NEW header, NEW F, F = {Get(header, name) : name \in BlockNames}
  PROVE  /\ threadFieldBlock(header) \in Seq(F)
         /\ Range(threadFieldBlock(header)) = {f \in F : f # Absent}
<1> DEFINE a == threadField(header, "Subject")  b == threadField(header, "Message-ID")
           c == threadField(header, "In-Reply-To")  d == threadField(header, "References")
<1>1. ASSUME NEW name \in BlockNames
      PROVE  /\ threadField(header, name) \in Seq(F)
             /\ Range(threadField(header, name)) = {f \in {Get(header, name)} : f # Absent}
  <2> DEFINE g == Get(header, name)
  <2>1. g \in F
    OBVIOUS
  <2> HIDE DEF g
  <2>2. CASE g = Absent
    <3>1. threadField(header, name) = <<>>
      BY <2>2 DEF threadField, g
    <3>2. <<>> \in Seq(F) /\ Range(<<>>) = {}
      BY DEF Range
    <3>3. QED
      BY <2>2, <3>1, <3>2 DEF g
  <2>3. CASE g # Absent
    <3>1. threadField(header, name) = <<g>>
      BY <2>3 DEF threadField, g
    <3>2. <<g>> \in Seq(F) /\ Range(<<g>>) = {g}
      BY <2>1 DEF Range
    <3>3. QED
      BY <2>3, <3>1, <3>2 DEF g
  <2>4. QED
    BY <2>2, <2>3
<1>2. ASSUME NEW p \in Seq(F), NEW q \in Seq(F) PROVE p \o q \in Seq(F) /\ Range(p \o q) = Range(p) \cup Range(q)
  <2> DEFINE m == Len(p)  n == Len(q)  r == p \o q
  <2>1. /\ m \in Nat /\ n \in Nat /\ DOMAIN p = 1 .. m /\ DOMAIN q = 1 .. n
        /\ r \in Seq(F) /\ DOMAIN r = 1 .. m + n
        /\ \A i \in 1 .. m + n : r[i] = IF i <= m THEN p[i] ELSE q[i - m]
    OBVIOUS
  <2> HIDE DEF m, n, r
  <2>2. \A i \in 1 .. m : i \in 1 .. m + n /\ r[i] = p[i]
    BY <2>1
  <2>3. \A i \in 1 .. n : m + i \in 1 .. m + n /\ r[m + i] = q[i]
    <3>1. \A i \in 1 .. n : m + i \in 1 .. m + n /\ ~(m + i <= m) /\ (m + i) - m = i
      BY <2>1
    <3>2. QED
      BY <2>1, <3>1
  <2>4. \A i \in 1 .. m + n : (i \in 1 .. m /\ r[i] = p[i]) \/ (i - m \in 1 .. n /\ r[i] = q[i - m])
    <3>1. \A i \in 1 .. m + n : (i <= m => i \in 1 .. m) /\ (~(i <= m) => i - m \in 1 .. n)
      BY <2>1
    <3>2. QED
      BY <2>1, <3>1
  <2>5. Range(r) \subseteq Range(p) \cup Range(q)
    BY <2>1, <2>4 DEF Range
  <2>6. Range(p) \subseteq Range(r) /\ Range(q) \subseteq Range(r)
    <3>1. \A y \in Range(p) : y \in Range(r)
      BY <2>1, <2>2 DEF Range
    <3>2. \A y \in Range(q) : y \in Range(r)
      <4> SUFFICES ASSUME NEW i \in 1 .. n PROVE q[i] \in Range(r)
        BY <2>1 DEF Range
      <4>1. m + i \in DOMAIN r /\ r[m + i] = q[i]
        BY <2>1, <2>3
      <4>2. QED
        BY <4>1 DEF Range
    <3>3. QED
      BY <3>1, <3>2
  <2>7. QED
    BY <2>1, <2>5, <2>6 DEF r
<1>3. {"Subject", "Message-ID", "In-Reply-To", "References"} = BlockNames
  BY DEF BlockNames
<1>4. /\ a \in Seq(F) /\ b \in Seq(F) /\ c \in Seq(F) /\ d \in Seq(F)
      /\ Range(a) = {f \in {Get(header, "Subject")} : f # Absent}
      /\ Range(b) = {f \in {Get(header, "Message-ID")} : f # Absent}
      /\ Range(c) = {f \in {Get(header, "In-Reply-To")} : f # Absent}
      /\ Range(d) = {f \in {Get(header, "References")} : f # Absent}
  BY <1>1, <1>3
<1> HIDE DEF a, b, c, d
<1>5. a \o b \in Seq(F) /\ Range(a \o b) = Range(a) \cup Range(b)
  BY <1>2, <1>4
<1> DEFINE p == a \o b
<1> HIDE DEF p
<1>6. p \o c \in Seq(F) /\ Range(p \o c) = Range(p) \cup Range(c)
  <2>1. p \in Seq(F)
    BY <1>5 DEF p
  <2>2. QED
    BY <1>2, <1>4, <2>1
<1> DEFINE r == p \o c
<1> HIDE DEF r
<1>7. r \o d \in Seq(F) /\ Range(r \o d) = Range(r) \cup Range(d)
  <2>1. r \in Seq(F)
    BY <1>6 DEF r
  <2>2. QED
    BY <1>2, <1>4, <2>1
<1>8. /\ threadFieldBlock(header) = r \o d
      /\ Range(r \o d) = Range(a) \cup Range(b) \cup Range(c) \cup Range(d)
  <2>1. threadFieldBlock(header) = r \o d
    BY DEF threadFieldBlock, a, b, c, d, p, r
  <2>2. QED
    BY <1>5, <1>6, <1>7, <2>1 DEF p, r
<1>9. F = {Get(header, "Subject"), Get(header, "Message-ID"), Get(header, "In-Reply-To"), Get(header, "References")}
  BY <1>3
<1>10. QED
  BY <1>4, <1>7, <1>8, <1>9

\* A thread field is the same wherever it stands.
LEMMA BlockGets ==
  ASSUME NEW S, NEW header \in Seq(S), NEW name \in BlockNames
  PROVE  Get(threadFieldBlock(header), name) = Get(header, name)
<1> DEFINE F == {Get(header, m) : m \in BlockNames}  q == threadFieldBlock(header)  x == Get(header, name)
<1>1. q \in Seq(F) /\ Range(q) = {f \in F : f # Absent}
  BY BlockIs
<1>2. \A m \in BlockNames : Get(header, m) # Absent => Get(header, m).name = m
  BY GetNamed
<1>3. \A y \in Range(q) : y.name = name => y = x
  BY <1>1, <1>2
<1> HIDE DEF q
<1>4. CASE x # Absent
  <2>1. x \in Range(q) /\ x.name = name
    BY <1>1, <1>2, <1>4
  <2> HIDE DEF F
  <2>2. Get(q, name) = x
    <3> HIDE DEF x
    <3>1. QED
      BY <1>1, <1>3, <2>1, GetOnly
  <2>3. QED
    BY <2>2 DEF q
<1>5. CASE x = Absent
  <2>1. \A y \in Range(q) : y.name # name
    BY <1>1, <1>3, <1>5
  <2>2. \A i \in DOMAIN q : q[i].name # name
    BY <2>1 DEF Range
  <2> HIDE DEF F
  <2>3. Get(q, name) = Absent
    BY <1>1, <2>2, GetAbsent
  <2>4. QED
    BY <1>5, <2>3 DEF q
<1>6. QED
  BY <1>4, <1>5

\* selectedHeaderRecord, for every header: the thread fields are those of the
\* whole header, and without a flag so is the rest.
THEOREM HeadersHonest ==
  ASSUME MimeAssumption, NEW header, header \in Seq(Range(header))
  PROVE  HeadersAreHonest(header)
<1> DEFINE q == threadFieldBlock(header)  t == canonicalHeaders(q)  whole == canonicalHeaders(header)
           b == boundedHeaderCount(header)  g == canonicalHeaders(b.fields)
           x == IF b.cut THEN {"HeaderCount"} ELSE {}
           m == messageHeaders(header)  h == selectedHeaderRecord(header)
<1>1. /\ Get(q, "Subject") = Get(header, "Subject") /\ Get(q, "Message-ID") = Get(header, "Message-ID")
      /\ Get(q, "In-Reply-To") = Get(header, "In-Reply-To") /\ Get(q, "References") = Get(header, "References")
  <2>1. \A name \in BlockNames : Get(q, name) = Get(header, name)
    BY BlockGets
  <2> HIDE DEF q
  <2>2. QED
    BY <2>1 DEF BlockNames
<1> HIDE DEF q
<1>2. t.subject = whole.subject /\ t.mid = whole.mid /\ t.reply = whole.reply /\ t.refs = whole.refs
  BY <1>1 DEF canonicalHeaders
<1>3. \A k : canonicalHeaders(k) =
        [err |-> canonicalHeaders(k).err, subject |-> canonicalHeaders(k).subject, mid |-> canonicalHeaders(k).mid,
         reply |-> canonicalHeaders(k).reply, refs |-> canonicalHeaders(k).refs, from |-> canonicalHeaders(k).from,
         flags |-> canonicalHeaders(k).flags]
  BY DEF canonicalHeaders
<1>4. m = [g EXCEPT !.flags = @ \cup x]
  BY DEF messageHeaders
<1>5. h = [m EXCEPT !.err = IF m.err # "none" THEN m.err ELSE t.err,
                    !.subject = t.subject, !.mid = t.mid, !.reply = t.reply, !.refs = t.refs,
                    !.flags = @ \cup t.flags]
  BY DEF selectedHeaderRecord, q
<1>6. b.cut = (Len(header) > MaxHeaderCount) /\ (Len(header) \in Nat) /\ MaxHeaderCount \in Nat
  BY DEF boundedHeaderCount, MimeAssumption
<1>7. ~(Len(header) > MaxHeaderCount) => b.fields = header
  <2>1. header = [i \in 1 .. Len(header) |-> header[i]]
    OBVIOUS
  <2>2. QED
    BY <2>1 DEF boundedHeaderCount
<1> HIDE DEF t, whole, b, h, m
<1>8. g = [err |-> g.err, subject |-> g.subject, mid |-> g.mid, reply |-> g.reply, refs |-> g.refs,
           from |-> g.from, flags |-> g.flags]
  BY <1>3
<1>9. whole = [err |-> whole.err, subject |-> whole.subject, mid |-> whole.mid, reply |-> whole.reply,
               refs |-> whole.refs, from |-> whole.from, flags |-> whole.flags]
  BY <1>3 DEF whole
<1>10. (Len(header) > MaxHeaderCount) \/ g = whole
  BY <1>7 DEF whole
<1> HIDE DEF g, x
<1>11. m = [err |-> g.err, subject |-> g.subject, mid |-> g.mid, reply |-> g.reply, refs |-> g.refs,
            from |-> g.from, flags |-> g.flags \cup x]
  BY <1>4, <1>8
<1>12. h = [err |-> IF m.err # "none" THEN m.err ELSE t.err, subject |-> t.subject, mid |-> t.mid,
            reply |-> t.reply, refs |-> t.refs, from |-> g.from, flags |-> (g.flags \cup x) \cup t.flags]
  BY <1>5, <1>11
<1>13. <<h.subject, h.mid, h.reply, h.refs>> = <<whole.subject, whole.mid, whole.reply, whole.refs>>
  BY <1>2, <1>12
<1>14. ASSUME h.err = "none", h.flags = {} PROVE h = whole
  <2>1. g.flags = {} /\ x = {} /\ m.err = "none" /\ g.err = "none"
    BY <1>11, <1>12, <1>14
  <2>2. ~b.cut
    BY <2>1 DEF x
  <2>3. g = whole
    BY <1>6, <1>10, <2>2
  <2>4. h.err = whole.err /\ h.flags = whole.flags /\ h.from = whole.from
    BY <1>12, <1>14, <2>1, <2>3
  <2>5. h = [err |-> whole.err, subject |-> whole.subject, mid |-> whole.mid, reply |-> whole.reply,
             refs |-> whole.refs, from |-> whole.from, flags |-> whole.flags]
    BY <1>2, <1>12, <2>4
  <2>6. QED
    BY <1>9, <2>5
<1>15. QED
  BY <1>13, <1>14 DEF HeadersAreHonest, h, whole

-----------------------------------------------------------------------------
(* Tools: the invariant.                                                   *)

\* The tools that search, and those that list messages.
Searches == {"search_mail", "select_digest_candidates"}

Reads == Searches \cup {"get_message", "list_attachments", "get_thread"}

\* What others do to the mailbox: UIDs are below UIDNEXT, and neither it nor
\* the generation has gone back since the search.
MailInv ==
  /\ letters \in Letters
  /\ box \in [gen : 1 .. 2, next : Nat, mail : SUBSET UIDs]
  /\ \A u \in box.mail : u < box.next
  /\ searched \in [gen : 0 .. 2, next : Nat]
  /\ searched.gen <= box.gen
  /\ searched.gen = box.gen => searched.next <= box.next

\* Where each tool can be, and what it has been called with.
CallInv ==
  /\ pc \in {"metadata", "body"} => call.tool = "get_message"
  /\ pc \in {"target", "candidates", "siblings", "resolve"} => call.tool = "get_thread"
  /\ pc = "structure" => call.tool = "list_attachments"
  /\ pc = "list" => call.tool = "list_folders"
  /\ pc = "triage" => call.tool = "triage"
  /\ pc \in {"search", "status"} => call.tool \in Searches
  /\ call.tool \in Reads \ Searches => call.id \in Ids
  /\ pc # "done" => call.limit \in Nat
  /\ \/ call.tool \notin Searches \cup {"get_thread"}
     \/ pc \in {"target", "candidates", "resolve", "search", "status"}
     => searched = NoSearch

\* Some identities name every message of mailbox b that was there at search s
\* of call c, and belongs in its result.
HasAll(mailbox, b, s, c, ids) ==
  s.gen = b.gen => \A u \in b.mail :
    /\ u < s.next
    /\ c.tool = "get_thread" => {mailbox[u].subject, mailbox[u].decoded} = {mailbox[c.id.uid].subject}
    => [gen |-> b.gen, uid |-> u] \in ids

\* What the handler has put together so far, and what it has still to look at.
ResultInv ==
  /\ call.tool \in Reads => result \in Results(ReadItems)
  /\ pc = "body" \/ (pc = "encode" /\ Identity) => result.items = <<Item(call.id)>>
  /\ pc \in {"candidates", "siblings", "resolve"} => result.items # <<>> /\ result.items[1].id = call.id
  /\ pc = "siblings" => /\ left \in Seq(Ids)
                        /\ ~result.truncated => HasAll(letters, box, searched, call, Identities(result.items) \cup Range(left))

\* What it hands to the encoder.
DoneInv ==
  pc = "encode" =>
    /\ ~result.truncated => HasAll(letters, box, searched, call, Identities(result.items))
    /\ Identity /\ ~result.truncated =>
         result.extras >= Contents(letters[call.id.uid].tree, call.tool)
    /\ call.tool = "triage" => \A i \in DOMAIN result.items :
         result.items[i].of = "applied" => result.items[i].id \in moved

\* UntruncatedIsComplete, in these terms.
CompleteInv ==
  Replied /\ ~reply.truncated =>
    /\ Identity => reply.extras >= Contents(letters[call.id.uid].tree, call.tool)
    /\ HasAll(letters, box, searched, call, Listed)

\* The inductive invariant.
ToolsInv ==
  MailInv /\ CallInv /\ ResultInv /\ DoneInv /\ CompleteInv /\ ItemsAreWhatTheyName /\ ThreadIsForest

\* What the assumptions say of the mailbox there is.
LEMMA MailTypes ==
  ASSUME MailAssumption, MailInv
  PROVE  /\ Len(letters) \in Nat \ {0} /\ UIDs = 1 .. Len(letters)
         /\ IsFiniteSet(UIDs) /\ Cardinality(UIDs) = Len(letters)
         /\ \A u \in UIDs : /\ letters[u].subject \in Nat /\ letters[u].mid \in Nat
                             /\ letters[u].refs \in Seq(Nat) /\ letters[u].reply \in Nat
                             /\ letters[u].malformed \in BOOLEAN /\ IsTree(letters[u].tree)
<1> DEFINE n == Len(letters)  T == {letters[u].tree : u \in DOMAIN letters}
           S == [subject : Nat, decoded : Nat, mid : Nat, refs : Seq(Nat), reply : Nat,
                 malformed : BOOLEAN, tree : T]
<1>1. letters \in Letters
  BY DEF MailInv
<1>2. letters \in Seq(S) /\ letters # <<>> /\ \A u \in DOMAIN letters : IsTree(letters[u].tree)
  BY <1>1 DEF MailAssumption
<1> HIDE DEF T, S
<1>3. n \in Nat /\ n # 0 /\ DOMAIN letters = 1 .. n
  BY <1>2
<1>4. \A u \in DOMAIN letters : letters[u] \in S
  BY <1>2
<1>5. \A u \in DOMAIN letters :
        /\ letters[u].subject \in Nat /\ letters[u].mid \in Nat /\ letters[u].refs \in Seq(Nat)
        /\ letters[u].reply \in Nat /\ letters[u].malformed \in BOOLEAN
  BY <1>4 DEF S
<1> HIDE DEF n
<1>6. IsFiniteSet(1 .. n) /\ Cardinality(1 .. n) = n
  <2>1. 1 \in Int /\ n \in Int
    BY <1>3
  <2>2. IsFiniteSet(1 .. n) /\ Cardinality(1 .. n) = IF 1 > n THEN 0 ELSE n - 1 + 1
    BY <2>1, FS_Interval
  <2>3. QED
    BY <1>3, <2>2
<1>7. QED
  BY <1>2, <1>3, <1>5, <1>6 DEF UIDs, n

\* Items of a read tool are what they name.
LEMMA NamesRead ==
  ASSUME NEW items \in Seq(ReadItems)
  PROVE  \A i \in DOMAIN items : items[i].of = <<items[i].id.gen, items[i].id.uid>> /\ items[i].id \in Ids
<1> SUFFICES ASSUME NEW i \in DOMAIN items
             PROVE  items[i].of = <<items[i].id.gen, items[i].id.uid>> /\ items[i].id \in Ids
  OBVIOUS
<1>1. items[i] \in ReadItems
  OBVIOUS
<1>2. PICK id \in Ids : items[i] = Item(id)
  BY <1>1 DEF ReadItems
<1>3. QED
  BY <1>2 DEF Item

\* No result names less than what it is short of.
LEMMA HasGrows ==
  ASSUME NEW mailbox, NEW b, NEW d, NEW s, NEW c, NEW ids, NEW more,
         HasAll(mailbox, b, s, c, ids), ids \subseteq more,
         s.gen = d.gen => s.gen = b.gen /\ \A u \in d.mail : u < s.next => u \in b.mail
  PROVE  HasAll(mailbox, d, s, c, more)
BY DEF HasAll

\* A call ends with a code.
LEMMA RefuseKeeps ==
  ASSUME ToolsInv, NEW code, code # "none", Refuse(code)
  PROVE  ToolsInv'
<1>1. /\ pc' = "done" /\ reply'.err = code
      /\ box' = box /\ letters' = letters /\ call' = call /\ searched' = searched /\ result' = result
      /\ left' = left /\ thread' = thread /\ moved' = moved
  BY DEF Refuse, NoReply, Answer, mail, locals
<1>2. MailInv'
  BY <1>1 DEF ToolsInv, MailInv, UIDs
<1>3. CallInv'
  BY <1>1 DEF ToolsInv, CallInv, Ids, UIDs
<1>4. ResultInv' /\ DoneInv'
  BY <1>1 DEF ToolsInv, ResultInv, DoneInv, ReadItems, Ids, UIDs, Identity
<1>5. CompleteInv' /\ ItemsAreWhatTheyName'
  BY <1>1 DEF CompleteInv, ItemsAreWhatTheyName, Replied
<1>6. ThreadIsForest'
  BY <1>1 DEF ToolsInv, ThreadIsForest
<1>7. QED
  BY <1>2, <1>3, <1>4, <1>5, <1>6 DEF ToolsInv

\* Others change the mailbox between two steps of a call.
LEMMA OthersKeep ==
  ASSUME MailAssumption, ToolsInv, NEW d \in [gen : 1 .. 2, next : Nat, mail : SUBSET UIDs], Others(d),
         \A u \in d.mail : u < d.next, box.gen <= d.gen,
         box.gen = d.gen => box.next <= d.next /\ \A u \in d.mail : u < box.next => u \in box.mail
  PROVE  ToolsInv'
<1>1. /\ box' = d /\ pc' = pc /\ reply' = reply /\ letters' = letters /\ call' = call
      /\ searched' = searched /\ result' = result /\ left' = left /\ thread' = thread /\ moved' = moved
  BY DEF Others, mail, locals
<1>2. MailInv /\ UIDs \subseteq Nat
  BY MailTypes DEF ToolsInv
<1>3. /\ box \in [gen : 1 .. 2, next : Nat, mail : SUBSET UIDs]
      /\ searched \in [gen : 0 .. 2, next : Nat]
      /\ searched.gen <= box.gen /\ (searched.gen = box.gen => searched.next <= box.next)
  BY <1>2 DEF MailInv
<1>4. /\ box.gen \in 1 .. 2 /\ box.next \in Nat /\ d.gen \in 1 .. 2 /\ d.next \in Nat
      /\ searched.gen \in 0 .. 2 /\ searched.next \in Nat
  BY <1>3
<1>5. \A u \in d.mail : u \in Nat
  BY <1>2
<1>6. searched.gen <= d.gen /\ (searched.gen = d.gen => searched.gen = box.gen /\ box.gen = d.gen)
  BY <1>3, <1>4
<1>7. searched.gen = d.gen => searched.next <= d.next /\ \A u \in d.mail : u < searched.next => u \in box.mail
  <2> SUFFICES ASSUME searched.gen = d.gen
               PROVE  searched.next <= d.next /\ \A u \in d.mail : u < searched.next => u \in box.mail
    OBVIOUS
  <2>1. box.next <= d.next /\ searched.next <= box.next /\ \A u \in d.mail : u < box.next => u \in box.mail
    BY <1>3, <1>6
  <2>2. \A u \in d.mail : u < searched.next => u < box.next
    BY <1>4, <1>5, <2>1
  <2>3. QED
    BY <1>4, <2>1, <2>2
<1>8. MailInv'
  BY <1>1, <1>2, <1>3, <1>6, <1>7 DEF MailInv, UIDs
<1>9. CallInv'
  BY <1>1 DEF ToolsInv, CallInv, Ids, UIDs
<1>10. ASSUME NEW ids, HasAll(letters, box, searched, call, ids)
       PROVE  HasAll(letters, d, searched, call, ids)
  BY <1>6, <1>7, <1>10, HasGrows
<1>11. ResultInv'
  <2>1. pc = "siblings" => left \in Seq(Ids)
                           /\ (~result.truncated =>
                                 HasAll(letters, d, searched, call, Identities(result.items) \cup Range(left)))
    BY <1>10 DEF ToolsInv, ResultInv
  <2>2. Ids' = Ids /\ ReadItems' = ReadItems /\ (Identity <=> Identity')
    BY <1>1 DEF ReadItems, Ids, UIDs, Identity
  <2>3. QED
    BY <1>1, <2>1, <2>2 DEF ToolsInv, ResultInv
<1>12. DoneInv'
  <2>1. pc = "encode" /\ ~result.truncated =>
          HasAll(letters, d, searched, call, Identities(result.items))
    BY <1>10 DEF ToolsInv, DoneInv
  <2>2. QED
    BY <1>1, <2>1 DEF ToolsInv, DoneInv, Identity
<1>13. CompleteInv'
  <2>1. Replied /\ ~reply.truncated => HasAll(letters, d, searched, call, Listed)
    BY <1>10 DEF ToolsInv, CompleteInv
  <2>2. QED
    BY <1>1, <2>1 DEF ToolsInv, CompleteInv, Identity, Replied, Listed
<1>14. ItemsAreWhatTheyName' /\ ThreadIsForest'
  BY <1>1 DEF ToolsInv, ItemsAreWhatTheyName, Replied, Listed, ThreadIsForest
<1>15. QED
  BY <1>8, <1>9, <1>11, <1>12, <1>13, <1>14 DEF ToolsInv

\* A message arrives, one is expunged, the mailbox is made again.
LEMMA OthersSteps ==
  ASSUME MailAssumption, ToolsInv, Deliver \/ (\E u \in box.mail : Expunge(u)) \/ Recreate
  PROVE  ToolsInv'
<1>1. MailInv /\ UIDs \subseteq Nat /\ UIDs = 1 .. Len(letters) /\ Cardinality(UIDs) = Len(letters)
      /\ Len(letters) \in Nat
  BY MailTypes DEF ToolsInv
<1>2. box \in [gen : 1 .. 2, next : Nat, mail : SUBSET UIDs] /\ \A u \in box.mail : u < box.next
  BY <1>1 DEF MailInv
<1>3. box.gen \in 1 .. 2 /\ box.next \in Nat /\ box.mail \in SUBSET UIDs /\ \A u \in box.mail : u \in Nat
  BY <1>1, <1>2
<1>4. CASE Deliver
  <2> DEFINE d == [box EXCEPT !.next = @ + 1, !.mail = @ \cup {box.next}]
  <2>1. box.next \in UIDs /\ Others(d)
    BY <1>4 DEF Deliver
  <2>2. d \in [gen : 1 .. 2, next : Nat, mail : SUBSET UIDs]
        /\ d.gen = box.gen /\ d.next = box.next + 1 /\ d.mail = box.mail \cup {box.next}
    <3> DEFINE e == [box EXCEPT !.next = box.next + 1]
    <3>1. /\ e \in [gen : 1 .. 2, next : Nat, mail : SUBSET UIDs]
          /\ e.gen = box.gen /\ e.next = box.next + 1 /\ e.mail = box.mail
      BY <1>2, <1>3
    <3>2. d = [e EXCEPT !.mail = e.mail \cup {box.next}]
      BY <1>2
    <3>3. e.mail \cup {box.next} \in SUBSET UIDs
      BY <1>3, <2>1, <3>1
    <3> HIDE DEF e, d
    <3>4. QED
      BY <3>1, <3>2, <3>3
  <2> HIDE DEF d
  <2>3. (\A u \in d.mail : u < d.next) /\ box.gen <= d.gen /\ box.next <= d.next
        /\ \A u \in d.mail : u < box.next => u \in box.mail
    BY <1>2, <1>3, <2>2
  <2>4. QED
    BY <2>1, <2>2, <2>3, OthersKeep
<1>5. CASE \E u \in box.mail : Expunge(u)
  <2>1. PICK v \in box.mail : Expunge(v)
    BY <1>5
  <2> DEFINE d == [box EXCEPT !.mail = @ \ {v}]
  <2>2. Others(d)
    BY <2>1 DEF Expunge
  <2>3. d \in [gen : 1 .. 2, next : Nat, mail : SUBSET UIDs]
        /\ d.gen = box.gen /\ d.next = box.next /\ d.mail = box.mail \ {v}
    BY <1>2, <1>3
  <2> HIDE DEF d
  <2>4. (\A u \in d.mail : u < d.next) /\ box.gen <= d.gen /\ box.next <= d.next
        /\ \A u \in d.mail : u < box.next => u \in box.mail
    BY <1>2, <1>3, <2>3
  <2>5. QED
    BY <2>2, <2>3, <2>4, OthersKeep
<1>6. CASE Recreate
  <2> DEFINE d == [gen |-> 2, next |-> Cardinality(UIDs) + 1, mail |-> UIDs]
  <2>1. box.gen = 1 /\ Others(d)
    BY <1>6 DEF Recreate
  <2>2. d \in [gen : 1 .. 2, next : Nat, mail : SUBSET UIDs] /\ d.gen = 2 /\ d.next = Len(letters) + 1 /\ d.mail = UIDs
    BY <1>1
  <2> HIDE DEF d
  <2>3. (\A u \in d.mail : u < d.next) /\ box.gen <= d.gen /\ box.gen # d.gen
    BY <1>1, <2>1, <2>2
  <2>4. QED
    BY <2>1, <2>2, <2>3, OthersKeep
<1>7. QED
  BY <1>4, <1>5, <1>6

\* A tool has not built a thread yet.
LEMMA NoThreadIs ==
  ASSUME ToolAssumption
  PROVE  IsForest(NoThread.built, MaxThreadDepth) /\ KeepsLinks(NoThread.built, NoThread.of)
<1> DEFINE none == <<>>  t == BuildThread(none, 1, 1, 1)
<1>1. none \in Seq(ThreadMessages) /\ 1 \in Nat /\ DOMAIN none = {}
  OBVIOUS
<1>2. NoThread.of = none /\ NoThread.built = t
  BY DEF NoThread
<1> HIDE DEF none
<1>3. KeepsLinks(t, none) /\ NodesFrom(t, none)
  BY <1>1, BuildsForest
<1> HIDE DEF t
<1>4. \A i \in DOMAIN t.nodes : \E j \in DOMAIN none : t.nodes[i].message = none[j]
  BY <1>3 DEF NodesFrom
<1>5. DOMAIN t.nodes = {}
  BY <1>1, <1>4
<1>6. IsForest(t, MaxThreadDepth)
  BY <1>5 DEF IsForest
<1>7. QED
  BY <1>2, <1>3, <1>6

\* What holds of a call that has put nothing together yet.
LEMMA FreshKeeps ==
  ASSUME ToolAssumption, MailInv, UNCHANGED <<box, mail>>,
         (pc \notin {"body", "encode", "candidates", "siblings", "resolve"})',
         (pc = "done" => reply.err # "none")',
         searched' = NoSearch, result' = NoResult, thread' = NoThread
  PROVE  MailInv' /\ ResultInv' /\ DoneInv' /\ CompleteInv' /\ ItemsAreWhatTheyName' /\ ThreadIsForest'
<1>1. box' = box /\ letters' = letters
  BY DEF mail
<1>2. box \in [gen : 1 .. 2, next : Nat, mail : SUBSET UIDs]
  BY DEF MailInv
<1>3. box.gen \in 1 .. 2 /\ box.next \in Nat
  BY <1>2
<1>4. NoSearch \in [gen : 0 .. 2, next : Nat] /\ NoSearch.gen = 0 /\ NoSearch.next = 0
  BY DEF NoSearch
<1>5. MailInv'
  BY <1>1, <1>3, <1>4 DEF MailInv, UIDs
<1>6. NoResult \in Results(ReadItems')
  BY DEF NoResult, Results
<1>7. ResultInv' /\ DoneInv'
  BY <1>6 DEF ResultInv, DoneInv
<1>8. CompleteInv' /\ ItemsAreWhatTheyName'
  BY DEF CompleteInv, ItemsAreWhatTheyName, Replied
<1>9. ThreadIsForest'
  BY NoThreadIs DEF ThreadIsForest
<1>10. QED
  BY <1>5, <1>7, <1>8, <1>9

\* A tool is called.
LEMMA CallKeeps ==
  ASSUME ToolAssumption, ToolsInv, NEW tool \in Reads \cup {"list_folders", "triage"},
         NEW id, tool \in Reads \ Searches => id \in Ids, NEW limit \in Int, NEW uids,
         Call(tool, id, limit, uids)
  PROVE  ToolsInv'
<1>1. /\ box' = box /\ letters' = letters /\ UNCHANGED <<box, mail>>
      /\ searched' = NoSearch /\ result' = NoResult /\ thread' = NoThread
      /\ call' = [tool |-> tool, id |-> id, limit |-> clampLimit(limit), uids |-> uids]
  BY DEF Call, mail
<1>2. call'.tool = tool /\ call'.id = id /\ call'.limit = clampLimit(limit)
  BY <1>1
<1>3. Ids' = Ids
  BY <1>1 DEF Ids, UIDs
<1>4. CASE limit >= 0 /\ (tool = "triage" => validTriageInput(uids))
  <2>1. pc' = FirstStep(tool)
    BY <1>4 DEF Call
  <2>2. clampLimit(limit) \in Nat
    BY <1>4 DEF clampLimit, ToolAssumption
  <2>3. /\ tool = "search_mail" => pc' = "search"
        /\ tool = "select_digest_candidates" => pc' = "status"
        /\ tool = "get_message" => pc' = "metadata"
        /\ tool = "get_thread" => pc' = "target"
        /\ tool = "list_attachments" => pc' = "structure"
        /\ tool = "list_folders" => pc' = "list"
        /\ tool = "triage" => pc' = "triage"
    BY <2>1 DEF FirstStep
  <2>4. tool \in {"search_mail", "select_digest_candidates", "get_message", "get_thread",
                  "list_attachments", "list_folders", "triage"}
    BY DEF Reads, Searches
  <2>5. CallInv'
    BY <1>1, <1>2, <1>3, <2>2, <2>3, <2>4 DEF CallInv, Reads, Searches
  <2>6. pc' \notin {"body", "encode", "candidates", "siblings", "resolve", "done"}
    BY <2>3, <2>4
  <2>7. QED
    BY <1>1, <2>5, <2>6, FreshKeeps DEF ToolsInv
<1>5. CASE ~(limit >= 0 /\ (tool = "triage" => validTriageInput(uids)))
  <2>1. pc' = "done" /\ reply' = [NoReply EXCEPT !.err = "invalid_argument"]
    BY <1>5 DEF Call
  <2>2. reply'.err = "invalid_argument"
    BY <2>1 DEF NoReply, Answer
  <2>3. CallInv'
    BY <1>1, <1>2, <1>3, <2>1 DEF CallInv, Reads, Searches
  <2>4. QED
    BY <1>1, <2>1, <2>2, <2>3, FreshKeeps DEF ToolsInv
<1>6. QED
  BY <1>4, <1>5

\* The client takes the reply.
LEMMA TakeKeeps ==
  ASSUME ToolAssumption, ToolsInv, Take
  PROVE  ToolsInv'
<1>1. /\ UNCHANGED <<box, mail>> /\ pc' = "idle" /\ call' = NoCall
      /\ searched' = NoSearch /\ result' = NoResult /\ thread' = NoThread
  BY DEF Take
<1>2. call'.tool = "none" /\ call'.limit = 0
  BY <1>1 DEF NoCall
<1>3. CallInv'
  BY <1>1, <1>2 DEF CallInv, Reads, Searches
<1>4. QED
  BY <1>1, <1>3, FreshKeeps DEF ToolsInv

\* A handler is done: what it hands over.
LEMMA EncodesKeeps ==
  ASSUME ToolsInv, NEW r, Encodes(r), ThreadIsForest', MailInv', call.tool # "triage", pc # "done",
         call.tool \in Reads => r \in Results(ReadItems),
         Identity => r.items = <<Item(call.id)>>,
         ~r.truncated => HasAll(letters, box, searched', call, Identities(r.items)),
         Identity /\ ~r.truncated => r.extras >= Contents(letters[call.id.uid].tree, call.tool),
         call.tool \notin Searches \cup {"get_thread"} => searched' = searched
  PROVE  ToolsInv'
<1>1. /\ pc' = "encode" /\ result' = r /\ box' = box /\ letters' = letters /\ call' = call
      /\ moved' = moved /\ reply' = reply
  BY DEF Encodes, mail
<1>2. Ids' = Ids /\ ReadItems' = ReadItems /\ (Identity <=> Identity') /\ Item(call.id)' = Item(call.id)
  BY <1>1 DEF ReadItems, Ids, UIDs, Identity, Item
<1>3. CallInv'
  BY <1>1, <1>2 DEF ToolsInv, CallInv
<1>4. ResultInv'
  BY <1>1, <1>2 DEF ResultInv
<1>5. DoneInv'
  BY <1>1, <1>2 DEF DoneInv
<1>6. CompleteInv' /\ ItemsAreWhatTheyName'
  BY <1>1 DEF CompleteInv, ItemsAreWhatTheyName, Replied
<1>7. QED
  BY <1>3, <1>4, <1>5, <1>6 DEF ToolsInv

\* Without a search there is nothing to be complete about.
LEMMA NothingDue ==
  ASSUME MailInv, NEW s, s = NoSearch, NEW c, NEW ids
  PROVE  HasAll(letters, box, s, c, ids)
<1>1. box \in [gen : 1 .. 2, next : Nat, mail : SUBSET UIDs]
  BY DEF MailInv
<1>2. box.gen \in 1 .. 2
  BY <1>1
<1>3. s.gen = 0
  BY DEF NoSearch
<1>4. QED
  BY <1>2, <1>3 DEF HasAll

\* A search is of the mailbox as it is now.
LEMMA SearchedNow ==
  ASSUME MailInv, UNCHANGED <<box, letters>>, searched' = [gen |-> box.gen, next |-> box.next]
  PROVE  MailInv'
<1>1. box \in [gen : 1 .. 2, next : Nat, mail : SUBSET UIDs]
  BY DEF MailInv
<1>2. box.gen \in 1 .. 2 /\ box.next \in Nat
  BY <1>1
<1>3. searched'.gen = box.gen /\ searched'.next = box.next /\ searched' \in [gen : 0 .. 2, next : Nat]
  BY <1>2
<1>4. QED
  BY <1>2, <1>3 DEF MailInv, UIDs

\* The page of a search of some messages there are: identities, and all of
\* those messages unless it says so.
LEMMA PageFound ==
  ASSUME MailAssumption, MailInv, NEW M \in SUBSET box.mail, NEW n \in Nat
  PROVE  /\ SearchPage(M, n).messages \in Seq(Ids)
         /\ SearchPage(M, n).truncated \in BOOLEAN
         /\ ~SearchPage(M, n).truncated => \A u \in M :
              [gen |-> box.gen, uid |-> u] \in Range(SearchPage(M, n).messages)
<1> DEFINE pg == SearchPage(M, n)
<1>1. /\ box \in [gen : 1 .. 2, next : Nat, mail : SUBSET UIDs]
      /\ UIDs \subseteq Nat /\ IsFiniteSet(UIDs)
  BY MailTypes DEF MailInv
<1>2. box.gen \in 1 .. 2 /\ M \in SUBSET UIDs /\ M \in SUBSET Nat
  BY <1>1
<1>3. IsFiniteSet(M)
  BY <1>1, <1>2, FS_Subset
<1>4. /\ pg.messages \in Seq([gen : {box.gen}, uid : M]) /\ pg.truncated \in BOOLEAN
      /\ ~pg.truncated => \A u \in M : \E i \in DOMAIN pg.messages : pg.messages[i] = [gen |-> box.gen, uid |-> u]
  BY <1>2, <1>3, PageIs
<1> HIDE DEF pg
<1>5. [gen : {box.gen}, uid : M] \subseteq Ids
  BY <1>2 DEF Ids
<1>6. pg.messages \in Seq(Ids)
  <2> DEFINE A == [gen : {box.gen}, uid : M]
  <2> HIDE DEF A
  <2>1. pg.messages \in Seq(A) /\ A \subseteq Ids
    BY <1>4, <1>5 DEF A
  <2>2. QED
    BY <2>1
<1>7. ~pg.truncated => \A u \in M : [gen |-> box.gen, uid |-> u] \in Range(pg.messages)
  BY <1>4 DEF Range
<1>8. QED
  BY <1>4, <1>6, <1>7 DEF pg

\* One search, and its page as it is.
LEMMA SearchMailKeeps ==
  ASSUME ToolAssumption, MailAssumption, ToolsInv, NEW n \in Nat, SearchMail(n)
  PROVE  ToolsInv'
<1> DEFINE pg == SearchPage(box.mail, n)  r == flatMessageResults(pg, call.limit)
<1>1. /\ pc = "search" /\ searched' = [gen |-> box.gen, next |-> box.next] /\ Encodes(r)
      /\ thread' = thread /\ box' = box /\ letters' = letters
  BY DEF SearchMail, Encodes, mail
<1>2. MailInv /\ call.tool \in Searches /\ call.limit \in Nat
  BY <1>1 DEF ToolsInv, CallInv
<1>3. MailInv'
  BY <1>1, <1>2, SearchedNow
<1>4. /\ pg.messages \in Seq(Ids) /\ pg.truncated \in BOOLEAN
      /\ ~pg.truncated => \A u \in box.mail : [gen |-> box.gen, uid |-> u] \in Range(pg.messages)
  BY <1>2, PageFound
<1> HIDE DEF pg
<1>5. /\ r \in Results(ReadItems)
      /\ ~r.truncated => ~pg.truncated /\ \A i \in DOMAIN pg.messages : pg.messages[i] \in Identities(r.items)
  BY <1>2, <1>4, FlatIs
<1> HIDE DEF r
<1>6. ~r.truncated => HasAll(letters, box, searched', call, Identities(r.items))
  <2> SUFFICES ASSUME ~r.truncated, NEW u \in box.mail
               PROVE  [gen |-> box.gen, uid |-> u] \in Identities(r.items)
    BY DEF HasAll
  <2>1. \A x \in Range(pg.messages) : x \in Identities(r.items)
    BY <1>5 DEF Range
  <2>2. QED
    BY <1>4, <1>5, <2>1
<1>7. ThreadIsForest'
  BY <1>1 DEF ToolsInv, ThreadIsForest
<1>8. call.tool # "triage" /\ ~Identity
  BY <1>2 DEF Searches, Identity
<1>9. QED
  BY <1>1, <1>2, <1>3, <1>5, <1>6, <1>7, <1>8, EncodesKeeps

\* A step that changes nothing the invariant speaks of but the place.
LEMMA StatusKeeps ==
  ASSUME ToolsInv, Status
  PROVE  ToolsInv'
<1>1. /\ pc = "status" /\ pc' = "search" /\ box' = box /\ letters' = letters /\ call' = call
      /\ searched' = searched /\ result' = result /\ thread' = thread
  BY DEF Status, mail, locals
<1>2. MailInv' /\ ThreadIsForest'
  BY <1>1 DEF ToolsInv, MailInv, ThreadIsForest, UIDs
<1>3. CallInv'
  BY <1>1 DEF ToolsInv, CallInv, Ids, UIDs
<1>4. ResultInv'
  BY <1>1 DEF ToolsInv, ResultInv, ReadItems, Ids, UIDs
<1>5. DoneInv' /\ CompleteInv' /\ ItemsAreWhatTheyName'
  BY <1>1 DEF DoneInv, CompleteInv, ItemsAreWhatTheyName, Replied
<1>6. QED
  BY <1>2, <1>3, <1>4, <1>5 DEF ToolsInv

\* The folders are listed.
LEMMA ListFoldersKeeps ==
  ASSUME ToolsInv, NEW n, ListFolders(n)
  PROVE  ToolsInv'
<1> DEFINE r == [NoResult EXCEPT !.items = [i \in 1 .. n |-> [id |-> i, of |-> i]]]
<1>1. /\ pc = "list" /\ Encodes(r) /\ searched' = searched
      /\ thread' = thread /\ box' = box /\ letters' = letters
  BY DEF ListFolders, Encodes, mail
<1> HIDE DEF r
<1>2. MailInv /\ call.tool = "list_folders"
  BY <1>1 DEF ToolsInv, CallInv
<1>3. MailInv' /\ ThreadIsForest'
  BY <1>1 DEF ToolsInv, MailInv, ThreadIsForest, UIDs
<1>4. searched = NoSearch
  BY <1>2 DEF ToolsInv, CallInv, Searches
<1>5. HasAll(letters, box, searched', call, Identities(r.items))
  BY <1>1, <1>2, <1>4, NothingDue
<1>6. call.tool # "triage" /\ ~Identity /\ call.tool \notin Reads
  BY <1>2 DEF Searches, Reads, Identity
<1>7. QED
  BY <1>1, <1>3, <1>5, <1>6, EncodesKeeps

\* A message has a number of attachments.
LEMMA AttachmentsFinite ==
  ASSUME NEW tree \in Seq(Entities)
  PROVE  IsFiniteSet(Attachments(tree))
<1> DEFINE n == Len(tree)
<1>1. n \in Nat /\ DOMAIN tree = 1 .. n
  OBVIOUS
<1>2. Attachments(tree) \subseteq DOMAIN tree
  BY DEF Attachments, InTree
<1> HIDE DEF n
<1>3. 1 \in Int /\ n \in Int
  BY <1>1
<1>4. IsFiniteSet(1 .. n)
  BY <1>3, FS_Interval
<1>5. QED
  BY <1>1, <1>2, <1>4, FS_Subset

\* A result of one message.
LEMMA OneItem ==
  ASSUME NEW id \in Ids, NEW x \in Nat, NEW cut \in BOOLEAN
  PROVE  /\ [items |-> <<Item(id)>>, extras |-> x, truncated |-> cut] \in Results(ReadItems)
         /\ <<Item(id)>> \in Seq(ReadItems) /\ <<Item(id)>> # <<>>
         /\ <<Item(id)>>[1] = Item(id) /\ <<Item(id)>>[1].id = id
<1>1. Item(id) \in ReadItems /\ Item(id).id = id
  BY DEF ReadItems, Item
<1> DEFINE it == Item(id)
<1> HIDE DEF it
<1>2. it \in ReadItems /\ it.id = id
  BY <1>1 DEF it
<1>3. <<it>> \in Seq(ReadItems) /\ <<it>> # <<>> /\ <<it>>[1] = it
  BY <1>2
<1>4. [items |-> <<it>>, extras |-> x, truncated |-> cut] \in Results(ReadItems)
  BY <1>3 DEF Results
<1>5. QED
  BY <1>2, <1>3, <1>4 DEF it

\* The metadata of get_message.
LEMMA MetadataKeeps ==
  ASSUME ToolsInv, GetMessageMetadata
  PROVE  ToolsInv'
<1> DEFINE r == [items |-> <<Item(call.id)>>, extras |-> 0, truncated |-> FALSE]
<1>1. /\ pc = "metadata" /\ pc' = "body" /\ result' = [NoResult EXCEPT !.items = <<Item(call.id)>>]
      /\ box' = box /\ letters' = letters /\ call' = call
      /\ searched' = searched /\ thread' = thread
  BY DEF GetMessageMetadata, mail
<1>2. result' = r
  BY <1>1 DEF NoResult
<1>3. call.tool = "get_message" /\ call.id \in Ids
  BY <1>1 DEF ToolsInv, CallInv, Reads, Searches
<1>4. r \in Results(ReadItems)
  BY <1>3, OneItem
<1>5. r.items = <<Item(call.id)>>
  OBVIOUS
<1> HIDE DEF r
<1>6. MailInv' /\ ThreadIsForest'
  BY <1>1 DEF ToolsInv, MailInv, ThreadIsForest, UIDs
<1>7. CallInv'
  BY <1>1, <1>3 DEF ToolsInv, CallInv, Ids, UIDs
<1>8. ReadItems' = ReadItems /\ Item(call.id)' = Item(call.id)
  BY <1>1 DEF ReadItems, Ids, UIDs, Item
<1>9. ResultInv'
  BY <1>1, <1>2, <1>4, <1>5, <1>8 DEF ResultInv
<1>10. DoneInv' /\ CompleteInv' /\ ItemsAreWhatTheyName'
  BY <1>1 DEF DoneInv, CompleteInv, ItemsAreWhatTheyName, Replied
<1>11. QED
  BY <1>6, <1>7, <1>9, <1>10 DEF ToolsInv

\* Of what a message has to show: its text.
TextDue(tree, tool) ==
  IF tool = "get_message" /\ \E kind \in {"plain", "html"} : Texts(tree, kind) # {} THEN 1 ELSE 0

\* One message is handed over with at least its attachments and text, or the mark.
LEMMA ReadingKeeps ==
  ASSUME MimeAssumption, MailAssumption, ToolsInv, pc \in {"body", "structure"}, call.id \in Ids, Identity,
         NEW w \in {normalizeMessage(letters[call.id.uid].tree), projectAttachmentStructure(letters[call.id.uid].tree)},
         w.err = "none", NEW more \in Nat, UNCHANGED <<searched, thread>>, NEW r,
         w.flags = {} => more >= TextDue(letters[call.id.uid].tree, call.tool),
         r = [items |-> <<Item(call.id)>>, extras |-> Len(w.attachments) + more, truncated |-> w.flags # {}],
         Encodes(r)
  PROVE  ToolsInv'
<1> DEFINE tree == letters[call.id.uid].tree  a == Len(w.attachments)
<1>1. MailInv /\ IsTree(tree)
  <2>1. MailInv /\ call.id.uid \in UIDs
    BY DEF ToolsInv, Ids
  <2>2. QED
    BY <2>1, MailTypes
<1>2. w \in {normalizeMessage(tree), projectAttachmentStructure(tree)}
  OBVIOUS
<1> HIDE DEF tree
<1>3. a \in Nat /\ (w.flags = {} => Cardinality(Attachments(tree)) <= a)
  BY <1>1, <1>2, ReadingsCount
<1>4. Cardinality(Attachments(tree)) \in Nat
  <2>1. tree \in Seq(Entities)
    BY <1>1 DEF IsTree
  <2>2. QED
    BY <2>1, AttachmentsFinite, FS_CardinalityType
<1> HIDE DEF a
<1>5. a + more \in Nat /\ (w.flags = {} => a + more >= Contents(tree, call.tool))
  <2> DEFINE c == Cardinality(Attachments(tree))  d == TextDue(tree, call.tool)
  <2>1. c \in Nat /\ (w.flags = {} => c <= a)
    BY <1>3, <1>4
  <2>2. d \in Nat /\ (w.flags = {} => more >= d)
    BY DEF TextDue, tree
  <2>3. Contents(tree, call.tool) = c + d
    BY DEF Contents, TextDue
  <2> HIDE DEF c, d
  <2>4. QED
    BY <1>3, <2>1, <2>2, <2>3
<1> DEFINE x == a + more  cut == (w.flags # {})
<1>6. cut \in BOOLEAN /\ (~cut => w.flags = {})
  OBVIOUS
<1>7. r = [items |-> <<Item(call.id)>>, extras |-> x, truncated |-> cut]
  BY DEF a
<1> HIDE DEF x, cut
<1>8. r \in Results(ReadItems)
  <2>1. x \in Nat
    BY <1>5 DEF x
  <2>2. QED
    BY <1>6, <1>7, <2>1, OneItem
<1>9. r.items = <<Item(call.id)>> /\ r.extras = a + more /\ (~r.truncated => w.flags = {})
  <2>1. r.items = <<Item(call.id)>> /\ r.extras = x /\ r.truncated = cut
    BY <1>7
  <2>2. QED
    BY <1>6, <2>1 DEF x
<1>10. MailInv' /\ ThreadIsForest'
  BY DEF ToolsInv, MailInv, ThreadIsForest, UIDs, Encodes, mail
<1>11. searched = NoSearch /\ call.tool # "triage" /\ call.tool \notin Searches \cup {"get_thread"}
  BY DEF ToolsInv, CallInv, Identity, Searches
<1>12. HasAll(letters, box, searched', call, Identities(r.items))
  BY <1>1, <1>11, NothingDue
<1>13. ~r.truncated => r.extras >= Contents(letters[call.id.uid].tree, call.tool)
  BY <1>5, <1>9 DEF tree
<1>14. QED
  BY <1>8, <1>9, <1>10, <1>11, <1>12, <1>13, EncodesKeeps

\* The body of get_message, the structure of list_attachments.
LEMMA ReadingsKeep ==
  ASSUME MimeAssumption, MailAssumption, ToolsInv, GetMessageBody \/ GetMessageAttachmentStructure
  PROVE  ToolsInv'
<1>1. CASE GetMessageBody
  <2> DEFINE w == normalizeMessage(letters[call.id.uid].tree)
             more == IF w.source = "none" THEN 0 ELSE 1
             r == [items |-> <<[result.items[1] EXCEPT !.of = <<box.gen, call.id.uid>>]>>,
                   extras |-> Len(w.attachments) + more, truncated |-> w.flags # {}]
  <2>1. pc = "body" /\ box.gen = call.id.gen /\ Normalized(call.id.uid)
    BY <1>1 DEF GetMessageBody, Present
  <2>2. call.tool = "get_message" /\ call.id \in Ids
    BY <2>1 DEF ToolsInv, CallInv, Reads, Searches
  <2>3. result \in Results(ReadItems) /\ result.items = <<Item(call.id)>>
    BY <2>1, <2>2 DEF ToolsInv, ResultInv, Reads, Searches
  <2>4. CASE letters[call.id.uid].malformed \/ w.err # "none"
    <3>1. Refuse("internal")
      BY <2>1, <2>4 DEF Normalized
    <3>2. QED
      BY <3>1, RefuseKeeps
  <2>5. CASE ~(letters[call.id.uid].malformed \/ w.err # "none")
    <3>1. Encodes(r) /\ UNCHANGED <<searched, thread>> /\ w.err = "none"
      BY <2>1, <2>5 DEF Normalized
    <3>2. r = [items |-> <<Item(call.id)>>, extras |-> Len(w.attachments) + more, truncated |-> w.flags # {}]
      <4>1. result.items[1] = Item(call.id)
        BY <2>2, <2>3, OneItem
      <4>2. [Item(call.id) EXCEPT !.of = <<box.gen, call.id.uid>>] = Item(call.id)
        BY <2>1 DEF Item
      <4>3. QED
        BY <4>1, <4>2
    <3>3. more \in Nat /\ Identity
      BY <2>2 DEF Identity
    <3>4. w.flags = {} => more >= TextDue(letters[call.id.uid].tree, call.tool)
      <4> DEFINE tree == letters[call.id.uid].tree
      <4>1. MailInv /\ call.id.uid \in UIDs
        BY <2>2 DEF ToolsInv, Ids
      <4>2. IsTree(tree)
        BY <4>1, MailTypes
      <4> HIDE DEF tree
      <4>3. WalksAreHonest(tree)
        BY <4>2, WalksHonest
      <4>4. w.flags = {} =>
              normalizeMessage(tree).source = (CASE Texts(tree, "plain") # {} -> "plain"
                 [] Texts(tree, "plain") = {} /\ Texts(tree, "html") # {} -> "html"
                 [] OTHER -> "none")
        BY <3>1, <4>3 DEF WalksAreHonest, tree
      <4>5. w.source = normalizeMessage(tree).source
        BY DEF tree
      <4> HIDE DEF w
      <4>6. w.flags = {} /\ (\E kind \in {"plain", "html"} : Texts(tree, kind) # {}) => w.source # "none"
        BY <4>4, <4>5
      <4>7. QED
        BY <4>6 DEF TextDue, tree
    <3> HIDE DEF more, r
    <3>5. QED
      BY <2>1, <2>2, <3>1, <3>2, <3>3, <3>4, ReadingKeeps
  <2>6. QED
    BY <2>4, <2>5
<1>2. CASE GetMessageAttachmentStructure
  <2> DEFINE w == projectAttachmentStructure(letters[call.id.uid].tree)
             r == [items |-> <<Item(call.id)>>, extras |-> Len(w.attachments), truncated |-> w.flags # {}]
  <2>1. /\ pc = "structure"
        /\ IF w.err # "none" THEN Refuse("internal")
           ELSE Encodes(r) /\ UNCHANGED <<searched, thread>>
    BY <1>2 DEF GetMessageAttachmentStructure
  <2>2. call.tool = "list_attachments" /\ call.id \in Ids
    BY <2>1 DEF ToolsInv, CallInv, Reads, Searches
  <2>3. CASE w.err # "none"
    BY <2>1, <2>3, RefuseKeeps
  <2>4. CASE w.err = "none"
    <3>1. Len(w.attachments) \in Nat
      <4>1. MailInv /\ call.id.uid \in UIDs
        BY <2>2 DEF ToolsInv, Ids
      <4>2. IsTree(letters[call.id.uid].tree)
        BY <4>1, MailTypes
      <4>3. QED
        BY <4>2, ReadingsCount
    <3>2. r = [items |-> <<Item(call.id)>>, extras |-> Len(w.attachments) + 0, truncated |-> w.flags # {}]
      <4>1. Len(w.attachments) + 0 = Len(w.attachments)
        BY <3>1
      <4>2. QED
        BY <4>1
    <3>3. 0 \in Nat /\ Identity
      BY <2>2 DEF Identity
    <3>4. Encodes(r) /\ UNCHANGED <<searched, thread>>
      BY <2>1, <2>4
    <3>5. 0 >= TextDue(letters[call.id.uid].tree, call.tool)
      BY <2>2 DEF TextDue
    <3> HIDE DEF r
    <3>6. QED
      BY <2>1, <2>2, <2>4, <3>2, <3>3, <3>4, <3>5, ReadingKeeps
  <2>5. QED
    BY <2>3, <2>4
<1>3. QED
  BY <1>1, <1>2

\* The batch of a triage tool has run.
LEMMA TriageKeeps ==
  ASSUME ToolsInv, NEW outcomes, NEW executed, RunTriage(outcomes, executed)
  PROVE  ToolsInv'
<1> DEFINE done == {call.uids[i] : i \in {j \in DOMAIN call.uids :
                      outcomes[j] = "applied" \/ (outcomes[j] = "unknown" /\ executed)}}
<1>1. /\ pc = "triage" /\ pc' = "encode" /\ box' = [box EXCEPT !.mail = @ \ done] /\ moved' = done
      /\ result' = triageResults(call.uids, outcomes)
      /\ letters' = letters /\ call' = call /\ searched' = searched /\ thread' = thread
  BY DEF RunTriage, mail
<1>2. MailInv /\ call.tool = "triage" /\ searched = NoSearch /\ call.limit \in Nat
  BY <1>1 DEF ToolsInv, CallInv, Searches
<1>3. box \in [gen : 1 .. 2, next : Nat, mail : SUBSET UIDs]
  BY <1>2 DEF MailInv
<1>4. DoneInv'
  <2> DEFINE q == [i \in DOMAIN call.uids |->
                     [id |-> call.uids[i], of |-> IF outcomes[i] \in {"applied", "refused", "not_attempted"}
                                                  THEN outcomes[i] ELSE "unknown"]]
  <2>1. result'.items = q
    BY <1>1 DEF triageResults, NoResult
  <2>2. \A i \in DOMAIN q : q[i].of = "applied" => q[i].id \in done
    OBVIOUS
  <2> HIDE DEF q, done
  <2>3. \A i \in DOMAIN result'.items : result'.items[i].of = "applied" => result'.items[i].id \in moved'
    BY <1>1, <2>1, <2>2
  <2>4. HasAll(letters', box', searched', call', Identities(result'.items))
    <3>1. box'.gen \in 1 .. 2
      BY <1>1, <1>3
    <3>2. searched'.gen = 0
      BY <1>1, <1>2 DEF NoSearch
    <3>3. QED
      BY <3>1, <3>2 DEF HasAll
  <2>5. ~Identity'
    BY <1>1, <1>2 DEF Identity
  <2>6. QED
    BY <2>3, <2>4, <2>5 DEF DoneInv
<1> HIDE DEF done
<1>5. box' \in [gen : 1 .. 2, next : Nat, mail : SUBSET UIDs] /\ box'.gen = box.gen /\ box'.next = box.next
      /\ box'.mail \subseteq box.mail
  BY <1>1, <1>3
<1>6. MailInv'
  BY <1>1, <1>2, <1>5 DEF MailInv, UIDs
<1>7. CallInv'
  BY <1>1, <1>2 DEF CallInv, Reads, Searches
<1>8. ResultInv'
  BY <1>1, <1>2 DEF ResultInv, Reads, Searches, Identity
<1>9. CompleteInv' /\ ItemsAreWhatTheyName' /\ ThreadIsForest'
  BY <1>1 DEF ToolsInv, CompleteInv, ItemsAreWhatTheyName, Replied, ThreadIsForest
<1>10. QED
  BY <1>4, <1>6, <1>7, <1>8, <1>9 DEF ToolsInv

\* The result is encoded into what there is room for.
LEMMA EncodeKeeps ==
  ASSUME ToolAssumption, ToolsInv, NEW room \in Rooms, Encode(room)
  PROVE  ToolsInv'
<1> DEFINE e == encodeBounded(result, room)
<1>1. /\ pc = "encode" /\ pc' = "done" /\ reply' = e /\ box' = box /\ letters' = letters /\ call' = call
      /\ searched' = searched /\ result' = result /\ thread' = thread /\ moved' = moved
  BY DEF Encode, mail, locals
<1>2. MailInv' /\ ThreadIsForest'
  BY <1>1 DEF ToolsInv, MailInv, ThreadIsForest, UIDs
<1>3. CallInv'
  BY <1>1 DEF ToolsInv, CallInv, Ids, UIDs
<1>4. ResultInv' /\ DoneInv'
  BY <1>1 DEF ToolsInv, ResultInv, DoneInv, ReadItems, Ids, UIDs
<1>5. MailInv /\ DoneInv
  BY DEF ToolsInv
<1>6. Listed' = Identities(e.items) /\ (Identity' <=> Identity)
  BY <1>1 DEF Listed, Identities, Identity
<1>7. call.tool \notin Searches \cup {"get_thread"} => HasAll(letters, box, searched, call, Identities(e.items))
  BY <1>5, NothingDue DEF ToolsInv, CallInv
<1>8. CASE call.tool \in Reads
  <2>1. result \in Results(ReadItems) /\ call.tool # "triage"
    BY <1>8 DEF ToolsInv, ResultInv, Reads, Searches
  <2>2. /\ e.items \in Seq(ReadItems)
        /\ Identity /\ e.err = "none" => e.items = result.items
        /\ ~e.truncated /\ e.err = "none" => ~result.truncated /\ e.items = result.items /\ e.extras = result.extras
    BY <2>1, EncodedIs
  <2> HIDE DEF e
  <2>3. \A i \in DOMAIN e.items : e.items[i].of = <<e.items[i].id.gen, e.items[i].id.uid>>
    BY <2>2, NamesRead
  <2>4. Identity /\ e.err = "none" => Identities(e.items) = {call.id}
    <3> SUFFICES ASSUME Identity, e.err = "none" PROVE Identities(e.items) = {call.id}
      OBVIOUS
    <3>1. e.items = <<Item(call.id)>>
      BY <1>1, <2>2 DEF ToolsInv, ResultInv
    <3>2. QED
      <4> DEFINE it == Item(call.id)
      <4>1. it.id = call.id
        BY DEF Item
      <4> HIDE DEF it
      <4>2. e.items = <<it>> /\ DOMAIN <<it>> = {1} /\ <<it>>[1] = it
        BY <3>1 DEF it
      <4>3. QED
        BY <4>1, <4>2 DEF Identities
  <2>5. ItemsAreWhatTheyName'
    BY <1>1, <1>6, <2>1, <2>3, <2>4 DEF ItemsAreWhatTheyName, Replied, Identity
  <2>6. CompleteInv'
    BY <1>1, <1>5, <1>6, <2>2 DEF CompleteInv, Replied, DoneInv
  <2>7. QED
    BY <1>2, <1>3, <1>4, <2>5, <2>6 DEF ToolsInv
<1>9. CASE call.tool \notin Reads
  <2>1. ~Identity /\ call.tool \notin Searches \cup {"get_thread"}
    BY <1>9 DEF Identity, Reads, Searches
  <2>2. CompleteInv'
    BY <1>1, <1>6, <1>7, <2>1 DEF CompleteInv
  <2>3. call.tool = "triage" => e.items = result.items
    <3> SUFFICES ASSUME call.tool = "triage" PROVE e.items = result.items
      OBVIOUS
    <3>1. e = Answer(result)
      <4> DEFINE fits == Len(Shrunk(result, room).items) + Shrunk(result, room).extras <= room
      <4>1. e = CASE call.tool = "triage" -> Answer(result)
                  [] call.tool # "triage" /\ fits -> Answer(Shrunk(result, room))
                  [] Identity /\ ~fits /\ room > -2 -> Answer([result EXCEPT !.extras = 0, !.truncated = TRUE])
                  [] Identity /\ ~fits /\ room = -2 -> [NoReply EXCEPT !.err = "bounds_exceeded"]
                  [] OTHER -> [NoReply EXCEPT !.truncated = TRUE]
        BY DEF encodeBounded
      <4> HIDE DEF fits
      <4>2. QED
        BY <2>1, <4>1
    <3>2. QED
      BY <3>1 DEF Answer
  <2> HIDE DEF e
  <2>4. call.tool = "triage" => \A i \in DOMAIN e.items : e.items[i].of = "applied" => e.items[i].id \in moved
    BY <1>1, <1>5, <2>3 DEF DoneInv
  <2>5. ItemsAreWhatTheyName'
    BY <1>1, <1>9, <2>4 DEF ItemsAreWhatTheyName, Reads, Searches
  <2>6. QED
    BY <1>2, <1>3, <1>4, <2>2, <2>5 DEF ToolsInv
<1>10. QED
  BY <1>8, <1>9

\* A candidate that is listed, or has another subject, need not be looked at.
LEMMA HasPasses ==
  ASSUME NEW mailbox, NEW b, NEW s, NEW c, NEW ids, NEW more, NEW h,
         HasAll(mailbox, b, s, c, ids), c.tool = "get_thread", ids \subseteq more \cup {h},
         \/ h \in more
         \/ {mailbox[h.uid].subject, mailbox[h.uid].decoded} # {mailbox[c.id.uid].subject}
  PROVE  HasAll(mailbox, b, s, c, more)
<1> SUFFICES ASSUME s.gen = b.gen, NEW u \in b.mail, u < s.next,
                    {mailbox[u].subject, mailbox[u].decoded} = {mailbox[c.id.uid].subject}
             PROVE  [gen |-> b.gen, uid |-> u] \in more
  BY DEF HasAll
<1> DEFINE x == [gen |-> b.gen, uid |-> u]
<1>1. x \in ids /\ x.uid = u
  BY DEF HasAll
<1> HIDE DEF x
<1>2. x = h => h \in more
  BY <1>1
<1>3. QED
  BY <1>1, <1>2 DEF x

\* The head of a list and the rest of it.
LEMMA HeadTail ==
  ASSUME NEW S, NEW q \in Seq(S), q # <<>>
  PROVE  /\ Head(q) \in S /\ Tail(q) \in Seq(S)
         /\ Range(q) = {Head(q)} \cup Range(Tail(q))
<1> DEFINE n == Len(q)
<1>1. n \in Nat /\ n >= 1 /\ DOMAIN q = 1 .. n /\ Head(q) = q[1] /\ Head(q) \in S /\ Tail(q) \in Seq(S)
  OBVIOUS
<1>2. DOMAIN Tail(q) = 1 .. n - 1 /\ \A i \in 1 .. n - 1 : Tail(q)[i] = q[i + 1]
  BY <1>1
<1> HIDE DEF n
<1>3. \A i \in 1 .. n : i = 1 \/ i - 1 \in 1 .. n - 1
  BY <1>1
<1>4. \A i \in 1 .. n - 1 : i + 1 \in 1 .. n
  BY <1>1
<1>5. \A i \in 1 .. n : i # 1 => q[i] = Tail(q)[i - 1]
  <2> SUFFICES ASSUME NEW i \in 1 .. n, i # 1 PROVE q[i] = Tail(q)[i - 1]
    OBVIOUS
  <2>1. i - 1 \in 1 .. n - 1 /\ (i - 1) + 1 = i
    BY <1>1
  <2>2. QED
    BY <1>2, <2>1
<1>6. Range(q) \subseteq {Head(q)} \cup Range(Tail(q))
  <2> SUFFICES ASSUME NEW i \in 1 .. n PROVE q[i] \in {Head(q)} \cup Range(Tail(q))
    BY <1>1 DEF Range
  <2>1. CASE i = 1
    BY <1>1, <2>1
  <2>2. CASE i # 1
    BY <1>2, <1>3, <1>5, <2>2 DEF Range
  <2>3. QED
    BY <2>1, <2>2
<1>7. {Head(q)} \cup Range(Tail(q)) \subseteq Range(q)
  <2>1. Head(q) \in Range(q)
    BY <1>1 DEF Range
  <2>2. Range(Tail(q)) \subseteq Range(q)
    BY <1>1, <1>2, <1>4 DEF Range
  <2>3. QED
    BY <2>1, <2>2
<1>8. QED
  BY <1>1, <1>6, <1>7

\* A step of get_thread that keeps the target first and accounts for the rest.
LEMMA SiblingsKeep ==
  ASSUME ToolsInv, call.tool = "get_thread", pc # "done", pc' \in {"candidates", "siblings", "resolve"},
         box' = box, letters' = letters, call' = call, thread' = thread, MailInv',
         pc' # "siblings" => searched' = NoSearch,
         result' \in Results(ReadItems), result'.items # <<>>, result'.items[1].id = call.id,
         pc' = "siblings" => left' \in Seq(Ids),
         pc' = "siblings" /\ ~result'.truncated =>
           HasAll(letters, box, searched', call, Identities(result'.items) \cup Range(left'))
  PROVE  ToolsInv'
<1>1. Ids' = Ids /\ ReadItems' = ReadItems /\ ~Identity'
  BY DEF ReadItems, Ids, UIDs, Identity
<1>2. CallInv'
  BY <1>1 DEF ToolsInv, CallInv, Reads, Searches
<1>3. ResultInv'
  BY <1>1 DEF ResultInv
<1>4. DoneInv' /\ CompleteInv' /\ ItemsAreWhatTheyName'
  BY DEF DoneInv, CompleteInv, ItemsAreWhatTheyName, Replied
<1>5. ThreadIsForest'
  BY DEF ToolsInv, ThreadIsForest
<1>6. QED
  BY <1>2, <1>3, <1>4, <1>5 DEF ToolsInv

\* The target of get_thread.
LEMMA ReadTargetKeeps ==
  ASSUME ToolsInv, ReadTarget
  PROVE  ToolsInv'
<1> DEFINE r == [items |-> <<Item(call.id)>>, extras |-> 0, truncated |-> FALSE]
<1>1. pc = "target" /\ call.tool = "get_thread" /\ call.id \in Ids /\ searched = NoSearch
  BY DEF ReadTarget, ToolsInv, CallInv, Reads, Searches
<1>2. CASE letters[call.id.uid].malformed
  <2>1. Refuse("unavailable")
    BY <1>2 DEF ReadTarget
  <2>2. QED
    BY <2>1, RefuseKeeps
<1>3. CASE ~letters[call.id.uid].malformed
  <2>1. /\ pc' = (IF letters[call.id.uid].subject = 0 THEN "resolve" ELSE "candidates")
        /\ result' = [NoResult EXCEPT !.items = <<Item(call.id)>>]
        /\ box' = box /\ letters' = letters /\ call' = call /\ searched' = searched /\ thread' = thread
    BY <1>3 DEF ReadTarget, mail
  <2>2. result' = r
    BY <2>1 DEF NoResult
  <2>3. r \in Results(ReadItems) /\ <<Item(call.id)>> # <<>> /\ <<Item(call.id)>>[1].id = call.id
    BY <1>1, OneItem
  <2>4. r.items = <<Item(call.id)>>
    OBVIOUS
  <2> HIDE DEF r
  <2>5. MailInv'
    BY <2>1 DEF ToolsInv, MailInv, UIDs
  <2>6. pc' \in {"candidates", "resolve"}
    BY <2>1
  <2>7. QED
    BY <1>1, <2>1, <2>2, <2>3, <2>4, <2>5, <2>6, SiblingsKeep
<1>4. QED
  BY <1>2, <1>3

\* What a handler has after the search for siblings, and between two of them.
LEMMA InThread ==
  ASSUME ToolsInv, pc \in {"candidates", "siblings", "resolve"}
  PROVE  /\ call.tool = "get_thread" /\ call.id \in Ids /\ call.limit \in Nat /\ MailInv
         /\ result \in Results(ReadItems) /\ result.items # <<>> /\ result.items[1].id = call.id
         /\ result.items \in Seq(ReadItems) /\ result.extras \in Nat /\ result.truncated \in BOOLEAN
         /\ call.id \in Identities(result.items)
         /\ pc = "siblings" => /\ left \in Seq(Ids)
                               /\ ~result.truncated =>
                                    HasAll(letters, box, searched, call, Identities(result.items) \cup Range(left))
<1>1. call.tool = "get_thread" /\ call.id \in Ids /\ call.limit \in Nat /\ MailInv
  BY DEF ToolsInv, CallInv, Reads, Searches
<1>2. /\ result \in Results(ReadItems) /\ result.items # <<>> /\ result.items[1].id = call.id
      /\ pc = "siblings" => /\ left \in Seq(Ids)
                            /\ ~result.truncated =>
                                 HasAll(letters, box, searched, call, Identities(result.items) \cup Range(left))
  BY <1>1 DEF ToolsInv, ResultInv, Reads, Searches
<1>3. result.items \in Seq(ReadItems) /\ result.extras \in Nat /\ result.truncated \in BOOLEAN
  BY <1>2 DEF Results
<1>4. 1 \in DOMAIN result.items
  BY <1>2, <1>3
<1>5. QED
  BY <1>1, <1>2, <1>3, <1>4 DEF Identities

\* A result with another mark.
LEMMA Marked ==
  ASSUME NEW S, NEW r \in Results(S), NEW cut \in BOOLEAN
  PROVE  /\ [r EXCEPT !.truncated = cut] \in Results(S)
         /\ [r EXCEPT !.truncated = cut].items = r.items
         /\ [r EXCEPT !.truncated = cut].truncated = cut
BY DEF Results

\* The search for messages of the same thread.
LEMMA SearchSiblingsKeeps ==
  ASSUME MailAssumption, ToolsInv, NEW n \in Nat, SearchSiblings(n)
  PROVE  ToolsInv'
<1> DEFINE subject == letters[call.id.uid].subject
           M == {u \in box.mail : letters[u].subject >= subject}
           pg == SearchPage(M, n)
<1>1. /\ pc = "candidates" /\ pc' = "siblings" /\ left' = pg.messages
      /\ result' = [result EXCEPT !.truncated = pg.truncated]
      /\ searched' = [gen |-> box.gen, next |-> box.next]
      /\ box' = box /\ letters' = letters /\ call' = call /\ thread' = thread
  BY DEF SearchSiblings, mail
<1>2. /\ call.tool = "get_thread" /\ call.id \in Ids /\ MailInv
      /\ result \in Results(ReadItems) /\ result.items # <<>> /\ result.items[1].id = call.id
  BY <1>1, InThread
<1>3. M \in SUBSET box.mail
  OBVIOUS
<1>4. \A u \in box.mail : letters[u].subject = subject => u \in M
  <2>1. subject \in Nat
    <3>1. call.id.uid \in UIDs
      BY <1>2 DEF Ids
    <3>2. QED
      BY <1>2, <3>1, MailTypes
  <2>2. QED
    BY <2>1
<1> HIDE DEF M
<1>5. /\ pg.messages \in Seq(Ids) /\ pg.truncated \in BOOLEAN
      /\ ~pg.truncated => \A u \in M : [gen |-> box.gen, uid |-> u] \in Range(pg.messages)
  BY <1>2, <1>3, PageFound
<1> HIDE DEF pg
<1>6. MailInv'
  BY <1>1, <1>2, SearchedNow
<1>7. result' \in Results(ReadItems) /\ result'.items = result.items /\ result'.truncated = pg.truncated
  BY <1>1, <1>2, <1>5, Marked
<1>8. ASSUME ~result'.truncated
      PROVE  HasAll(letters, box, searched', call, Identities(result'.items) \cup Range(left'))
  <2> SUFFICES ASSUME NEW u \in box.mail, {letters[u].subject, letters[u].decoded} = {subject}
               PROVE  [gen |-> box.gen, uid |-> u] \in Identities(result'.items) \cup Range(left')
    BY <1>2 DEF HasAll
  <2>1. letters[u].subject = subject
    OBVIOUS
  <2>2. u \in M
    BY <1>4, <2>1
  <2>3. QED
    BY <1>1, <1>5, <1>7, <1>8, <2>2
<1>9. QED
  BY <1>1, <1>2, <1>5, <1>6, <1>7, <1>8, SiblingsKeep

\* A candidate is passed over, or the candidates are.
LEMMA SkipKeeps ==
  ASSUME MailAssumption, ToolsInv, SkipCandidate \/ StopCandidates
  PROVE  ToolsInv'
<1>1. /\ pc = "siblings" /\ left # <<>> /\ pc' = pc
      /\ box' = box /\ letters' = letters /\ call' = call /\ thread' = thread /\ searched' = searched
  BY DEF SkipCandidate, StopCandidates, Eligible, mail
<1>2. /\ call.tool = "get_thread" /\ call.id \in Ids /\ MailInv /\ left \in Seq(Ids)
      /\ result \in Results(ReadItems) /\ result.items # <<>> /\ result.items[1].id = call.id
      /\ call.id \in Identities(result.items)
      /\ ~result.truncated => HasAll(letters, box, searched, call, Identities(result.items) \cup Range(left))
  BY <1>1, InThread
<1>3. MailInv'
  BY <1>1, <1>2 DEF MailInv, UIDs
<1>4. CASE SkipCandidate
  <2> DEFINE h == Head(left)  rest == Tail(left)
  <2>1. /\ left' = rest /\ result' = result
        /\ h = call.id \/ letters[h.uid].subject # letters[call.id.uid].subject
    BY <1>4 DEF SkipCandidate
  <2>2. rest \in Seq(Ids) /\ Range(left) = {h} \cup Range(rest)
    BY <1>1, <1>2, HeadTail
  <2> HIDE DEF h, rest
  <2>3. ASSUME ~result.truncated
        PROVE  HasAll(letters, box, searched, call, Identities(result.items) \cup Range(rest))
    <3> DEFINE ids == Identities(result.items) \cup Range(left)  more == Identities(result.items) \cup Range(rest)
    <3>1. ids \subseteq more \cup {h}
      BY <2>2
    <3>2. h \in more \/ {letters[h.uid].subject, letters[h.uid].decoded} # {letters[call.id.uid].subject}
      BY <1>2, <2>1
    <3>3. HasAll(letters, box, searched, call, ids)
      BY <1>2, <2>3
    <3> HIDE DEF ids, more
    <3>4. HasAll(letters, box, searched, call, more)
      BY <1>2, <3>1, <3>2, <3>3, HasPasses
    <3>5. QED
      BY <3>4 DEF more
  <2>4. QED
    BY <1>1, <1>2, <1>3, <2>1, <2>2, <2>3, SiblingsKeep
<1>5. CASE StopCandidates
  <2>1. left' = <<>> /\ result' = [result EXCEPT !.truncated = TRUE]
    BY <1>5 DEF StopCandidates
  <2>2. TRUE \in BOOLEAN /\ <<>> \in Seq(Ids)
    OBVIOUS
  <2>3. result' \in Results(ReadItems) /\ result'.items = result.items /\ result'.truncated = TRUE
    BY <1>2, <2>1, <2>2, Marked
  <2>4. QED
    BY <1>1, <1>2, <1>3, <2>1, <2>2, <2>3, SiblingsKeep
<1>6. QED
  BY <1>4, <1>5

\* One sibling is read: it is listed, has another subject, or is missed.
LEMMA ReadSiblingKeeps ==
  ASSUME MailAssumption, ToolsInv, ReadSibling
  PROVE  ToolsInv'
<1> DEFINE h == Head(left)  rest == Tail(left)  m == letters[h.uid]
           read == Present(h) /\ ~m.malformed
           matches == m.decoded = letters[call.id.uid].subject
<1>1. /\ pc = "siblings" /\ left # <<>> /\ pc' = pc /\ left' = rest
      /\ box' = box /\ letters' = letters /\ call' = call /\ thread' = thread /\ searched' = searched
  BY DEF ReadSibling, Eligible, mail
<1>2. /\ call.tool = "get_thread" /\ call.id \in Ids /\ MailInv /\ left \in Seq(Ids)
      /\ result \in Results(ReadItems) /\ result.items # <<>> /\ result.items[1].id = call.id
      /\ result.items \in Seq(ReadItems) /\ result.extras \in Nat /\ result.truncated \in BOOLEAN
      /\ ~result.truncated => HasAll(letters, box, searched, call, Identities(result.items) \cup Range(left))
  BY <1>1, InThread
<1>3. MailInv'
  BY <1>1, <1>2 DEF MailInv, UIDs
<1>4. result' = CASE ~read -> [result EXCEPT !.extras = @ + 1, !.truncated = TRUE]
                  [] read /\ matches -> [result EXCEPT !.items = Append(@, Item(h))]
                  [] OTHER -> result
  BY DEF ReadSibling
<1>5. h \in Ids /\ rest \in Seq(Ids) /\ Range(left) = {h} \cup Range(rest)
  BY <1>1, <1>2, HeadTail
<1> HIDE DEF h, rest, read
<1> DEFINE ids == Identities(result.items) \cup Range(left)
<1>6. ~result.truncated => HasAll(letters, box, searched, call, ids)
  BY <1>2
<1>7. CASE ~read
  <2> DEFINE x == result.extras + 1
  <2>1. x \in Nat /\ result' = [result EXCEPT !.extras = x, !.truncated = TRUE]
    BY <1>2, <1>4, <1>7
  <2> HIDE DEF x
  <2>2. result' \in Results(ReadItems) /\ result'.items = result.items /\ result'.truncated = TRUE
    BY <1>2, <2>1 DEF Results
  <2>3. QED
    BY <1>1, <1>2, <1>3, <1>5, <2>2, SiblingsKeep
<1>8. CASE read /\ matches
  <2> DEFINE q == Append(result.items, Item(h))  n == Len(result.items)
  <2>1. result' = [result EXCEPT !.items = q]
    BY <1>4, <1>8
  <2>2. Item(h) \in ReadItems /\ Item(h).id = h
    BY <1>5 DEF ReadItems, Item
  <2>3. n \in Nat /\ DOMAIN result.items = 1 .. n /\ n >= 1
    BY <1>2
  <2>4. /\ q \in Seq(ReadItems) /\ DOMAIN q = 1 .. n + 1 /\ q[n + 1] = Item(h)
        /\ \A i \in 1 .. n : q[i] = result.items[i]
    BY <1>2, <2>2, <2>3
  <2> HIDE DEF q, n
  <2>5. q # <<>> /\ q[1].id = call.id
    <3>1. 1 \in 1 .. n /\ 1 \in 1 .. n + 1
      BY <2>3
    <3>2. q[1] = result.items[1]
      BY <2>4, <3>1
    <3>3. 1 \in DOMAIN q
      BY <2>4, <3>1
    <3>4. 1 \notin DOMAIN <<>>
      OBVIOUS
    <3>5. QED
      BY <1>2, <3>2, <3>3, <3>4
  <2>6. /\ result' \in Results(ReadItems) /\ result'.items = q
        /\ result'.truncated = result.truncated
    BY <1>2, <2>1, <2>4 DEF Results
  <2>7. h \in Identities(q) /\ Identities(result.items) \subseteq Identities(q)
    <3>1. n + 1 \in 1 .. n + 1 /\ \A i \in 1 .. n : i \in 1 .. n + 1
      BY <2>3
    <3>2. h \in Identities(q)
      BY <2>2, <2>4, <3>1 DEF Identities
    <3>3. \A i \in 1 .. n : result.items[i].id \in Identities(q)
      BY <2>4, <3>1 DEF Identities
    <3>4. QED
      BY <2>3, <3>2, <3>3 DEF Identities
  <2>8. ASSUME ~result'.truncated
        PROVE  HasAll(letters, box, searched, call, Identities(q) \cup Range(rest))
    <3> DEFINE more == Identities(q) \cup Range(rest)
    <3>1. ids \subseteq more \cup {h} /\ h \in more
      BY <1>5, <2>7
    <3>2. HasAll(letters, box, searched, call, ids)
      BY <1>6, <2>6, <2>8
    <3> HIDE DEF ids, more
    <3>3. HasAll(letters, box, searched, call, more)
      BY <1>2, <3>1, <3>2, HasPasses
    <3>4. QED
      BY <3>3 DEF more
  <2>9. QED
    BY <1>1, <1>2, <1>3, <1>5, <2>5, <2>6, <2>8, SiblingsKeep
<1>9. CASE read /\ ~matches
  <2>1. result' = result
    BY <1>4, <1>9
  <2>2. ASSUME ~result.truncated
        PROVE  HasAll(letters, box, searched, call, Identities(result.items) \cup Range(rest))
    <3> DEFINE more == Identities(result.items) \cup Range(rest)
    <3>1. ids \subseteq more \cup {h}
      BY <1>5
    <3>2. {letters[h.uid].subject, letters[h.uid].decoded} # {letters[call.id.uid].subject}
      BY <1>9
    <3>3. HasAll(letters, box, searched, call, ids)
      BY <1>6, <2>2
    <3> HIDE DEF ids, more
    <3>4. HasAll(letters, box, searched, call, more)
      BY <1>2, <3>1, <3>2, <3>3, HasPasses
    <3>5. QED
      BY <3>4 DEF more
  <2>3. QED
    BY <1>1, <1>2, <1>3, <1>5, <2>1, <2>2, SiblingsKeep
<1>10. QED
  BY <1>7, <1>8, <1>9

\* Keys tell identities apart.
LEMMA KeysApart ==
  ASSUME MailAssumption, MailInv, NEW a \in Ids, NEW b \in Ids
  PROVE  KeyOf(a) \in Nat \ {0} /\ (KeyOf(a) = KeyOf(b) => a = b)
<1>1. UIDs \subseteq Nat
  BY MailTypes
<1>2. a.uid \in Nat /\ b.uid \in Nat /\ a.gen \in 1 .. 2 /\ b.gen \in 1 .. 2
  BY <1>1 DEF Ids
<1>3. a = [gen |-> a.gen, uid |-> a.uid] /\ b = [gen |-> b.gen, uid |-> b.uid]
  BY DEF Ids
<1> DEFINE u == a.uid  v == b.uid  g == a.gen  h == b.gen
<1> HIDE DEF u, v, g, h
<1>4. u \in Nat /\ v \in Nat /\ g \in 1 .. 2 /\ h \in 1 .. 2
  BY <1>2 DEF u, v, g, h
<1>5. 2 * u + g \in Nat \ {0} /\ (2 * u + g = 2 * v + h => u = v /\ g = h)
  BY <1>4
<1>6. KeyOf(a) = 2 * u + g /\ KeyOf(b) = 2 * v + h
  BY DEF KeyOf, u, v, g, h
<1>7. QED
  BY <1>3, <1>5, <1>6 DEF u, v, g, h

\* The headers of a member are a message under its key.
LEMMA HeadersIs ==
  ASSUME MailAssumption, MailInv, NEW id \in Ids
  PROVE  HeadersOf(id) \in ThreadMessages /\ Base(HeadersOf(id)) = KeyOf(id)
<1>1. id.uid \in UIDs
  BY DEF Ids
<1> DEFINE m == letters[id.uid]
<1>2. m.mid \in Nat /\ m.refs \in Seq(Nat) /\ m.reply \in Nat
  BY <1>1, MailTypes
<1>3. KeyOf(id) \in Nat \ {0}
  BY KeysApart
<1>4. HeadersOf(id) = [Key |-> KeyOf(id), MessageID |-> m.mid, References |-> m.refs,
                       InReplyTo |-> m.reply, ReceivedAt |-> 0]
  BY DEF HeadersOf, ThreadMessage
<1> HIDE DEF m
<1> DEFINE k == KeyOf(id)
<1> HIDE DEF k
<1>5. HeadersOf(id) \in ThreadMessages
  <2>1. k \in Nat
    BY <1>3 DEF k
  <2>2. [Key |-> k, MessageID |-> m.mid, References |-> m.refs, InReplyTo |-> m.reply, ReceivedAt |-> 0]
          \in ThreadMessages
    BY <1>2, <2>1 DEF ThreadMessages
  <2>3. QED
    BY <1>4, <2>2 DEF k
<1>6. HeadersOf(id).Key = k
  BY <1>4 DEF k
<1>7. QED
  BY <1>3, <1>5, <1>6 DEF Base, k

\* The item a node stands for is the one with its identity.
LEMMA ItemFound ==
  ASSUME MailAssumption, MailInv, NEW items \in Seq(ReadItems), NEW j \in DOMAIN items, NEW key,
         key = KeyOf(items[j].id)
  PROVE  MemberOf(items, key) \in ReadItems /\ MemberOf(items, key).id = items[j].id
<1> DEFINE n == Len(items)  I == {i \in 1 .. n : KeyOf(items[i].id) = key}
           s == SelectInSeq(items, LAMBDA m : KeyOf(m.id) = key)
<1>1. n \in Nat /\ DOMAIN items = 1 .. n
  OBVIOUS
<1>2. s = IF I # {} THEN Min(I) ELSE 0
  BY DEF SelectInSeq
<1>3. j \in I /\ I \in SUBSET Nat
  BY <1>1
<1> HIDE DEF I, s, n
<1>4. s \in I
  BY <1>2, <1>3, LeastNat
<1>5. s \in 1 .. n /\ KeyOf(items[s].id) = KeyOf(items[j].id)
  BY <1>4 DEF I
<1>6. items[s].id \in Ids /\ items[j].id \in Ids
  BY <1>1, <1>5, NamesRead
<1>7. items[s].id = items[j].id
  BY <1>5, <1>6, KeysApart
<1>8. MemberOf(items, key) = items[s]
  BY DEF MemberOf, s
<1>9. QED
  BY <1>1, <1>5, <1>7, <1>8

\* The members are put in order: a node for each, unless the thread says not.
LEMMA ResolveKeeps ==
  ASSUME ToolAssumption, MimeAssumption, MailAssumption, ToolsInv, ResolveThread
  PROVE  ToolsInv'
<1> DEFINE items == result.items
           members == [i \in DOMAIN items |-> HeadersOf(items[i].id)]
           t == BuildThread(members, call.limit, MaxReferenceCount, MaxThreadDepth)
           q == [i \in DOMAIN t.nodes |-> MemberOf(items, t.nodes[i].key[1])]
           r == [result EXCEPT !.items = q, !.truncated = @ \/ TruncatedThread(t)]
<1>1. /\ pc = "resolve" \/ (pc = "siblings" /\ left = <<>>)
      /\ thread' = [of |-> members, built |-> t] /\ Encodes(r) /\ searched' = searched
      /\ box' = box /\ letters' = letters
  <2>1. /\ pc = "resolve" \/ (pc = "siblings" /\ left = <<>>)
        /\ \E ms \in {members} : \E b \in {BuildThread(ms, call.limit, MaxReferenceCount, MaxThreadDepth)} :
             /\ thread' = [of |-> ms, built |-> b]
             /\ Encodes([result EXCEPT
                  !.items = [i \in DOMAIN b.nodes |-> MemberOf(result.items, b.nodes[i].key[1])],
                  !.truncated = @ \/ TruncatedThread(b)])
        /\ searched' = searched
    BY DEF ResolveThread
  <2>2. thread' = [of |-> members, built |-> t] /\ Encodes(r)
    BY <2>1
  <2>3. QED
    BY <2>1, <2>2 DEF Encodes, mail
<1>2. /\ call.tool = "get_thread" /\ call.limit \in Nat /\ MailInv
      /\ result \in Results(ReadItems) /\ items \in Seq(ReadItems) /\ result.truncated \in BOOLEAN
      /\ pc = "siblings" => (~result.truncated =>
           HasAll(letters, box, searched, call, Identities(items) \cup Range(left)))
  BY <1>1, InThread
<1> HIDE DEF items
<1>3. \A i \in DOMAIN items : items[i].id \in Ids
  BY <1>2, NamesRead
<1>4. \A i \in DOMAIN items : HeadersOf(items[i].id) \in ThreadMessages
                              /\ Base(HeadersOf(items[i].id)) = KeyOf(items[i].id)
  BY <1>2, <1>3, HeadersIs
<1>5. members \in Seq(ThreadMessages) /\ DOMAIN members = DOMAIN items
  <2>1. Len(items) \in Nat /\ DOMAIN items = 1 .. Len(items)
    BY <1>2
  <2>2. QED
    BY <1>4, <2>1
<1>6. \A j \in DOMAIN items : Base(members[j]) = KeyOf(items[j].id)
  BY <1>4
<1> HIDE DEF members
<1>7. MaxReferenceCount \in Nat /\ MaxThreadDepth \in Nat
  BY DEF MimeAssumption, ToolAssumption
<1>8. IsForest(t, MaxThreadDepth) /\ KeepsLinks(t, members) /\ NodesFrom(t, members)
  BY <1>2, <1>5, <1>7, BuildsForest
<1>9. ThreadIsForest'
  <2>1. thread'.of = members /\ thread'.built = t
    BY <1>1
  <2> HIDE DEF t
  <2>2. QED
    BY <1>8, <2>1 DEF ThreadIsForest
<1> HIDE DEF t
<1>10. Len(t.nodes) \in Nat /\ DOMAIN t.nodes = 1 .. Len(t.nodes)
  BY <1>8 DEF NodesFrom
<1>11. ASSUME NEW i \in DOMAIN t.nodes, NEW j \in DOMAIN items, t.nodes[i].message = members[j]
       PROVE  q[i] \in ReadItems /\ q[i].id = items[j].id
  <2> DEFINE key == t.nodes[i].key[1]
  <2>1. key = KeyOf(items[j].id)
    BY <1>6, <1>8, <1>11 DEF NodesFrom
  <2>2. q[i] = MemberOf(items, key)
    OBVIOUS
  <2> HIDE DEF key, q
  <2>3. MemberOf(items, key) \in ReadItems /\ MemberOf(items, key).id = items[j].id
    BY <1>2, <2>1, ItemFound
  <2>4. QED
    BY <2>2, <2>3
<1>12. \A i \in DOMAIN t.nodes : q[i] \in ReadItems
  <2> SUFFICES ASSUME NEW i \in DOMAIN t.nodes PROVE q[i] \in ReadItems
    OBVIOUS
  <2>1. PICK j \in DOMAIN members : t.nodes[i].message = members[j]
    BY <1>8 DEF NodesFrom
  <2> HIDE DEF q
  <2>2. QED
    BY <1>5, <1>11, <2>1
<1>13. q \in Seq(ReadItems) /\ DOMAIN q = DOMAIN t.nodes
  <2> DEFINE n == Len(t.nodes)
  <2>1. DOMAIN q = DOMAIN t.nodes /\ q = [i \in DOMAIN t.nodes |-> q[i]]
    OBVIOUS
  <2>2. n \in Nat /\ DOMAIN t.nodes = 1 .. n
    BY <1>10
  <2> HIDE DEF q, n
  <2>3. q \in [1 .. n -> ReadItems]
    BY <1>12, <2>1, <2>2
  <2>4. QED
    BY <2>1, <2>2, <2>3
<1>14. ~TruncatedThread(t) => Identities(items) \subseteq Identities(q)
  <2> SUFFICES ASSUME ~TruncatedThread(t), NEW j \in DOMAIN items PROVE items[j].id \in Identities(q)
    BY DEF Identities
  <2>1. PICK i \in DOMAIN t.nodes : t.nodes[i].message = members[j]
    BY <1>5, <1>8 DEF NodesFrom
  <2>2. q[i].id = items[j].id
    BY <1>11, <2>1
  <2> HIDE DEF q
  <2>3. QED
    BY <1>13, <2>2 DEF Identities
<1> DEFINE cut == result.truncated \/ TruncatedThread(t)
<1>15. r = [result EXCEPT !.items = q, !.truncated = cut] /\ cut \in BOOLEAN
  <2> HIDE DEF q
  <2>1. QED
    BY <1>2 DEF Results
<1>16. ~cut => ~result.truncated /\ ~TruncatedThread(t)
  OBVIOUS
<1> HIDE DEF q, r, cut
<1>17. r \in Results(ReadItems) /\ r.items = q /\ r.truncated = cut
  <2> DEFINE e == [result EXCEPT !.items = q]
  <2>1. e \in Results(ReadItems) /\ e.items = q
    BY <1>2, <1>13 DEF Results
  <2>2. r = [e EXCEPT !.truncated = cut]
    BY <1>15
  <2> HIDE DEF e
  <2>3. QED
    <3>1. /\ [e EXCEPT !.truncated = cut] \in Results(ReadItems)
          /\ [e EXCEPT !.truncated = cut].items = e.items
          /\ [e EXCEPT !.truncated = cut].truncated = cut
      BY <1>15, <2>1, Marked
    <3>2. QED
      BY <2>1, <2>2, <3>1
<1>18. ASSUME ~r.truncated PROVE HasAll(letters, box, searched', call, Identities(r.items))
  <2>1. ~result.truncated /\ Identities(items) \subseteq Identities(r.items)
    BY <1>14, <1>16, <1>17, <1>18
  <2>2. CASE pc = "resolve"
    <3>1. searched = NoSearch
      BY <2>2 DEF ToolsInv, CallInv
    <3>2. QED
      BY <1>1, <1>2, <3>1, NothingDue
  <2>3. CASE pc = "siblings" /\ left = <<>>
    <3> DEFINE ids == Identities(items) \cup Range(left)  more == Identities(r.items)
    <3>1. Range(left) = {}
      BY <2>3 DEF Range
    <3>2. ids \subseteq more
      BY <2>1, <3>1
    <3>3. HasAll(letters, box, searched, call, ids)
      BY <1>2, <2>1, <2>3
    <3> HIDE DEF ids, more
    <3>4. HasAll(letters, box, searched, call, more)
      BY <3>2, <3>3, HasGrows
    <3>5. QED
      BY <1>1, <3>4 DEF more
  <2>4. QED
    BY <1>1, <2>2, <2>3
<1>19. MailInv'
  BY <1>1, <1>2 DEF MailInv, UIDs
<1>20. call.tool # "triage" /\ ~Identity /\ pc # "done"
  BY <1>1, <1>2 DEF Identity
<1>21. QED
  BY <1>1, <1>2, <1>9, <1>17, <1>18, <1>19, <1>20, EncodesKeeps

\* mapAdapterError never says that nothing went wrong.
LEMMA CodesAreErrors ==
  ASSUME NEW code \in FailureCodes
  PROVE  mapAdapterError(code) # "none"
BY DEF FailureCodes, mapAdapterError

\* The invariant holds of a server that has started, and of BuildThread and
\* NormalizeMessage called directly.
LEMMA ToolsStart ==
  ASSUME ToolAssumption, MimeAssumption, MailAssumption, Init
  PROVE  ToolsInv
<1>1. /\ letters \in Letters /\ call = NoCall /\ searched = NoSearch /\ result = NoResult /\ pc \in {"idle", "local"}
      /\ box \in {[gen |-> 1, next |-> n, mail |-> 1 .. n - 1] : n \in {Cardinality(UIDs), Cardinality(UIDs) + 1}}
  BY DEF Init
<1> DEFINE m == Len(letters)
<1>2. m \in Nat \ {0} /\ UIDs = 1 .. m /\ Cardinality(UIDs) = m
  <2> DEFINE T == {letters[u].tree : u \in DOMAIN letters}
             S == [subject : Nat, decoded : Nat, mid : Nat, refs : Seq(Nat), reply : Nat,
                   malformed : BOOLEAN, tree : T]
  <2>1. letters \in Seq(S) /\ letters # <<>>
    BY <1>1 DEF MailAssumption
  <2> HIDE DEF S
  <2>2. m \in Nat /\ m # 0 /\ DOMAIN letters = 1 .. m
    BY <2>1
  <2> HIDE DEF m
  <2>3. 1 \in Int /\ m \in Int
    BY <2>2
  <2>4. Cardinality(1 .. m) = IF 1 > m THEN 0 ELSE m - 1 + 1
    BY <2>3, FS_Interval
  <2>5. QED
    BY <2>2, <2>4 DEF UIDs
<1> HIDE DEF m
<1>3. PICK n \in {m, m + 1} : box = [gen |-> 1, next |-> n, mail |-> 1 .. n - 1]
  BY <1>1, <1>2
<1>4. n \in Nat /\ n - 1 <= m
  BY <1>2
<1>5. box.gen = 1 /\ box.next = n /\ box.mail = 1 .. n - 1
  BY <1>3
<1>6. 1 .. n - 1 \in SUBSET UIDs /\ \A u \in 1 .. n - 1 : u < n
  BY <1>2, <1>4
<1>7. box \in [gen : 1 .. 2, next : Nat, mail : SUBSET UIDs]
  BY <1>3, <1>4, <1>6
<1>8. searched \in [gen : 0 .. 2, next : Nat] /\ searched.gen = 0 /\ searched.next = 0
  BY <1>1 DEF NoSearch
<1>9. MailInv
  BY <1>1, <1>5, <1>6, <1>7, <1>8 DEF MailInv
<1>10. call.tool = "none" /\ call.limit = 0
  BY <1>1 DEF NoCall
<1>11. CallInv
  BY <1>1, <1>10 DEF CallInv, Reads, Searches
<1>12. ResultInv /\ DoneInv /\ CompleteInv /\ ItemsAreWhatTheyName
  BY <1>1, <1>10 DEF ResultInv, DoneInv, CompleteInv, ItemsAreWhatTheyName, Replied, Reads, Searches
<1>13. ThreadIsForest
  <2>1. CASE thread = NoThread
    BY <2>1, NoThreadIs DEF ThreadIsForest
  <2>2. CASE \E messages \in LocalThreads, limit \in 2 .. 4 :
               thread = [of |-> messages,
                         built |-> BuildThread(messages, limit, MaxReferenceCount, MaxThreadDepth)]
    <3>1. PICK messages \in LocalThreads, limit \in 2 .. 4 :
            thread = [of |-> messages,
                      built |-> BuildThread(messages, limit, MaxReferenceCount, MaxThreadDepth)]
      BY <2>2
    <3>2. messages \in Seq(ThreadMessages) /\ limit \in Nat
          /\ MaxReferenceCount \in Nat /\ MaxThreadDepth \in Nat
      BY DEF MailAssumption, ToolAssumption, MimeAssumption
    <3> DEFINE t == BuildThread(messages, limit, MaxReferenceCount, MaxThreadDepth)
    <3>3. IsForest(t, MaxThreadDepth) /\ KeepsLinks(t, messages)
      BY <3>2, BuildsForest
    <3>4. thread.of = messages /\ thread.built = t
      BY <3>1
    <3> HIDE DEF t
    <3>5. QED
      BY <3>3, <3>4 DEF ThreadIsForest
  <2>3. QED
    BY <2>1, <2>2 DEF Init
<1>14. QED
  BY <1>9, <1>11, <1>12, <1>13 DEF ToolsInv

\* Every step keeps it.
LEMMA ToolsStep ==
  ASSUME ToolAssumption, MimeAssumption, MailAssumption, ToolsInv, [Next]_vars
  PROVE  ToolsInv'
<1>1. Issued \subseteq Ids
  <2>1. box \in [gen : 1 .. 2, next : Nat, mail : SUBSET UIDs]
    BY DEF ToolsInv, MailInv
  <2>2. box.gen \in 1 .. 2
    BY <2>1
  <2>3. 1 .. box.gen \subseteq 1 .. 2
    BY <2>2
  <2>4. QED
    BY <2>3 DEF Issued, Ids
<1>2. Limits \subseteq Int /\ 0 \in Int /\ \A n \in 0 .. MaxSubjectMatches : n \in Nat
  BY DEF ToolAssumption
<1>3. CASE \E tool \in {"search_mail", "select_digest_candidates", "list_folders"}, limit \in Limits :
             Call(tool, NoCall.id, limit, <<>>)
  <2>1. PICK tool \in {"search_mail", "select_digest_candidates", "list_folders"}, limit \in Limits :
          Call(tool, NoCall.id, limit, <<>>)
    BY <1>3
  <2>2. tool \in Reads \cup {"list_folders", "triage"} /\ tool \notin Reads \ Searches /\ limit \in Int
    BY <1>2 DEF Reads, Searches
  <2>3. QED
    BY <2>1, <2>2, CallKeeps
<1>4. CASE \E tool \in {"get_message", "list_attachments"}, id \in Issued : Call(tool, id, 0, <<>>)
  <2>1. PICK tool \in {"get_message", "list_attachments"}, id \in Issued : Call(tool, id, 0, <<>>)
    BY <1>4
  <2>2. tool \in Reads \cup {"list_folders", "triage"} /\ id \in Ids
    BY <1>1 DEF Reads
  <2>3. QED
    BY <1>2, <2>1, <2>2, CallKeeps
<1>5. CASE \E id \in Issued, limit \in Limits : Call("get_thread", id, limit, <<>>)
  <2>1. PICK id \in Issued, limit \in Limits : Call("get_thread", id, limit, <<>>)
    BY <1>5
  <2>2. "get_thread" \in Reads \cup {"list_folders", "triage"} /\ id \in Ids /\ limit \in Int
    BY <1>1, <1>2 DEF Reads
  <2>3. QED
    BY <2>1, <2>2, CallKeeps
<1>6. CASE \E g \in 1 .. 2, uids \in {<<>>, <<1>>, <<0>>, <<1, 1>>, <<2, 1>>} :
             Call("triage", [gen |-> g, uid |-> 1], 0, uids)
  <2>1. PICK g \in 1 .. 2, uids \in {<<>>, <<1>>, <<0>>, <<1, 1>>, <<2, 1>>} :
          Call("triage", [gen |-> g, uid |-> 1], 0, uids)
    BY <1>6
  <2> DEFINE id == [gen |-> g, uid |-> 1]
  <2>2. "triage" \in Reads \cup {"list_folders", "triage"} /\ "triage" \notin Reads \ Searches
    BY DEF Reads, Searches
  <2>3. Call("triage", id, 0, uids)
    BY <2>1
  <2> HIDE DEF id
  <2>4. QED
    BY <1>2, <2>2, <2>3, CallKeeps
<1>7. CASE \E code \in FailureCodes : OperationFails(code)
  <2>1. PICK code \in FailureCodes : OperationFails(code)
    BY <1>7
  <2>2. Refuse(mapAdapterError(code)) /\ mapAdapterError(code) # "none"
    BY <2>1, CodesAreErrors DEF OperationFails
  <2>3. QED
    BY <2>2, RefuseKeeps
<1>8. CASE Stale
  <2>1. Refuse("stale_id")
    BY <1>8 DEF Stale
  <2>2. QED
    BY <2>1, RefuseKeeps
<1>9. CASE Status
  BY <1>9, StatusKeeps
<1>10. CASE \E n \in 0 .. MaxSubjectMatches : SearchMail(n)
  BY <1>2, <1>10, SearchMailKeeps
<1>11. CASE \E n \in 0 .. 2 : ListFolders(n)
  BY <1>11, ListFoldersKeeps
<1>12. CASE GetMessageMetadata
  BY <1>12, MetadataKeeps
<1>13. CASE GetMessageBody \/ GetMessageAttachmentStructure
  BY <1>13, ReadingsKeep
<1>14. CASE ReadTarget
  BY <1>14, ReadTargetKeeps
<1>15. CASE \E n \in 0 .. MaxSubjectMatches : SearchSiblings(n)
  BY <1>2, <1>15, SearchSiblingsKeeps
<1>16. CASE SkipCandidate \/ StopCandidates
  BY <1>16, SkipKeeps
<1>17. CASE ReadSibling
  BY <1>17, ReadSiblingKeeps
<1>18. CASE ResolveThread
  BY <1>18, ResolveKeeps
<1>19. CASE pc = "triage" /\ \E outcomes \in Outcomes(call.uids), executed \in BOOLEAN : RunTriage(outcomes, executed)
  BY <1>19, TriageKeeps
<1>20. CASE \E room \in Rooms : Encode(room)
  BY <1>20, EncodeKeeps
<1>21. CASE Take
  BY <1>21, TakeKeeps
<1>22. CASE Deliver \/ (\E u \in box.mail : Expunge(u)) \/ Recreate
  BY <1>22, OthersSteps
<1>23. CASE UNCHANGED vars
  <2>1. /\ box' = box /\ letters' = letters /\ pc' = pc /\ call' = call /\ searched' = searched
        /\ result' = result /\ left' = left /\ thread' = thread /\ moved' = moved /\ reply' = reply
    BY <1>23 DEF vars, mail, locals
  <2>2. MailInv' /\ CallInv' /\ ThreadIsForest'
    BY <2>1 DEF ToolsInv, MailInv, CallInv, ThreadIsForest, Ids, UIDs
  <2>3. ResultInv'
    BY <2>1 DEF ToolsInv, ResultInv, ReadItems, Ids, UIDs, Identity, Item
  <2>4. DoneInv' /\ CompleteInv' /\ ItemsAreWhatTheyName'
    BY <2>1 DEF ToolsInv, DoneInv, CompleteInv, ItemsAreWhatTheyName, Replied, Listed, Identity
  <2>5. QED
    BY <2>2, <2>3, <2>4 DEF ToolsInv
<1>24. QED
  BY <1>3, <1>4, <1>5, <1>6, <1>7, <1>8, <1>9, <1>10, <1>11, <1>12, <1>13, <1>14, <1>15, <1>16, <1>17,
     <1>18, <1>19, <1>20, <1>21, <1>22, <1>23 DEF Next

\* The inductive invariant of the tools holds of every behaviour.
THEOREM ToolsSafe == Spec => []ToolsInv
<1>1. Init => ToolsInv
  BY ToolsStart, ToolAssumption, MimeAssumption, MailAssumption
<1>2. ToolsInv /\ [Next]_vars => ToolsInv'
  BY ToolsStep, ToolAssumption, MimeAssumption, MailAssumption
<1>3. QED
  BY <1>1, <1>2, PTL DEF Spec

\* get_thread and BuildThread return a forest within the depth limit, whatever
\* headers the messages have, and keep every message and link without a flag.
THEOREM ThreadsAreForests == Spec => []ThreadIsForest
<1>1. ToolsInv => ThreadIsForest
  BY DEF ToolsInv
<1>2. QED
  BY <1>1, ToolsSafe, PTL

\* Every item a tool returns is the message its identity names, though the
\* mailbox may be made again between the reads of a call; a triage row says
\* applied only of a UID that was changed.
THEOREM ItemsNamed == Spec => []ItemsAreWhatTheyName
<1>1. ToolsInv => ItemsAreWhatTheyName
  BY DEF ToolsInv
<1>2. QED
  BY <1>1, ToolsSafe, PTL

\* A reply without the truncated mark leaves nothing out, whatever others do to
\* the mailbox while the tool puts it together.
THEOREM UntruncatedComplete == Spec => []UntruncatedIsComplete
<1>1. ToolsInv => UntruncatedIsComplete
  BY DEF ToolsInv, CompleteInv, HasAll, UntruncatedIsComplete
<1>2. QED
  BY <1>1, ToolsSafe, PTL

\* What is read outside any mailbox is read the same in both ways.
DocumentInv == WalksAreHonest(document.tree) /\ HeadersAreHonest(document.header)

\* The two walks of a message and the two readings of its header agree, on any
\* tree and any header a program hands to NormalizeMessage.
THEOREM ReadingsDoAgree == Spec => []ReadingsAgree
<1>1. Init => DocumentInv
  <2> SUFFICES ASSUME Init PROVE DocumentInv
    OBVIOUS
  <2>1. IsTree(document.tree) /\ document.header \in Seq(Range(document.header))
    <3>1. CASE document \in LocalDocuments
      BY <3>1, MailAssumption DEF MailAssumption
    <3>2. CASE document = NoDocument
      <4>1. document.tree = <<>> /\ document.header = <<>>
        BY <3>2 DEF NoDocument
      <4>2. IsTree(<<>>)
        BY DEF IsTree
      <4>3. <<>> \in Seq(Range(<<>>))
        OBVIOUS
      <4>4. QED
        BY <4>1, <4>2, <4>3
    <3>3. QED
      BY <3>1, <3>2 DEF Init
  <2> DEFINE tree == document.tree  header == document.header
  <2>2. IsTree(tree) /\ header \in Seq(Range(header))
    BY <2>1
  <2> HIDE DEF tree, header
  <2>3. WalksAreHonest(tree) /\ HeadersAreHonest(header)
    BY <2>2, MimeAssumption, WalksHonest, HeadersHonest
  <2>4. QED
    BY <2>3 DEF DocumentInv, tree, header
<1>2. DocumentInv /\ [Next]_vars => DocumentInv'
  <2> SUFFICES ASSUME DocumentInv, [Next]_vars PROVE DocumentInv'
    OBVIOUS
  <2>1. document' = document
    BY DEF Next, vars, Call, OperationFails, Refuse, Stale, Status, SearchMail, Encodes, ListFolders,
           GetMessageMetadata, GetMessageBody, Normalized, GetMessageAttachmentStructure, ReadTarget,
           SearchSiblings, SkipCandidate, StopCandidates, ReadSibling, ResolveThread, RunTriage, Encode,
           Take, Deliver, Expunge, Recreate, Others, mail
  <2>2. QED
    BY <2>1 DEF DocumentInv
<1>3. DocumentInv => ReadingsAgree
  BY DEF DocumentInv, ReadingsAgree
<1>4. QED
  BY <1>1, <1>2, <1>3, PTL DEF Spec
=============================================================================
