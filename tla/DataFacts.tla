------------------------------ MODULE DataFacts ------------------------------
(***************************************************************************)
(* What the proofs need to know about numbers, queues and sequences.  A    *)
(* fold is turned into the position of a step after a sequence (Along),    *)
(* and a recursive function exists by its history (CourseExists).          *)
(***************************************************************************)
EXTENDS DecimalNumerals, Integers, Sequences, SequencesExt, SequenceTheorems, NaturalsInduction, WellFoundedInduction, TLAPS

\* A set of natural numbers has a least one.
LEMMA LeastNatural ==
    ASSUME NEW T, T \subseteq Nat, T # {}
    PROVE  \E m \in T : \A k \in T : m <= k
<1> DEFINE R == {p \in Nat \X Nat : p[1] < p[2]}
<1>1. IsWellFoundedOn(R, Nat)
  BY NatLessThanWellFounded DEF OpToRel
<1>2. \A k, m \in Nat : k < m => <<k, m>> \in R
  OBVIOUS
<1> HIDE DEF R
<1>3. PICK m \in T : \A k \in T : ~(<<k, m>> \in R)
  BY <1>1, WFMin
<1>4. ASSUME NEW k \in T PROVE m <= k
  <2>1. ~(k < m) /\ k \in Nat /\ m \in Nat
    BY <1>2, <1>3
  <2> QED  BY <2>1
<1> QED
  BY <1>4

\* Evicting the head of a queue and appending an element shifts the rest.
LEMMA ShiftAppend ==
    ASSUME NEW S, NEW q \in Seq(S), q # <<>>, NEW x \in S
    PROVE  /\ Append(Tail(q), x) \in Seq(S)
           /\ Len(Append(Tail(q), x)) = Len(q)
           /\ \A i \in 1..(Len(q) - 1) : Append(Tail(q), x)[i] = q[i + 1]
           /\ Append(Tail(q), x)[Len(q)] = x
<1>1. Tail(q) \in Seq(S) /\ Len(Tail(q)) = Len(q) - 1 /\ Len(q) \in Nat /\ Len(q) > 0
  OBVIOUS
<1>2. \A i \in 1..Len(Tail(q)) : Tail(q)[i] = q[i + 1]
  OBVIOUS
<1>3. \A i \in 1..Len(Tail(q)) : Append(Tail(q), x)[i] = Tail(q)[i]
  BY <1>1
<1> QED
  BY <1>1, <1>2, <1>3

\* Appending without eviction leaves what is there.
LEMMA PlainAppend ==
    ASSUME NEW S, NEW q \in Seq(S), NEW x \in S
    PROVE  /\ Append(q, x) \in Seq(S)
           /\ Len(Append(q, x)) = Len(q) + 1
           /\ \A i \in 1..Len(q) : Append(q, x)[i] = q[i]
           /\ Append(q, x)[Len(q) + 1] = x
  OBVIOUS

\* A function on 1..n is a sequence of length n.
LEMMA FunctionIsSeq ==
    ASSUME NEW S, NEW n \in Nat, NEW f \in [1..n -> S]
    PROVE  f \in Seq(S) /\ Len(f) = n
<1>1. f \in Seq(S)
  BY SeqDef
<1>2. DOMAIN f = 1..n /\ DOMAIN f = 1..Len(f) /\ Len(f) \in Nat
  BY <1>1, LenProperties
<1>3. 1..n = 1..Len(f)
  BY <1>2
<1>4. n = Len(f)
  <2>1. n \in 1..n \/ n = 0
    OBVIOUS
  <2>2. Len(f) \in 1..Len(f) \/ Len(f) = 0
    BY <1>2
  <2> QED  BY <1>2, <1>3, <2>1, <2>2
<1> QED
  BY <1>1, <1>4

\* All but the last element of a sequence, and the last, make the sequence.
LEMMA FrontAndLast ==
    ASSUME NEW S, NEW q \in Seq(S), q # <<>>
    PROVE  LET front == SubSeq(q, 1, Len(q) - 1) IN
           /\ front \in Seq(S) /\ q[Len(q)] \in S
           /\ Len(q) \in Nat \ {0} /\ Len(front) = Len(q) - 1
           /\ \A i \in 1..Len(front) : front[i] = q[i]
           /\ q = Append(front, q[Len(q)])
<1> DEFINE front == SubSeq(q, 1, Len(q) - 1)
<1>1. Len(q) \in Nat \ {0} /\ \A i \in 1..Len(q) : q[i] \in S
  BY EmptySeq, ElementOfSeq
<1>2. /\ front \in Seq(S) /\ Len(front) = Len(q) - 1
      /\ \A i \in 1..Len(front) : front[i] = q[i]
  <2> DEFINE n == Len(q) - 1
  <2>1. n \in Nat /\ 1 \in Int /\ n \in Int /\ \A i \in 1..n : q[i] \in S
    BY <1>1
  <2> HIDE DEF n
  <2>2. /\ SubSeq(q, 1, n) \in Seq(S)
        /\ Len(SubSeq(q, 1, n)) = IF 1 <= n THEN n - 1 + 1 ELSE 0
        /\ \A i \in 1..n - 1 + 1 : SubSeq(q, 1, n)[i] = q[1 + i - 1]
    BY <2>1, SubSeqProperties
  <2>3. /\ Len(SubSeq(q, 1, n)) = n
        /\ \A i \in 1..n : SubSeq(q, 1, n)[i] = q[i]
    BY <2>1, <2>2
  <2> QED
    BY <2>2, <2>3 DEF n
<1> HIDE DEF front
<1>3. /\ Append(front, q[Len(q)]) \in Seq(S)
      /\ Len(Append(front, q[Len(q)])) = Len(q)
      /\ \A i \in 1..Len(q) : Append(front, q[Len(q)])[i] = q[i]
  BY <1>1, <1>2
<1>4. q = Append(front, q[Len(q)])
  BY <1>3, SeqEqual
<1> QED
  BY <1>1, <1>2, <1>4 DEF front

\* Taking the last element off again gives the sequence it was appended to.
LEMMA FrontOfAppend ==
    ASSUME NEW S, NEW q \in Seq(S), NEW x \in S
    PROVE  SubSeq(Append(q, x), 1, Len(Append(q, x)) - 1) = q
<1> DEFINE r == Append(q, x)
<1>1. /\ r \in Seq(S) /\ Len(r) = Len(q) + 1 /\ Len(q) \in Nat
      /\ \A i \in 1..Len(q) : r[i] = q[i]
  OBVIOUS
<1>2. r # <<>>
  BY <1>1
<1> HIDE DEF r
<1>3. /\ SubSeq(r, 1, Len(r) - 1) \in Seq(S) /\ Len(SubSeq(r, 1, Len(r) - 1)) = Len(q)
      /\ \A i \in 1..Len(q) : SubSeq(r, 1, Len(r) - 1)[i] = q[i]
  BY <1>1, <1>2, FrontAndLast
<1> QED
  BY <1>3, SeqEqual DEF r

\* Two sequences side by side.
LEMMA ConcatIs ==
    ASSUME NEW S, NEW a \in Seq(S), NEW b \in Seq(S)
    PROVE  /\ a \o b \in Seq(S)
           /\ Len(a) \in Nat /\ Len(b) \in Nat /\ Len(a \o b) = Len(a) + Len(b)
           /\ \A i \in 1 .. Len(a) : (a \o b)[i] = a[i]
           /\ \A i \in 1 .. Len(b) : (a \o b)[Len(a) + i] = b[i]
  BY ConcatProperties

\* To append to the second one is to append to both.
LEMMA ConcatAppend ==
    ASSUME NEW S, NEW a \in Seq(S), NEW b \in Seq(S), NEW x \in S
    PROVE  a \o Append(b, x) = Append(a \o b, x) /\ a \o b \in Seq(S)
<1>1. PICK one : one = <<x>>
  OBVIOUS
<1>2. one \in Seq(S) /\ a \o b \in Seq(S)
  BY <1>1
<1>3. Append(b, x) = b \o one /\ Append(a \o b, x) = (a \o b) \o one
  BY <1>1, <1>2, AppendIsConcat
<1>4. (a \o b) \o one = a \o (b \o one)
  BY <1>2, ConcatAssociative
<1> QED
  BY <1>2, <1>3, <1>4

-----------------------------------------------------------------------------
(* A step taken once for each element of a sequence.                       *)

Steps(V, X) == [V \X X -> V]

\* g says where G is after each element of q, from v on.
Runs(G, v, q, g) ==
    /\ g[0] = v
    /\ \A i \in 1 .. Len(q) : g[i] = G[<<g[i - 1], q[i]>>]

\* There is such a run, and only one.
LEMMA RunExists ==
    ASSUME NEW V, NEW X, NEW G \in Steps(V, X), NEW v \in V, NEW q \in Seq(X)
    PROVE  \E g \in [0 .. Len(q) -> V] : Runs(G, v, q, g)
<1> DEFINE Has(r) == \E g \in [0 .. Len(r) -> V] : Runs(G, v, r, g)
           T == {n \in Nat : \E r \in Seq(X) : Len(r) = n /\ ~Has(r)}
<1>1. ASSUME T # {} PROVE FALSE
  <2>1. PICK m \in T : \A k \in T : m <= k
    <3>1. T \subseteq Nat
      OBVIOUS
    <3> HIDE DEF T
    <3> QED  BY <1>1, <3>1, LeastNatural
  <2>2. PICK r \in Seq(X) : Len(r) = m /\ ~Has(r)
    OBVIOUS
  <2>3. CASE m = 0
    <3>1. [i \in 0 .. 0 |-> v] \in [0 .. Len(r) -> V] /\ Runs(G, v, r, [i \in 0 .. 0 |-> v])
      BY <2>2, <2>3 DEF Runs
    <3> QED  BY <2>2, <3>1
  <2>4. CASE m # 0
    <3> DEFINE f == SubSeq(r, 1, Len(r) - 1)
    <3>1. /\ f \in Seq(X) /\ m \in Nat \ {0} /\ Len(f) = m - 1
          /\ \A i \in 1 .. Len(f) : f[i] = r[i]
      BY <2>2, <2>4, EmptySeq, FrontAndLast
    <3> HIDE DEF f
    <3>2. PICK g \in [0 .. Len(f) -> V] : Runs(G, v, f, g)
      <4>1. Has(f)
        <5> HIDE DEF Has
        <5> QED  BY <2>1, <3>1
      <4> QED  BY <4>1
    <3>3. r[m] \in X /\ g[m - 1] \in V
      BY <2>2, <3>1, ElementOfSeq
    <3> DEFINE h == [i \in 0 .. m |-> IF i = m THEN G[<<g[m - 1], r[m]>>] ELSE g[i]]
    <3>4. h \in [0 .. m -> V] /\ h[0] = v
      <4>1. G[<<g[m - 1], r[m]>>] \in V
        BY <3>3 DEF Steps
      <4> QED  BY <3>1, <3>2, <4>1 DEF Runs
    <3>5. ASSUME NEW i \in 1 .. m PROVE h[i] = G[<<h[i - 1], r[i]>>]
      <4>1. i \in 0 .. m /\ i - 1 \in 0 .. m /\ i - 1 # m /\ h[i - 1] = g[i - 1]
        BY <3>1
      <4>2. CASE i = m
        <5>1. h[i] = G[<<g[m - 1], r[m]>>]
          BY <4>1, <4>2
        <5> QED  BY <4>1, <4>2, <5>1
      <4>3. CASE i # m
        <5>1. i \in 1 .. Len(f) /\ h[i] = g[i]
          BY <3>1, <4>1, <4>3
        <5>2. g[i] = G[<<g[i - 1], f[i]>>]
          BY <3>2, <5>1 DEF Runs
        <5> QED  BY <3>1, <4>1, <5>1, <5>2
      <4> QED  BY <4>2, <4>3
    <3> HIDE DEF h
    <3>6. Runs(G, v, r, h)
      BY <2>2, <3>4, <3>5 DEF Runs
    <3> QED  BY <2>2, <3>4, <3>6
  <2> QED  BY <2>3, <2>4
<1>2. Len(q) \in Nat
  OBVIOUS
<1> QED
  BY <1>1, <1>2

\* Two runs go the same way.
LEMMA RunUnique ==
    ASSUME NEW G, NEW v, NEW q, Len(q) \in Nat, NEW g, NEW h,
           Runs(G, v, q, g), Runs(G, v, q, h)
    PROVE  \A i \in 0 .. Len(q) : g[i] = h[i]
<1> DEFINE T == {i \in 0 .. Len(q) : g[i] # h[i]}
<1>1. ASSUME T # {} PROVE FALSE
  <2>1. PICK m \in T : \A k \in T : m <= k
    <3>1. T \subseteq Nat
      OBVIOUS
    <3> HIDE DEF T
    <3> QED  BY <1>1, <3>1, LeastNatural
  <2>2. m \in 1 .. Len(q) /\ m - 1 \in 0 .. Len(q) /\ m - 1 < m
    BY DEF Runs
  <2>3. g[m - 1] = h[m - 1]
    BY <2>1, <2>2
  <2> QED  BY <2>2, <2>3 DEF Runs
<1> QED
  BY <1>1

\* Where G is after all of q.
Along(G, v, q) == CHOOSE y : \E g : Runs(G, v, q, g) /\ y = g[Len(q)]

\* It is where any run ends.
LEMMA AlongIs ==
    ASSUME NEW G, NEW v, NEW q, Len(q) \in Nat, NEW g, Runs(G, v, q, g)
    PROVE  Along(G, v, q) = g[Len(q)]
<1> DEFINE y == Along(G, v, q)
<1>1. PICK h : Runs(G, v, q, h) /\ y = h[Len(q)]
  BY DEF Along
<1>2. Len(q) \in 0 .. Len(q)
  OBVIOUS
<1> QED
  BY <1>1, <1>2, RunUnique

\* G does not leave V.
LEMMA AlongType ==
    ASSUME NEW V, NEW X, NEW G \in Steps(V, X), NEW v \in V, NEW q \in Seq(X)
    PROVE  Along(G, v, q) \in V
<1>1. PICK g \in [0 .. Len(q) -> V] : Runs(G, v, q, g)
  BY RunExists
<1>2. Len(q) \in 0 .. Len(q)
  OBVIOUS
<1> QED
  BY <1>1, <1>2, AlongIs

\* Nothing moves it nowhere.
LEMMA AlongEmpty ==
    ASSUME NEW G, NEW v
    PROVE  Along(G, v, <<>>) = v
<1> DEFINE q == <<>>
<1>1. q \in Seq({}) /\ Len(q) = 0
  BY EmptySeq
<1> HIDE DEF q
<1>2. Runs(G, v, q, [i \in 0 .. 0 |-> v])
  BY <1>1 DEF Runs
<1>3. Along(G, v, q) = v
  BY <1>1, <1>2, AlongIs
<1> QED
  BY <1>3 DEF q

\* After a and b it is where it is after b, from where it is after a.
LEMMA AlongConcat ==
    ASSUME NEW V, NEW X, NEW G \in Steps(V, X), NEW v \in V, NEW a \in Seq(X), NEW b \in Seq(X)
    PROVE  Along(G, v, a \o b) = Along(G, Along(G, v, a), b)
<1>1. PICK g \in [0 .. Len(a) -> V] : Runs(G, v, a, g)
  BY RunExists
<1>2. Along(G, v, a) = g[Len(a)] /\ g[Len(a)] \in V /\ Len(a) \in Nat /\ Len(b) \in Nat
  <2>1. Len(a) \in 0 .. Len(a) /\ Len(b) \in Nat
    OBVIOUS
  <2> QED  BY <1>1, <2>1, AlongIs
<1>3. PICK h \in [0 .. Len(b) -> V] : Runs(G, g[Len(a)], b, h)
  BY <1>2, RunExists
<1> DEFINE q == a \o b
           k == [i \in 0 .. Len(a) + Len(b) |-> IF i <= Len(a) THEN g[i] ELSE h[i - Len(a)]]
<1>4. /\ q \in Seq(X) /\ Len(q) = Len(a) + Len(b)
      /\ \A i \in 1 .. Len(a) : q[i] = a[i]
      /\ \A i \in 1 .. Len(b) : q[Len(a) + i] = b[i]
  BY ConcatProperties
<1> HIDE DEF q
<1>5. Runs(G, v, q, k)
  <2>1. k[0] = v
    BY <1>1, <1>2 DEF Runs
  <2>2. ASSUME NEW i \in 1 .. Len(q) PROVE k[i] = G[<<k[i - 1], q[i]>>]
    <3>1. CASE i <= Len(a)
      <4>1. i \in 1 .. Len(a) /\ i - 1 \in 0 .. Len(a) /\ i \in 0 .. Len(a)
        BY <1>2, <3>1
      <4>2. k[i] = g[i] /\ k[i - 1] = g[i - 1] /\ q[i] = a[i]
        BY <1>2, <1>4, <4>1
      <4>3. g[i] = G[<<g[i - 1], a[i]>>]
        BY <1>1, <4>1 DEF Runs
      <4> QED  BY <4>2, <4>3
    <3>2. CASE ~(i <= Len(a))
      <4>1. PICK j : j = i - Len(a)
        OBVIOUS
      <4>2. j \in 1 .. Len(b) /\ i = Len(a) + j /\ i \in 0 .. Len(a) + Len(b)
        BY <1>2, <1>4, <3>2, <4>1
      <4>3. k[i] = h[j] /\ q[i] = b[j] /\ h[j] = G[<<h[j - 1], b[j]>>]
        BY <1>3, <1>4, <3>2, <4>1, <4>2 DEF Runs
      <4>4. k[i - 1] = h[j - 1]
        <5>1. CASE j = 1
          BY <1>2, <1>3, <4>2, <5>1 DEF Runs
        <5>2. CASE j # 1
          <6>1. i - 1 \in 0 .. Len(a) + Len(b) /\ ~(i - 1 <= Len(a)) /\ i - 1 - Len(a) = j - 1
            BY <1>2, <4>2, <5>2
          <6> QED  BY <6>1
        <5> QED  BY <5>1, <5>2
      <4> QED  BY <4>3, <4>4
    <3> QED  BY <3>1, <3>2
  <2> HIDE DEF k
  <2> QED  BY <2>1, <2>2 DEF Runs
<1>6. k[Len(q)] = h[Len(b)]
  <2>1. CASE Len(b) = 0
    BY <1>2, <1>3, <1>4, <2>1 DEF Runs
  <2>2. CASE Len(b) # 0
    BY <1>2, <1>4, <2>2
  <2> QED  BY <2>1, <2>2
<1> HIDE DEF k
<1>7. Along(G, v, q) = h[Len(b)]
  <2>1. Along(G, v, q) = k[Len(q)]
    <3>1. Len(q) \in Nat
      BY <1>2, <1>4
    <3> QED  BY <1>5, <3>1, AlongIs
  <2> QED BY <1>6, <2>1
<1>8. Along(G, g[Len(a)], b) = h[Len(b)]
  BY <1>3, AlongIs
<1> QED
  BY <1>2, <1>7, <1>8 DEF q

\* One element is one step.
LEMMA AlongOne ==
    ASSUME NEW V, NEW X, NEW G \in Steps(V, X), NEW v \in V, NEW x \in X
    PROVE  Along(G, v, <<x>>) = G[<<v, x>>]
<1> DEFINE q == <<x>>
<1>1. q \in Seq(X) /\ Len(q) = 1 /\ q[1] = x
  OBVIOUS
<1> HIDE DEF q
<1> DEFINE g == [i \in 0 .. 1 |-> IF i = 0 THEN v ELSE G[<<v, x>>]]
<1>2. Runs(G, v, q, g) /\ g[1] = G[<<v, x>>]
  BY <1>1 DEF Runs
<1> HIDE DEF g
<1>3. Along(G, v, q) = G[<<v, x>>]
  <2>1. Len(q) \in Nat
    BY <1>1
  <2>2. Along(G, v, q) = g[Len(q)]
    BY <1>2, <2>1, AlongIs
  <2> QED  BY <1>1, <1>2, <2>2
<1> QED
  BY <1>3 DEF q

\* One element more is one step more.
LEMMA AlongAppend ==
    ASSUME NEW V, NEW X, NEW G \in Steps(V, X), NEW v \in V, NEW q \in Seq(X), NEW x \in X
    PROVE  Along(G, v, Append(q, x)) = G[<<Along(G, v, q), x>>]
<1>1. PICK one : one = <<x>>
  OBVIOUS
<1>2. Append(q, x) = q \o one /\ one \in Seq(X)
  BY <1>1, AppendIsConcat
<1>3. PICK w \in V : w = Along(G, v, q)
  BY AlongType
<1>4. Along(G, v, q \o one) = Along(G, w, one)
  BY <1>2, <1>3, AlongConcat
<1>5. Along(G, w, <<x>>) = G[<<w, x>>]
  BY AlongOne
<1> QED
  BY <1>1, <1>2, <1>3, <1>4, <1>5

-----------------------------------------------------------------------------
(* FoldLeft takes the elements of a sequence from the greatest index down. *)

\* A set of indices has a greatest one.
LEMMA GreatestIndex ==
    ASSUME NEW n \in Nat, NEW s \in SUBSET (1 .. n), s # {}
    PROVE  Max(s) \in s /\ \A y \in s : Max(s) >= y
<1> DEFINE T == {k \in 0 .. n : \A y \in s : y <= k}
<1>1. PICK m \in T : \A k \in T : m <= k
  <2>1. T \subseteq Nat /\ n \in T
    OBVIOUS
  <2> HIDE DEF T
  <2> QED  BY <2>1, LeastNatural
<1>2. m \in s
  <2>1. ASSUME m \notin s PROVE FALSE
    <3>1. PICK y \in s : TRUE
      OBVIOUS
    <3>2. y \in 1 .. n /\ y <= m
      OBVIOUS
    <3>3. m - 1 \in T
      BY <2>1, <3>2
    <3> QED  BY <1>1, <3>3
  <2> QED  BY <2>1
<1> QED
  BY <1>2 DEF Max

\* Without its greatest index an interval is an interval.
LEMMA GreatestOfInterval ==
    ASSUME NEW n \in Nat, NEW k \in 1 .. n
    PROVE  Max(1 .. k) = k /\ (1 .. k) \ {k} = 1 .. k - 1
<1>1. 1 .. k \in SUBSET (1 .. n) /\ k \in 1 .. k
  OBVIOUS
<1>2. Max(1 .. k) \in 1 .. k /\ Max(1 .. k) >= k
  BY <1>1, GreatestIndex
<1> QED
  BY <1>2

\* h says for every set of indices of q what G makes of the elements there.
Folds(G, v, q, n, h) ==
    \A s \in SUBSET (1 .. n) : h[s] = IF s = {} THEN v ELSE G[<<h[s \ {Max(s)}], q[Max(s)]>>]

\* A function on the sets of indices that adds the greatest one last.
LEMMA FoldExists ==
    ASSUME NEW V, NEW X, NEW G \in Steps(V, X), NEW v \in V, NEW q \in Seq(X)
    PROVE  \E h \in [SUBSET (1 .. Len(q)) -> V] : Folds(G, v, q, Len(q), h)
<1> DEFINE Has(n) == \E h \in [SUBSET (1 .. n) -> V] : Folds(G, v, q, n, h)
           T == {n \in 0 .. Len(q) : ~Has(n)}
<1>0. Len(q) \in Nat
  OBVIOUS
<1>1. ASSUME T # {} PROVE FALSE
  <2>1. PICK m \in T : \A k \in T : m <= k
    <3>1. T \subseteq Nat
      OBVIOUS
    <3> HIDE DEF T
    <3> QED  BY <1>1, <3>1, LeastNatural
  <2>2. CASE m = 0
    <3>1. 1 .. m = {} /\ SUBSET {} = {{}}
      BY <2>2
    <3>2. Folds(G, v, q, m, [s \in {{}} |-> v])
      BY <3>1 DEF Folds
    <3>3. [s \in {{}} |-> v] \in [SUBSET (1 .. m) -> V]
      BY <3>1
    <3> QED  BY <3>2, <3>3
  <2>3. CASE m # 0
    <3>1. m \in Nat \ {0} /\ m - 1 \in 0 .. Len(q) /\ m - 1 < m /\ m \in 1 .. Len(q)
      BY <1>0, <2>3
    <3>2. PICK g \in [SUBSET (1 .. m - 1) -> V] : Folds(G, v, q, m - 1, g)
      <4>1. Has(m - 1)
        <5> HIDE DEF Has
        <5> QED  BY <2>1, <3>1
      <4> QED  BY <4>1
    <3> DEFINE h == [s \in SUBSET (1 .. m) |->
                       IF m \in s THEN G[<<g[s \ {m}], q[m]>>] ELSE g[s]]
    <3>3. ASSUME NEW s \in SUBSET (1 .. m)
          PROVE  /\ s \ {m} \in SUBSET (1 .. m - 1) /\ (m \notin s => s \in SUBSET (1 .. m - 1))
                 /\ s \ {m} \in SUBSET (1 .. m)
      BY <3>1
    <3>4. q[m] \in X
      BY <3>1, ElementOfSeq
    <3>5. h \in [SUBSET (1 .. m) -> V]
      <4>1. ASSUME NEW s \in SUBSET (1 .. m) PROVE G[<<g[s \ {m}], q[m]>>] \in V
        BY <3>3, <3>4 DEF Steps
      <4> QED  BY <3>3, <4>1
    <3>6. ASSUME NEW s \in SUBSET (1 .. m)
          PROVE  h[s] = IF s = {} THEN v ELSE G[<<h[s \ {Max(s)}], q[Max(s)]>>]
      <4>1. CASE m \in s
        <5>1. Max(s) \in s /\ Max(s) >= m /\ Max(s) \in 1 .. m
          BY <3>1, <4>1, GreatestIndex
        <5>2. Max(s) = m
          BY <3>1, <5>1
        <5>3. h[s \ {m}] = g[s \ {m}]
          BY <3>3
        <5> QED  BY <4>1, <5>2, <5>3
      <4>2. CASE m \notin s
        <5>1. s \in SUBSET (1 .. m - 1) /\ h[s] = g[s]
          BY <3>3, <4>2
        <5>2. CASE s = {}
          BY <3>2, <5>1, <5>2 DEF Folds
        <5>3. CASE s # {}
          <6>1. h[s \ {Max(s)}] = g[s \ {Max(s)}]
            BY <3>3, <4>2
          <6> QED  BY <3>2, <5>1, <5>3, <6>1 DEF Folds
        <5> QED  BY <5>2, <5>3
      <4> QED  BY <4>1, <4>2
    <3> HIDE DEF h
    <3>7. Folds(G, v, q, m, h)
      BY <3>6 DEF Folds
    <3> QED  BY <3>5, <3>7
  <2> QED  BY <2>2, <2>3
<1>2. Len(q) \in 0 .. Len(q)
  BY <1>0
<1>3. Has(Len(q))
  <2> HIDE DEF Has
  <2> QED  BY <1>1, <1>2
<1> QED
  BY <1>3

\* What has the steps of G on the prefixes of q ends where G is after q.
LEMMA FoldRuns ==
    ASSUME NEW V, NEW X, NEW G \in Steps(V, X), NEW v \in V, NEW q \in Seq(X), NEW h,
           h[{}] = v,
           \A k \in 1 .. Len(q) :
             h[1 .. k - 1] \in V => h[1 .. k] = G[<<h[1 .. k - 1], q[k]>>]
    PROVE  h[1 .. Len(q)] = Along(G, v, q)
<1> DEFINE T == {k \in 0 .. Len(q) : h[1 .. k] \notin V}
<1>0. Len(q) \in Nat /\ 1 .. 0 = {}
  OBVIOUS
<1>1. ASSUME T # {} PROVE FALSE
  <2>1. PICK m \in T : \A k \in T : m <= k
    <3>1. T \subseteq Nat
      OBVIOUS
    <3> HIDE DEF T
    <3> QED  BY <1>1, <3>1, LeastNatural
  <2>2. m \in 1 .. Len(q) /\ m - 1 \in 0 .. Len(q) /\ m - 1 < m
    <3>1. m # 0
      BY <1>0
    <3> QED  BY <1>0, <3>1
  <2>3. h[1 .. m - 1] \in V
    BY <2>1, <2>2
  <2>4. q[m] \in X
    BY <2>2, ElementOfSeq
  <2>5. h[1 .. m] \in V
    BY <2>2, <2>3, <2>4 DEF Steps
  <2> QED  BY <2>5
<1>2. \A k \in 0 .. Len(q) : h[1 .. k] \in V
  BY <1>1
<1> DEFINE g == [k \in 0 .. Len(q) |-> h[1 .. k]]
<1>3. ASSUME NEW i \in 1 .. Len(q) PROVE g[i] = G[<<g[i - 1], q[i]>>]
  <2>1. i \in 0 .. Len(q) /\ i - 1 \in 0 .. Len(q)
    BY <1>0
  <2> QED  BY <1>2, <2>1
<1>4. g[0] = v /\ g[Len(q)] = h[1 .. Len(q)]
  BY <1>0
<1> HIDE DEF g
<1>5. Runs(G, v, q, g)
  BY <1>3, <1>4 DEF Runs
<1> QED
  BY <1>0, <1>4, <1>5, AlongIs

\* The sequences of a sequence one after the other.
LEMMA FlattenSeqRuns ==
    ASSUME NEW C, NEW seqs \in Seq(Seq(C)), seqs # <<>>
    PROVE  \E g \in [0 .. Len(seqs) -> Seq(C)] :
             /\ g[0] = <<>>
             /\ \A i \in 1 .. Len(seqs) : g[i] = g[i - 1] \o seqs[i]
             /\ FlattenSeq(seqs) = g[Len(seqs)]
<1> DEFINE n == Len(seqs)
           V == Seq(C)
           Glue == [p \in V \X V |-> p[1] \o p[2]]
           IsIt(f) == f = [i \in 1 .. n |-> IF i = 1 THEN seqs[i] ELSE f[i - 1] \o seqs[i]]
           flatten == CHOOSE f : IsIt(f)
<1>1. n \in Nat \ {0} /\ \A i \in 1 .. n : seqs[i] \in V
  <2>1. n \in Nat /\ n # 0
    BY EmptySeq
  <2> QED  BY <2>1, ElementOfSeq
<1>2. Glue \in Steps(V, V) /\ <<>> \in V /\ \A a, b \in V : Glue[<<a, b>>] = a \o b
  <2>1. ASSUME NEW a \in V, NEW b \in V PROVE a \o b \in V
    BY ConcatIs
  <2>2. <<>> \in V
    BY EmptySeq
  <2> HIDE DEF V
  <2> QED  BY <2>1, <2>2 DEF Steps
<1>3. FlattenSeq(seqs) = flatten[n]
  BY <1>1 DEF FlattenSeq
<1>4. PICK g \in [0 .. n -> V] : Runs(Glue, <<>>, seqs, g)
  <2>1. seqs \in Seq(V)
    OBVIOUS
  <2> HIDE DEF Glue, V
  <2> QED  BY <1>2, <2>1, RunExists
<1>5. g[0] = <<>> /\ \A i \in 1 .. n : g[i] = g[i - 1] \o seqs[i]
  <2>1. ASSUME NEW i \in 1 .. n PROVE g[i] = g[i - 1] \o seqs[i]
    <3>1. g[i] = Glue[<<g[i - 1], seqs[i]>>]
      BY <1>4 DEF Runs
    <3>2. g[i - 1] \in V /\ seqs[i] \in V
      <4>1. i - 1 \in 0 .. n
        BY <1>1
      <4> QED  BY <1>1, <1>4, <4>1
    <3> HIDE DEF Glue, V
    <3> QED  BY <1>2, <3>1, <3>2
  <2> QED  BY <1>4, <2>1 DEF Runs
<1> HIDE DEF Glue, V
<1>6. g[1] = seqs[1]
  <2>1. 1 \in 1 .. n /\ 1 - 1 = 0
    BY <1>1
  <2>2. g[1] = g[0] \o seqs[1] /\ seqs[1] \in Seq(C)
    BY <1>1, <1>5, <2>1 DEF V
  <2> QED  BY <1>5, <2>2, ConcatEmptySeq
<1>7. IsIt(flatten)
  <2> DEFINE f == [i \in 1 .. n |-> g[i]]
  <2>1. ASSUME NEW i \in 1 .. n PROVE f[i] = IF i = 1 THEN seqs[i] ELSE f[i - 1] \o seqs[i]
    <3>1. CASE i = 1
      BY <1>6, <3>1
    <3>2. CASE i # 1
      <4>1. i - 1 \in 1 .. n
        BY <1>1, <3>2
      <4> QED  BY <1>5, <3>2, <4>1
    <3> QED  BY <3>1, <3>2
  <2>2. f = [i \in 1 .. n |-> IF i = 1 THEN seqs[i] ELSE f[i - 1] \o seqs[i]]
    BY <2>1
  <2>3. IsIt(f)
    BY <2>2
  <2> HIDE DEF f, IsIt
  <2> QED  BY <2>3
<1> HIDE DEF flatten
<1> DEFINE T == {i \in 1 .. n : flatten[i] # g[i]}
<1>8. ASSUME T # {} PROVE FALSE
  <2>1. PICK m \in T : \A k \in T : m <= k
    <3>1. T \subseteq Nat
      OBVIOUS
    <3> HIDE DEF T
    <3> QED  BY <1>8, <3>1, LeastNatural
  <2>2. m \in 1 .. n /\ flatten[m] # g[m]
    OBVIOUS
  <2>3. flatten[m] = IF m = 1 THEN seqs[m] ELSE flatten[m - 1] \o seqs[m]
    BY <1>7, <2>2
  <2>4. CASE m = 1
    BY <1>6, <2>2, <2>3, <2>4
  <2>5. CASE m # 1
    <3>1. m - 1 \in 1 .. n /\ m - 1 < m /\ m \in Nat /\ m - 1 \in Nat
      BY <1>1, <2>2, <2>5
    <3>2. flatten[m - 1] = g[m - 1]
      <4>1. m - 1 \notin T
        <5> HIDE DEF T
        <5> QED  BY <2>1, <3>1
      <4> QED  BY <3>1, <4>1
    <3> QED  BY <1>5, <2>2, <2>3, <2>5, <3>2
  <2> QED  BY <2>4, <2>5
<1>9. flatten[n] = g[n]
  <2>1. n \in 1 .. n /\ T = {}
    BY <1>1, <1>8
  <2> QED  BY <2>1
<1> QED
  BY <1>3, <1>4, <1>5, <1>9 DEF V

-----------------------------------------------------------------------------
(* A function of the natural numbers given by its values below.            *)

\* The values of f below n.
Before(f, n) == [k \in 1 .. n |-> f[k - 1]]

\* A recursive function on the natural numbers that looks at all smaller ones exists.
LEMMA CourseExists ==
    ASSUME NEW V, NEW G \in [Seq(V) -> V]
    PROVE  \E f \in [Nat -> V] : \A n \in Nat : f[n] = G[Before(f, n)]
<1> DEFINE H == [p \in Seq(V) \X {0} |-> Append(p[1], G[p[1]])]
           z(n) == [i \in 1 .. n |-> 0]
           e == <<>>
           One == {0}
           s(n) == Along(H, e, z(n))
           f == [n \in Nat |-> G[s(n)]]
<1>1. H \in Steps(Seq(V), One) /\ e \in Seq(V) /\ 0 \in One
  <2>1. ASSUME NEW p \in Seq(V) \X {0} PROVE Append(p[1], G[p[1]]) \in Seq(V)
    OBVIOUS
  <2> QED  BY <2>1, EmptySeq DEF Steps
<1>2. ASSUME NEW n \in Nat
      PROVE  z(n) \in Seq(One) /\ s(n) \in Seq(V) /\ G[s(n)] \in V
  <2>1. z(n) \in Seq(One)
    <3>1. z(n) \in [1 .. n -> One]
      OBVIOUS
    <3> HIDE DEF z, One
    <3> QED  BY <3>1, FunctionIsSeq
  <2> HIDE DEF z, H, e, One
  <2>3. s(n) \in Seq(V)
    BY <1>1, <2>1, AlongType
  <2> QED  BY <2>1, <2>3
<1>3. f \in [Nat -> V]
  <2> HIDE DEF s
  <2> QED  BY <1>2
<1>4. ASSUME NEW n \in Nat PROVE s(n + 1) = Append(s(n), G[s(n)])
  <2>1. z(n + 1) = Append(z(n), 0)
    <3>1. z(n) \in Seq({0}) /\ z(n + 1) \in Seq({0}) /\ Len(z(n)) = n /\ Len(z(n + 1)) = n + 1
      <4>1. z(n) \in [1 .. n -> {0}] /\ z(n + 1) \in [1 .. n + 1 -> {0}] /\ n + 1 \in Nat
        OBVIOUS
      <4> HIDE DEF z
      <4> QED  BY <4>1, FunctionIsSeq
    <3>2. \A i \in 1 .. n + 1 : z(n + 1)[i] = Append(z(n), 0)[i]
      BY <3>1
    <3>3. Append(z(n), 0) \in Seq({0}) /\ Len(Append(z(n), 0)) = n + 1
      BY <3>1
    <3> HIDE DEF z
    <3> QED  BY <3>1, <3>2, <3>3, SeqEqual
  <2>3. s(n + 1) = H[<<s(n), 0>>]
    <3>1. PICK w \in Seq(One) : w = z(n)
      BY <1>2
    <3> HIDE DEF H, z, e, One
    <3>2. Along(H, e, Append(w, 0)) = H[<<Along(H, e, w), 0>>]
      BY <1>1, AlongAppend
    <3> QED  BY <2>1, <3>1, <3>2
  <2>4. <<s(n), 0>> \in Seq(V) \X {0}
    BY <1>2
  <2> HIDE DEF s
  <2> QED  BY <2>3, <2>4
<1>5. ASSUME NEW n \in Nat PROVE s(n) = [k \in 1 .. n |-> f[k - 1]]
  <2> DEFINE Fits(k) == s(k) = [i \in 1 .. k |-> f[i - 1]]
             T == {k \in Nat : ~Fits(k)}
  <2>1. ASSUME T # {} PROVE FALSE
    <3>1. PICK m \in T : \A k \in T : m <= k
      <4>1. T \subseteq Nat
        OBVIOUS
      <4> HIDE DEF T
      <4> QED  BY <2>1, <4>1, LeastNatural
    <3>2. CASE m = 0
      <4>1. z(0) = <<>>
        OBVIOUS
      <4>2. s(0) = <<>>
        <5> HIDE DEF z, H
        <5> QED  BY <4>1, AlongEmpty DEF e
      <4>3. [i \in 1 .. 0 |-> f[i - 1]] = <<>>
        OBVIOUS
      <4> HIDE DEF s, f
      <4> QED  BY <3>2, <4>2, <4>3
    <3>3. CASE m # 0
      <4>1. m - 1 \in Nat /\ m - 1 < m /\ m \in Nat /\ m - 1 + 1 = m
        BY <3>3
      <4> DEFINE p == [i \in 1 .. m - 1 |-> f[i - 1]]
      <4>2. s(m - 1) = p
        <5>1. Fits(m - 1)
          <6> HIDE DEF Fits
          <6> QED  BY <3>1, <4>1
        <5> QED  BY <5>1
      <4>3. G[s(m - 1)] = f[m - 1]
        <5> HIDE DEF s
        <5> QED  BY <4>1
      <4>4. s(m) = Append(p, f[m - 1])
        <5> HIDE DEF s, p, f
        <5> QED  BY <1>4, <4>1, <4>2, <4>3
      <4>5. p \in [1 .. m - 1 -> V] /\ [i \in 1 .. m |-> f[i - 1]] \in [1 .. m -> V] /\ f[m - 1] \in V
        <5> HIDE DEF f
        <5> QED  BY <1>3, <4>1
      <4>6. p \in Seq(V) /\ Len(p) = m - 1 /\ [i \in 1 .. m |-> f[i - 1]] \in Seq(V)
            /\ Len([i \in 1 .. m |-> f[i - 1]]) = m
        <5> HIDE DEF p, f
        <5> QED  BY <4>1, <4>5, FunctionIsSeq
      <4>7. \A i \in 1 .. m : Append(p, f[m - 1])[i] = [j \in 1 .. m |-> f[j - 1]][i]
        <5> HIDE DEF f
        <5> QED  BY <4>1, <4>5, <4>6
      <4>8. Append(p, f[m - 1]) \in Seq(V) /\ Len(Append(p, f[m - 1])) = m
        <5> HIDE DEF f, p
        <5> QED  BY <4>1, <4>5, <4>6
      <4>9. Append(p, f[m - 1]) = [i \in 1 .. m |-> f[i - 1]]
        <5> HIDE DEF f, p
        <5> QED  BY <4>6, <4>7, <4>8, SeqEqual
      <4> HIDE DEF s, f, p
      <4> QED  BY <4>4, <4>9
    <3> QED  BY <3>2, <3>3
  <2> HIDE DEF s, f
  <2> QED  BY <2>1
<1>6. \A n \in Nat : f[n] = G[[k \in 1 .. n |-> f[k - 1]]]
  <2>1. ASSUME NEW n \in Nat PROVE f[n] = G[s(n)]
    <3> HIDE DEF s
    <3> QED  OBVIOUS
  <2> HIDE DEF s, f
  <2> QED  BY <1>5, <2>1
<1> HIDE DEF f
<1> QED
  BY <1>3, <1>6 DEF Before

-----------------------------------------------------------------------------
(* Decimal numerals                                                        *)

DigitsOf(n, below) == IF n < 10 THEN <<n>> ELSE Append(below[n \div 10], n % 10)
Numerals == {q \in Seq(0 .. 9) : q # <<>>}

\* The last digit and the number before it.
LEMMA DigitsParts ==
    ASSUME NEW n \in Nat, ~(n < 10)
    PROVE  n \div 10 \in 0 .. n - 1 /\ n % 10 \in 0 .. 9 /\ n = 10 * (n \div 10) + (n % 10)
  OBVIOUS

\* Digits before a digit are a numeral.
LEMMA DigitsOfType ==
    ASSUME NEW n \in Nat, NEW below, \A k \in 0 .. n - 1 : below[k] \in Numerals
    PROVE  DigitsOf(n, below) \in Numerals
<1> DEFINE D == 0 .. 9
<1>1. CASE n < 10
  <2>1. n \in D /\ DigitsOf(n, below) = <<n>>
    BY <1>1 DEF DigitsOf
  <2> HIDE DEF D
  <2>2. <<n>> \in Seq(D) /\ <<n>> # <<>>
    BY <2>1
  <2> QED  BY <2>1, <2>2 DEF Numerals, D
<1>2. CASE ~(n < 10)
  <2>1. PICK q \in Seq(D), x \in D : q = below[n \div 10] /\ x = n % 10
    BY <1>2, DigitsParts DEF Numerals
  <2>2. DigitsOf(n, below) = Append(q, x)
    BY <1>2, <2>1 DEF DigitsOf
  <2> HIDE DEF D
  <2>3. Append(q, x) \in Seq(D) /\ Len(Append(q, x)) = Len(q) + 1 /\ Len(q) \in Nat
    BY PlainAppend
  <2>4. Append(q, x) # <<>>
    BY <2>3, EmptySeq
  <2> QED  BY <2>2, <2>3, <2>4 DEF Numerals, D
<1> QED
  BY <1>1, <1>2

\* Only what is below is looked at.
LEMMA DigitsOfBelow ==
    ASSUME NEW n \in Nat, NEW a, NEW b, \A k \in 0 .. n - 1 : a[k] = b[k]
    PROVE  DigitsOf(n, a) = DigitsOf(n, b)
<1>1. CASE n < 10
  BY <1>1 DEF DigitsOf
<1>2. CASE ~(n < 10)
  <2>1. a[n \div 10] = b[n \div 10]
    BY <1>2, DigitsParts
  <2> QED  BY <1>2, <2>1 DEF DigitsOf
<1> QED
  BY <1>1, <1>2

\* DecimalDigits is total and follows its definition everywhere.
LEMMA DecimalDigitsIs ==
    /\ \A n \in Nat : DecimalDigits[n] \in Numerals
    /\ \A n \in Nat : DecimalDigits[n] = DigitsOf(n, DecimalDigits)
<1> DEFINE Below(h) == [k \in 0 .. Len(h) - 1 |-> h[k + 1]]
           G == [h \in Seq(Numerals) |-> DigitsOf(Len(h), Below(h))]
           Is(f) == f = [n \in Nat |-> DigitsOf(n, f)]
<1>1. G \in [Seq(Numerals) -> Numerals]
  <2>1. ASSUME NEW h \in Seq(Numerals) PROVE DigitsOf(Len(h), Below(h)) \in Numerals
    <3>1. Len(h) \in Nat /\ \A k \in 0 .. Len(h) - 1 : Below(h)[k] \in Numerals
      OBVIOUS
    <3> HIDE DEF Below
    <3> QED  BY <3>1, DigitsOfType
  <2> HIDE DEF Below
  <2> QED  BY <2>1
<1>2. PICK f \in [Nat -> Numerals] : \A n \in Nat : f[n] = G[Before(f, n)]
  <2> DEFINE V == Numerals
  <2>1. G \in [Seq(V) -> V]
    BY <1>1
  <2> HIDE DEF G, V
  <2>2. \E f \in [Nat -> V] : \A n \in Nat : f[n] = G[Before(f, n)]
    BY <2>1, CourseExists
  <2> QED  BY <2>2 DEF V
<1>3. ASSUME NEW n \in Nat PROVE f[n] = DigitsOf(n, f)
  <2> DEFINE h == Before(f, n)
  <2>1. h \in Seq(Numerals) /\ Len(h) = n
    <3>1. h \in [1 .. n -> Numerals]
      BY <1>2 DEF Before
    <3> HIDE DEF h
    <3> QED  BY <3>1, FunctionIsSeq
  <2>2. \A k \in 0 .. n - 1 : Below(h)[k] = f[k]
    <3>1. ASSUME NEW k \in 0 .. n - 1 PROVE h[k + 1] = f[k]
      BY DEF Before
    <3> HIDE DEF h
    <3> QED  BY <2>1, <3>1
  <2>3. f[n] = G[h]
    BY <1>2
  <2> HIDE DEF h
  <2>4. G[h] = DigitsOf(n, Below(h))
    BY <2>1
  <2> HIDE DEF Below, G
  <2> QED  BY <2>2, <2>3, <2>4, DigitsOfBelow
<1>4. Is(f)
  BY <1>2, <1>3
<1>5. Is(DecimalDigits)
  <2>1. DecimalDigits = CHOOSE g : Is(g)
    BY Zenon DEF DecimalDigits, DigitsOf
  <2> HIDE DEF Is
  <2> QED  BY <1>4, <2>1
<1>6. ASSUME NEW n \in Nat PROVE DecimalDigits[n] = DigitsOf(n, DecimalDigits)
  BY <1>5
<1> DEFINE T == {n \in Nat : DecimalDigits[n] \notin Numerals}
<1>7. ASSUME T # {} PROVE FALSE
  <2>1. PICK m \in T : \A k \in T : m <= k
    <3>1. T \subseteq Nat
      OBVIOUS
    <3> HIDE DEF T
    <3> QED  BY <1>7, <3>1, LeastNatural
  <2>2. \A k \in 0 .. m - 1 : DecimalDigits[k] \in Numerals
    BY <2>1
  <2> QED  BY <1>6, <2>2, DigitsOfType
<1> QED
  BY <1>6, <1>7

TenTimes == [p \in Nat \X (0 .. 9) |-> 10 * p[1] + p[2]]

\* The step from digit to digit.
LEMMA TenTimesType ==
    /\ TenTimes \in Steps(Nat, 0 .. 9) /\ 0 \in Nat
    /\ \A a \in Nat, d \in 0 .. 9 : TenTimes[<<a, d>>] = 10 * a + d
  BY DEF TenTimes, Steps

\* The digits of a number have its value.
LEMMA DigitsValue ==
    ASSUME NEW n \in Nat
    PROVE  Along(TenTimes, 0, DecimalDigits[n]) = n
<1> DEFINE T == {k \in Nat : Along(TenTimes, 0, DecimalDigits[k]) # k}
           V == Nat
           D == 0 .. 9
<1>0. TenTimes \in Steps(V, D) /\ 0 \in V
  BY TenTimesType
<1>1. ASSUME T # {} PROVE FALSE
  <2>1. PICK m \in T : \A k \in T : m <= k
    <3>1. T \subseteq Nat
      OBVIOUS
    <3> HIDE DEF T
    <3> QED  BY <1>1, <3>1, LeastNatural
  <2>2. CASE m < 10
    <3>1. DecimalDigits[m] = <<m>> /\ m \in D /\ m \in Nat
      <4>1. m \in Nat /\ m \in D
        BY <2>1, <2>2
      <4>2. DecimalDigits[m] = DigitsOf(m, DecimalDigits)
        BY <4>1, DecimalDigitsIs
      <4> QED  BY <2>2, <4>1, <4>2 DEF DigitsOf
    <3>2. TenTimes[<<0, m>>] = m
      <4>1. TenTimes[<<0, m>>] = 10 * 0 + m
        BY <3>1, TenTimesType
      <4> QED  BY <3>1, <4>1
    <3> HIDE DEF D, V
    <3>3. Along(TenTimes, 0, <<m>>) = TenTimes[<<0, m>>]
      BY <1>0, <3>1, AlongOne
    <3> QED  BY <2>1, <3>1, <3>2, <3>3
  <2>3. CASE ~(m < 10)
    <3> DEFINE k == m \div 10
               d == m % 10
    <3>1. k \in Nat /\ k < m /\ d \in D /\ m = 10 * k + d /\ m \in Nat
      BY <2>3, DigitsParts
    <3>2. DecimalDigits[m] = Append(DecimalDigits[k], d)
      BY <2>3, DecimalDigitsIs DEF DigitsOf
    <3> HIDE DEF k, d
    <3>3. PICK q \in Seq(D) : q = DecimalDigits[k]
      BY <3>1, DecimalDigitsIs DEF Numerals
    <3>4. Along(TenTimes, 0, q) = k
      <4>1. k \notin T
        <5> HIDE DEF T
        <5> QED  BY <2>1, <3>1
      <4> QED  BY <3>1, <3>3, <4>1
    <3>5. Along(TenTimes, 0, Append(q, d)) = TenTimes[<<k, d>>]
      <4> HIDE DEF D, V
      <4> QED  BY <1>0, <3>1, <3>3, <3>4, AlongAppend
    <3>6. TenTimes[<<k, d>>] = 10 * k + d
      BY <3>1, TenTimesType
    <3> QED  BY <2>1, <3>1, <3>2, <3>3, <3>5, <3>6
  <2> QED  BY <2>2, <2>3
<1> QED
  BY <1>1

=============================================================================
