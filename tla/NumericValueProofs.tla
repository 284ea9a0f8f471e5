-------------------------- MODULE NumericValueProofs --------------------------
(***************************************************************************)
(* Comparison orders the spellings of JSON numbers by their decimals,      *)
(* formatting keeps the decimal, rounding is half to even, and what        *)
(* $formatNumber writes is read as the number it was called with, for      *)
(* digits of any number, exponents of any size and every picture.          *)
(***************************************************************************)
EXTENDS NumberFunctions, DataFacts, FiniteSetTheorems, TLAPS

Digit == 0 .. 9

-----------------------------------------------------------------------------
(* Digits and the zeros at their ends.                                     *)

\* A stretch of a sequence.
LEMMA Slice ==
    ASSUME NEW S, NEW q \in Seq(S), NEW k \in Nat, NEW n \in Nat, k <= n, n <= Len(q)
    PROVE  /\ SubSeq(q, k + 1, n) \in Seq(S)
           /\ Len(SubSeq(q, k + 1, n)) = n - k
           /\ \A i \in 1 .. n - k : SubSeq(q, k + 1, n)[i] = q[k + i]
<1>1. Len(q) \in Nat /\ \A i \in 1 .. Len(q) : q[i] \in S
  BY ElementOfSeq
<1>2. k + 1 \in Int /\ n \in Int /\ \A i \in k + 1 .. n : q[i] \in S
  BY <1>1
<1> DEFINE m == k + 1
<1>3. m \in Int
  BY <1>2
<1>4. \A i \in m .. n : q[i] \in S
  BY <1>2
<1> HIDE DEF m
<1>5. /\ SubSeq(q, m, n) \in Seq(S)
      /\ Len(SubSeq(q, m, n)) = IF m <= n THEN n - m + 1 ELSE 0
      /\ \A i \in 1 .. n - m + 1 : SubSeq(q, m, n)[i] = q[m + i - 1]
  BY <1>2, <1>3, <1>4, SubSeqProperties
<1>6. QED
  BY <1>1, <1>5 DEF m

\* The digits after the zeros in front.
LEMMA TrimLeftIs ==
    ASSUME NEW S, NEW q \in Seq(S), NEW k \in 0 .. Len(q),
           \A i \in 1 .. k : q[i] = 0,
           k < Len(q) => q[k + 1] # 0
    PROVE  TrimLeft(q) = SubSeq(q, k + 1, Len(q))
<1> DEFINE P(j) == (\A i \in 1 .. j : q[i] = 0) /\ (j < Len(q) => q[j + 1] # 0)
           c == CHOOSE j \in 0 .. Len(q) : P(j)
<1>0. Len(q) \in Nat
  OBVIOUS
<1>1. c \in 0 .. Len(q) /\ P(c)
  <2>1. \E j \in 0 .. Len(q) : P(j)
    OBVIOUS
  <2>2. QED
    BY <2>1
<1>2. c = k
  <2>1. CASE c < k
    <3>1. c + 1 \in 1 .. k /\ c < Len(q)
      BY <1>0, <1>1, <2>1
    <3>2. QED
      BY <1>1, <3>1
  <2>2. CASE k < c
    <3>1. k + 1 \in 1 .. c /\ k < Len(q)
      BY <1>0, <1>1, <2>2
    <3>2. QED
      BY <1>1, <3>1
  <2>3. QED
    BY <1>0, <1>1, <2>1, <2>2
<1>3. TrimLeft(q) = SubSeq(q, c + 1, Len(q))
  BY DEF TrimLeft
<1>4. QED
  BY <1>2, <1>3

\* There are such digits.
LEMMA Leading ==
    ASSUME NEW S, NEW q \in Seq(S)
    PROVE  \E k \in 0 .. Len(q) : /\ \A i \in 1 .. k : q[i] = 0
                                  /\ k < Len(q) => q[k + 1] # 0
<1> DEFINE T == {k \in 0 .. Len(q) : k < Len(q) => q[k + 1] # 0}
<1>0. Len(q) \in Nat
  OBVIOUS
<1>1. T \subseteq Nat /\ Len(q) \in T
  BY <1>0
<1>2. PICK m \in T : \A k \in T : m <= k
  <2> HIDE DEF T
  <2> QED  BY <1>1, LeastNatural
<1>3. ASSUME NEW i \in 1 .. m PROVE q[i] = 0
  <2>1. i - 1 \in 0 .. Len(q) /\ i - 1 < m /\ i - 1 < Len(q) /\ (i - 1) + 1 = i
    BY <1>0, <1>2, <1>3
  <2>2. i - 1 \notin T
    BY <1>2, <2>1
  <2>3. QED
    BY <2>1, <2>2
<1>4. QED
  BY <1>2, <1>3

\* The digits before the zeros at the end.
LEMMA TrimRightIs ==
    ASSUME NEW S, NEW q \in Seq(S), NEW n \in 0 .. Len(q),
           n > 0 => q[n] # 0,
           \A i \in n + 1 .. Len(q) : q[i] = 0
    PROVE  /\ TrimRight(q) \in Seq(S) /\ Len(TrimRight(q)) = n
           /\ \A i \in 1 .. n : TrimRight(q)[i] = q[i]
<1> DEFINE r == Reverse(q)
           k == Len(q) - n
           t == SubSeq(r, k + 1, Len(r))
<1>0. Len(q) \in Nat /\ k \in Nat /\ k <= Len(q) /\ n \in Nat /\ \A i \in 1 .. Len(q) : q[i] \in S
  BY ElementOfSeq
<1>1. r \in Seq(S) /\ Len(r) = Len(q) /\ \A i \in 1 .. Len(q) : r[i] = q[Len(q) - i + 1]
  <2>1. \A i \in 1 .. Len(q) : Len(q) - i + 1 \in 1 .. Len(q)
    BY <1>0
  <2>2. r \in [1 .. Len(q) -> S]
    BY <1>0, <2>1 DEF Reverse
  <2>3. QED
    BY <1>0, <2>2, FunctionIsSeq DEF Reverse
<1> HIDE DEF r
<1>2. TrimLeft(r) = t
  <2>1. ASSUME NEW i \in 1 .. k PROVE r[i] = 0
    <3>1. i \in 1 .. Len(q) /\ Len(q) - i + 1 \in n + 1 .. Len(q)
      BY <1>0
    <3>2. QED
      BY <1>1, <3>1
  <2>2. k < Len(r) => r[k + 1] # 0
    BY <1>0, <1>1
  <2>3. k \in 0 .. Len(r)
    BY <1>0, <1>1
  <2> HIDE DEF k
  <2>4. QED
    BY <1>1, <2>1, <2>2, <2>3, TrimLeftIs
<1>3. t \in Seq(S) /\ Len(t) = n /\ \A i \in 1 .. n : t[i] = q[n - i + 1]
  <2>1. t \in Seq(S) /\ Len(t) = Len(r) - k /\ \A i \in 1 .. Len(r) - k : t[i] = r[k + i]
    <3> HIDE DEF k
    <3> QED  BY <1>0, <1>1, Slice
  <2> HIDE DEF t
  <2>2. ASSUME NEW i \in 1 .. n PROVE t[i] = q[n - i + 1]
    <3>1. i \in 1 .. Len(r) - k /\ k + i \in 1 .. Len(q) /\ Len(q) - (k + i) + 1 = n - i + 1
      BY <1>0, <1>1
    <3>2. QED
      BY <1>1, <2>1, <3>1
  <2>3. QED
    BY <1>0, <1>1, <2>1, <2>2
<1> HIDE DEF t
<1>4. TrimRight(q) = Reverse(t)
  BY <1>2 DEF TrimRight, r
<1>5. /\ Reverse(t) \in Seq(S) /\ Len(Reverse(t)) = n
      /\ \A i \in 1 .. n : Reverse(t)[i] = t[n - i + 1]
  <2>1. \A i \in 1 .. n : n - i + 1 \in 1 .. n /\ t[n - i + 1] \in S
    BY <1>0, <1>3, ElementOfSeq
  <2>2. Reverse(t) \in [1 .. n -> S]
    BY <1>3, <2>1 DEF Reverse
  <2>3. QED
    BY <1>0, <1>3, <2>2, FunctionIsSeq DEF Reverse
<1>6. \A i \in 1 .. n : n - i + 1 \in 1 .. n /\ n - (n - i + 1) + 1 = i
  BY <1>0
<1>7. QED
  BY <1>3, <1>4, <1>5, <1>6

LEMMA Trailing ==
    ASSUME NEW S, NEW q \in Seq(S)
    PROVE  \E n \in 0 .. Len(q) : /\ n > 0 => q[n] # 0
                                  /\ \A i \in n + 1 .. Len(q) : q[i] = 0
<1> DEFINE T == {k \in 0 .. Len(q) : k < Len(q) => q[Len(q) - k] # 0}
<1>0. Len(q) \in Nat
  OBVIOUS
<1>1. T \subseteq Nat /\ Len(q) \in T
  BY <1>0
<1>2. PICK m \in T : \A k \in T : m <= k
  <2> HIDE DEF T
  <2> QED  BY <1>1, LeastNatural
<1>3. Len(q) - m \in 0 .. Len(q) /\ (Len(q) - m > 0 => q[Len(q) - m] # 0)
  BY <1>0, <1>2
<1>4. ASSUME NEW i \in Len(q) - m + 1 .. Len(q) PROVE q[i] = 0
  <2>1. Len(q) - i \in 0 .. Len(q) /\ Len(q) - i < m /\ Len(q) - i < Len(q) /\ Len(q) - (Len(q) - i) = i
    BY <1>0, <1>2, <1>4
  <2>2. Len(q) - i \notin T
    BY <1>2, <2>1
  <2>3. QED
    BY <2>1, <2>2
<1>5. QED
  BY <1>3, <1>4

\* A coefficient has no zero at either end.
Canonical(c) == c \in Seq(Digit) /\ c # <<>> /\ c[1] # 0 /\ c[Len(c)] # 0

\* Trimming leaves a coefficient, and zeros around one are trimmed off.
LEMMA TrimmedHead ==
    ASSUME NEW q \in Seq(Digit)
    PROVE  LET h == TrimLeft(q) IN
           h \in Seq(Digit) /\ Len(h) <= Len(q) /\ (h # <<>> => h[1] # 0)
<1>1. PICK k \in 0 .. Len(q) : (\A i \in 1 .. k : q[i] = 0) /\ (k < Len(q) => q[k + 1] # 0)
  BY Leading
<1>2. TrimLeft(q) = SubSeq(q, k + 1, Len(q))
  BY <1>1, TrimLeftIs
<1>3. Len(q) \in Nat /\ k \in Nat /\ k <= Len(q)
  OBVIOUS
<1>4. /\ TrimLeft(q) \in Seq(Digit) /\ Len(TrimLeft(q)) = Len(q) - k
      /\ \A i \in 1 .. Len(q) - k : TrimLeft(q)[i] = q[k + i]
  BY <1>2, <1>3, Slice
<1>5. TrimLeft(q) # <<>> => k < Len(q) /\ 1 \in 1 .. Len(q) - k
  BY <1>3, <1>4
<1>6. QED
  BY <1>1, <1>3, <1>4, <1>5

LEMMA TrimmedTail ==
    ASSUME NEW q \in Seq(Digit), q # <<>>, q[1] # 0
    PROVE  Canonical(TrimRight(q))
<1>1. PICK n \in 0 .. Len(q) : (n > 0 => q[n] # 0) /\ \A i \in n + 1 .. Len(q) : q[i] = 0
  BY Trailing
<1>2. Len(q) \in Nat \ {0} /\ n \in Nat
  BY EmptySeq
<1>3. n > 0
  <2>1. n = 0 => 1 \in n + 1 .. Len(q)
    BY <1>2
  <2>2. QED
    BY <1>1, <1>2, <2>1
<1>4. /\ TrimRight(q) \in Seq(Digit) /\ Len(TrimRight(q)) = n
      /\ \A i \in 1 .. n : TrimRight(q)[i] = q[i]
  BY <1>1, TrimRightIs
<1>5. 1 \in 1 .. n /\ n \in 1 .. n
  BY <1>2, <1>3
<1>6. QED
  BY <1>1, <1>3, <1>4, <1>5 DEF Canonical

LEMMA ZerosAre ==
    ASSUME NEW n \in Int
    PROVE  /\ Zeros(n) \in Seq(Digit)
           /\ Len(Zeros(n)) = IF n > 0 THEN n ELSE 0
           /\ \A i \in 1 .. Len(Zeros(n)) : Zeros(n)[i] = 0
<1> DEFINE m == IF n > 0 THEN n ELSE 0
<1>1. Max({0, n}) = m
  <2>1. m \in {0, n} /\ \A y \in {0, n} : m >= y
    OBVIOUS
  <2>2. \A x \in {0, n} : (\A y \in {0, n} : x >= y) => x = m
    OBVIOUS
  <2>3. QED
    BY <2>1, <2>2 DEF Max
<1>2. m \in Nat
  OBVIOUS
<1> HIDE DEF m
<1>3. Zeros(n) = [i \in 1 .. m |-> 0]
  BY <1>1 DEF Zeros
<1>4. Zeros(n) \in [1 .. m -> Digit]
  BY <1>3 DEF Digit
<1>5. Zeros(n) \in Seq(Digit) /\ Len(Zeros(n)) = m
  BY <1>2, <1>4, FunctionIsSeq
<1>6. QED
  BY <1>3, <1>5 DEF m

LEMMA ZerosBefore ==
    ASSUME NEW c, Canonical(c), NEW n \in Int
    PROVE  TrimLeft(Zeros(n) \o c) = c
<1> DEFINE z == Zeros(n)
           q == z \o c
<1>1. z \in Seq(Digit) /\ Len(z) \in Nat /\ \A i \in 1 .. Len(z) : z[i] = 0
  BY ZerosAre
<1>2. c \in Seq(Digit) /\ Len(c) \in Nat \ {0} /\ c[1] # 0
  BY EmptySeq DEF Canonical
<1> HIDE DEF z
<1>3. /\ q \in Seq(Digit) /\ Len(q) = Len(z) + Len(c)
      /\ \A i \in 1 .. Len(z) + Len(c) : q[i] = IF i <= Len(z) THEN z[i] ELSE c[i - Len(z)]
  BY <1>1, <1>2, ConcatProperties
<1> HIDE DEF q
<1>4. \A i \in 1 .. Len(z) : q[i] = 0
  BY <1>1, <1>2, <1>3
<1>5. q[Len(z) + 1] # 0
  BY <1>1, <1>2, <1>3
<1>6. Len(z) \in 0 .. Len(q)
  BY <1>1, <1>2, <1>3
<1> DEFINE k == Len(z)
<1>7. TrimLeft(q) = SubSeq(q, k + 1, Len(q))
  <2>1. k \in 0 .. Len(q) /\ (\A i \in 1 .. k : q[i] = 0) /\ q[k + 1] # 0
    BY <1>4, <1>5, <1>6
  <2> HIDE DEF k
  <2>2. QED
    BY <1>3, <2>1, TrimLeftIs
<1>8. /\ SubSeq(q, k + 1, Len(q)) \in Seq(Digit) /\ Len(SubSeq(q, k + 1, Len(q))) = Len(q) - k
      /\ \A i \in 1 .. Len(q) - k : SubSeq(q, k + 1, Len(q))[i] = q[k + i]
  <2>1. k \in Nat /\ k <= Len(q) /\ Len(q) \in Nat
    BY <1>1, <1>2, <1>3
  <2> HIDE DEF k
  <2>2. QED
    BY <1>3, <2>1, Slice
<1>9. SubSeq(q, k + 1, Len(q)) = c
  <2>1. Len(q) - k = Len(c)
    BY <1>1, <1>2, <1>3
  <2>2. ASSUME NEW i \in 1 .. Len(c) PROVE q[k + i] = c[i]
    <3>1. k + i \in 1 .. Len(z) + Len(c) /\ ~(k + i <= Len(z)) /\ (k + i) - Len(z) = i
      BY <1>1, <1>2
    <3>2. QED
      BY <1>3, <3>1
  <2>3. QED
    BY <1>2, <1>8, <2>1, <2>2, SeqEqual
<1>10. QED
  BY <1>7, <1>9 DEF q, z

LEMMA ZerosAfter ==
    ASSUME NEW c, Canonical(c), NEW n \in Int
    PROVE  TrimRight(c \o Zeros(n)) = c
<1> DEFINE z == Zeros(n)
           q == c \o z
<1>1. z \in Seq(Digit) /\ Len(z) \in Nat /\ \A i \in 1 .. Len(z) : z[i] = 0
  BY ZerosAre
<1>2. c \in Seq(Digit) /\ Len(c) \in Nat \ {0} /\ c[Len(c)] # 0
  BY EmptySeq DEF Canonical
<1> HIDE DEF z
<1>3. /\ q \in Seq(Digit) /\ Len(q) = Len(c) + Len(z)
      /\ \A i \in 1 .. Len(c) + Len(z) : q[i] = IF i <= Len(c) THEN c[i] ELSE z[i - Len(c)]
  BY <1>1, <1>2, ConcatProperties
<1> HIDE DEF q
<1>4. Len(c) \in 0 .. Len(q) /\ q[Len(c)] # 0
  BY <1>1, <1>2, <1>3
<1>5. ASSUME NEW i \in Len(c) + 1 .. Len(q) PROVE q[i] = 0
  <2>1. i \in 1 .. Len(c) + Len(z) /\ ~(i <= Len(c)) /\ i - Len(c) \in 1 .. Len(z)
    BY <1>1, <1>2, <1>3
  <2>2. QED
    BY <1>1, <1>3, <2>1
<1> DEFINE k == Len(c)
<1>6. /\ TrimRight(q) \in Seq(Digit) /\ Len(TrimRight(q)) = k
      /\ \A i \in 1 .. k : TrimRight(q)[i] = q[i]
  <2>1. k \in 0 .. Len(q) /\ q[k] # 0 /\ \A i \in k + 1 .. Len(q) : q[i] = 0
    BY <1>4, <1>5
  <2> HIDE DEF k
  <2>2. QED
    BY <1>3, <2>1, TrimRightIs
<1>7. \A i \in 1 .. Len(c) : q[i] = c[i]
  BY <1>1, <1>2, <1>3
<1>8. QED
  BY <1>2, <1>6, <1>7, SeqEqual DEF q, z

-----------------------------------------------------------------------------
(* Decimals.                                                               *)

LEMMA SpellingFacts ==
    ASSUME NEW s \in Spellings
    PROVE  /\ s.negative \in BOOLEAN /\ s.head \in Seq(Digit) /\ s.fraction \in Nat /\ s.exp \in Int
  BY DEF Spellings, Digit

LEMMA IsSpelling ==
    ASSUME NEW negative \in BOOLEAN, NEW head \in Seq(Digit), NEW fraction \in Nat, NEW exp \in Int
    PROVE  Spelling(negative, head, fraction, exp) \in Spellings
  BY DEF Spellings, Spelling, Digit

\* What the digits of a token come down to.
LEMMA PartsOf ==
    ASSUME NEW negative, NEW head, NEW fraction, NEW exp,
           TrimLeft(head) # <<>>
    PROVE  parts(Spelling(negative, head, fraction, exp)) =
             [negative |-> negative, coefficient |-> TrimRight(TrimLeft(head)),
              adjusted |-> exp + Len(TrimLeft(head)) - fraction - 1]
  BY DEF parts, Spelling

Nought == [negative |-> FALSE, coefficient |-> <<0>>, adjusted |-> 0]

LEMMA PartsFacts ==
    ASSUME NEW s \in Spellings
    PROVE  /\ Zero(s) => parts(s) = Nought
           /\ ~Zero(s) => /\ parts(s).negative \in BOOLEAN
                          /\ Canonical(parts(s).coefficient)
                          /\ parts(s).adjusted \in Int
                          /\ parts(s) = [negative |-> parts(s).negative, coefficient |-> parts(s).coefficient,
                                         adjusted |-> parts(s).adjusted]
<1> DEFINE h == TrimLeft(s.head)
<1>0. s.negative \in BOOLEAN /\ s.head \in Seq(Digit) /\ s.fraction \in Nat /\ s.exp \in Int
  BY SpellingFacts
<1>1. h \in Seq(Digit) /\ (h # <<>> => h[1] # 0)
  BY <1>0, TrimmedHead
<1>2. CASE h = <<>>
  BY <1>2 DEF parts, Zero, Nought
<1>3. CASE h # <<>>
  <2>1. Canonical(TrimRight(h))
    <3> HIDE DEF h
    <3> QED  BY <1>1, <1>3, TrimmedTail
  <2>2. parts(s) = [negative |-> s.negative, coefficient |-> TrimRight(h),
                    adjusted |-> s.exp + Len(h) - s.fraction - 1]
    BY <1>3 DEF parts
  <2>3. Len(h) \in Nat
    BY <1>1
  <2>4. TrimRight(h) # <<0>>
    BY <2>1 DEF Canonical
  <2> HIDE DEF h
  <2>5. QED
    BY <1>0, <2>1, <2>2, <2>3, <2>4 DEF Zero
<1>4. QED
  BY <1>2, <1>3

\* A coefficient is what its digits come down to, with zeros on either side.
LEMMA CanonicalDigits ==
    ASSUME NEW c, Canonical(c), NEW n \in Int
    PROVE  /\ c \in Seq(Digit) /\ c # <<>> /\ Len(c) \in Nat \ {0}
           /\ TrimLeft(c) = c /\ TrimRight(c) = c
           /\ Zeros(n) \o c \in Seq(Digit)
           /\ c \o Zeros(n) \in Seq(Digit) /\ TrimLeft(c \o Zeros(n)) = c \o Zeros(n)
           /\ Len(c \o Zeros(n)) = Len(c) + (IF n > 0 THEN n ELSE 0)
<1>1. c \in Seq(Digit) /\ c # <<>> /\ Len(c) \in Nat \ {0} /\ c[1] # 0
  BY EmptySeq DEF Canonical
<1>2. Zeros(0) = <<>>
  BY ZerosAre, EmptySeq
<1>3. Zeros(0) \o c = c /\ c \o Zeros(0) = c
  BY <1>1, <1>2, ConcatEmptySeq
<1>4. TrimLeft(c) = c /\ TrimRight(c) = c
  <2>1. TrimLeft(Zeros(0) \o c) = c
    BY ZerosBefore
  <2>2. TrimRight(c \o Zeros(0)) = c
    BY ZerosAfter
  <2>3. QED
    BY <1>3, <2>1, <2>2
<1> DEFINE z == Zeros(n)
           q == c \o z
<1>5. z \in Seq(Digit) /\ Len(z) = IF n > 0 THEN n ELSE 0
  BY ZerosAre
<1> HIDE DEF z
<1>6. /\ q \in Seq(Digit) /\ Len(q) = Len(c) + Len(z)
      /\ \A i \in 1 .. Len(c) + Len(z) : q[i] = IF i <= Len(c) THEN c[i] ELSE z[i - Len(c)]
  BY <1>1, <1>5, ConcatProperties
<1>7. z \o c \in Seq(Digit)
  BY <1>1, <1>5, ConcatProperties
<1> HIDE DEF q
<1>8. Len(z) \in Nat /\ Len(q) \in Nat /\ q[1] = c[1]
  BY <1>1, <1>5, <1>6
<1>9. TrimLeft(q) = SubSeq(q, 0 + 1, Len(q))
  <2>1. (\A i \in 1 .. 0 : q[i] = 0) /\ (0 < Len(q) => q[0 + 1] # 0) /\ 0 \in 0 .. Len(q)
    BY <1>1, <1>8
  <2>2. QED
    BY <1>6, <2>1, TrimLeftIs
<1>10. /\ SubSeq(q, 0 + 1, Len(q)) \in Seq(Digit) /\ Len(SubSeq(q, 0 + 1, Len(q))) = Len(q) - 0
       /\ \A i \in 1 .. Len(q) - 0 : SubSeq(q, 0 + 1, Len(q))[i] = q[0 + i]
  BY <1>6, <1>8, Slice
<1>11. SubSeq(q, 0 + 1, Len(q)) = q
  BY <1>6, <1>8, <1>10, SeqEqual
<1>12. QED
  BY <1>1, <1>4, <1>5, <1>6, <1>7, <1>9, <1>11 DEF q, z

\* Format (value.go): whichever of its forms a number is written in, it is
\* read back as the same decimal, and so is a form of its own.
THEOREM FormatKeepsTheDecimal ==
    ASSUME NEW s \in Spellings
    PROVE  /\ Format(s) \in Spellings
           /\ parts(Format(s)) = parts(s)
           /\ Format(Format(s)) = Format(s)
<1> DEFINE p == parts(s)
           c == p.coefficient
           point == p.adjusted + 1
           Kept == Format(s) \in Spellings /\ parts(Format(s)) = p
<1>1. ASSUME Zero(s) PROVE Kept
  <2>1. Format(s) = Spelling(FALSE, <<0>>, 0, 0)
    BY <1>1 DEF Format
  <2>2. <<0>> \in Seq(Digit) /\ Len(<<0>>) = 1 /\ 0 \in Nat /\ 0 \in Int
    BY DEF Digit
  <2>3. Format(s) \in Spellings
    BY <2>1, <2>2, IsSpelling
  <2>4. TrimLeft(<<0>>) = <<>>
    <3> DEFINE q == <<0>>
    <3>1. q \in Seq(Digit) /\ Len(q) = 1 /\ q[1] = 0
      BY <2>2
    <3> HIDE DEF q
    <3>2. TrimLeft(q) = SubSeq(q, 1 + 1, Len(q))
      BY <3>1, TrimLeftIs
    <3>3. SubSeq(q, 1 + 1, Len(q)) \in Seq(Digit) /\ Len(SubSeq(q, 1 + 1, Len(q))) = 1 - 1
      BY <3>1, Slice
    <3>4. QED
      BY <3>2, <3>3, EmptySeq DEF q
  <2>5. parts(Format(s)) = Nought
    BY <2>1, <2>4 DEF parts, Spelling, Nought
  <2>6. QED
    BY <1>1, <2>3, <2>5, PartsFacts
<1>2. ASSUME ~Zero(s) PROVE Kept
  <2>0. p.negative \in BOOLEAN /\ Canonical(c) /\ point \in Int /\ p.adjusted = point - 1
        /\ p = [negative |-> p.negative, coefficient |-> c, adjusted |-> point - 1]
    BY <1>2, PartsFacts
  <2> HIDE DEF c, point
  <2>1. /\ c \in Seq(Digit) /\ c # <<>> /\ Len(c) \in Nat \ {0} /\ TrimLeft(c) = c /\ TrimRight(c) = c
    BY <2>0, CanonicalDigits
  <2>2. CASE p.adjusted \in -6 .. 20 /\ point <= 0
    <3> DEFINE h == Zeros(1 - point) \o c
    <3>1. Format(s) = Spelling(p.negative, h, Len(c) - point, 0)
      BY <1>2, <2>0, <2>2 DEF Format, c, point
    <3>2. h \in Seq(Digit) /\ TrimLeft(h) = c
      BY <2>0, CanonicalDigits, ZerosBefore
    <3> HIDE DEF h
    <3>3. Len(c) - point \in Nat /\ 0 \in Int /\ 0 + Len(c) - (Len(c) - point) - 1 = point - 1
      BY <2>0, <2>1, <2>2
    <3>4. Format(s) \in Spellings
      BY <2>0, <3>1, <3>2, <3>3, IsSpelling
    <3>5. parts(Format(s)) = [negative |-> p.negative, coefficient |-> c, adjusted |-> point - 1]
      BY <2>1, <3>1, <3>2, <3>3, PartsOf
    <3>6. QED
      BY <2>0, <2>1, <3>4, <3>5
  <2>3. CASE p.adjusted \in -6 .. 20 /\ point > 0
    <3> DEFINE h == c \o Zeros(point - Len(c))
               f == IF Len(c) - point > 0 THEN Len(c) - point ELSE 0
    <3>0. Max({0, Len(c) - point}) = f
      <4>1. f \in {0, Len(c) - point} /\ \A y \in {0, Len(c) - point} : f >= y
        BY <2>0, <2>1
      <4>2. \A x \in {0, Len(c) - point} : (\A y \in {0, Len(c) - point} : x >= y) => x = f
        BY <2>0, <2>1
      <4>3. QED
        BY <4>1, <4>2 DEF Max
    <3>1. Format(s) = Spelling(p.negative, h, f, 0)
      BY <1>2, <2>0, <2>3, <3>0 DEF Format, c, point
    <3>2. /\ h \in Seq(Digit) /\ TrimLeft(h) = h /\ TrimRight(h) = c
          /\ Len(h) = Len(c) + (IF point - Len(c) > 0 THEN point - Len(c) ELSE 0)
      BY SMTT(40), <2>0, <2>1, CanonicalDigits, ZerosAfter
    <3>3. h # <<>>
      BY <2>0, <2>1, <3>2
    <3> HIDE DEF h
    <3>4. f \in Nat /\ 0 \in Int
      BY <2>0, <2>1
    <3>5. Format(s) \in Spellings
      BY <2>0, <3>1, <3>2, <3>4, IsSpelling
    <3>6. parts(Format(s)) = [negative |-> p.negative, coefficient |-> c,
                              adjusted |-> 0 + Len(h) - f - 1]
      BY <3>1, <3>2, <3>3, PartsOf
    <3>7. 0 + Len(h) - f - 1 = point - 1
      BY <2>0, <2>1, <3>2
    <3>8. QED
      BY <2>0, <3>5, <3>6, <3>7
  <2>4. CASE p.adjusted \notin -6 .. 20
    <3>1. Format(s) = Spelling(p.negative, c, Len(c) - 1, point - 1)
      BY <1>2, <2>0, <2>4 DEF Format, c, point
    <3>2. Len(c) - 1 \in Nat /\ point - 1 \in Int /\ (point - 1) + Len(c) - (Len(c) - 1) - 1 = point - 1
      BY <2>0, <2>1
    <3>3. Format(s) \in Spellings
      BY <2>0, <2>1, <3>1, <3>2, IsSpelling
    <3>4. parts(Format(s)) = [negative |-> p.negative, coefficient |-> c, adjusted |-> point - 1]
      BY <2>1, <3>1, <3>2, PartsOf
    <3>5. QED
      BY <2>0, <2>1, <3>3, <3>4
  <2>5. QED
    BY <2>0, <2>2, <2>3, <2>4
<1>3. Kept
  BY <1>1, <1>2
<1>4. Format(Format(s)) = Format(s)
  BY <1>3 DEF Format, Zero
<1>5. QED
  BY <1>3, <1>4

-----------------------------------------------------------------------------
(* The natural number that a row of digits is read as.                     *)

Reads(N) ==
    /\ N \in [Seq(Digit) -> Nat]
    /\ N[<<>>] = 0
    /\ \A q \in Seq(Digit), d \in Digit : N[Append(q, d)] = 10 * N[q] + d

\* What has been read after each digit.
Running(q, g) ==
    /\ g \in [0 .. Len(q) -> Nat]
    /\ g[0] = 0
    /\ \A i \in 1 .. Len(q) : g[i] = 10 * g[i - 1] + q[i]

LEMMA RunningExists ==
    ASSUME NEW q \in Seq(Digit)
    PROVE  \E g : Running(q, g)
<1> DEFINE T == {n \in Nat : \E r \in Seq(Digit) : Len(r) = n /\ ~\E g : Running(r, g)}
<1>1. ASSUME T # {} PROVE FALSE
  <2>1. PICK m \in T : \A k \in T : m <= k
    <3>1. T \subseteq Nat
      OBVIOUS
    <3> HIDE DEF T
    <3>2. QED
      BY <1>1, <3>1, LeastNatural
  <2>2. PICK r \in Seq(Digit) : Len(r) = m /\ ~\E g : Running(r, g)
    OBVIOUS
  <2>3. CASE m = 0
    <3>1. Running(r, [i \in 0 .. 0 |-> 0])
      BY <2>2, <2>3 DEF Running
    <3>2. QED
      BY <2>2, <3>1
  <2>4. CASE m # 0
    <3> DEFINE f == SubSeq(r, 1, Len(r) - 1)
    <3>1. /\ f \in Seq(Digit) /\ m \in Nat \ {0} /\ Len(f) = m - 1
          /\ \A i \in 1 .. Len(f) : f[i] = r[i]
      BY <2>2, <2>4, EmptySeq, FrontAndLast
    <3> HIDE DEF f
    <3>2. PICK g : Running(f, g)
      BY <2>1, <3>1
    <3> DEFINE h == [i \in 0 .. m |-> IF i = m THEN 10 * g[m - 1] + r[m] ELSE g[i]]
    <3>3. r[m] \in Nat /\ g[m - 1] \in Nat
      <4>1. m \in 1 .. Len(r) /\ m - 1 \in 0 .. Len(f)
        BY <2>2, <3>1
      <4>2. r[m] \in Digit
        BY <4>1, ElementOfSeq
      <4>3. g \in [0 .. Len(f) -> Nat]
        BY <3>2 DEF Running
      <4>4. r[m] \in Nat
        BY <4>2 DEF Digit
      <4>5. QED
        BY <4>1, <4>3, <4>4
    <3>4. h \in [0 .. m -> Nat] /\ h[0] = 0
      BY SMTT(40), <3>1, <3>2, <3>3 DEF Running
    <3>5. ASSUME NEW i \in 1 .. m PROVE h[i] = 10 * h[i - 1] + r[i]
      <4>1. CASE i = m
        BY <3>1, <4>1
      <4>2. CASE i # m
        <5>1. i \in 1 .. Len(f) /\ i - 1 \in 0 .. m /\ i - 1 # m
          BY <3>1, <4>2
        <5>2. QED
          BY <3>1, <3>2, <4>2, <5>1 DEF Running
      <4>3. QED
        BY <4>1, <4>2
    <3> HIDE DEF h
    <3>6. Running(r, h)
      BY <2>2, <3>4, <3>5 DEF Running
    <3>7. QED
      BY <2>2, <3>6
  <2>5. QED
    BY <2>3, <2>4
<1>2. Len(q) \in Nat
  OBVIOUS
<1>3. QED
  BY <1>1, <1>2

LEMMA RunningUnique ==
    ASSUME NEW q \in Seq(Digit), NEW g, NEW h, Running(q, g), Running(q, h)
    PROVE  g[Len(q)] = h[Len(q)]
<1> DEFINE T == {i \in 0 .. Len(q) : g[i] # h[i]}
<1>1. ASSUME T # {} PROVE FALSE
  <2>1. PICK m \in T : \A k \in T : m <= k
    <3>1. T \subseteq Nat
      OBVIOUS
    <3> HIDE DEF T
    <3>2. QED
      BY <1>1, <3>1, LeastNatural
  <2>2. m # 0
    BY DEF Running
  <2>3. m \in 1 .. Len(q) /\ m - 1 \in 0 .. Len(q) /\ m - 1 < m
    BY <2>2
  <2>4. g[m - 1] = h[m - 1]
    BY <2>1, <2>3
  <2>5. QED
    BY <2>3, <2>4 DEF Running
<1>2. QED
  BY <1>1

\* There is such a reading.
LEMMA ReadingExists == \E N : Reads(N)
<1> DEFINE G(q) == CHOOSE g : Running(q, g)
           N == [q \in Seq(Digit) |-> G(q)[Len(q)]]
<1>1. ASSUME NEW q \in Seq(Digit) PROVE Running(q, G(q))
  BY RunningExists
<1> HIDE DEF G
<1>2. N \in [Seq(Digit) -> Nat]
  BY <1>1 DEF Running
<1>3. N[<<>>] = 0
  BY <1>1, EmptySeq DEF Running
<1>4. ASSUME NEW q \in Seq(Digit), NEW d \in Digit PROVE N[Append(q, d)] = 10 * N[q] + d
  <2> DEFINE r == Append(q, d)
             g == G(r)
             h == [i \in 0 .. Len(q) |-> g[i]]
  <2>1. /\ r \in Seq(Digit) /\ Len(r) = Len(q) + 1 /\ Len(q) \in Nat
        /\ (\A i \in 1 .. Len(q) : r[i] = q[i]) /\ r[Len(q) + 1] = d
    OBVIOUS
  <2> HIDE DEF r
  <2>2. Running(r, g)
    BY <1>1, <2>1
  <2> HIDE DEF g
  <2>3. Running(q, h)
    BY <2>1, <2>2 DEF Running
  <2>4. h[Len(q)] = N[q]
    <3> HIDE DEF h
    <3> QED  BY <1>1, <2>3, RunningUnique
  <2>5. h[Len(q)] = g[Len(q)]
    BY <2>1
  <2>6. g[Len(q) + 1] = 10 * g[Len(q)] + d
    BY <2>1, <2>2 DEF Running
  <2>7. N[r] = g[Len(r)]
    BY <2>1 DEF g
  <2>8. QED
    <3> HIDE DEF N, h
    <3> QED  BY <2>1, <2>4, <2>5, <2>6, <2>7 DEF r
<1> HIDE DEF N
<1>5. Reads(N)
  BY <1>2, <1>3, <1>4 DEF Reads
<1>6. QED
  BY <1>5

Number == CHOOSE N : Reads(N)

LEMMA NumberReads == Reads(Number)
  BY ReadingExists DEF Number

\* The digit of weight 10 to the j, and the digits above the last.
Place(q, j) == IF j \in 0 .. Len(q) - 1 THEN q[Len(q) - j] ELSE 0

LEMMA LastPlace ==
    ASSUME NEW q \in Seq(Digit)
    PROVE  \E f \in Seq(Digit) : /\ Number[q] = 10 * Number[f] + Place(q, 0)
                                 /\ \A j \in Nat : Place(f, j) = Place(q, j + 1)
                                 /\ \A k \in Nat : Len(q) <= k + 1 => Len(f) <= k
<1>1. CASE q = <<>>
  <2>1. <<>> \in Seq(Digit) /\ Len(<<>>) = 0 /\ Number[<<>>] = 0
    BY EmptySeq, NumberReads DEF Reads
  <2> DEFINE f == <<>>
  <2>2. \A j \in Int : Place(f, j) = 0
    BY <2>1 DEF Place
  <2> HIDE DEF f
  <2>3. f \in Seq(Digit) /\ Len(f) = 0 /\ Number[f] = 0 /\ q = f
    BY <1>1, <2>1 DEF f
  <2>4. /\ Number[q] = 10 * Number[f] + Place(q, 0)
        /\ \A j \in Nat : Place(f, j) = Place(q, j + 1)
        /\ \A k \in Nat : Len(q) <= k + 1 => Len(f) <= k
    BY <2>2, <2>3
  <2>5. QED
    BY <2>3, <2>4
<1>2. CASE q # <<>>
  <2> DEFINE f == SubSeq(q, 1, Len(q) - 1)
  <2>1. /\ f \in Seq(Digit) /\ q[Len(q)] \in Digit
        /\ Len(q) \in Nat \ {0} /\ Len(f) = Len(q) - 1
        /\ \A i \in 1 .. Len(f) : f[i] = q[i]
        /\ q = Append(f, q[Len(q)])
    BY <1>2, FrontAndLast
  <2> HIDE DEF f
  <2>2. Number[q] = 10 * Number[f] + q[Len(q)]
    BY ZenonT(40), <2>1, NumberReads DEF Reads
  <2>3. Place(q, 0) = q[Len(q)]
    BY <2>1 DEF Place
  <2>4. ASSUME NEW j \in Nat PROVE Place(f, j) = Place(q, j + 1)
    <3>1. CASE j \in 0 .. Len(f) - 1
      <4>1. /\ Len(f) - j \in 1 .. Len(f) /\ Len(f) - j = Len(q) - (j + 1)
            /\ j + 1 \in 0 .. Len(q) - 1
        BY <2>1, <3>1
      <4>2. QED
        BY <2>1, <3>1, <4>1 DEF Place
    <3>2. CASE j \notin 0 .. Len(f) - 1
      BY <2>1, <3>2 DEF Place
    <3>3. QED
      BY <3>1, <3>2
  <2>5. \A k \in Nat : Len(q) <= k + 1 => Len(f) <= k
    BY <2>1
  <2>6. Number[q] = 10 * Number[f] + Place(q, 0)
    BY <2>2, <2>3
  <2>7. QED
    BY <2>1, <2>4, <2>5, <2>6
<1>3. QED
  BY <1>1, <1>2

LEMMA PlaceType ==
    ASSUME NEW q \in Seq(Digit), NEW j \in Int
    PROVE  Place(q, j) \in Digit
<1>1. j \in 0 .. Len(q) - 1 => Len(q) - j \in 1 .. Len(q)
  OBVIOUS
<1>2. QED
  BY <1>1, ElementOfSeq DEF Place, Digit

\* Rows that agree in every place are read alike.
LEMMA SamePlaces ==
    ASSUME NEW q \in Seq(Digit), NEW r \in Seq(Digit), \A j \in Nat : Place(q, j) = Place(r, j)
    PROVE  Number[q] = Number[r]
<1> DEFINE Differ(x, y) == (\A j \in Nat : Place(x, j) = Place(y, j)) /\ Number[x] # Number[y]
           T == {k \in Nat : \E x, y \in Seq(Digit) : Len(x) <= k /\ Len(y) <= k /\ Differ(x, y)}
<1>1. ASSUME T # {} PROVE FALSE
  <2>1. PICK m \in T : \A k \in T : m <= k
    <3>1. T \subseteq Nat
      OBVIOUS
    <3> HIDE DEF T
    <3>2. QED
      BY <1>1, <3>1, LeastNatural
  <2>2. PICK x, y \in Seq(Digit) : Len(x) <= m /\ Len(y) <= m /\ Differ(x, y)
    OBVIOUS
  <2>3. PICK f \in Seq(Digit) : /\ Number[x] = 10 * Number[f] + Place(x, 0)
                                /\ \A j \in Nat : Place(f, j) = Place(x, j + 1)
                                /\ \A k \in Nat : Len(x) <= k + 1 => Len(f) <= k
    BY LastPlace
  <2>4. PICK g \in Seq(Digit) : /\ Number[y] = 10 * Number[g] + Place(y, 0)
                                /\ \A j \in Nat : Place(g, j) = Place(y, j + 1)
                                /\ \A k \in Nat : Len(y) <= k + 1 => Len(g) <= k
    BY LastPlace
  <2>5. Place(x, 0) = Place(y, 0)
    BY <2>2
  <2>6. ASSUME NEW j \in Nat PROVE Place(f, j) = Place(g, j)
    <3>1. j + 1 \in Nat
      OBVIOUS
    <3>2. Place(x, j + 1) = Place(y, j + 1)
      BY <2>2, <3>1
    <3>3. QED
      BY <2>3, <2>4, <3>2
  <2>7. Number[f] # Number[g]
    BY <2>2, <2>3, <2>4, <2>5
  <2>8. m # 0
    <3>1. m = 0 => x = <<>> /\ y = <<>>
      BY <2>2, EmptySeq
    <3>2. QED
      BY <2>2, <3>1
  <2>9. m - 1 \in Nat /\ (m - 1) + 1 = m /\ m - 1 < m
    BY <2>8
  <2>10. Len(f) <= m - 1 /\ Len(g) <= m - 1
    BY <2>2, <2>3, <2>4, <2>9
  <2>11. m - 1 \in T
    <3>1. Differ(f, g)
      BY <2>6, <2>7
    <3> HIDE DEF Differ
    <3>2. QED
      BY <2>9, <2>10, <3>1
  <2>12. m \in Nat
    OBVIOUS
  <2>13. QED
    <3> HIDE DEF T
    <3> QED  BY <2>1, <2>9, <2>11, <2>12
<1>2. PICK k \in Nat : Len(q) <= k /\ Len(r) <= k
  <2>1. Len(q) \in Nat /\ Len(r) \in Nat
    OBVIOUS
  <2>2. Len(q) <= Len(q) + Len(r) /\ Len(r) <= Len(q) + Len(r) /\ Len(q) + Len(r) \in Nat
    BY <2>1
  <2>3. QED
    BY <2>2
<1>3. QED
  BY <1>1, <1>2

LEMMA TenTimesOrder ==
    ASSUME NEW m \in Nat, NEW n \in Nat, NEW d \in 0 .. 9, NEW e \in 0 .. 9
    PROVE  (m = n /\ d < e) \/ m < n => 10 * m + d < 10 * n + e
  OBVIOUS

\* The highest place in which two rows differ decides.
LEMMA HighestPlace ==
    ASSUME NEW q \in Seq(Digit), NEW r \in Seq(Digit), NEW j \in Nat,
           Place(q, j) < Place(r, j), \A i \in Nat : i > j => Place(q, i) = Place(r, i)
    PROVE  Number[q] < Number[r]
<1> DEFINE Wrong(x, y, i) == /\ Place(x, i) < Place(y, i)
                             /\ \A k \in Nat : k > i => Place(x, k) = Place(y, k)
                             /\ ~(Number[x] < Number[y])
           T == {i \in Nat : \E x, y \in Seq(Digit) : Wrong(x, y, i)}
<1>1. ASSUME T # {} PROVE FALSE
  <2>1. PICK m \in T : \A k \in T : m <= k
    <3>1. T \subseteq Nat
      OBVIOUS
    <3> HIDE DEF T
    <3>2. QED
      BY <1>1, <3>1, LeastNatural
  <2>2. PICK x, y \in Seq(Digit) : Wrong(x, y, m)
    OBVIOUS
  <2>3. PICK f \in Seq(Digit) : /\ Number[x] = 10 * Number[f] + Place(x, 0)
                                /\ \A k \in Nat : Place(f, k) = Place(x, k + 1)
    BY LastPlace
  <2>4. PICK g \in Seq(Digit) : /\ Number[y] = 10 * Number[g] + Place(y, 0)
                                /\ \A k \in Nat : Place(g, k) = Place(y, k + 1)
    BY LastPlace
  <2>5. /\ Number[f] \in Nat /\ Number[g] \in Nat
        /\ Place(x, 0) \in 0 .. 9 /\ Place(y, 0) \in 0 .. 9
    <3>1. Number[f] \in Nat /\ Number[g] \in Nat
      BY NumberReads DEF Reads
    <3>2. Place(x, 0) \in Digit /\ Place(y, 0) \in Digit
      BY PlaceType
    <3>3. QED
      BY <3>1, <3>2 DEF Digit
  <2>6. Number[x] = 10 * Number[f] + Place(x, 0) /\ Number[y] = 10 * Number[g] + Place(y, 0)
    BY <2>3, <2>4
  <2>7. CASE m = 0
    <3>1. ASSUME NEW k \in Nat PROVE Place(f, k) = Place(g, k)
      <4>1. k + 1 \in Nat /\ k + 1 > m
        BY <2>7
      <4>2. QED
        BY <2>2, <2>3, <2>4, <4>1
    <3>2. Number[f] = Number[g]
      BY <3>1, SamePlaces
    <3>3. Place(x, 0) < Place(y, 0) /\ ~(Number[x] < Number[y])
      BY <2>2, <2>7
    <3>4. QED
      <4>1. 10 * Number[f] + Place(x, 0) < 10 * Number[g] + Place(y, 0)
        BY <2>5, <3>2, <3>3, TenTimesOrder
      <4>2. QED
        BY <2>6, <3>3, <4>1
  <2>8. CASE m # 0
    <3>1. m - 1 \in Nat /\ (m - 1) + 1 = m
      BY <2>8
    <3>2. Place(f, m - 1) < Place(g, m - 1)
      BY <2>2, <2>3, <2>4, <3>1
    <3>3. ASSUME NEW k \in Nat, k > m - 1 PROVE Place(f, k) = Place(g, k)
      <4>1. k + 1 \in Nat /\ k + 1 > m
        BY <3>1, <3>3
      <4>2. QED
        BY <2>2, <2>3, <2>4, <4>1
    <3>4. Number[f] < Number[g]
      <4>1. m - 1 \notin T
        BY <2>1, <3>1
      <4>2. ~Wrong(f, g, m - 1)
        BY <3>1, <4>1
      <4>3. QED
        BY <3>2, <3>3, <4>2
    <3>5. ~(Number[x] < Number[y])
      BY <2>2
    <3>6. QED
      <4>1. 10 * Number[f] + Place(x, 0) < 10 * Number[g] + Place(y, 0)
        BY <2>5, <3>4, TenTimesOrder
      <4>2. QED
        BY <2>6, <3>5, <4>1
  <2>9. QED
    BY <2>7, <2>8
<1>2. QED
  BY <1>1

-----------------------------------------------------------------------------
(* The number of a spelling.                                               *)

\* The power of ten of its last digit; its digits down to a lower power; and
\* the integer it is, in units of that power.
Scale(s) == s.exp - s.fraction
Aligned(s, e) == s.head \o Zeros(Scale(s) - e)
ValueAt(s, e) == LET n == Number[Aligned(s, e)] IN IF s.negative THEN -n ELSE n

\* The digit at a power of ten: of a token, and of its decimal.
DigitAt(s, e) == Place(s.head, e - Scale(s))
Nth(c, i) == IF i \in 1 .. Len(c) THEN c[i] ELSE 0

LEMMA AlignedPlaces ==
    ASSUME NEW s \in Spellings, NEW e \in Int, e <= Scale(s)
    PROVE  /\ Aligned(s, e) \in Seq(Digit)
           /\ \A j \in Nat : Place(Aligned(s, e), j) = DigitAt(s, e + j)
<1> DEFINE h == s.head
           n == Scale(s) - e
           z == Zeros(n)
           q == h \o z
<1>1. h \in Seq(Digit) /\ Len(h) \in Nat /\ Scale(s) \in Int /\ n \in Nat
  <2>1. s.head \in Seq(Digit) /\ s.fraction \in Nat /\ s.exp \in Int
    BY SpellingFacts
  <2>2. Scale(s) \in Int
    BY <2>1 DEF Scale
  <2>3. QED
    BY <2>1, <2>2
<1> HIDE DEF h, n
<1>2. z \in Seq(Digit) /\ Len(z) = n /\ \A i \in 1 .. n : z[i] = 0
  BY SMTT(40), <1>1, ZerosAre
<1> HIDE DEF z
<1>3. /\ q \in Seq(Digit) /\ Len(q) = Len(h) + Len(z)
      /\ \A i \in 1 .. Len(h) + Len(z) : q[i] = IF i <= Len(h) THEN h[i] ELSE z[i - Len(h)]
  BY <1>1, <1>2, ConcatProperties
<1>4. Aligned(s, e) = q
  BY DEF Aligned, h, n, z
<1> HIDE DEF q
<1>5. ASSUME NEW j \in Nat PROVE Place(q, j) = Place(h, j - n)
  <2>1. CASE j < n
    <3>1. j - n \notin 0 .. Len(h) - 1
      BY <1>1, <2>1
    <3>2. j \in 0 .. Len(q) - 1 /\ Len(q) - j \in 1 .. Len(h) + Len(z) /\ ~(Len(q) - j <= Len(h))
          /\ (Len(q) - j) - Len(h) \in 1 .. n
      BY <1>1, <1>2, <1>3, <2>1
    <3>3. q[Len(q) - j] = 0
      BY <1>2, <1>3, <3>2
    <3>4. QED
      BY <3>1, <3>2, <3>3 DEF Place
  <2>2. CASE j >= n /\ j < Len(h) + n
    <3>1. j - n \in 0 .. Len(h) - 1 /\ j \in 0 .. Len(q) - 1 /\ Len(q) - j = Len(h) - (j - n)
      BY <1>1, <1>2, <1>3, <2>2
    <3>2. Len(q) - j \in 1 .. Len(h) + Len(z) /\ Len(q) - j <= Len(h)
      BY <1>1, <1>2, <1>3, <2>2
    <3>3. QED
      BY <1>3, <3>1, <3>2 DEF Place
  <2>3. CASE j >= Len(h) + n
    <3>1. j - n \notin 0 .. Len(h) - 1 /\ j \notin 0 .. Len(q) - 1
      BY <1>1, <1>2, <1>3, <2>3
    <3>2. QED
      BY <3>1 DEF Place
  <2>4. QED
    BY <1>1, <2>1, <2>2, <2>3
<1>6. ASSUME NEW j \in Nat PROVE j - n = (e + j) - Scale(s)
  BY <1>1 DEF n
<1>7. QED
  BY <1>3, <1>4, <1>5, <1>6 DEF DigitAt, h

\* The decimal has the digits of the token, each at its power of ten.
LEMMA DigitsOfDecimal ==
    ASSUME NEW s \in Spellings, NEW e \in Int
    PROVE  /\ Zero(s) => DigitAt(s, e) = 0
           /\ ~Zero(s) => DigitAt(s, e) = Nth(parts(s).coefficient, parts(s).adjusted - e + 1)
<1> DEFINE q == s.head
           h == TrimLeft(q)
<1>0. q \in Seq(Digit) /\ Len(q) \in Nat /\ s.fraction \in Nat /\ s.exp \in Int
  BY SpellingFacts
<1>1. PICK k \in 0 .. Len(q) : (\A i \in 1 .. k : q[i] = 0) /\ (k < Len(q) => q[k + 1] # 0)
  BY <1>0, Leading
<1> HIDE DEF q
<1>2. h = SubSeq(q, k + 1, Len(q))
  BY <1>0, <1>1, TrimLeftIs
<1>3. /\ h \in Seq(Digit) /\ Len(h) = Len(q) - k
      /\ \A i \in 1 .. Len(q) - k : h[i] = q[k + i]
  BY <1>0, <1>2, Slice
<1>4. CASE h = <<>>
  <2>1. k = Len(q)
    BY <1>0, <1>3, <1>4, EmptySeq
  <2>2. Zero(s)
    BY <1>4 DEF Zero, parts, q
  <2>3. DigitAt(s, e) = 0
    <3> DEFINE j == e - Scale(s)
    <3>1. j \in 0 .. Len(q) - 1 => Len(q) - j \in 1 .. k
      BY <1>0, <2>1 DEF Scale
    <3>2. Place(q, j) = 0
      BY <1>1, <3>1 DEF Place
    <3>3. QED
      BY <3>2 DEF DigitAt, q
  <2>4. QED
    BY <2>2, <2>3
<1>5. CASE h # <<>>
  <2> DEFINE c == TrimRight(h)
             adjusted == s.exp + Len(h) - s.fraction - 1
             i == adjusted - e + 1
             j == e - Scale(s)
  <2>1. parts(s) = [negative |-> s.negative, coefficient |-> c, adjusted |-> adjusted]
    BY <1>5 DEF parts, q
  <2> HIDE DEF h
  <2>2. PICK n \in 0 .. Len(h) : (n > 0 => h[n] # 0) /\ \A l \in n + 1 .. Len(h) : h[l] = 0
    BY <1>3, Trailing
  <2>3. Len(c) = n /\ \A l \in 1 .. n : c[l] = h[l]
    BY <1>3, <2>2, TrimRightIs
  <2> HIDE DEF c
  <2>4. i \in Int /\ j \in Int /\ Len(q) - j = k + i /\ Len(h) = Len(q) - k /\ n \in 0 .. Len(q) - k /\ k \in Nat
    <3>1. k \in Nat /\ Len(h) \in Nat /\ Len(h) = Len(q) - k /\ n \in 0 .. Len(q) - k
      BY <1>0, <1>1, <1>3, <2>2
    <3>2. \A exp, l \in Int : \A fraction \in Nat :
            /\ (exp + l - fraction - 1) - e + 1 \in Int /\ e - (exp - fraction) \in Int
            /\ (l + k) - (e - (exp - fraction)) = k + ((exp + l - fraction - 1) - e + 1)
      BY <3>1
    <3>3. Len(h) \in Int /\ Len(q) = Len(h) + k
      BY <1>0, <3>1
    <3>4. /\ (s.exp + Len(h) - s.fraction - 1) - e + 1 \in Int /\ e - (s.exp - s.fraction) \in Int
          /\ (Len(h) + k) - (e - (s.exp - s.fraction)) = k + ((s.exp + Len(h) - s.fraction - 1) - e + 1)
      BY <1>0, <3>2, <3>3
    <3>5. i \in Int /\ j \in Int /\ Len(q) - j = k + i
      BY <3>3, <3>4 DEF Scale
    <3>6. QED
      BY <3>1, <3>5
  <2> HIDE DEF i, j
  <2>5. Place(q, j) = Nth(c, i)
    <3>1. CASE i < 1
      <4>1. j \in 0 .. Len(q) - 1 => Len(q) - j \in 1 .. k
        BY <1>0, <2>4, <3>1
      <4>2. i \notin 1 .. Len(c)
        BY <2>3, <2>4, <3>1
      <4>3. QED
        BY <1>1, <4>1, <4>2 DEF Place, Nth
    <3>2. CASE i \in 1 .. n
      <4>1. j \in 0 .. Len(q) - 1 /\ i \in 1 .. Len(q) - k
        BY <1>0, <2>4, <3>2
      <4>2. QED
        BY <1>3, <2>3, <2>4, <3>2, <4>1 DEF Place, Nth
    <3>3. CASE i > n /\ i <= Len(h)
      <4>1. j \in 0 .. Len(q) - 1 /\ i \in 1 .. Len(q) - k /\ i \in n + 1 .. Len(h) /\ i \notin 1 .. Len(c)
        BY <1>0, <2>3, <2>4, <3>3
      <4>2. q[k + i] = 0
        BY <1>3, <2>2, <4>1
      <4>3. QED
        BY <2>4, <4>1, <4>2 DEF Place, Nth
    <3>4. CASE i > Len(h)
      <4>1. j \notin 0 .. Len(q) - 1 /\ i \notin 1 .. Len(c)
        BY <1>0, <2>3, <2>4, <3>4
      <4>2. QED
        BY <4>1 DEF Place, Nth
    <3>5. QED
      BY <2>4, <3>1, <3>2, <3>3, <3>4
  <2>6. DigitAt(s, e) = Nth(c, parts(s).adjusted - e + 1)
    BY <2>1, <2>5 DEF DigitAt, q, i, j
  <2>7. ~Zero(s)
    <3>1. h[1] # 0
      BY <1>0, TrimmedHead, <1>5 DEF h
    <3>2. Canonical(c)
      BY <1>3, <1>5, <3>1, TrimmedTail DEF c
    <3>3. c # <<0>>
      BY <3>2 DEF Canonical
    <3>4. QED
      BY <2>1, <3>3 DEF Zero
  <2>8. QED
    BY <2>1, <2>6, <2>7
<1>6. QED
  BY <1>4, <1>5

-----------------------------------------------------------------------------
(* Comparison.                                                             *)

\* The first digit in which two coefficients differ decides.
LEMMA FirstDifference ==
    ASSUME NEW c \in Seq(Digit), NEW d \in Seq(Digit)
    PROVE  \/ CompareDigits(c, d) = 0 /\ \A i \in Int : Nth(c, i) = Nth(d, i)
           \/ \E i \in Nat \ {0} :
                /\ Nth(c, i) # Nth(d, i)
                /\ \A k \in Int : k < i => Nth(c, k) = Nth(d, k)
                /\ CompareDigits(c, d) = IF Nth(c, i) < Nth(d, i) THEN -1 ELSE 1
<1> DEFINE m == Max({Len(c), Len(d)})
           differ == {i \in 1 .. m : Nth(c, i) # Nth(d, i)}
<1>1. Len(c) \in Nat /\ Len(d) \in Nat /\ m \in Nat /\ Len(c) <= m /\ Len(d) <= m
  <2> DEFINE n == IF Len(c) > Len(d) THEN Len(c) ELSE Len(d)
  <2>1. Len(c) \in Nat /\ Len(d) \in Nat
    OBVIOUS
  <2>2. n \in {Len(c), Len(d)} /\ \A y \in {Len(c), Len(d)} : n >= y
    BY <2>1
  <2>3. \A x \in {Len(c), Len(d)} : (\A y \in {Len(c), Len(d)} : x >= y) => x = n
    BY <2>1
  <2>4. m = n
    BY <2>2, <2>3 DEF Max
  <2>5. QED
    BY <2>1, <2>4
<1> HIDE DEF m
<1>2. CompareDigits(c, d) = IF differ = {} THEN 0
                            ELSE IF Nth(c, Min(differ)) < Nth(d, Min(differ)) THEN -1 ELSE 1
  <2> DEFINE At(q, i) == IF i <= Len(q) THEN q[i] ELSE 0
             D == {i \in 1 .. m : At(c, i) # At(d, i)}
  <2>1. \A i \in 1 .. m : At(c, i) = Nth(c, i) /\ At(d, i) = Nth(d, i)
    BY <1>1 DEF Nth
  <2>2. CompareDigits(c, d) = IF D = {} THEN 0 ELSE IF At(c, Min(D)) < At(d, Min(D)) THEN -1 ELSE 1
    BY DEF CompareDigits, m
  <2> HIDE DEF At
  <2>3. D = differ
    BY <2>1
  <2>4. differ # {} => Min(differ) \in 1 .. m
    <3>1. ASSUME differ # {} PROVE Min(differ) \in differ
      <4>1. \E x \in differ : \A y \in differ : x <= y
        <5>1. differ \subseteq Nat
          OBVIOUS
        <5> HIDE DEF differ
        <5>2. QED
          BY <3>1, <5>1, LeastNatural
      <4>2. QED
        BY <4>1 DEF Min
    <3>2. QED
      BY <3>1
  <2>5. QED
    BY <2>1, <2>2, <2>3, <2>4
<1>3. \A i \in Int : i \notin 1 .. m => Nth(c, i) = 0 /\ Nth(d, i) = 0
  BY <1>1 DEF Nth
<1>4. CASE differ = {}
  BY <1>2, <1>3, <1>4
<1>5. CASE differ # {}
  <2>1. differ \subseteq Nat
    BY <1>1
  <2>2. \E x \in differ : \A y \in differ : x <= y
    <3> HIDE DEF differ
    <3> QED  BY <1>5, <2>1, LeastNatural
  <2>3. Min(differ) \in differ /\ \A y \in differ : Min(differ) <= y
    BY <2>2 DEF Min
  <2> DEFINE i == Min(differ)
  <2>4. i \in Nat \ {0} /\ i \in 1 .. m /\ Nth(c, i) # Nth(d, i)
    BY <1>1, <2>3
  <2>5. ASSUME NEW k \in Int, k < i PROVE Nth(c, k) = Nth(d, k)
    <3>1. k \notin differ
      BY <2>3, <2>4, <2>5
    <3>2. QED
      BY <1>3, <3>1
  <2>6. CompareDigits(c, d) = IF Nth(c, i) < Nth(d, i) THEN -1 ELSE 1
    BY <1>2, <1>5
  <2> HIDE DEF i
  <2>7. QED
    BY <2>4, <2>5, <2>6
<1>6. QED
  BY <1>4, <1>5

\* Two numbers without their signs, by the highest power in which they differ.
LEMMA ByHighestDigit ==
    ASSUME NEW a \in Spellings, NEW b \in Spellings,
           NEW e \in Int, e <= Scale(a), e <= Scale(b)
    PROVE  /\ (\A p \in Int : DigitAt(a, p) = DigitAt(b, p))
                => Number[Aligned(a, e)] = Number[Aligned(b, e)]
           /\ \A p \in Int : /\ DigitAt(a, p) < DigitAt(b, p)
                             /\ \A k \in Int : k > p => DigitAt(a, k) = DigitAt(b, k)
                             => Number[Aligned(a, e)] < Number[Aligned(b, e)]
<1> DEFINE q == Aligned(a, e)
           r == Aligned(b, e)
<1>1. q \in Seq(Digit) /\ \A j \in Nat : Place(q, j) = DigitAt(a, e + j)
  BY AlignedPlaces
<1>2. r \in Seq(Digit) /\ \A j \in Nat : Place(r, j) = DigitAt(b, e + j)
  BY AlignedPlaces
<1> HIDE DEF q, r
<1>3. \A j \in Nat : e + j \in Int
  OBVIOUS
<1>4. (\A p \in Int : DigitAt(a, p) = DigitAt(b, p)) => Number[q] = Number[r]
  BY <1>1, <1>2, <1>3, SamePlaces
<1>5. ASSUME NEW p \in Int, DigitAt(a, p) < DigitAt(b, p),
             \A k \in Int : k > p => DigitAt(a, k) = DigitAt(b, k)
      PROVE  Number[q] < Number[r]
  <2>1. p >= e
    <3>1. Scale(a) \in Int /\ Scale(b) \in Int
      BY SpellingFacts DEF Scale
    <3>2. p < e => p - Scale(a) < 0 /\ p - Scale(b) < 0
      BY <3>1
    <3>3. p < e => DigitAt(a, p) = 0 /\ DigitAt(b, p) = 0
      BY <3>1, <3>2 DEF DigitAt, Place
    <3>4. QED
      BY <1>5, <3>3
  <2> DEFINE j == p - e
  <2>2. j \in Nat /\ e + j = p
    BY <2>1
  <2>3. ASSUME NEW i \in Nat, i > j PROVE Place(q, i) = Place(r, i)
    <3>1. e + i \in Int /\ e + i > p
      BY <2>2, <2>3
    <3>2. QED
      BY <1>1, <1>2, <1>5, <3>1
  <2>4. Place(q, j) < Place(r, j)
    BY <1>1, <1>2, <1>5, <2>2
  <2> HIDE DEF j
  <2>5. QED
    BY <1>1, <1>2, <2>2, <2>3, <2>4, HighestPlace
<1>6. QED
  BY <1>4, <1>5 DEF q, r

\* The digits of a decimal around its first: nothing is above it.
LEMMA LeadingDigit ==
    ASSUME NEW s \in Spellings, ~Zero(s)
    PROVE  LET top == parts(s).adjusted IN
           /\ top \in Int /\ DigitAt(s, top) \in 1 .. 9
           /\ \A p \in Int : p > top => DigitAt(s, p) = 0
<1> DEFINE c == parts(s).coefficient
           top == parts(s).adjusted
<1>1. top \in Int /\ Canonical(c)
  BY PartsFacts
<1>2. Len(c) \in Nat \ {0} /\ c[1] \in Digit /\ c[1] # 0
  <2>1. Len(c) \in Nat \ {0} /\ 1 \in 1 .. Len(c)
    BY <1>1, EmptySeq DEF Canonical
  <2>2. QED
    BY <1>1, <2>1, ElementOfSeq DEF Canonical
<1>3. \A p \in Int : DigitAt(s, p) = Nth(c, top - p + 1)
  BY DigitsOfDecimal
<1> HIDE DEF c, top
<1>4. DigitAt(s, top) \in 1 .. 9
  <2>1. top - top + 1 = 1
    BY <1>1
  <2>2. DigitAt(s, top) = c[1]
    BY <1>1, <1>2, <1>3, <2>1 DEF Nth
  <2>3. QED
    BY <1>2, <2>2 DEF Digit
<1>5. ASSUME NEW p \in Int, p > top PROVE DigitAt(s, p) = 0
  <2>1. top - p + 1 \notin 1 .. Len(c)
    BY <1>1, <1>5
  <2>2. QED
    BY <1>3, <2>1 DEF Nth
<1>6. QED
  BY <1>1, <1>4, <1>5 DEF top

LEMMA ZeroOrMore ==
    ASSUME NEW s \in Spellings, NEW e \in Int, e <= Scale(s)
    PROVE  LET n == Number[Aligned(s, e)] IN
           n \in Nat /\ (Zero(s) => n = 0) /\ (~Zero(s) => n > 0)
<1> DEFINE q == Aligned(s, e)
<1>1. q \in Seq(Digit) /\ \A j \in Nat : Place(q, j) = DigitAt(s, e + j)
  BY AlignedPlaces
<1>2. Number[q] \in Nat /\ Number[<<>>] = 0
  BY <1>1, NumberReads DEF Reads
<1> HIDE DEF q
<1> DEFINE f == <<>>
<1>3. f \in Seq(Digit) /\ \A j \in Nat : Place(f, j) = 0
  <2>1. Len(f) = 0 /\ f \in Seq(Digit)
    BY EmptySeq
  <2> HIDE DEF f
  <2>2. QED
    BY <2>1 DEF Place
<1>4. Number[f] = 0
  BY <1>2
<1> HIDE DEF f
<1>5. ASSUME Zero(s) PROVE Number[q] = 0
  <2>1. ASSUME NEW j \in Nat PROVE Place(q, j) = Place(f, j)
    <3>1. e + j \in Int
      OBVIOUS
    <3>2. QED
      BY <1>1, <1>3, <1>5, <3>1, DigitsOfDecimal
  <2>2. QED
    BY <1>1, <1>3, <1>4, <2>1, SamePlaces
<1>6. ASSUME ~Zero(s) PROVE Number[q] > 0
  <2> DEFINE top == parts(s).adjusted
  <2>1. top \in Int /\ DigitAt(s, top) \in 1 .. 9 /\ \A p \in Int : p > top => DigitAt(s, p) = 0
    BY <1>6, LeadingDigit
  <2> HIDE DEF top
  <2>2. top >= e
    <3>1. Scale(s) \in Int
      BY SpellingFacts DEF Scale
    <3>2. top < e => DigitAt(s, top) = 0
      BY <2>1, <3>1 DEF DigitAt, Place
    <3>3. QED
      BY <2>1, <3>2
  <2> DEFINE j == top - e
  <2>3. j \in Nat /\ e + j = top
    BY <2>1, <2>2
  <2>4. Place(f, j) < Place(q, j)
    <3>1. Place(q, j) = DigitAt(s, top) /\ Place(f, j) = 0
      BY <1>1, <1>3, <2>3
    <3> HIDE DEF j
    <3>2. QED
      BY <2>1, <3>1
  <2>5. ASSUME NEW i \in Nat, i > j PROVE Place(f, i) = Place(q, i)
    <3>1. e + i \in Int /\ e + i > top
      BY <2>1, <2>3, <2>5
    <3>2. QED
      BY <1>1, <1>3, <2>1, <3>1
  <2> HIDE DEF j
  <2>6. Number[f] < Number[q]
    BY <1>1, <1>3, <2>3, <2>4, <2>5, HighestPlace
  <2>7. QED
    BY <1>2, <1>4, <2>6
<1>7. QED
  BY <1>2, <1>5, <1>6 DEF q

Sign(n) == IF n < 0 THEN -1 ELSE IF n = 0 THEN 0 ELSE 1

\* Without their signs: the higher first digit, or else the digits in order.
LEMMA HigherAdjusted ==
    ASSUME NEW a \in Spellings, NEW b \in Spellings, ~Zero(a), ~Zero(b),
           NEW e \in Int, e <= Scale(a), e <= Scale(b),
           parts(a).adjusted < parts(b).adjusted
    PROVE  Number[Aligned(a, e)] < Number[Aligned(b, e)]
<1> DEFINE top == parts(b).adjusted
<1>1. top \in Int /\ DigitAt(b, top) \in 1 .. 9 /\ \A p \in Int : p > top => DigitAt(b, p) = 0
  BY LeadingDigit
<1>2. \A p \in Int : p >= top => DigitAt(a, p) = 0
  <2>1. parts(a).adjusted \in Int /\ \A p \in Int : p > parts(a).adjusted => DigitAt(a, p) = 0
    BY LeadingDigit
  <2>2. QED
    BY <1>1, <2>1
<1> HIDE DEF top
<1>3. DigitAt(a, top) < DigitAt(b, top) /\ \A k \in Int : k > top => DigitAt(a, k) = DigitAt(b, k)
  BY <1>1, <1>2
<1>4. QED
  BY <1>1, <1>3, ByHighestDigit

LEMMA SameAdjusted ==
    ASSUME NEW a \in Spellings, NEW b \in Spellings, ~Zero(a), ~Zero(b),
           NEW e \in Int, e <= Scale(a), e <= Scale(b),
           parts(a).adjusted = parts(b).adjusted
    PROVE  CompareDigits(parts(a).coefficient, parts(b).coefficient)
             = Sign(Number[Aligned(a, e)] - Number[Aligned(b, e)])
<1> DEFINE c == parts(a).coefficient
           d == parts(b).coefficient
           top == parts(a).adjusted
           m == Number[Aligned(a, e)]
           n == Number[Aligned(b, e)]
<1>1. c \in Seq(Digit) /\ d \in Seq(Digit) /\ top \in Int
  BY PartsFacts DEF Canonical
<1>2. \A p \in Int : DigitAt(a, p) = Nth(c, top - p + 1) /\ DigitAt(b, p) = Nth(d, top - p + 1)
  BY DigitsOfDecimal
<1>3. m \in Nat /\ n \in Nat
  BY ZeroOrMore
<1>4. /\ (\A p \in Int : DigitAt(a, p) = DigitAt(b, p)) => m = n
      /\ \A p \in Int : /\ DigitAt(a, p) < DigitAt(b, p)
                        /\ \A k \in Int : k > p => DigitAt(a, k) = DigitAt(b, k)
                        => m < n
      /\ \A p \in Int : /\ DigitAt(b, p) < DigitAt(a, p)
                        /\ \A k \in Int : k > p => DigitAt(b, k) = DigitAt(a, k)
                        => n < m
  BY ByHighestDigit
<1> HIDE DEF c, d, top, m, n
<1>5. CASE CompareDigits(c, d) = 0 /\ \A i \in Int : Nth(c, i) = Nth(d, i)
  <2>1. \A p \in Int : top - p + 1 \in Int
    BY <1>1
  <2>2. m = n
    BY <1>2, <1>4, <1>5, <2>1
  <2>3. QED
    BY <1>3, <1>5, <2>2 DEF Sign, c, d, m, n
<1>6. ASSUME NEW i \in Nat \ {0}, Nth(c, i) # Nth(d, i),
             \A k \in Int : k < i => Nth(c, k) = Nth(d, k),
             CompareDigits(c, d) = IF Nth(c, i) < Nth(d, i) THEN -1 ELSE 1
      PROVE  CompareDigits(c, d) = Sign(m - n)
  <2> DEFINE p == top - i + 1
  <2>1. p \in Int /\ top - p + 1 = i
    BY <1>1
  <2>2. DigitAt(a, p) = Nth(c, i) /\ DigitAt(b, p) = Nth(d, i)
    BY <1>2, <2>1
  <2>3. ASSUME NEW k \in Int, k > p PROVE DigitAt(a, k) = DigitAt(b, k)
    <3>1. top - k + 1 \in Int /\ top - k + 1 < i
      BY <1>1, <2>3
    <3>2. QED
      BY <1>2, <1>6, <3>1
  <2>4. Nth(c, i) \in Nat /\ Nth(d, i) \in Nat
    <3>1. \A q \in Seq(Digit) : Nth(q, i) \in Digit
      BY ElementOfSeq DEF Nth, Digit
    <3>2. QED
      BY SMTT(40), <1>1, <3>1 DEF Digit
  <2> HIDE DEF p
  <2>5. CASE Nth(c, i) < Nth(d, i)
    <3>1. m < n
      BY <1>4, <2>1, <2>2, <2>3, <2>5
    <3>2. QED
      BY <1>3, <1>6, <2>5, <3>1 DEF Sign
  <2>6. CASE Nth(d, i) < Nth(c, i)
    <3>1. n < m
      BY <1>4, <2>1, <2>2, <2>3, <2>6
    <3>2. QED
      BY <1>3, <1>6, <2>4, <2>6, <3>1 DEF Sign
  <2>7. QED
    BY <1>6, <2>4, <2>5, <2>6
<1>7. QED
  BY <1>1, <1>5, <1>6, FirstDifference DEF c, d, m, n

\* CompareText (value.go) decides which of two numbers is larger without
\* forming either: however they are spelled, it answers with the sign of their
\* difference, taken as integers in units of any power of ten that both are
\* multiples of.
THEOREM ComparesNumbers ==
    ASSUME NEW a \in Spellings, NEW b \in Spellings,
           NEW e \in Int, e <= Scale(a), e <= Scale(b)
    PROVE  CompareText(a, b) = Sign(ValueAt(a, e) - ValueAt(b, e))
<1> DEFINE x == parts(a)
           y == parts(b)
           m == Number[Aligned(a, e)]
           n == Number[Aligned(b, e)]
           order == CASE Zero(a) -> -1
                      [] ~Zero(a) /\ Zero(b) -> 1
                      [] ~Zero(a) /\ ~Zero(b) /\ x.adjusted # y.adjusted -> IF x.adjusted < y.adjusted THEN -1 ELSE 1
                      [] OTHER -> CompareDigits(x.coefficient, y.coefficient)
<1>1. CompareText(a, b) = CASE Zero(a) /\ Zero(b) -> 0
                            [] ~(Zero(a) /\ Zero(b)) /\ x.negative # y.negative -> IF x.negative THEN -1 ELSE 1
                            [] OTHER -> IF x.negative THEN -order ELSE order
  BY DEF CompareText
<1>2. /\ m \in Nat /\ (Zero(a) => m = 0) /\ (~Zero(a) => m > 0)
      /\ n \in Nat /\ (Zero(b) => n = 0) /\ (~Zero(b) => n > 0)
  BY ZeroOrMore
<1>3. /\ a.negative \in BOOLEAN /\ b.negative \in BOOLEAN
      /\ x.negative \in BOOLEAN /\ y.negative \in BOOLEAN
      /\ Zero(a) => ~x.negative
      /\ Zero(b) => ~y.negative
      /\ ~Zero(a) => x.negative = a.negative
      /\ ~Zero(b) => y.negative = b.negative
  BY SpellingFacts, PartsFacts DEF Nought, parts, Zero
<1>4. ValueAt(a, e) = (IF a.negative THEN -m ELSE m) /\ ValueAt(b, e) = (IF b.negative THEN -n ELSE n)
  BY DEF ValueAt
<1>5. ~(Zero(a) /\ Zero(b)) => order = Sign(m - n)
  <2>1. CASE Zero(a) /\ ~Zero(b)
    BY <1>2, <2>1 DEF Sign
  <2>2. CASE ~Zero(a) /\ Zero(b)
    BY <1>2, <2>2 DEF Sign
  <2>3. CASE ~Zero(a) /\ ~Zero(b) /\ x.adjusted # y.adjusted
    <3>1. x.adjusted \in Int /\ y.adjusted \in Int
      BY <2>3, PartsFacts
    <3>2. CASE x.adjusted < y.adjusted
      <4>1. m < n
        BY <2>3, <3>2, HigherAdjusted
      <4>2. order = -1
        BY <2>3, <3>2
      <4>3. QED
        BY <1>2, <4>1, <4>2 DEF Sign
    <3>3. CASE y.adjusted < x.adjusted
      <4>1. n < m
        BY <2>3, <3>3, HigherAdjusted
      <4>2. order = 1
        BY <2>3, <3>1, <3>3
      <4>3. QED
        BY <1>2, <4>1, <4>2 DEF Sign
    <3>4. QED
      BY <2>3, <3>1, <3>2, <3>3
  <2>4. CASE ~Zero(a) /\ ~Zero(b) /\ x.adjusted = y.adjusted
    <3>1. order = CompareDigits(x.coefficient, y.coefficient)
      BY <2>4
    <3>2. QED
      BY <2>4, <3>1, SameAdjusted
  <2>5. QED
    BY <2>1, <2>2, <2>3, <2>4
<1> HIDE DEF order, m, n
<1>6. CASE Zero(a) /\ Zero(b)
  BY <1>1, <1>2, <1>4, <1>6 DEF Sign
<1>7. CASE ~(Zero(a) /\ Zero(b)) /\ x.negative # y.negative
  <2>1. CASE x.negative
    <3>1. CompareText(a, b) = -1 /\ ValueAt(a, e) = -m /\ m > 0
      BY <1>1, <1>2, <1>3, <1>4, <1>7, <2>1
    <3>2. ValueAt(b, e) = n
      <4>1. Zero(b) \/ ~b.negative
        BY <1>3, <1>7, <2>1
      <4>2. QED
        BY <1>2, <1>4, <4>1
    <3>3. QED
      BY <1>2, <3>1, <3>2 DEF Sign
  <2>2. CASE ~x.negative
    <3>1. CompareText(a, b) = 1 /\ ValueAt(b, e) = -n /\ n > 0
      <4>1. y.negative /\ ~Zero(b) /\ b.negative
        BY <1>3, <1>7, <2>2
      <4>2. QED
        BY <1>1, <1>2, <1>4, <1>7, <2>2, <4>1
    <3>2. ValueAt(a, e) = m
      BY <1>2, <1>3, <1>4, <1>7, <2>2
    <3>3. QED
      BY <1>2, <3>1, <3>2 DEF Sign
  <2>3. QED
    BY <2>1, <2>2
<1>8. CASE ~(Zero(a) /\ Zero(b)) /\ x.negative = y.negative
  BY <1>1, <1>2, <1>3, <1>4, <1>5, <1>8 DEF Sign
<1>9. QED
  BY <1>6, <1>7, <1>8

\* What Sort and the comparison operators need of CompareText: it is a total
\* order of the numbers, whichever way each is spelled, and the formatted
\* spelling is in the place of the one it is made from.
THEOREM ComparisonIsAnOrder ==
    ASSUME NEW a \in Spellings, NEW b \in Spellings, NEW c \in Spellings
    PROVE  /\ CompareText(a, b) \in {-1, 0, 1}
           /\ CompareText(b, a) = -CompareText(a, b)
           /\ CompareText(a, b) <= 0 /\ CompareText(b, c) <= 0 => CompareText(a, c) <= 0
           /\ CompareText(a, b) = 0 => CompareText(a, c) = CompareText(b, c)
           /\ CompareText(a, Format(a)) = 0
<1>1. Scale(a) \in Int /\ Scale(b) \in Int /\ Scale(c) \in Int
  BY SpellingFacts DEF Scale
<1>2. PICK e \in Int : e <= Scale(a) /\ e <= Scale(b) /\ e <= Scale(c)
  <2>1. \E e \in {Scale(a), Scale(b), Scale(c)} : e <= Scale(a) /\ e <= Scale(b) /\ e <= Scale(c)
    BY <1>1
  <2>2. QED
    BY <1>1, <2>1
<1> DEFINE u == ValueAt(a, e)
           v == ValueAt(b, e)
           w == ValueAt(c, e)
<1>3. u \in Int /\ v \in Int /\ w \in Int
  <2>1. Number[Aligned(a, e)] \in Nat /\ Number[Aligned(b, e)] \in Nat /\ Number[Aligned(c, e)] \in Nat
    BY <1>2, ZeroOrMore
  <2>2. QED
    BY <2>1 DEF ValueAt
<1>4. /\ CompareText(a, b) = Sign(u - v) /\ CompareText(b, a) = Sign(v - u)
      /\ CompareText(b, c) = Sign(v - w) /\ CompareText(a, c) = Sign(u - w)
      /\ CompareText(a, a) = Sign(u - u)
  BY <1>2, ComparesNumbers
<1>5. CompareText(a, Format(a)) = CompareText(a, a)
  BY FormatKeepsTheDecimal DEF CompareText, Zero
<1> HIDE DEF u, v, w
<1>6. QED
  BY <1>3, <1>4, <1>5 DEF Sign

-----------------------------------------------------------------------------
(* The number of a row of digits, as it is read.                           *)

LEMMA NumberOfIs ==
    ASSUME NEW q \in Seq(0 .. 9)
    PROVE  NumberOf(q) = Along(TenTimes, 0, q)
<1> DEFINE D == DOMAIN q
           IsIt(it) == it = [s \in SUBSET D |->
                               IF s = {} THEN 0 ELSE LET x == Max(s) IN 10 * it[s \ {x}] + q[x]]
           iter == CHOOSE it : IsIt(it)
<1>1. /\ D = 1 .. Len(q) /\ Len(q) \in Nat
      /\ \A i \in 1 .. Len(q) : q[i] \in 0 .. 9
  <2> DEFINE X == 0 .. 9
  <2>1. q \in Seq(X)
    OBVIOUS
  <2> HIDE DEF X
  <2>2. \A i \in 1 .. Len(q) : q[i] \in X
    BY <2>1, ElementOfSeq
  <2>3. D = 1 .. Len(q) /\ Len(q) \in Nat
    BY <2>1
  <2> QED  BY <2>2, <2>3 DEF X
<1>2. NumberOf(q) = iter[D]
  BY DEF NumberOf, FoldLeft, MapThenFoldSet
<1>3. PICK h \in [SUBSET (1 .. Len(q)) -> Nat] : Folds(TenTimes, 0, q, Len(q), h)
  <2> DEFINE V == Nat
  <2>1. TenTimes \in Steps(V, 0 .. 9) /\ 0 \in V
    BY TenTimesType
  <2> HIDE DEF V
  <2>2. \E h \in [SUBSET (1 .. Len(q)) -> V] : Folds(TenTimes, 0, q, Len(q), h)
    BY <2>1, FoldExists
  <2> QED  BY <2>2 DEF V
<1>4. IsIt(h)
  <2>1. ASSUME NEW s \in SUBSET D
        PROVE  h[s] = IF s = {} THEN 0 ELSE LET x == Max(s) IN 10 * h[s \ {x}] + q[x]
    <3>1. CASE s # {}
      <4>1. Max(s) \in s
        BY <1>1, <3>1, GreatestIndex
      <4>2. q[Max(s)] \in 0 .. 9 /\ h[s \ {Max(s)}] \in Nat
        BY <1>1, <1>3, <4>1
      <4>3. h[s] = TenTimes[<<h[s \ {Max(s)}], q[Max(s)]>>]
        BY <1>1, <1>3, <3>1 DEF Folds
      <4>4. TenTimes[<<h[s \ {Max(s)}], q[Max(s)]>>] = 10 * h[s \ {Max(s)}] + q[Max(s)]
        BY <4>2, TenTimesType
      <4> QED  BY <3>1, <4>3, <4>4
    <3>2. CASE s = {}
      BY <1>1, <1>3, <3>2 DEF Folds
    <3> QED  BY <3>1, <3>2
  <2> QED  BY <1>1, <1>3, <2>1
<1>5. IsIt(iter)
  <2> HIDE DEF IsIt
  <2> QED  BY <1>4
<1> HIDE DEF iter
<1>6. iter[{}] = 0
  BY <1>5
<1>7. ASSUME NEW k \in 1 .. Len(q), iter[1 .. k - 1] \in Nat
      PROVE  iter[1 .. k] = TenTimes[<<iter[1 .. k - 1], q[k]>>]
  <2>1. 1 .. k \in SUBSET D /\ 1 .. k # {}
    <3>1. k \in 1 .. k /\ \A j \in 1 .. k : j \in 1 .. Len(q)
      BY <1>1
    <3>2. D = 1 .. Len(q)
      BY <1>1
    <3> HIDE DEF D
    <3> QED  BY <3>1, <3>2
  <2>2. PICK s \in SUBSET D : s = 1 .. k
    BY <2>1
  <2>3. iter[s] = 10 * iter[s \ {Max(s)}] + q[Max(s)]
    BY <1>5, <2>1, <2>2
  <2>4. Max(s) = k /\ s \ {k} = 1 .. k - 1
    BY <1>1, <2>2, GreatestOfInterval
  <2>5. iter[1 .. k] = 10 * iter[1 .. k - 1] + q[k]
    BY <2>2, <2>3, <2>4
  <2>6. q[k] \in 0 .. 9
    BY <1>1
  <2> QED  BY <1>7, <2>5, <2>6, TenTimesType
<1>8. iter[1 .. Len(q)] = Along(TenTimes, 0, q)
  <2> DEFINE V == Nat
  <2>1. TenTimes \in Steps(V, 0 .. 9) /\ 0 \in V
    BY TenTimesType
  <2>2. \A k \in 1 .. Len(q) : iter[1 .. k - 1] \in V => iter[1 .. k] = TenTimes[<<iter[1 .. k - 1], q[k]>>]
    BY <1>7
  <2> HIDE DEF V
  <2> QED  BY <1>6, <2>1, <2>2, FoldRuns
<1> QED
  BY <1>1, <1>2, <1>8

\* The number is the one that is read digit by digit.
LEMMA NumberIs ==
    ASSUME NEW q \in Seq(Digit)
    PROVE  Number[q] = Along(TenTimes, 0, q) /\ NumberOf(q) = Number[q]
<1> DEFINE T == {k \in Nat : \E r \in Seq(Digit) : Len(r) = k /\ Number[r] # Along(TenTimes, 0, r)}
           V == Nat
           D == Digit
<1>0. TenTimes \in Steps(V, D) /\ 0 \in V
  BY TenTimesType DEF Digit
<1>1. ASSUME T # {} PROVE FALSE
  <2>1. PICK m \in T : \A k \in T : m <= k
    <3>1. T \subseteq Nat
      OBVIOUS
    <3> HIDE DEF T
    <3> QED  BY <1>1, <3>1, LeastNatural
  <2>2. PICK r \in Seq(Digit) : Len(r) = m /\ Number[r] # Along(TenTimes, 0, r)
    OBVIOUS
  <2>3. CASE r = <<>>
    <3>1. Number[<<>>] = 0
      BY NumberReads DEF Reads
    <3>2. Along(TenTimes, 0, <<>>) = 0
      BY AlongEmpty
    <3> QED  BY <2>2, <2>3, <3>1, <3>2
  <2>4. CASE r # <<>>
    <3>1. PICK f \in Seq(D), d \in D : r = Append(f, d) /\ Len(f) = m - 1 /\ m - 1 \in Nat /\ m - 1 < m
      <4> DEFINE f == SubSeq(r, 1, Len(r) - 1)
                 d == r[Len(r)]
      <4>1. f \in Seq(Digit) /\ d \in Digit /\ Len(f) = Len(r) - 1 /\ r = Append(f, d) /\ Len(r) \in Nat \ {0}
        BY <2>4, FrontAndLast
      <4> HIDE DEF f, d
      <4>2. Len(f) = m - 1 /\ m - 1 \in Nat /\ m - 1 < m
        BY <2>2, <4>1
      <4> QED  BY <4>1, <4>2
    <3>2. Number[f] = Along(TenTimes, 0, f) /\ Number[f] \in Nat
      <4>1. m - 1 \notin T
        <5>1. m \in Nat
          OBVIOUS
        <5> HIDE DEF T
        <5> QED  BY <2>1, <3>1, <5>1
      <4>2. Number[f] \in Nat
        BY NumberReads DEF Reads
      <4> QED  BY <3>1, <4>1, <4>2
    <3>3. Number[r] = 10 * Number[f] + d
      BY <3>1, NumberReads DEF Reads
    <3>4. Along(TenTimes, 0, Append(f, d)) = TenTimes[<<Along(TenTimes, 0, f), d>>]
      <4> HIDE DEF V, D
      <4> QED  BY <1>0, AlongAppend
    <3>5. TenTimes[<<Number[f], d>>] = 10 * Number[f] + d
      BY <3>2, TenTimesType DEF Digit
    <3> QED  BY <2>2, <3>1, <3>2, <3>3, <3>4, <3>5
  <2> QED  BY <2>3, <2>4
<1>2. Len(q) \in Nat
  OBVIOUS
<1>3. Number[q] = Along(TenTimes, 0, q)
  BY <1>1, <1>2
<1>4. NumberOf(q) = Along(TenTimes, 0, q)
  BY NumberOfIs DEF Digit
<1> QED
  BY <1>3, <1>4

\* The digits of a number are read as that number.
LEMMA NumeralIs ==
    ASSUME NEW n \in Nat
    PROVE  DecimalDigits[n] \in Seq(Digit) /\ Len(DecimalDigits[n]) \in Nat \ {0} /\ Number[DecimalDigits[n]] = n
<1>1. DecimalDigits[n] \in Seq(Digit) /\ DecimalDigits[n] # <<>>
  BY DecimalDigitsIs DEF Numerals, Digit
<1>2. Along(TenTimes, 0, DecimalDigits[n]) = n
  BY DigitsValue
<1> QED
  BY <1>1, <1>2, NumberIs, EmptySeq

-----------------------------------------------------------------------------
(* Powers of ten.                                                          *)

Ten(n) == Number[<<1>> \o Zeros(n)]

LEMMA MoreZeros ==
    ASSUME NEW n \in Nat
    PROVE  Zeros(n + 1) = Append(Zeros(n), 0)
<1> DEFINE a == Zeros(n + 1)
           z == Zeros(n)
           b == Append(z, 0)
<1>1. a \in Seq(Digit) /\ Len(a) = n + 1 /\ \A i \in 1 .. n + 1 : a[i] = 0
  BY ZerosAre
<1>2. z \in Seq(Digit) /\ Len(z) = n /\ \A i \in 1 .. n : z[i] = 0
  BY ZerosAre
<1> HIDE DEF z, a
<1>3. 0 \in Digit
  BY DEF Digit
<1>4. b \in Seq(Digit) /\ Len(b) = n + 1 /\ \A i \in 1 .. n + 1 : b[i] = IF i <= n THEN z[i] ELSE 0
  BY <1>2, <1>3
<1> HIDE DEF b
<1>5. \A i \in 1 .. n + 1 : a[i] = b[i]
  BY <1>1, <1>2, <1>4
<1> QED
  BY <1>1, <1>4, <1>5, SeqEqual DEF a, b, z

LEMMA NoZeros ==
    ASSUME NEW n \in Int, n <= 0
    PROVE  Zeros(n) = <<>>
<1>1. Zeros(n) \in Seq(Digit) /\ Len(Zeros(n)) = 0
  BY ZerosAre
<1> QED
  BY <1>1, EmptySeq

LEMMA NextTen ==
    /\ Ten(0) = 1
    /\ \A n \in Nat : Ten(n) \in Nat /\ Ten(n + 1) = 10 * Ten(n)
<1>0. PICK one : one = <<1>>
  OBVIOUS
<1>1. one \in Seq(Digit) /\ 1 \in Digit /\ 0 \in Digit
  BY <1>0 DEF Digit
<1>2. Ten(0) = 1
  <2>1. one \o Zeros(0) = one
    BY <1>1, NoZeros, ConcatEmptySeq
  <2>2. PICK e \in Seq(Digit) : e = <<>>
    BY EmptySeq
  <2>3. Number[e] = 0 /\ Number[Append(e, 1)] = 10 * Number[e] + 1
    BY <1>1, <2>2, NumberReads DEF Reads
  <2>4. Append(e, 1) = one
    BY <1>0, <2>2
  <2>5. Number[one] = 1
    BY <2>2, <2>3, <2>4
  <2>6. Ten(0) = Number[one \o Zeros(0)]
    BY <1>0 DEF Ten
  <2> QED  BY <2>1, <2>5, <2>6
<1>3. ASSUME NEW n \in Nat PROVE Ten(n) \in Nat /\ Ten(n + 1) = 10 * Ten(n)
  <2>1. PICK z \in Seq(Digit) : z = Zeros(n)
    BY ZerosAre
  <2>2. one \o Append(z, 0) = Append(one \o z, 0) /\ one \o z \in Seq(Digit)
    BY <1>1, ConcatAppend
  <2>3. PICK r \in Seq(Digit) : r = one \o z
    BY <2>2
  <2>4. Number[Append(r, 0)] = 10 * Number[r] + 0 /\ Number[r] \in Nat
    BY <1>1, NumberReads DEF Reads
  <2>5. Ten(n) = Number[r] /\ Ten(n + 1) = Number[Append(r, 0)]
    BY <1>0, <2>1, <2>2, <2>3, MoreZeros DEF Ten
  <2> QED  BY <2>4, <2>5
<1> QED
  BY <1>2, <1>3

LEMMA TenPositive ==
    ASSUME NEW n \in Nat
    PROVE  Ten(n) \in Nat \ {0}
<1> DEFINE T == {k \in Nat : Ten(k) = 0}
<1>1. ASSUME T # {} PROVE FALSE
  <2>1. PICK m \in T : \A k \in T : m <= k
    <3>1. T \subseteq Nat
      OBVIOUS
    <3> HIDE DEF T
    <3> QED  BY <1>1, <3>1, LeastNatural
  <2>2. m # 0
    BY NextTen
  <2>3. m - 1 \in Nat /\ (m - 1) + 1 = m
    BY <2>2
  <2>4. Ten(m) = 10 * Ten(m - 1) /\ Ten(m - 1) \in Nat
    BY <2>3, NextTen
  <2> QED  BY <2>1, <2>3, <2>4
<1> QED
  BY <1>1, NextTen

LEMMA TenFactor ==
    ASSUME NEW x \in Nat, NEW y \in Nat, NEW z \in Nat, NEW d \in Nat
    PROVE  10 * (x * y + z) + d = x * (10 * y) + (10 * z + d)
  OBVIOUS

\* Two rows of digits side by side.
LEMMA SplitNumber ==
    ASSUME NEW a \in Seq(Digit), NEW b \in Seq(Digit)
    PROVE  /\ a \o b \in Seq(Digit) /\ Number[a] \in Nat /\ Number[b] \in Nat
           /\ Number[a \o b] = Number[a] * Ten(Len(b)) + Number[b]
           /\ Number[b] < Ten(Len(b))
<1> DEFINE Splits(r) == Number[a \o r] = Number[a] * Ten(Len(r)) + Number[r] /\ Number[r] < Ten(Len(r))
           T == {k \in Nat : \E r \in Seq(Digit) : Len(r) = k /\ ~Splits(r)}
<1>0. \A r \in Seq(Digit) : Number[r] \in Nat
  BY NumberReads DEF Reads
<1>1. ASSUME T # {} PROVE FALSE
  <2>1. PICK m \in T : \A k \in T : m <= k
    <3>1. T \subseteq Nat
      OBVIOUS
    <3> HIDE DEF T
    <3> QED  BY <1>1, <3>1, LeastNatural
  <2>2. PICK r \in Seq(Digit) : Len(r) = m /\ ~Splits(r)
    OBVIOUS
  <2>3. CASE r = <<>>
    <3>1. Number[<<>>] = 0 /\ a \o <<>> = a
      BY NumberReads, ConcatEmptySeq DEF Reads
    <3>2. Len(r) = 0 /\ Ten(0) = 1 /\ Number[r] = 0 /\ a \o r = a
      BY <2>3, <3>1, NextTen
    <3>3. Number[a] * Ten(Len(r)) + Number[r] = Number[a]
      BY <1>0, <3>2
    <3> QED  BY <2>2, <3>2, <3>3
  <2>4. CASE r # <<>>
    <3>1. PICK f \in Seq(Digit), d \in Digit : r = Append(f, d) /\ Len(f) = m - 1 /\ m - 1 \in Nat /\ m - 1 < m
      <4> DEFINE f == SubSeq(r, 1, Len(r) - 1)
                 d == r[Len(r)]
      <4>1. f \in Seq(Digit) /\ d \in Digit /\ Len(f) = Len(r) - 1 /\ r = Append(f, d) /\ Len(r) \in Nat \ {0}
        BY <2>4, FrontAndLast
      <4> HIDE DEF f, d
      <4>2. Len(f) = m - 1 /\ m - 1 \in Nat /\ m - 1 < m
        BY <2>2, <4>1
      <4> QED  BY <4>1, <4>2
    <3>2. Splits(f)
      <4>1. m - 1 \notin T
        <5>1. m \in Nat
          OBVIOUS
        <5> HIDE DEF T
        <5> QED  BY <2>1, <3>1, <5>1
      <4> HIDE DEF Splits
      <4> QED  BY <3>1, <4>1
    <3>3. a \o Append(f, d) = Append(a \o f, d) /\ a \o f \in Seq(Digit)
      BY ConcatAppend
    <3>4. PICK t \in Nat, u \in Nat, v \in Nat, w \in Nat :
            t = Ten(m - 1) /\ u = Number[a] /\ v = Number[f] /\ w = d
      <4>1. Ten(m - 1) \in Nat /\ Number[a] \in Nat /\ Number[f] \in Nat /\ d \in Nat
        <5>1. d \in Nat
          BY DEF Digit
        <5>2. Ten(m - 1) \in Nat
          BY <3>1, NextTen
        <5> QED  BY <1>0, <5>1, <5>2
      <4> QED  BY <4>1
    <3>5. Ten(m) = 10 * t
      <4>1. (m - 1) + 1 = m
        BY <3>1
      <4> QED  BY <3>1, <3>4, <4>1, NextTen
    <3>6. Number[a \o r] = 10 * Number[a \o f] + w
      BY <3>1, <3>3, <3>4, NumberReads DEF Reads
    <3>7. Number[r] = 10 * v + w
      BY <3>1, <3>4, NumberReads DEF Reads
    <3>8. Number[a \o f] = u * t + v /\ v < t
      BY <3>1, <3>2, <3>4
    <3>9. Number[a \o r] = u * (10 * t) + (10 * v + w)
      BY <3>6, <3>8, TenFactor
    <3>10. w < 10
      BY <3>4 DEF Digit
    <3>11. 10 * v + w < 10 * t
      <4>1. v < t
        BY <3>8
      <4> QED  BY <3>10, <4>1
    <3> QED  BY <2>2, <3>4, <3>5, <3>7, <3>9, <3>11
  <2> QED  BY <2>3, <2>4
<1>2. Splits(b)
  <2>1. Len(b) \in Nat
    OBVIOUS
  <2> HIDE DEF Splits
  <2> QED  BY <1>1, <2>1
<1>3. a \o b \in Seq(Digit)
  BY ConcatProperties
<1> QED
  BY <1>0, <1>2, <1>3

\* Zeros in front do not count, zeros behind are factors of ten.
LEMMA ZeroNumber ==
    ASSUME NEW n \in Int
    PROVE  Number[Zeros(n)] = 0
<1>0. ASSUME NEW k \in Nat PROVE Number[Zeros(k)] = 0
  <2> DEFINE T == {j \in Nat : Number[Zeros(j)] # 0}
  <2>1. ASSUME T # {} PROVE FALSE
    <3>1. PICK m \in T : \A j \in T : m <= j
      <4>1. T \subseteq Nat
        OBVIOUS
      <4> HIDE DEF T
      <4> QED  BY <2>1, <4>1, LeastNatural
    <3>2. CASE m = 0
      <4>1. Zeros(m) = <<>>
        BY <3>2, NoZeros
      <4> QED  BY <4>1, NumberReads DEF Reads
    <3>3. CASE m # 0
      <4>1. m - 1 \in Nat /\ (m - 1) + 1 = m /\ m - 1 < m
        BY <3>3
      <4>2. Number[Zeros(m - 1)] = 0
        BY <3>1, <4>1
      <4>3. Zeros(m) = Append(Zeros(m - 1), 0)
        BY <4>1, MoreZeros
      <4>4. PICK z \in Seq(Digit) : z = Zeros(m - 1)
        BY <4>1, ZerosAre
      <4>5. Number[Append(z, 0)] = 10 * Number[z] + 0
        <5>1. 0 \in Digit
          BY DEF Digit
        <5> QED  BY <5>1, NumberReads DEF Reads
      <4>6. Number[Zeros(m)] = 0
        BY <4>2, <4>3, <4>4, <4>5
      <4> QED  BY <4>6
    <3> QED  BY <3>2, <3>3
  <2> QED  BY <2>1
<1>1. CASE n >= 0
  BY <1>0, <1>1
<1>2. CASE n <= 0
  <2>1. Zeros(n) = <<>>
    BY <1>2, NoZeros
  <2> QED  BY <2>1, NumberReads DEF Reads
<1> QED
  BY <1>1, <1>2

LEMMA ZerosAround ==
    ASSUME NEW q \in Seq(Digit), NEW n \in Int
    PROVE  /\ Zeros(n) \o q \in Seq(Digit) /\ Number[Zeros(n) \o q] = Number[q]
           /\ q \o Zeros(n) \in Seq(Digit)
           /\ Number[q \o Zeros(n)] = Number[q] * Ten(IF n > 0 THEN n ELSE 0)
<1>1. PICK z \in Seq(Digit) : z = Zeros(n) /\ Len(z) = IF n > 0 THEN n ELSE 0
  BY ZerosAre
<1>2. Number[z] = 0
  BY <1>1, ZeroNumber
<1>3. Number[z \o q] = Number[z] * Ten(Len(q)) + Number[q] /\ z \o q \in Seq(Digit) /\ Number[q] \in Nat
  BY SplitNumber
<1>4. Number[q \o z] = Number[q] * Ten(Len(z)) + Number[z] /\ q \o z \in Seq(Digit)
  BY SplitNumber
<1>5. Ten(Len(q)) \in Nat /\ Ten(Len(z)) \in Nat
  <2>1. Len(q) \in Nat /\ Len(z) \in Nat
    OBVIOUS
  <2> QED  BY <2>1, NextTen
<1>6. Number[z \o q] = Number[q]
  BY <1>2, <1>3, <1>5
<1>7. Number[q \o z] = Number[q] * Ten(Len(z))
  <2>1. Number[q] * Ten(Len(z)) \in Nat
    BY <1>3, <1>5
  <2> QED  BY <1>2, <1>4, <2>1
<1> QED
  BY <1>1, <1>3, <1>4, <1>6, <1>7

-----------------------------------------------------------------------------
(* Rounding.                                                               *)

LEMMA MaxZero ==
    ASSUME NEW n \in Int
    PROVE  Max({0, n}) = IF n > 0 THEN n ELSE 0
<1> DEFINE m == IF n > 0 THEN n ELSE 0
<1>1. m \in {0, n} /\ \A y \in {0, n} : m >= y
  OBVIOUS
<1>2. \A x \in {0, n} : (\A y \in {0, n} : x >= y) => x = m
  OBVIOUS
<1> QED
  BY <1>1, <1>2 DEF Max

\* A row with zeros behind it.
LEMMA PaddedRow ==
    ASSUME NEW q \in Seq(Digit), NEW t \in Nat, Len(q) <= t
    PROVE  LET r == q \o Zeros(t - Len(q)) IN
           r \in Seq(Digit) /\ Len(r) = t /\ \A j \in Nat : Place(r, j) = Nth(q, t - j)
<1> DEFINE n == t - Len(q)
           z == Zeros(n)
           r == q \o z
<1>1. Len(q) \in Nat /\ n \in Nat
  OBVIOUS
<1>2. z \in Seq(Digit) /\ Len(z) = n /\ \A i \in 1 .. n : z[i] = 0
  <2>1. n \in Int /\ (IF n > 0 THEN n ELSE 0) = n
    BY <1>1
  <2> HIDE DEF n
  <2>2. Zeros(n) \in Seq(Digit) /\ Len(Zeros(n)) = n /\ \A i \in 1 .. Len(Zeros(n)) : Zeros(n)[i] = 0
    BY <2>1, ZerosAre
  <2> QED  BY <2>2
<1>3. t = Len(q) + n
  BY <1>1
<1> HIDE DEF n, z
<1>4. /\ r \in Seq(Digit) /\ Len(r) = Len(q) + n
      /\ \A i \in 1 .. Len(q) : r[i] = q[i]
      /\ \A i \in 1 .. Len(z) : r[Len(q) + i] = z[i]
  BY <1>2, ConcatIs
<1> HIDE DEF r
<1>5. ASSUME NEW j \in Nat PROVE Place(r, j) = Nth(q, t - j)
  <2>1. CASE j >= t
    <3>1. j \notin 0 .. Len(r) - 1 /\ t - j \notin 1 .. Len(q)
      BY <1>1, <1>3, <1>4, <2>1
    <3> QED  BY <3>1 DEF Place, Nth
  <2>2. CASE j < n
    <3>1. j \in 0 .. Len(r) - 1 /\ t - j \notin 1 .. Len(q)
      BY <1>1, <1>3, <1>4, <2>2
    <3>2. PICK i \in 1 .. n : i = n - j /\ Len(r) - j = Len(q) + i
      <4>1. n - j \in 1 .. n /\ Len(r) - j = Len(q) + (n - j)
        BY <1>1, <1>4, <2>2
      <4> QED  BY <4>1
    <3>3. r[Len(r) - j] = 0
      BY <1>2, <1>4, <3>2
    <3> QED  BY <3>1, <3>3 DEF Place, Nth
  <2>3. CASE j < t /\ j >= n
    <3>1. j \in 0 .. Len(r) - 1 /\ t - j \in 1 .. Len(q) /\ Len(r) - j = t - j
      BY <1>1, <1>3, <1>4, <2>3
    <3> QED  BY <1>4, <3>1 DEF Place, Nth
  <2> QED  BY <1>1, <2>1, <2>2, <2>3
<1> QED
  BY <1>3, <1>4, <1>5 DEF r, z, n

\* What is cut off is compared with a half of what is kept.
LEMMA HalfIs ==
    ASSUME NEW rest \in Seq(Digit), NEW t \in Nat \ {0}, Len(rest) <= t
    PROVE  CompareDigits(rest, <<5>>) = Sign(2 * Number[rest \o Zeros(t - Len(rest))] - Ten(t))
<1>1. PICK five \in Seq(Digit) : five = <<5>> /\ Len(five) = 1
  <2>1. 5 \in Digit
    BY DEF Digit
  <2>2. <<5>> \in Seq(Digit) /\ Len(<<5>>) = 1
    BY <2>1
  <2> QED  BY <2>2
<1>2. PICK r \in Seq(Digit) : /\ r = rest \o Zeros(t - Len(rest))
                              /\ \A j \in Nat : Place(r, j) = Nth(rest, t - j)
  BY PaddedRow
<1>3. PICK h \in Seq(Digit) : /\ h = five \o Zeros(t - 1)
                              /\ \A j \in Nat : Place(h, j) = Nth(five, t - j)
  <2>1. t \in Nat /\ Len(five) <= t
    BY <1>1
  <2>2. LET p == five \o Zeros(t - Len(five)) IN
        p \in Seq(Digit) /\ Len(p) = t /\ \A j \in Nat : Place(p, j) = Nth(five, t - j)
    BY <2>1, PaddedRow
  <2> QED  BY <1>1, <2>2
<1>4. Number[r] \in Nat /\ Number[h] \in Nat /\ Ten(t) = 2 * Number[h]
  <2>1. Number[r] \in Nat /\ Number[h] \in Nat
    BY NumberReads DEF Reads
  <2>2. t - 1 \in Nat /\ (t - 1) + 1 = t
    OBVIOUS
  <2>3. Number[five] = 5
    <3>1. PICK e \in Seq(Digit) : e = <<>>
      BY EmptySeq
    <3>2. 5 \in Digit
      BY DEF Digit
    <3>3. Number[e] = 0 /\ Number[Append(e, 5)] = 10 * Number[e] + 5
      BY <3>1, <3>2, NumberReads DEF Reads
    <3>4. Append(e, 5) = five
      BY <1>1, <3>1
    <3>5. Number[five] = 10 * 0 + 5
      BY <3>3, <3>4
    <3> QED  BY <3>5
  <2>4. Number[h] = Number[five] * Ten(t - 1)
    <3>1. t - 1 \in Int /\ (IF t - 1 > 0 THEN t - 1 ELSE 0) = t - 1
      BY <2>2
    <3> QED  BY <1>3, <3>1, ZerosAround
  <2>5. Ten(t) = 10 * Ten(t - 1) /\ Ten(t - 1) \in Nat
    BY <2>2, NextTen
  <2> QED  BY <2>1, <2>3, <2>4, <2>5
<1>5. CASE CompareDigits(rest, five) = 0 /\ \A i \in Int : Nth(rest, i) = Nth(five, i)
  <2>1. \A j \in Nat : Place(r, j) = Place(h, j)
    BY <1>2, <1>3, <1>5
  <2>2. Number[r] = Number[h]
    BY <2>1, SamePlaces
  <2>3. 2 * Number[r] - Ten(t) = 0
    BY <1>4, <2>2
  <2> QED  BY <1>1, <1>2, <1>5, <2>3 DEF Sign
<1>6. ASSUME NEW i \in Nat \ {0}, Nth(rest, i) # Nth(five, i),
             \A k \in Int : k < i => Nth(rest, k) = Nth(five, k),
             CompareDigits(rest, five) = IF Nth(rest, i) < Nth(five, i) THEN -1 ELSE 1
      PROVE  CompareDigits(rest, five) = Sign(2 * Number[r] - Ten(t))
  <2>1. Nth(rest, i) \in Nat /\ Nth(five, i) \in Nat
    <3>1. ASSUME NEW q \in Seq(Digit) PROVE Nth(q, i) \in Digit
      <4>1. 0 \in Digit
        BY DEF Digit
      <4>2. CASE i \in 1 .. Len(q)
        <5>1. q[i] \in Digit
          BY <4>2, ElementOfSeq
        <5> QED  BY <4>2, <5>1 DEF Nth
      <4> QED  BY <4>1, <4>2 DEF Nth
    <3>2. Nth(rest, i) \in Digit /\ Nth(five, i) \in Digit
      BY <1>1, <3>1
    <3>3. \A d \in Digit : d \in Nat
      BY DEF Digit
    <3> QED  BY <3>2, <3>3
  <2>2. i <= t
    <3>1. Len(rest) \in Nat
      OBVIOUS
    <3>2. i > t => i \notin 1 .. Len(rest) /\ i \notin 1 .. Len(five)
      BY <1>1, <3>1
    <3> QED  BY <1>6, <3>2 DEF Nth
  <2>3. PICK j \in Nat : j = t - i /\ t - j = i
    <3>1. t - i \in Nat /\ t - (t - i) = i
      BY <2>2
    <3> QED  BY <3>1
  <2>4. Place(r, j) = Nth(rest, i) /\ Place(h, j) = Nth(five, i)
    BY <1>2, <1>3, <2>3
  <2>5. ASSUME NEW k \in Nat, k > j PROVE Place(r, k) = Place(h, k)
    <3>1. t - k \in Int /\ t - k < i
      BY <2>3, <2>5
    <3> QED  BY <1>2, <1>3, <1>6, <3>1
  <2>6. CASE Nth(rest, i) < Nth(five, i)
    <3>1. Number[r] < Number[h]
      BY <2>4, <2>5, <2>6, HighestPlace
    <3>2. 2 * Number[r] - Ten(t) < 0
      BY <1>4, <3>1
    <3> QED  BY <1>6, <2>6, <3>2 DEF Sign
  <2>7. CASE Nth(five, i) < Nth(rest, i)
    <3>1. Number[h] < Number[r]
      <4>1. \A k \in Nat : k > j => Place(h, k) = Place(r, k)
        BY <2>5
      <4> QED  BY <2>4, <2>7, <4>1, HighestPlace
    <3>2. 2 * Number[r] - Ten(t) > 0
      BY <1>4, <3>1
    <3>3. Sign(2 * Number[r] - Ten(t)) = 1
      BY SMTT(40), <1>4, <3>2 DEF Sign
    <3> QED  BY <1>6, <2>1, <2>7, <3>3
  <2> QED  BY <1>6, <2>1, <2>6, <2>7
<1>7. \/ CompareDigits(rest, five) = 0 /\ \A i \in Int : Nth(rest, i) = Nth(five, i)
      \/ \E i \in Nat \ {0} :
           /\ Nth(rest, i) # Nth(five, i)
           /\ \A k \in Int : k < i => Nth(rest, k) = Nth(five, k)
           /\ CompareDigits(rest, five) = IF Nth(rest, i) < Nth(five, i) THEN -1 ELSE 1
  BY FirstDifference
<1> QED
  BY <1>1, <1>2, <1>5, <1>6, <1>7

\* The last digit of a decimal is not below the last of the token.
LEMMA LowestDigit ==
    ASSUME NEW s \in Spellings, ~Zero(s)
    PROVE  Scale(s) \in Int /\ Scale(s) <= parts(s).adjusted - Len(parts(s).coefficient) + 1
<1> DEFINE c == parts(s).coefficient
           adjusted == parts(s).adjusted
           p == adjusted - Len(c) + 1
<1>1. Canonical(c) /\ adjusted \in Int
  BY PartsFacts
<1>2. Len(c) \in Nat \ {0} /\ c[Len(c)] # 0
  BY <1>1, EmptySeq DEF Canonical
<1>3. p \in Int /\ adjusted - p + 1 = Len(c)
  BY <1>1, <1>2
<1>4. DigitAt(s, p) = Nth(c, adjusted - p + 1)
  BY <1>3, DigitsOfDecimal
<1>5. Scale(s) \in Int
  BY SpellingFacts DEF Scale
<1> HIDE DEF c, adjusted, p
<1>6. DigitAt(s, p) # 0
  BY <1>2, <1>3, <1>4 DEF Nth
<1>7. p - Scale(s) >= 0
  <2>1. p - Scale(s) < 0 => DigitAt(s, p) = 0
    BY <1>3, <1>5 DEF DigitAt, Place
  <2> QED  BY <1>3, <1>5, <1>6, <2>1
<1> QED
  BY <1>3, <1>5, <1>7 DEF c, adjusted, p

\* A sequence cut in two.
LEMMA CutInTwo ==
    ASSUME NEW S, NEW q \in Seq(S), NEW k \in Nat, k <= Len(q)
    PROVE  LET a == SubSeq(q, 1, k)
               b == SubSeq(q, k + 1, Len(q))
           IN /\ a \in Seq(S) /\ Len(a) = k /\ \A i \in 1 .. k : a[i] = q[i]
              /\ b \in Seq(S) /\ Len(b) = Len(q) - k /\ \A i \in 1 .. Len(q) - k : b[i] = q[k + i]
              /\ q = a \o b
<1> DEFINE a == SubSeq(q, 1, k)
           b == SubSeq(q, k + 1, Len(q))
<1>1. a \in Seq(S) /\ Len(a) = k /\ \A i \in 1 .. k : a[i] = q[i]
  <2>1. 0 + 1 = 1 /\ 0 \in Nat /\ 0 <= k /\ k - 0 = k /\ \A i \in 1 .. k : 0 + i = i
    OBVIOUS
  <2>2. /\ SubSeq(q, 0 + 1, k) \in Seq(S) /\ Len(SubSeq(q, 0 + 1, k)) = k - 0
        /\ \A i \in 1 .. k - 0 : SubSeq(q, 0 + 1, k)[i] = q[0 + i]
    BY <2>1, Slice
  <2> QED  BY <2>1, <2>2
<1>2. b \in Seq(S) /\ Len(b) = Len(q) - k /\ \A i \in 1 .. Len(q) - k : b[i] = q[k + i]
  <2>1. Len(q) \in Nat /\ Len(q) <= Len(q)
    OBVIOUS
  <2> QED  BY <2>1, Slice
<1> HIDE DEF a, b
<1> DEFINE r == a \o b
<1>3. /\ r \in Seq(S) /\ Len(r) = Len(a) + Len(b)
      /\ \A i \in 1 .. Len(a) : r[i] = a[i]
      /\ \A i \in 1 .. Len(b) : r[Len(a) + i] = b[i]
  BY <1>1, <1>2, ConcatIs
<1> HIDE DEF r
<1>4. Len(r) = Len(q)
  BY <1>1, <1>2, <1>3
<1>5. ASSUME NEW i \in 1 .. Len(q) PROVE r[i] = q[i]
  <2>1. CASE i <= k
    BY <1>1, <1>3, <2>1
  <2>2. CASE ~(i <= k)
    <3>1. PICK j \in 1 .. Len(q) - k : i = k + j
      <4>1. i - k \in 1 .. Len(q) - k /\ i = k + (i - k)
        BY <2>2
      <4> QED  BY <4>1
    <3> QED  BY <1>1, <1>2, <1>3, <3>1
  <2> QED  BY <2>1, <2>2
<1>6. q = r
  BY <1>3, <1>4, <1>5, SeqEqual
<1> QED
  BY <1>1, <1>2, <1>6 DEF a, b, r

\* The digits of two rows side by side, and of zeros.
LEMMA NthOfConcat ==
    ASSUME NEW a \in Seq(Digit), NEW b \in Seq(Digit), NEW i \in Int
    PROVE  Nth(a \o b, i) = IF i <= Len(a) THEN Nth(a, i) ELSE Nth(b, i - Len(a))
<1> DEFINE r == a \o b
<1>1. /\ Len(a) \in Nat /\ Len(b) \in Nat /\ Len(r) = Len(a) + Len(b)
      /\ \A j \in 1 .. Len(a) : r[j] = a[j]
      /\ \A j \in 1 .. Len(b) : r[Len(a) + j] = b[j]
  BY ConcatIs
<1> HIDE DEF r
<1>2. CASE i <= Len(a)
  <2>1. CASE i >= 1
    <3>1. i \in 1 .. Len(a) /\ i \in 1 .. Len(r)
      BY <1>1, <1>2, <2>1
    <3> QED  BY <1>1, <1>2, <3>1 DEF Nth, r
  <2>2. CASE ~(i >= 1)
    <3>1. i \notin 1 .. Len(a) /\ i \notin 1 .. Len(r)
      BY <2>2
    <3> QED  BY <1>2, <3>1 DEF Nth, r
  <2> QED  BY <2>1, <2>2
<1>3. CASE ~(i <= Len(a))
  <2>1. PICK j \in Nat : j = i - Len(a) /\ i = Len(a) + j /\ j >= 1
    <3>1. i - Len(a) \in Nat /\ i = Len(a) + (i - Len(a)) /\ i - Len(a) >= 1
      BY <1>1, <1>3
    <3> QED  BY <3>1
  <2>2. CASE j <= Len(b)
    <3>1. j \in 1 .. Len(b) /\ i \in 1 .. Len(r)
      BY <1>1, <2>1, <2>2
    <3>2. r[i] = b[j]
      BY <1>1, <2>1, <3>1
    <3> QED  BY <1>3, <2>1, <3>1, <3>2 DEF Nth, r
  <2>3. CASE ~(j <= Len(b))
    <3>1. j \notin 1 .. Len(b) /\ i \notin 1 .. Len(r)
      BY <1>1, <2>1, <2>3
    <3> QED  BY <1>3, <2>1, <3>1 DEF Nth, r
  <2> QED  BY <2>2, <2>3
<1> QED
  BY <1>2, <1>3

LEMMA NthOfZeros ==
    ASSUME NEW n \in Int, NEW i \in Int
    PROVE  Nth(Zeros(n), i) = 0
  BY ZerosAre DEF Nth

\* A coefficient among the zeros that it is rounded with.
LEMMA AllDigits ==
    ASSUME NEW c \in Seq(Digit), Len(c) \in Nat \ {0}, NEW keep \in Int
    PROVE  LET all == Zeros(-keep) \o c \o Zeros(keep - Len(c))
               z == IF keep < 0 THEN -keep ELSE 0
           IN /\ all \in Seq(Digit)
              /\ Len(all) = z + Len(c) + (IF keep > Len(c) THEN keep - Len(c) ELSE 0)
              /\ \A i \in Int : Nth(all, i) = Nth(c, i - z)
<1>1. PICK z \in Nat : z = IF keep < 0 THEN -keep ELSE 0
  <2>1. (IF keep < 0 THEN -keep ELSE 0) \in Nat
    OBVIOUS
  <2> QED  BY <2>1
<1>2. PICK a \in Seq(Digit) : a = Zeros(-keep) /\ Len(a) = z /\ \A i \in Int : Nth(a, i) = 0
  <2>1. -keep \in Int /\ (IF -keep > 0 THEN -keep ELSE 0) = z
    BY <1>1
  <2>2. Zeros(-keep) \in Seq(Digit) /\ Len(Zeros(-keep)) = IF -keep > 0 THEN -keep ELSE 0
    BY <2>1, ZerosAre
  <2>3. \A i \in Int : Nth(Zeros(-keep), i) = 0
    BY <2>1, NthOfZeros
  <2> QED  BY <2>1, <2>2, <2>3
<1>3. PICK n \in Nat : n = IF keep > Len(c) THEN keep - Len(c) ELSE 0
  <2>1. (IF keep > Len(c) THEN keep - Len(c) ELSE 0) \in Nat
    OBVIOUS
  <2> QED  BY <2>1
<1>4. PICK b \in Seq(Digit) : b = Zeros(keep - Len(c)) /\ Len(b) = n /\ \A i \in Int : Nth(b, i) = 0
  <2>1. keep - Len(c) \in Int /\ (IF keep - Len(c) > 0 THEN keep - Len(c) ELSE 0) = n
    BY <1>3
  <2>2. Zeros(keep - Len(c)) \in Seq(Digit) /\ Len(Zeros(keep - Len(c))) = IF keep - Len(c) > 0 THEN keep - Len(c) ELSE 0
    BY <2>1, ZerosAre
  <2>3. \A i \in Int : Nth(Zeros(keep - Len(c)), i) = 0
    BY <2>1, NthOfZeros
  <2> QED  BY <2>1, <2>2, <2>3
<1>5. PICK d \in Seq(Digit) : d = a \o c /\ Len(d) = z + Len(c)
  BY <1>2, ConcatIs
<1>6. d \o b \in Seq(Digit) /\ Len(d \o b) = Len(d) + Len(b)
  BY ConcatIs
<1>7. ASSUME NEW i \in Int PROVE Nth(d \o b, i) = Nth(c, i - z)
  <2>1. CASE i <= Len(d)
    <3>1. Nth(d \o b, i) = Nth(d, i)
      BY <2>1, NthOfConcat
    <3>2. Nth(d, i) = IF i <= z THEN 0 ELSE Nth(c, i - z)
      BY <1>2, <1>5, NthOfConcat
    <3>3. i <= z => Nth(c, i - z) = 0
      BY DEF Nth
    <3> QED  BY <3>1, <3>2, <3>3
  <2>2. CASE ~(i <= Len(d))
    <3>1. Nth(d \o b, i) = 0
      <4>1. i - Len(d) \in Int
        BY <1>5
      <4>2. Nth(d \o b, i) = Nth(b, i - Len(d))
        BY <2>2, NthOfConcat
      <4> QED  BY <1>4, <4>1, <4>2
    <3>2. i - z \notin 1 .. Len(c)
      BY <1>5, <2>2
    <3> QED  BY <3>1, <3>2 DEF Nth
  <2> QED  BY <2>1, <2>2
<1> QED
  BY <1>1, <1>2, <1>3, <1>4, <1>5, <1>6, <1>7

\* A number is even when its last digit is.
LEMMA Evenness ==
    ASSUME NEW q \in Seq(Digit)
    PROVE  LET last == IF q = <<>> THEN 0 ELSE Last(q) IN
           last \in Digit /\ Number[q] \in Nat /\ Number[q] % 2 = last % 2
<1>1. Number[q] \in Nat
  BY NumberReads DEF Reads
<1>2. CASE q = <<>>
  <2>1. Number[q] = 0
    BY <1>2, NumberReads DEF Reads
  <2>2. 0 \in Digit
    BY DEF Digit
  <2> QED  BY <1>1, <1>2, <2>1, <2>2
<1>3. CASE q # <<>>
  <2>1. PICK f \in Seq(Digit), d \in Digit : q = Append(f, d) /\ Last(q) = d
    BY <1>3, FrontAndLast DEF Last
  <2>2. Number[q] = 10 * Number[f] + d /\ Number[f] \in Nat
    BY <2>1, NumberReads DEF Reads
  <2>3. \A n \in Nat, e \in 0 .. 9 : ((10 * n + e) % 2) = (e % 2)
    OBVIOUS
  <2>4. Number[q] % 2 = d % 2
    BY <2>2, <2>3 DEF Digit
  <2> QED  BY <1>1, <1>3, <2>1, <2>4
<1> QED
  BY <1>2, <1>3

\* Of a number in units, what rounds to the unit, half to even.
LEMMA HalfToEven ==
    ASSUME NEW kept \in Nat, NEW rest \in Nat, NEW u \in Nat \ {0}, rest < u,
           NEW up \in BOOLEAN,
           up <=> (2 * rest - u > 0 \/ (2 * rest - u = 0 /\ kept % 2 = 1))
    PROVE  LET k == kept + (IF up THEN 1 ELSE 0)
               m == kept * u + rest
           IN /\ (2 * k - 1) * u <= 2 * m /\ 2 * m <= (2 * k + 1) * u
              /\ (2 * k - 1) * u = 2 * m \/ 2 * m = (2 * k + 1) * u => k % 2 = 0
<1>1. PICK v \in Nat : v = kept * u
  <2>1. kept * u \in Nat
    OBVIOUS
  <2> QED  BY <2>1
<1>2. CASE up
  <2>1. (2 * (kept + 1) - 1) * u = 2 * v + u /\ (2 * (kept + 1) + 1) * u = 2 * v + 3 * u
    <3>1. \A x \in Nat, y \in Nat : /\ (2 * (x + 1) - 1) * y = 2 * (x * y) + y
                                    /\ (2 * (x + 1) + 1) * y = 2 * (x * y) + 3 * y
      OBVIOUS
    <3> QED  BY <1>1, <3>1
  <2>2. 2 * rest >= u
    BY <1>2
  <2>3. 2 * rest = u => (kept + 1) % 2 = 0
    BY <1>2
  <2> QED  BY <1>1, <1>2, <2>1, <2>2, <2>3
<1>3. CASE ~up
  <2>1. (2 * kept - 1) * u = 2 * v - u /\ (2 * kept + 1) * u = 2 * v + u
    <3>1. \A x \in Nat, y \in Nat : /\ (2 * x - 1) * y = 2 * (x * y) - y
                                    /\ (2 * x + 1) * y = 2 * (x * y) + y
      OBVIOUS
    <3> QED  BY <1>1, <3>1
  <2>2. 2 * rest <= u
    BY <1>3
  <2>3. 2 * rest = u => kept % 2 = 0
    BY <1>3
  <2>4. kept + 0 = kept
    OBVIOUS
  <2> QED  BY <1>1, <1>3, <2>1, <2>2, <2>3, <2>4
<1> QED
  BY <1>2, <1>3

Rounded(k, m, u) ==
    /\ (2 * k - 1) * u <= 2 * m /\ 2 * m <= (2 * k + 1) * u
    /\ (2 * k - 1) * u = 2 * m \/ 2 * m = (2 * k + 1) * u => k % 2 = 0

LEMMA Regroup ==
    ASSUME NEW top \in Int, NEW places \in Int, NEW t \in Int, NEW j \in Int
    PROVE  ((top + 1 + places) + t) - j = top - ((-places - t) + j) + 1
  OBVIOUS

LEMMA RowCutInTwo ==
    ASSUME NEW q \in Seq(Digit), NEW k \in Nat, k <= Len(q)
    PROVE  \E a, b \in Seq(Digit) :
             /\ a = SubSeq(q, 1, k) /\ Len(a) = k
             /\ b = SubSeq(q, k + 1, Len(q)) /\ Len(b) = Len(q) - k
             /\ q = a \o b /\ \A x \in Seq(Digit) : q \o x = a \o (b \o x)
<1> DEFINE a == SubSeq(q, 1, k)
           b == SubSeq(q, k + 1, Len(q))
<1>1. /\ a \in Seq(Digit) /\ Len(a) = k /\ \A i \in 1 .. k : a[i] = q[i]
      /\ b \in Seq(Digit) /\ Len(b) = Len(q) - k /\ \A i \in 1 .. Len(q) - k : b[i] = q[k + i]
      /\ q = a \o b
  BY CutInTwo
<1> HIDE DEF a, b
<1>2. a = SubSeq(q, 1, k) /\ b = SubSeq(q, k + 1, Len(q))
  BY DEF a, b
<1>3. ASSUME NEW x \in Seq(Digit) PROVE q \o x = a \o (b \o x)
  <2>1. (a \o b) \o x = a \o (b \o x)
    BY SMTT(40), <1>1, ConcatAssociative
  <2> QED  BY <1>1, <2>1
<1> QED
  BY <1>1, <1>2, <1>3

\* The digits that are kept, and those that decide how they are rounded.
LEMMA KeptAndRest ==
    ASSUME NEW s \in Spellings, ~Zero(s), NEW places \in Nat, NEW t \in Nat \ {0},
           -places - t <= Scale(s)
    PROVE  LET p == parts(s)
               keep == p.adjusted + 1 + places
               all == Zeros(-keep) \o p.coefficient \o Zeros(keep - Len(p.coefficient))
               kept == SubSeq(all, 1, Max({0, keep}))
               rest == SubSeq(all, Len(kept) + 1, Len(all))
           IN /\ kept \in Seq(Digit) /\ Len(kept) = IF keep > 0 THEN keep ELSE 0
              /\ rest \in Seq(Digit) /\ Len(rest) <= t
              /\ Number[kept \o (rest \o Zeros(t - Len(rest)))] = Number[Aligned(s, -places - t)]
<1>1. PICK c \in Seq(Digit) : c = parts(s).coefficient /\ Len(c) \in Nat \ {0}
  <2>1. Canonical(parts(s).coefficient)
    BY PartsFacts
  <2> QED  BY <2>1, EmptySeq DEF Canonical
<1>2. PICK top \in Int : top = parts(s).adjusted
  BY PartsFacts
<1>3. PICK keep \in Int : keep = top + 1 + places
  OBVIOUS
<1>4. PICK z \in Nat : z = IF keep < 0 THEN -keep ELSE 0
  <2>1. (IF keep < 0 THEN -keep ELSE 0) \in Nat
    OBVIOUS
  <2> QED  BY <2>1
<1>5. PICK all \in Seq(Digit) :
        /\ all = Zeros(-keep) \o c \o Zeros(keep - Len(c))
        /\ Len(all) = z + Len(c) + (IF keep > Len(c) THEN keep - Len(c) ELSE 0)
        /\ \A i \in Int : Nth(all, i) = Nth(c, i - z)
  <2> DEFINE all == Zeros(-keep) \o c \o Zeros(keep - Len(c))
  <2>1. /\ all \in Seq(Digit)
        /\ Len(all) = z + Len(c) + (IF keep > Len(c) THEN keep - Len(c) ELSE 0)
        /\ \A i \in Int : Nth(all, i) = Nth(c, i - z)
    BY <1>1, <1>4, AllDigits
  <2> QED  BY <2>1
<1>6. PICK m \in Nat : m = Max({0, keep}) /\ m = (IF keep > 0 THEN keep ELSE 0) /\ m - z = keep
  <2>1. Max({0, keep}) = IF keep > 0 THEN keep ELSE 0
    BY MaxZero
  <2>2. Max({0, keep}) \in Nat /\ Max({0, keep}) - z = keep
    BY <1>4, <2>1
  <2> QED  BY <2>1, <2>2
<1>7. PICK l \in Nat \ {0}, n \in Nat : l = Len(c) /\ n = Len(all) /\ m <= n /\ n = (IF keep > l THEN m ELSE z + l)
  <2>1. PICK l \in Nat \ {0}, n \in Nat : l = Len(c) /\ n = Len(all)
    BY <1>1
  <2>2. n = z + l + (IF keep > l THEN keep - l ELSE 0)
    BY <1>5, <2>1
  <2>3. m <= n /\ n = (IF keep > l THEN m ELSE z + l)
    BY <1>4, <1>6, <2>2
  <2> QED  BY <2>1, <2>3
<1>8. PICK kept \in Seq(Digit), rest \in Seq(Digit) :
        /\ kept = SubSeq(all, 1, m) /\ Len(kept) = m
        /\ rest = SubSeq(all, m + 1, Len(all)) /\ Len(rest) = Len(all) - m
        /\ all = kept \o rest /\ \A x \in Seq(Digit) : all \o x = kept \o (rest \o x)
  <2>1. m <= Len(all)
    BY <1>7
  <2> QED  BY <2>1, RowCutInTwo
<1>9. Scale(s) \in Int /\ Scale(s) <= top - Len(c) + 1
  BY <1>1, <1>2, LowestDigit
<1>10. PICK o \in Nat : o = Len(rest) /\ o = n - m /\ o <= t
  <2>1. PICK o \in Nat : o = Len(rest) /\ o = n - m
    <3>1. n - m \in Nat
      BY <1>7
    <3>2. Len(rest) = n - m
      BY <1>7, <1>8
    <3> QED  BY <3>1, <3>2
  <2>2. -places - t <= top - l + 1
    BY <1>7, <1>9
  <2>3. CASE keep > l
    BY <1>7, <2>1, <2>3
  <2>4. CASE ~(keep > l)
    <3>1. o = z + l - m
      BY <1>7, <2>1, <2>4
    <3>2. o = l - keep
      BY <1>4, <1>6, <1>7, <3>1
    <3>3. -places - t <= top - l + 1 => l - (top + 1 + places) <= t
      OBVIOUS
    <3>4. o <= t
      BY <1>3, <2>2, <3>2, <3>3
    <3> QED  BY <2>1, <3>4
  <2> QED  BY <2>1, <2>3, <2>4
<1>11. PICK e \in Int : e = -places - t /\ e <= Scale(s)
  OBVIOUS
<1>12. PICK w \in Nat : w = m + t /\ n <= w /\ w - n = t - o
  <2>1. m + t \in Nat /\ n <= m + t /\ (m + t) - n = t - o
    BY <1>10
  <2> QED  BY <2>1
<1>13. PICK r \in Seq(Digit) : /\ r = all \o Zeros(w - n)
                               /\ \A j \in Nat : Place(r, j) = Nth(all, w - j)
  <2> DEFINE r == all \o Zeros(w - Len(all))
  <2>1. Len(all) <= w
    BY <1>7, <1>12
  <2>2. r \in Seq(Digit) /\ \A j \in Nat : Place(r, j) = Nth(all, w - j)
    BY <2>1, PaddedRow
  <2> QED  BY <1>7, <2>2
<1>14. PICK a \in Seq(Digit) : a = Aligned(s, e) /\ \A j \in Nat : Place(a, j) = DigitAt(s, e + j)
  BY <1>11, AlignedPlaces
<1>15. ASSUME NEW j \in Nat PROVE Place(r, j) = Place(a, j)
  <2>1. Place(r, j) = Nth(c, (w - j) - z)
    <3>1. w - j \in Int
      OBVIOUS
    <3> QED  BY <1>5, <1>13, <3>1
  <2>2. DigitAt(s, e + j) = Nth(c, top - (e + j) + 1)
    <3>1. e + j \in Int
      OBVIOUS
    <3> QED  BY <1>1, <1>2, <3>1, DigitsOfDecimal
  <2>3. (w - j) - z = top - (e + j) + 1
    <3>1. w - j - z = (keep + t) - j
      BY <1>3, <1>4, <1>6, <1>12
    <3> QED  BY <1>3, <1>11, <3>1, Regroup
  <2> QED  BY <1>14, <2>1, <2>2, <2>3
<1>16. Number[r] = Number[a]
  BY <1>15, SamePlaces
<1>17. r = kept \o (rest \o Zeros(t - o))
  <2>1. PICK x \in Seq(Digit) : x = Zeros(t - o)
    <3>1. t - o \in Int
      OBVIOUS
    <3> QED  BY <3>1, ZerosAre
  <2>2. all \o x = kept \o (rest \o x)
    BY <1>8, <2>1
  <2> QED  BY <1>12, <1>13, <2>1, <2>2
<1> DEFINE Keep == parts(s).adjusted + 1 + places
           All == Zeros(-Keep) \o parts(s).coefficient \o Zeros(Keep - Len(parts(s).coefficient))
           Kept == SubSeq(All, 1, Max({0, Keep}))
           Rest == SubSeq(All, Len(Kept) + 1, Len(All))
<1>18. Keep = keep
  BY <1>2, <1>3
<1> HIDE DEF Keep
<1>19. All = all
  BY <1>1, <1>5, <1>18
<1> HIDE DEF All
<1>20. Kept = kept
  BY <1>6, <1>8, <1>18, <1>19
<1> HIDE DEF Kept
<1>21. Rest = rest
  BY <1>8, <1>19, <1>20
<1> HIDE DEF Rest
<1>22. /\ Kept \in Seq(Digit) /\ Len(Kept) = IF Keep > 0 THEN Keep ELSE 0
       /\ Rest \in Seq(Digit) /\ Len(Rest) <= t
       /\ Number[Kept \o (Rest \o Zeros(t - Len(Rest)))] = Number[Aligned(s, -places - t)]
  BY <1>6, <1>8, <1>10, <1>11, <1>14, <1>16, <1>17, <1>18, <1>20, <1>21
<1> QED
  BY <1>22 DEF Rest, Kept, All, Keep

\* What is rounded is the number of the digits that are kept, or one more.
LEMMA RoundedDigits ==
    ASSUME NEW s \in Spellings, NEW places \in Nat, NEW t \in Nat \ {0}, -places - t <= Scale(s)
    PROVE  LET f == Fixed(s, places)
               k == Number[f]
               m == Number[Aligned(s, -places - t)]
           IN /\ f \in Seq(Digit) /\ Len(f) > places
              /\ k \in Nat /\ m \in Nat /\ Ten(t) \in Nat \ {0}
              /\ Rounded(k, m, Ten(t))
              /\ parts(s).adjusted = -1 => k <= Ten(places)
<1> DEFINE f == Fixed(s, places)
           m == Number[Aligned(s, -places - t)]
           u == Ten(t)
<1>0. -places - t \in Int /\ places + 1 \in Nat
  OBVIOUS
<1>1. Ten(t) \in Nat \ {0} /\ Ten(places) \in Nat \ {0}
  BY TenPositive
<1>2. CASE Zero(s)
  <2>1. f = Zeros(places + 1)
    BY <1>2 DEF Fixed
  <2>2. Zeros(places + 1) \in Seq(Digit) /\ Len(Zeros(places + 1)) > places /\ Number[Zeros(places + 1)] = 0
    <3>1. Zeros(places + 1) \in Seq(Digit) /\ Len(Zeros(places + 1)) = IF places + 1 > 0 THEN places + 1 ELSE 0
      BY <1>0, ZerosAre
    <3>2. Number[Zeros(places + 1)] = 0
      BY <1>0, ZeroNumber
    <3> QED  BY <3>1, <3>2
  <2>3. m = 0
    BY <1>0, <1>2, ZeroOrMore
  <2> HIDE DEF f, m, u
  <2>4. Rounded(0, 0, Ten(t))
    <3>1. \A x \in Nat \ {0} : Rounded(0, 0, x)
      BY DEF Rounded
    <3> QED  BY <1>1, <3>1
  <2>5. f \in Seq(Digit) /\ Len(f) > places /\ Number[f] = 0
    BY <2>1, <2>2
  <2>6. 0 <= Ten(places)
    BY <1>1
  <2>7. /\ f \in Seq(Digit) /\ Len(f) > places
        /\ Number[f] \in Nat /\ m \in Nat /\ Ten(t) \in Nat \ {0}
        /\ Rounded(Number[f], m, Ten(t))
        /\ parts(s).adjusted = -1 => Number[f] <= Ten(places)
    BY <1>1, <2>3, <2>4, <2>5, <2>6
  <2> QED  BY <2>7 DEF f, m
<1>3. CASE ~Zero(s)
  <2> DEFINE p == parts(s)
             Keep == p.adjusted + 1 + places
             All == Zeros(-Keep) \o p.coefficient \o Zeros(Keep - Len(p.coefficient))
             Kept == SubSeq(All, 1, Max({0, Keep}))
             Rest == SubSeq(All, Len(Kept) + 1, Len(All))
             Lowest == IF Kept = <<>> THEN 0 ELSE Last(Kept)
             Up == RoundsUp(Lowest, Rest)
             n == NumberOf(Kept) + (IF Up THEN 1 ELSE 0)
  <2>1. /\ Kept \in Seq(Digit) /\ Len(Kept) = IF Keep > 0 THEN Keep ELSE 0
        /\ Rest \in Seq(Digit) /\ Len(Rest) <= t
        /\ Number[Kept \o (Rest \o Zeros(t - Len(Rest)))] = m
    BY <1>3, KeptAndRest
  <2>2. f = Zeros(places + 1 - Len(Decimals(n).head)) \o Decimals(n).head
    BY <1>3 DEF Fixed
  <2> HIDE DEF Kept, Rest, Up, n
  <2>3. PICK kept \in Nat : kept = Number[Kept] /\ NumberOf(Kept) = kept /\ Lowest \in Digit /\ kept % 2 = Lowest % 2
    <3>1. Lowest \in Digit /\ Number[Kept] \in Nat /\ Number[Kept] % 2 = Lowest % 2
      BY <2>1, Evenness
    <3>2. NumberOf(Kept) = Number[Kept]
      BY <2>1, NumberIs
    <3> QED  BY <3>1, <3>2
  <2>4. PICK row \in Seq(Digit) : row = Rest \o Zeros(t - Len(Rest)) /\ Len(row) = t
    <3>1. t \in Nat
      OBVIOUS
    <3> QED  BY <2>1, <3>1, PaddedRow
  <2>5. PICK rest \in Nat : rest = Number[row] /\ rest < Ten(t) /\ m = kept * Ten(t) + rest
    <3>1. /\ Number[row] \in Nat /\ Number[Kept \o row] = Number[Kept] * Ten(Len(row)) + Number[row]
          /\ Number[row] < Ten(Len(row))
      BY <2>1, SplitNumber
    <3>2. m = Number[Kept \o row]
      BY <2>1, <2>4
    <3> QED  BY <2>3, <2>4, <3>1, <3>2
  <2>6. CompareDigits(Rest, <<5>>) = Sign(2 * rest - Ten(t))
    BY <2>1, <2>4, <2>5, HalfIs
  <2>7. Up \in BOOLEAN /\ (Up <=> (2 * rest - Ten(t) > 0 \/ (2 * rest - Ten(t) = 0 /\ kept % 2 = 1)))
    <3>1. Up <=> CompareDigits(Rest, <<5>>) > 0 \/ (CompareDigits(Rest, <<5>>) = 0 /\ Lowest % 2 = 1)
      BY DEF Up, RoundsUp
    <3>2. Up \in BOOLEAN
      BY DEF Up, RoundsUp
    <3>3. 2 * rest - Ten(t) \in Int
      BY <1>1
    <3>4. \A x \in Int : (Sign(x) > 0 <=> x > 0) /\ (Sign(x) = 0 <=> x = 0)
      BY DEF Sign
    <3> QED  BY <2>3, <2>6, <3>1, <3>2, <3>3, <3>4
  <2>8. n \in Nat /\ n = kept + (IF Up THEN 1 ELSE 0)
    BY <2>3 DEF n
  <2>9. Rounded(n, m, Ten(t)) /\ m \in Nat
    <3>1. Ten(t) \in Nat \ {0} /\ rest < Ten(t)
      BY <1>1, <2>5
    <3>2. Rounded(kept + (IF Up THEN 1 ELSE 0), kept * Ten(t) + rest, Ten(t))
      BY <2>7, <3>1, HalfToEven DEF Rounded
    <3>3. kept * Ten(t) \in Nat
      BY <3>1
    <3> QED  BY <2>5, <2>8, <3>2, <3>3
  <2>10. PICK d \in Seq(Digit) : d = Decimals(n).head /\ Len(d) \in Nat \ {0} /\ Number[d] = n
    <3>1. Decimals(n).head = DecimalDigits[n]
      <4>1. ~(n < 0)
        BY <2>8
      <4> QED  BY <4>1 DEF Decimals, Spelling
    <3> QED  BY <2>8, <3>1, NumeralIs
  <2>11. f \in Seq(Digit) /\ Len(f) > places /\ Number[f] = n
    <3>1. PICK z \in Int : z = places + 1 - Len(d)
      BY <2>10
    <3>2. f = Zeros(z) \o d
      BY <2>2, <2>10, <3>1
    <3>3. Zeros(z) \o d \in Seq(Digit) /\ Number[Zeros(z) \o d] = Number[d]
      BY ZerosAround
    <3>4. PICK y \in Seq(Digit) : y = Zeros(z) /\ Len(y) = IF z > 0 THEN z ELSE 0
      BY ZerosAre
    <3>5. Len(y \o d) = Len(y) + Len(d)
      BY ConcatIs
    <3>6. Len(f) = (IF z > 0 THEN z ELSE 0) + Len(d)
      BY <3>2, <3>4, <3>5
    <3>7. Len(f) > places
      <4>1. PICK l \in Nat : l = Len(d) /\ z = places + 1 - l
        BY <2>10, <3>1
      <4>2. (IF z > 0 THEN z ELSE 0) + l > places
        <5>1. \A i \in Nat, j \in Nat : (IF i + 1 - j > 0 THEN i + 1 - j ELSE 0) + j > i
          OBVIOUS
        <5> QED  BY <4>1, <5>1
      <4> QED  BY <3>6, <4>1, <4>2
    <3> QED  BY <2>10, <3>2, <3>3, <3>7
  <2>12. ASSUME p.adjusted = -1 PROVE n <= Ten(places)
    <3>1. Len(Kept) = places
      <4>1. Keep = places
        BY <2>12
      <4> QED  BY <2>1, <4>1
    <3>2. PICK e \in Seq(Digit) : e = <<>>
      BY EmptySeq
    <3>3. Number[Kept] < Ten(Len(Kept))
      BY <2>1, <3>2, SplitNumber
    <3>4. kept < Ten(places)
      BY <2>3, <3>1, <3>3
    <3> QED  BY <1>1, <2>8, <3>4
  <2> HIDE DEF f, m, p
  <2>13. /\ f \in Seq(Digit) /\ Len(f) > places
         /\ Number[f] \in Nat /\ m \in Nat /\ Ten(t) \in Nat \ {0}
         /\ Rounded(Number[f], m, Ten(t))
         /\ p.adjusted = -1 => Number[f] <= Ten(places)
    BY <1>1, <2>8, <2>9, <2>11, <2>12
  <2> QED  BY <2>13 DEF f, m, p
<1> QED
  BY <1>2, <1>3

\* The digits that a number without its sign is rounded to (Limits.Fixed, internal/numeric/format.go:7-29)
\* are those of the nearest number with that many places, and of the even one when it is half way between
\* two of them. k is what they say, in units of 10 to the -places, and m the number itself in units that
\* are t powers of ten smaller, so small that it is a whole number of them.
THEOREM FixedRoundsHalfToEven ==
    ASSUME NEW s \in Spellings, NEW places \in Nat, NEW t \in Nat \ {0}, -places - t <= Scale(s)
    PROVE  LET k == Number[Fixed(s, places)]
               m == Number[Aligned(s, -places - t)]
           IN /\ Fixed(s, places) \in Seq(Digit) /\ Len(Fixed(s, places)) > places
              /\ (2 * k - 1) * Ten(t) <= 2 * m /\ 2 * m <= (2 * k + 1) * Ten(t)
              /\ (2 * k - 1) * Ten(t) = 2 * m \/ 2 * m = (2 * k + 1) * Ten(t) => k % 2 = 0
  BY RoundedDigits DEF Rounded

-----------------------------------------------------------------------------
(* The number that a text says.                                            *)

\* The mantissa and the power of ten that is taken out of it.
LEMMA MantissaIs ==
    ASSUME NEW s \in Spellings, NEW leading \in Nat
    PROVE  LET m == Mantissa(s, leading) IN
           /\ m.value \in Spellings /\ m.exp \in Int
           /\ \A e \in Int : e <= Scale(m.value) /\ e + m.exp <= Scale(s)
                => Number[Aligned(m.value, e)] = Number[Aligned(s, e + m.exp)]
           /\ ~Zero(s) => parts(m.value).adjusted = leading - 1
           /\ Zero(s) => Zero(m.value)
<1> DEFINE m == Mantissa(s, leading)
<1>1. CASE Zero(s)
  <2>1. m.value = s /\ m.exp = 0
    BY <1>1 DEF Mantissa
  <2> HIDE DEF m
  <2>2. ASSUME NEW e \in Int, e <= Scale(m.value), e + m.exp <= Scale(s)
        PROVE  Number[Aligned(m.value, e)] = Number[Aligned(s, e + m.exp)]
    <3>1. e + 0 = e
      OBVIOUS
    <3> QED  BY <2>1, <3>1
  <2>3. m.value \in Spellings /\ m.exp \in Int /\ Zero(m.value)
    BY <1>1, <2>1
  <2> QED  BY <1>1, <2>2, <2>3 DEF m
<1>2. CASE ~Zero(s)
  <2>1. PICK c \in Seq(Digit) : c = parts(s).coefficient /\ Canonical(c) /\ Len(c) \in Nat \ {0}
    <3>1. Canonical(parts(s).coefficient)
      BY <1>2, PartsFacts
    <3> QED  BY <3>1, EmptySeq DEF Canonical
  <2>2. PICK top \in Int : top = parts(s).adjusted
    BY <1>2, PartsFacts
  <2>3. PICK w \in Int : w = leading - Len(c) /\ w + Len(c) - 0 - 1 = leading - 1
    <3>1. leading - Len(c) \in Int /\ (leading - Len(c)) + Len(c) - 0 - 1 = leading - 1
      BY <2>1
    <3> QED  BY <3>1
  <2>4. PICK v \in Spellings : v = Spelling(FALSE, c, 0, w) /\ v = m.value
    <3>1. Spelling(FALSE, c, 0, w) \in Spellings
      BY IsSpelling
    <3>2. m.value = Spelling(FALSE, c, 0, w)
      BY <1>2, <2>1, <2>3 DEF Mantissa
    <3> QED  BY <3>1, <3>2
  <2>5. m.exp = top + 1 - leading
    BY <1>2, <2>2 DEF Mantissa
  <2> HIDE DEF m
  <2>6. ~Zero(v) /\ parts(v).coefficient = c /\ parts(v).adjusted = leading - 1
    <3>1. TrimLeft(c) = c /\ TrimRight(c) = c /\ c # <<>>
      <4>1. 0 \in Int
        OBVIOUS
      <4> QED  BY <2>1, <4>1, CanonicalDigits
    <3>2. parts(v) = [negative |-> FALSE, coefficient |-> c, adjusted |-> leading - 1]
      <4>1. parts(Spelling(FALSE, c, 0, w)) =
              [negative |-> FALSE, coefficient |-> TrimRight(TrimLeft(c)), adjusted |-> w + Len(TrimLeft(c)) - 0 - 1]
        BY <3>1 DEF parts, Spelling
      <4> QED  BY <2>3, <2>4, <3>1, <4>1
    <3>3. c # <<0>>
      BY <2>1 DEF Canonical
    <3> QED  BY <3>2, <3>3 DEF Zero
  <2>7. ASSUME NEW e \in Int, e <= Scale(v), e + m.exp <= Scale(s)
        PROVE  Number[Aligned(v, e)] = Number[Aligned(s, e + m.exp)]
    <3>1. PICK d \in Int : d = e + m.exp
      BY <2>5
    <3>2. PICK a \in Seq(Digit) : a = Aligned(v, e) /\ \A j \in Nat : Place(a, j) = DigitAt(v, e + j)
      BY <2>7, AlignedPlaces
    <3>3. PICK b \in Seq(Digit) : b = Aligned(s, d) /\ \A j \in Nat : Place(b, j) = DigitAt(s, d + j)
      BY <2>7, <3>1, AlignedPlaces
    <3>4. ASSUME NEW j \in Nat PROVE Place(a, j) = Place(b, j)
      <4>1. e + j \in Int /\ d + j \in Int
        OBVIOUS
      <4>2. DigitAt(v, e + j) = Nth(c, (leading - 1) - (e + j) + 1)
        BY <2>6, <4>1, DigitsOfDecimal
      <4>3. DigitAt(s, d + j) = Nth(c, top - (d + j) + 1)
        BY <1>2, <2>1, <2>2, <4>1, DigitsOfDecimal
      <4>4. (leading - 1) - (e + j) + 1 = top - (d + j) + 1
        <5>1. \A x \in Int, y \in Int, z \in Int, k \in Int : (x - 1) - (y + k) + 1 = z - ((y + (z + 1 - x)) + k) + 1
          OBVIOUS
        <5>2. d = e + (top + 1 - leading)
          BY <2>5, <3>1
        <5> QED  BY <5>1, <5>2
      <4> QED  BY <3>2, <3>3, <4>2, <4>3, <4>4
    <3>5. Number[a] = Number[b]
      BY <3>4, SamePlaces
    <3> QED  BY <3>1, <3>2, <3>3, <3>5
  <2>8. m.exp \in Int
    BY <2>5
  <2> QED  BY <1>2, <2>4, <2>6, <2>7, <2>8 DEF m
<1> QED
  BY <1>1, <1>2

LEMMA ZerosBehind ==
    ASSUME NEW q \in Seq(Digit), NEW n \in Nat
    PROVE  q \o Zeros(n) \in Seq(Digit) /\ Number[q \o Zeros(n)] = Number[q] * Ten(n)
<1>1. n \in Int /\ (IF n > 0 THEN n ELSE 0) = n
  OBVIOUS
<1> QED
  BY <1>1, ZerosAround

LEMMA ShiftedDigits ==
    ASSUME NEW r \in Spellings, NEW f \in Nat, NEW x \in Int
    PROVE  [r EXCEPT !.fraction = f, !.exp = x]
             = [negative |-> r.negative, head |-> r.head, fraction |-> f, exp |-> x]
<1> DEFINE t == [r EXCEPT !.fraction = f, !.exp = x]
<1>1. t \in Spellings
  BY DEF Spellings
<1>2. t.negative = r.negative /\ t.head = r.head /\ t.fraction = f /\ t.exp = x
  BY DEF Spellings
<1> HIDE DEF t
<1>3. t = [negative |-> r.negative, head |-> r.head, fraction |-> f, exp |-> x]
  BY <1>1, <1>2 DEF Spellings
<1> QED
  BY <1>3 DEF t

\* The comparisons that find a number rounded.
LEMMA Compared ==
    ASSUME NEW n \in Spellings, NEW scale \in Int, NEW x \in Int, NEW places \in Nat, NEW v \in Nat,
           NEW t \in Nat \ {0}, NEW scaled, scaled = [n EXCEPT !.negative = FALSE, !.exp = @ + scale],
           x - places - t <= Scale(scaled),
           Rounded(v, Number[Aligned(scaled, x - places - t)], Ten(t))
    PROVE  Nearest(v, places, x, n, scale)
<1> DEFINE Half(k) == [Decimals(k) EXCEPT !.exp = x - places]
           twice == [Decimals(2 * NumberOf(n.head)) EXCEPT !.fraction = n.fraction, !.exp = n.exp + scale]
<1>1. PICK e \in Int : e = x - places - t /\ e <= Scale(scaled) /\ x - places - e = t
  <2>1. x - places - t \in Int /\ x - places - (x - places - t) = t
    OBVIOUS
  <2> QED  BY <2>1
<1>2. n.head \in Seq(Digit) /\ n.fraction \in Nat /\ n.exp \in Int
  BY SpellingFacts
<1>3. PICK h \in Nat : h = Number[n.head] /\ NumberOf(n.head) = h
  <2>1. Number[n.head] \in Nat
    BY <1>2, NumberReads DEF Reads
  <2> QED  BY <1>2, <2>1, NumberIs
<1>4. Scale(scaled) = (n.exp + scale) - n.fraction /\ scaled.head = n.head /\ Scale(scaled) \in Int
  <2>1. scaled = [negative |-> FALSE, head |-> n.head, fraction |-> n.fraction, exp |-> n.exp + scale]
    BY DEF Spellings
  <2> QED  BY <1>2, <2>1 DEF Scale
<1>5. PICK z \in Nat : z = Scale(scaled) - e
  <2>1. Scale(scaled) - e \in Nat
    BY <1>1, <1>4
  <2> QED  BY <2>1
<1>6. PICK m \in Nat : m = Number[Aligned(scaled, e)] /\ m = h * Ten(z)
  <2>1. Number[Aligned(scaled, e)] = Number[n.head] * Ten(z)
    <3>1. Aligned(scaled, e) = n.head \o Zeros(z)
      BY <1>4, <1>5 DEF Aligned
    <3>2. Number[n.head \o Zeros(z)] = Number[n.head] * Ten(z)
      BY <1>2, ZerosBehind
    <3> QED  BY <3>1, <3>2
  <2>2. h * Ten(z) \in Nat
    BY NextTen
  <2> QED  BY <1>3, <2>1, <2>2
<1>7. PICK u \in Nat \ {0} : u = Ten(t) /\ Rounded(v, m, u)
  <2>1. Ten(t) \in Nat \ {0}
    BY TenPositive
  <2> QED  BY <1>1, <1>6, <2>1
<1>8. twice \in Spellings /\ Scale(twice) = Scale(scaled) /\ ValueAt(twice, e) = 2 * m
  <2>1. PICK d \in Seq(Digit) : d = DecimalDigits[2 * h] /\ Number[d] = 2 * h
    <3>1. 2 * h \in Nat
      OBVIOUS
    <3> QED  BY <3>1, NumeralIs
  <2>2. twice = [negative |-> FALSE, head |-> d, fraction |-> n.fraction, exp |-> n.exp + scale]
    <3>1. (2 * h < 0) = FALSE /\ (IF 2 * h < 0 THEN -(2 * h) ELSE 2 * h) = 2 * h
      OBVIOUS
    <3>2. Decimals(2 * h) = [negative |-> 2 * h < 0, head |-> DecimalDigits[IF 2 * h < 0 THEN -(2 * h) ELSE 2 * h],
                             fraction |-> 0, exp |-> 0]
      BY DEF Decimals, Spelling
    <3>3. Decimals(2 * NumberOf(n.head)) = [negative |-> FALSE, head |-> d, fraction |-> 0, exp |-> 0]
      BY <1>3, <2>1, <3>1, <3>2
    <3> DEFINE r == Decimals(2 * NumberOf(n.head))
    <3>4. r = [negative |-> FALSE, head |-> d, fraction |-> 0, exp |-> 0]
      BY <3>3
    <3> HIDE DEF r
    <3>6. r \in Spellings /\ n.exp + scale \in Int
      BY <1>2, <3>4 DEF Spellings, Digit
    <3>5. [r EXCEPT !.fraction = n.fraction, !.exp = n.exp + scale]
            = [negative |-> FALSE, head |-> d, fraction |-> n.fraction, exp |-> n.exp + scale]
      BY <1>2, <3>4, <3>6, ShiftedDigits
    <3> QED  BY <3>5 DEF r
  <2> HIDE DEF twice
  <2>3. twice \in Spellings
    <3>1. n.exp + scale \in Int
      BY SMTT(40), <1>2
    <3> QED  BY <1>2, <2>2, <3>1 DEF Spellings, Digit
  <2>4. Scale(twice) = Scale(scaled) /\ twice.head = d /\ twice.negative = FALSE
    BY <1>4, <2>2 DEF Scale
  <2>5. Number[Aligned(twice, e)] = Number[d] * Ten(z)
    <3>1. Aligned(twice, e) = d \o Zeros(z)
      BY <1>5, <2>4 DEF Aligned
    <3>2. Number[d \o Zeros(z)] = Number[d] * Ten(z)
      BY ZerosBehind
    <3> QED  BY <3>1, <3>2
  <2>6. (2 * h) * Ten(z) = 2 * m
    <3>1. PICK y \in Nat : y = Ten(z)
      BY NextTen
    <3>2. (2 * h) * y = 2 * (h * y)
      OBVIOUS
    <3> QED  BY <1>6, <3>1, <3>2
  <2>7. ValueAt(twice, e) = 2 * m
    BY <2>1, <2>4, <2>5, <2>6 DEF ValueAt
  <2> QED  BY <2>3, <2>4, <2>7
<1>9. ASSUME NEW k \in Int PROVE Half(k) \in Spellings /\ Scale(Half(k)) = x - places /\ ValueAt(Half(k), e) = k * u
  <2>1. PICK a \in Nat : a = (IF k < 0 THEN -k ELSE k)
    <3>1. (IF k < 0 THEN -k ELSE k) \in Nat
      OBVIOUS
    <3> QED  BY <3>1
  <2>2. PICK d \in Seq(Digit) : d = DecimalDigits[a] /\ Number[d] = a
    BY NumeralIs
  <2>3. PICK g \in Spellings : g = Half(k) /\ g = [negative |-> k < 0, head |-> d, fraction |-> 0, exp |-> x - places]
    <3>1. Decimals(k) = [negative |-> k < 0, head |-> d, fraction |-> 0, exp |-> 0]
      BY <2>1, <2>2 DEF Decimals, Spelling
    <3>2. Half(k) = [negative |-> k < 0, head |-> d, fraction |-> 0, exp |-> x - places]
      BY SMTT(40), <3>1
    <3>3. (k < 0) \in BOOLEAN /\ x - places \in Int
      OBVIOUS
    <3>4. [negative |-> k < 0, head |-> d, fraction |-> 0, exp |-> x - places] \in Spellings
      BY <3>3 DEF Spellings, Digit
    <3> QED  BY <3>2, <3>4
  <2> HIDE DEF Half
  <2>4. Scale(g) = x - places /\ g.head = d /\ g.negative = (k < 0)
    BY <2>3 DEF Scale
  <2>5. Number[Aligned(g, e)] = a * u
    <3>1. Number[d \o Zeros(t)] = Number[d] * Ten(t)
      <4>1. t \in Nat
        OBVIOUS
      <4> QED  BY <4>1, ZerosBehind
    <3>2. Aligned(g, e) = d \o Zeros(t)
      BY <1>1, <2>4 DEF Aligned
    <3> QED  BY <1>7, <2>2, <3>1, <3>2
  <2>6. ValueAt(g, e) = IF k < 0 THEN -(a * u) ELSE a * u
    BY <2>4, <2>5 DEF ValueAt
  <2>7. (IF k < 0 THEN -(a * u) ELSE a * u) = k * u
    <3>1. k < 0 => -((-k) * u) = k * u
      BY SMTT(40)
    <3> QED  BY <2>1, <3>1
  <2> QED  BY <2>3, <2>4, <2>6, <2>7
<1> HIDE DEF Half, twice
<1>10. e <= x - places
  BY <1>1
<1>11. CompareText(Half(2 * v - 1), twice) = Sign((2 * v - 1) * u - 2 * m)
  <2>1. 2 * v - 1 \in Int
    OBVIOUS
  <2>2. PICK g \in Spellings : g = Half(2 * v - 1) /\ Scale(g) = x - places /\ ValueAt(g, e) = (2 * v - 1) * u
    BY <1>9, <2>1
  <2> QED  BY <1>1, <1>8, <1>10, <2>2, ComparesNumbers
<1>12. CompareText(twice, Half(2 * v + 1)) = Sign(2 * m - (2 * v + 1) * u)
  <2>1. 2 * v + 1 \in Int
    OBVIOUS
  <2>2. PICK g \in Spellings : g = Half(2 * v + 1) /\ Scale(g) = x - places /\ ValueAt(g, e) = (2 * v + 1) * u
    BY <1>9, <2>1
  <2> QED  BY <1>1, <1>8, <1>10, <2>2, ComparesNumbers
<1>13. PICK i \in Int, j \in Int : i = (2 * v - 1) * u /\ j = (2 * v + 1) * u
  <2>1. (2 * v - 1) * u \in Int /\ (2 * v + 1) * u \in Int
    OBVIOUS
  <2> QED  BY <2>1
<1>14. i <= 2 * m /\ 2 * m <= j /\ (i = 2 * m \/ 2 * m = j => v % 2 = 0)
  BY <1>7, <1>13 DEF Rounded
<1>15. \A y \in Int : (Sign(y) <= 0 <=> y <= 0) /\ (Sign(y) = 0 <=> y = 0)
  BY DEF Sign
<1>16. /\ CompareText(Half(2 * v - 1), twice) <= 0 /\ CompareText(twice, Half(2 * v + 1)) <= 0
       /\ CompareText(Half(2 * v - 1), twice) = 0 \/ CompareText(twice, Half(2 * v + 1)) = 0 => v % 2 = 0
  <2>1. i - 2 * m \in Int /\ 2 * m - j \in Int /\ i - 2 * m <= 0 /\ 2 * m - j <= 0
    BY <1>14
  <2>2. (i - 2 * m = 0 <=> i = 2 * m) /\ (2 * m - j = 0 <=> 2 * m = j)
    OBVIOUS
  <2> QED  BY <1>11, <1>12, <1>13, <1>14, <1>15, <2>1, <2>2
<1> QED
  BY <1>16 DEF Half, twice, Nearest

-----------------------------------------------------------------------------
(* Reading a text.                                                         *)

\* The characters of pictures and of results.
PictureChars == STRING \ {"digit"}
Glyphs == (PictureChars \cup {"digit", ",", ".", "e", "-"}) \X Digit
Said == [int : Seq(Digit), frac : Seq(Digit), exp : Seq(Digit), minus : BOOLEAN, at : {"int", "frac", "exp"}]

\* The reader after some digits.
With(said, digits) ==
    [int |-> IF said.at = "int" THEN said.int \o digits ELSE said.int,
     frac |-> IF said.at = "frac" THEN said.frac \o digits ELSE said.frac,
     exp |-> IF said.at = "exp" THEN said.exp \o digits ELSE said.exp,
     minus |-> said.minus, at |-> said.at]

LEMMA PairIs ==
    ASSUME NEW A, NEW B, NEW c \in A \X B
    PROVE  c = <<c[1], c[2]>> /\ c[1] \in A /\ c[2] \in B
  OBVIOUS

LEMMA SaidFacts ==
    ASSUME NEW said \in Said
    PROVE  /\ said.int \in Seq(Digit) /\ said.frac \in Seq(Digit) /\ said.exp \in Seq(Digit)
           /\ said.minus \in BOOLEAN /\ said.at \in {"int", "frac", "exp"}
           /\ said = [int |-> said.int, frac |-> said.frac, exp |-> said.exp, minus |-> said.minus, at |-> said.at]
  BY DEF Said

LEMMA WithType ==
    ASSUME NEW said \in Said, NEW digits \in Seq(Digit)
    PROVE  With(said, digits) \in Said
<1>1. said.int \o digits \in Seq(Digit) /\ said.frac \o digits \in Seq(Digit) /\ said.exp \o digits \in Seq(Digit)
  BY SaidFacts, ConcatProperties
<1> QED
  BY <1>1, SaidFacts DEF With, Said

LEMMA WithMore ==
    ASSUME NEW said \in Said, NEW a \in Seq(Digit), NEW b \in Seq(Digit)
    PROVE  With(With(said, a), b) = With(said, a \o b) /\ With(said, <<>>) = said
<1>0. \A q \in Seq(Digit) : (q \o a) \o b = q \o (a \o b)
  BY ConcatAssociative
<1>1. /\ (said.int \o a) \o b = said.int \o (a \o b) /\ (said.frac \o a) \o b = said.frac \o (a \o b)
      /\ (said.exp \o a) \o b = said.exp \o (a \o b)
  BY <1>0, SaidFacts
<1>2. said.int \o <<>> = said.int /\ said.frac \o <<>> = said.frac /\ said.exp \o <<>> = said.exp
  BY SaidFacts, ConcatEmptySeq
<1>3. With(With(said, a), b) = With(said, a \o b)
  BY <1>1 DEF With
<1>4. With(said, <<>>) = said
  BY <1>2, SaidFacts DEF With
<1> QED
  BY <1>3, <1>4

LEMMA OneField ==
    ASSUME NEW said \in Said, NEW q \in Seq(Digit), NEW b \in BOOLEAN, NEW x \in {"int", "frac", "exp"}
    PROVE  /\ [said EXCEPT !.int = q]
                = [int |-> q, frac |-> said.frac, exp |-> said.exp, minus |-> said.minus, at |-> said.at]
           /\ [said EXCEPT !.frac = q]
                = [int |-> said.int, frac |-> q, exp |-> said.exp, minus |-> said.minus, at |-> said.at]
           /\ [said EXCEPT !.exp = q]
                = [int |-> said.int, frac |-> said.frac, exp |-> q, minus |-> said.minus, at |-> said.at]
           /\ [said EXCEPT !.minus = b]
                = [int |-> said.int, frac |-> said.frac, exp |-> said.exp, minus |-> b, at |-> said.at]
           /\ [said EXCEPT !.at = x]
                = [int |-> said.int, frac |-> said.frac, exp |-> said.exp, minus |-> said.minus, at |-> x]
<1> DEFINE i == [said EXCEPT !.int = q]
           f == [said EXCEPT !.frac = q]
           e == [said EXCEPT !.exp = q]
           m == [said EXCEPT !.minus = b]
           a == [said EXCEPT !.at = x]
<1>1. i \in Said /\ i.int = q /\ i.frac = said.frac /\ i.exp = said.exp /\ i.minus = said.minus /\ i.at = said.at
  BY DEF Said
<1>2. f \in Said /\ f.int = said.int /\ f.frac = q /\ f.exp = said.exp /\ f.minus = said.minus /\ f.at = said.at
  BY DEF Said
<1>3. e \in Said /\ e.int = said.int /\ e.frac = said.frac /\ e.exp = q /\ e.minus = said.minus /\ e.at = said.at
  BY DEF Said
<1>4. m \in Said /\ m.int = said.int /\ m.frac = said.frac /\ m.exp = said.exp /\ m.minus = b /\ m.at = said.at
  BY DEF Said
<1>5. a \in Said /\ a.int = said.int /\ a.frac = said.frac /\ a.exp = said.exp /\ a.minus = said.minus /\ a.at = x
  BY DEF Said
<1> HIDE DEF i, f, e, m, a
<1>6. i = [int |-> q, frac |-> said.frac, exp |-> said.exp, minus |-> said.minus, at |-> said.at]
  BY <1>1, SaidFacts
<1>7. f = [int |-> said.int, frac |-> q, exp |-> said.exp, minus |-> said.minus, at |-> said.at]
  BY <1>2, SaidFacts
<1>8. e = [int |-> said.int, frac |-> said.frac, exp |-> q, minus |-> said.minus, at |-> said.at]
  BY <1>3, SaidFacts
<1>9. m = [int |-> said.int, frac |-> said.frac, exp |-> said.exp, minus |-> b, at |-> said.at]
  BY <1>4, SaidFacts
<1>10. a = [int |-> said.int, frac |-> said.frac, exp |-> said.exp, minus |-> said.minus, at |-> x]
  BY <1>5, SaidFacts
<1> QED
  BY <1>6, <1>7, <1>8, <1>9, <1>10 DEF i, f, e, m, a

\* What one character does.
LEMMA ReadDigit ==
    ASSUME NEW said \in Said, NEW d \in Digit
    PROVE  ReadChar(said, <<"digit", d>>) = With(said, <<d>>)
<1> DEFINE t == [said EXCEPT ![said.at] = Append(@, d)]
<1>1. ReadChar(said, <<"digit", d>>) = t
  BY DEF ReadChar
<1>2. /\ Append(said.int, d) = said.int \o <<d>> /\ Append(said.frac, d) = said.frac \o <<d>>
      /\ Append(said.exp, d) = said.exp \o <<d>>
  BY SaidFacts, AppendIsConcat
<1>4. Append(said.int, d) \in Seq(Digit) /\ Append(said.frac, d) \in Seq(Digit) /\ Append(said.exp, d) \in Seq(Digit)
  BY SaidFacts, AppendProperties
<1>3. t = With(said, <<d>>)
  <2>1. CASE said.at = "int"
    <3>1. t = [said EXCEPT !.int = Append(said.int, d)]
      BY <2>1
    <3> HIDE DEF t
    <3>2. t = [int |-> Append(said.int, d), frac |-> said.frac, exp |-> said.exp, minus |-> said.minus, at |-> said.at]
      BY <1>4, <3>1, OneField
    <3> QED  BY <1>2, <2>1, <3>2 DEF With
  <2>2. CASE said.at = "frac"
    <3>1. t = [said EXCEPT !.frac = Append(said.frac, d)]
      BY <2>2
    <3> HIDE DEF t
    <3>2. t = [int |-> said.int, frac |-> Append(said.frac, d), exp |-> said.exp, minus |-> said.minus, at |-> said.at]
      BY <1>4, <3>1, OneField
    <3> QED  BY <1>2, <2>2, <3>2 DEF With
  <2>3. CASE said.at = "exp"
    <3>1. t = [said EXCEPT !.exp = Append(said.exp, d)]
      BY <2>3
    <3> HIDE DEF t
    <3>2. t = [int |-> said.int, frac |-> said.frac, exp |-> Append(said.exp, d), minus |-> said.minus, at |-> said.at]
      BY <1>4, <3>1, OneField
    <3> QED  BY <1>2, <2>3, <3>2 DEF With
  <2> QED  BY <2>1, <2>2, <2>3, SaidFacts
<1> QED
  BY <1>1, <1>3

LEMMA ReadOther ==
    ASSUME NEW said \in Said, NEW c, NEW d
    PROVE  /\ c = "." => ReadChar(said, <<c, d>>) = [said EXCEPT !.at = "frac"]
           /\ c = "e" => ReadChar(said, <<c, d>>) = [said EXCEPT !.at = "exp"]
           /\ c = "-" /\ said.at = "exp" /\ said.exp = <<>> => ReadChar(said, <<c, d>>) = [said EXCEPT !.minus = TRUE]
           /\ c \notin {"digit", ".", "e"} /\ (c = "-" => said.at # "exp" \/ said.exp # <<>>)
                => ReadChar(said, <<c, d>>) = said
  BY DEF ReadChar

ReadStep == [p \in Said \X Glyphs |-> ReadChar(p[1], p[2])]

LEMMA ReadStepType ==
    /\ ReadStep \in Steps(Said, Glyphs) /\ Unread \in Said
    /\ \A said \in Said, c \in Glyphs : ReadStep[<<said, c>>] = ReadChar(said, c)
<1>1. ASSUME NEW said \in Said, NEW c \in Glyphs PROVE ReadChar(said, c) \in Said
  <2>1. PICK k, d : c = <<k, d>> /\ d \in Digit
    <3>1. c = <<c[1], c[2]>> /\ c[2] \in Digit
      BY PairIs DEF Glyphs
    <3> QED  BY <3>1
  <2>2. CASE k = "digit"
    <3>1. <<d>> \in Seq(Digit)
      BY <2>1
    <3> QED  BY <2>1, <2>2, <3>1, ReadDigit, WithType
  <2>3. CASE k # "digit"
    <3>1. ReadChar(said, c) \in {said, [said EXCEPT !.at = "frac"], [said EXCEPT !.at = "exp"], [said EXCEPT !.minus = TRUE]}
      BY <2>1, <2>3, ReadOther
    <3>2. [said EXCEPT !.at = "frac"] \in Said /\ [said EXCEPT !.at = "exp"] \in Said /\ [said EXCEPT !.minus = TRUE] \in Said
      BY DEF Said
    <3> QED  BY <3>1, <3>2
  <2> QED  BY <2>2, <2>3
<1>2. Unread \in Said
  BY EmptySeq DEF Unread, Said
<1>3. ReadStep \in Steps(Said, Glyphs)
  BY <1>1 DEF ReadStep, Steps
<1>4. \A said \in Said, c \in Glyphs : ReadStep[<<said, c>>] = ReadChar(said, c)
  BY DEF ReadStep
<1> QED
  BY <1>2, <1>3, <1>4

\* What a reader makes of a text.
LEMMA ReadingIs ==
    ASSUME NEW q \in Seq(Glyphs)
    PROVE  Reading(q) = Along(ReadStep, Unread, q)
<1> DEFINE D == DOMAIN q
           IsIt(it) == it = [s \in SUBSET D |->
                               IF s = {} THEN Unread ELSE LET x == Max(s) IN ReadChar(it[s \ {x}], q[x])]
           iter == CHOOSE it : IsIt(it)
<1>1. /\ D = 1 .. Len(q) /\ Len(q) \in Nat
      /\ \A i \in 1 .. Len(q) : q[i] \in Glyphs
  <2> DEFINE X == Glyphs
  <2>1. q \in Seq(X)
    OBVIOUS
  <2> HIDE DEF X
  <2>2. \A i \in 1 .. Len(q) : q[i] \in X
    BY <2>1, ElementOfSeq
  <2>3. D = 1 .. Len(q) /\ Len(q) \in Nat
    BY <2>1
  <2> QED  BY <2>2, <2>3 DEF X
<1>2. Reading(q) = iter[D]
  BY DEF Reading, FoldLeft, MapThenFoldSet
<1>3. PICK h \in [SUBSET (1 .. Len(q)) -> Said] : Folds(ReadStep, Unread, q, Len(q), h)
  <2> DEFINE V == Said
  <2>1. ReadStep \in Steps(V, Glyphs) /\ Unread \in V
    BY ReadStepType
  <2> HIDE DEF V
  <2>2. \E h \in [SUBSET (1 .. Len(q)) -> V] : Folds(ReadStep, Unread, q, Len(q), h)
    BY <2>1, FoldExists
  <2> QED  BY <2>2 DEF V
<1>4. IsIt(h)
  <2>1. ASSUME NEW s \in SUBSET D
        PROVE  h[s] = IF s = {} THEN Unread ELSE LET x == Max(s) IN ReadChar(h[s \ {x}], q[x])
    <3>1. CASE s # {}
      <4>1. Max(s) \in s
        BY <1>1, <3>1, GreatestIndex
      <4>2. q[Max(s)] \in Glyphs /\ h[s \ {Max(s)}] \in Said
        BY <1>1, <1>3, <4>1
      <4>3. h[s] = ReadStep[<<h[s \ {Max(s)}], q[Max(s)]>>]
        BY <1>1, <1>3, <3>1 DEF Folds
      <4>4. ReadStep[<<h[s \ {Max(s)}], q[Max(s)]>>] = ReadChar(h[s \ {Max(s)}], q[Max(s)])
        BY <4>2, ReadStepType
      <4> QED  BY <3>1, <4>3, <4>4
    <3>2. CASE s = {}
      BY <1>1, <1>3, <3>2 DEF Folds
    <3> QED  BY <3>1, <3>2
  <2> QED  BY <1>1, <1>3, <2>1
<1>5. IsIt(iter)
  <2> HIDE DEF IsIt
  <2> QED  BY <1>4
<1> HIDE DEF iter
<1>6. iter[{}] = Unread
  BY <1>5
<1>7. ASSUME NEW k \in 1 .. Len(q), iter[1 .. k - 1] \in Said
      PROVE  iter[1 .. k] = ReadStep[<<iter[1 .. k - 1], q[k]>>]
  <2>1. 1 .. k \in SUBSET D /\ 1 .. k # {}
    <3>1. k \in 1 .. k /\ \A j \in 1 .. k : j \in 1 .. Len(q)
      BY <1>1
    <3>2. D = 1 .. Len(q)
      BY <1>1
    <3> HIDE DEF D
    <3> QED  BY <3>1, <3>2
  <2>2. PICK s \in SUBSET D : s = 1 .. k
    BY <2>1
  <2>3. iter[s] = ReadChar(iter[s \ {Max(s)}], q[Max(s)])
    BY <1>5, <2>1, <2>2
  <2>4. Max(s) = k /\ s \ {k} = 1 .. k - 1
    BY <1>1, <2>2, GreatestOfInterval
  <2>5. iter[1 .. k] = ReadChar(iter[1 .. k - 1], q[k])
    BY <2>2, <2>3, <2>4
  <2>6. q[k] \in Glyphs
    BY <1>1
  <2> QED  BY <1>7, <2>5, <2>6, ReadStepType
<1>8. iter[1 .. Len(q)] = Along(ReadStep, Unread, q)
  <2> DEFINE V == Said
  <2>1. ReadStep \in Steps(V, Glyphs) /\ Unread \in V
    BY ReadStepType
  <2>2. \A k \in 1 .. Len(q) : iter[1 .. k - 1] \in V => iter[1 .. k] = ReadStep[<<iter[1 .. k - 1], q[k]>>]
    BY <1>7
  <2> HIDE DEF V
  <2> QED  BY <1>6, <2>1, <2>2, FoldRuns
<1> QED
  BY <1>1, <1>2, <1>8

\* A text that says some digits, wherever it is read.
Says(text, digits) ==
    /\ text \in Seq(Glyphs) /\ digits \in Seq(Digit)
    /\ \A said \in Said : Along(ReadStep, said, text) = With(said, digits)

LEMMA SaysNothing == Says(<<>>, <<>>)
<1>1. <<>> \in Seq(Glyphs) /\ <<>> \in Seq(Digit)
  BY EmptySeq
<1>2. ASSUME NEW said \in Said PROVE Along(ReadStep, said, <<>>) = With(said, <<>>)
  BY <1>1, AlongEmpty, WithMore
<1> QED
  BY <1>1, <1>2 DEF Says

LEMMA SaysBoth ==
    ASSUME NEW a, NEW x, NEW b, NEW y, Says(a, x), Says(b, y)
    PROVE  Says(a \o b, x \o y)
<1>1. a \in Seq(Glyphs) /\ b \in Seq(Glyphs) /\ x \in Seq(Digit) /\ y \in Seq(Digit)
  BY DEF Says
<1>2. a \o b \in Seq(Glyphs) /\ x \o y \in Seq(Digit)
  BY <1>1, ConcatProperties
<1>3. ASSUME NEW said \in Said PROVE Along(ReadStep, said, a \o b) = With(said, x \o y)
  <2>1. Along(ReadStep, said, a \o b) = Along(ReadStep, Along(ReadStep, said, a), b)
    BY <1>1, ReadStepType, AlongConcat
  <2>2. Along(ReadStep, said, a) = With(said, x) /\ With(said, x) \in Said
    BY <1>1, WithType DEF Says
  <2>3. Along(ReadStep, With(said, x), b) = With(With(said, x), y)
    BY <2>2 DEF Says
  <2>4. With(With(said, x), y) = With(said, x \o y)
    BY <1>1, WithMore
  <2> QED  BY <2>1, <2>2, <2>3, <2>4
<1> QED
  BY <1>2, <1>3 DEF Says

LEMMA SaysDigit ==
    ASSUME NEW d \in Digit
    PROVE  Says(<< <<"digit", d>> >>, <<d>>) /\ Says(Comma, <<>>)
<1>0. 0 \in Digit
  BY DEF Digit
<1>1. <<"digit", d>> \in Glyphs /\ <<",", 0>> \in Glyphs
  BY <1>0 DEF Glyphs
<1>2. << <<"digit", d>> >> \in Seq(Glyphs) /\ <<d>> \in Seq(Digit) /\ << <<",", 0>> >> \in Seq(Glyphs) /\ <<>> \in Seq(Digit)
  <2>1. \A g \in Glyphs : <<g>> \in Seq(Glyphs)
    OBVIOUS
  <2>2. <<d>> \in Seq(Digit) /\ <<>> \in Seq(Digit)
    BY EmptySeq
  <2> QED  BY <1>1, <2>1, <2>2
<1>3. ASSUME NEW said \in Said PROVE Along(ReadStep, said, << <<"digit", d>> >>) = With(said, <<d>>)
  <2>1. Along(ReadStep, said, << <<"digit", d>> >>) = ReadStep[<<said, <<"digit", d>> >>]
    <3>1. ReadStep \in Steps(Said, Glyphs)
      BY ReadStepType
    <3>2. ASSUME NEW g \in Glyphs PROVE Along(ReadStep, said, <<g>>) = ReadStep[<<said, g>>]
      BY <3>1, AlongOne
    <3> QED  BY <1>1, <3>2
  <2> QED  BY <1>1, <2>1, ReadStepType, ReadDigit
<1>4. ASSUME NEW said \in Said PROVE Along(ReadStep, said, << <<",", 0>> >>) = With(said, <<>>)
  <2>1. Along(ReadStep, said, << <<",", 0>> >>) = ReadStep[<<said, <<",", 0>> >>]
    <3>1. ReadStep \in Steps(Said, Glyphs)
      BY ReadStepType
    <3>2. ASSUME NEW g \in Glyphs PROVE Along(ReadStep, said, <<g>>) = ReadStep[<<said, g>>]
      BY <3>1, AlongOne
    <3> QED  BY <1>1, <3>2
  <2>2. ReadChar(said, <<",", 0>>) = said
    BY DEF ReadChar
  <2>3. With(said, <<>>) = said
    BY <1>2, WithMore
  <2> QED  BY <1>1, <2>1, <2>2, <2>3, ReadStepType
<1> QED
  BY <1>2, <1>3, <1>4 DEF Says, Comma

\* A row of digits is read as it is.
LEMMA DigitCharsSay ==
    ASSUME NEW digits \in Seq(Digit)
    PROVE  Says(DigitChars(digits), digits)
<1> DEFINE T == {k \in Nat : \E r \in Seq(Digit) : Len(r) = k /\ ~Says(DigitChars(r), r)}
<1>1. ASSUME T # {} PROVE FALSE
  <2>1. PICK m \in T : \A k \in T : m <= k
    <3>1. T \subseteq Nat
      OBVIOUS
    <3> HIDE DEF T
    <3> QED  BY <1>1, <3>1, LeastNatural
  <2>2. PICK r \in Seq(Digit) : Len(r) = m /\ ~Says(DigitChars(r), r)
    OBVIOUS
  <2>3. CASE r = <<>>
    <3>1. DigitChars(<<>>) = <<>>
      BY DEF DigitChars
    <3> QED  BY <2>2, <2>3, <3>1, SaysNothing
  <2>4. CASE r # <<>>
    <3>1. PICK f \in Seq(Digit), d \in Digit : r = Append(f, d) /\ Len(f) = m - 1 /\ m - 1 \in Nat /\ m - 1 < m
      <4> DEFINE f == SubSeq(r, 1, Len(r) - 1)
                 d == r[Len(r)]
      <4>1. f \in Seq(Digit) /\ d \in Digit /\ Len(f) = Len(r) - 1 /\ r = Append(f, d) /\ Len(r) \in Nat \ {0}
        BY <2>4, FrontAndLast
      <4> HIDE DEF f, d
      <4>2. Len(f) = m - 1 /\ m - 1 \in Nat /\ m - 1 < m
        BY <2>2, <4>1
      <4> QED  BY <4>1, <4>2
    <3>2. Says(DigitChars(f), f)
      <4>1. m - 1 \notin T
        <5>1. m \in Nat
          OBVIOUS
        <5> HIDE DEF T
        <5> QED  BY <2>1, <3>1, <5>1
      <4> QED  BY <3>1, <4>1
    <3>3. DigitChars(r) = DigitChars(f) \o << <<"digit", d>> >> /\ r = f \o <<d>>
      <4>1. PICK g \in Glyphs : g = <<"digit", d>>
        <5>1. <<"digit", d>> \in Glyphs
          BY DEF Glyphs
        <5> QED  BY <5>1
      <4>2. PICK a \in Seq(Glyphs) : a = DigitChars(f) /\ Len(a) = m - 1 /\ \A i \in 1 .. m - 1 : a[i] = <<"digit", f[i]>>
        <5>1. DigitChars(f) = [i \in 1 .. m - 1 |-> <<"digit", f[i]>>]
          BY <3>1 DEF DigitChars
        <5>2. ASSUME NEW i \in 1 .. m - 1 PROVE <<"digit", f[i]>> \in Glyphs
          <6>1. f[i] \in Digit
            BY <3>1, ElementOfSeq
          <6> QED  BY <6>1 DEF Glyphs
        <5>3. [i \in 1 .. m - 1 |-> <<"digit", f[i]>>] \in [1 .. m - 1 -> Glyphs]
          BY <5>2
        <5> DEFINE h == [i \in 1 .. m - 1 |-> <<"digit", f[i]>>]
        <5>4. h \in Seq(Glyphs) /\ Len(h) = m - 1
          <6>1. h \in [1 .. m - 1 -> Glyphs]
            BY <5>3
          <6> HIDE DEF h
          <6> QED  BY <3>1, <6>1, FunctionIsSeq
        <5>5. \A i \in 1 .. m - 1 : h[i] = <<"digit", f[i]>>
          OBVIOUS
        <5> QED  BY <5>1, <5>4, <5>5
      <4>3. PICK b \in Seq(Glyphs) : b = Append(a, g) /\ Len(b) = m /\ (\A i \in 1 .. m - 1 : b[i] = a[i]) /\ b[m] = g
        <5>1. /\ Append(a, g) \in Seq(Glyphs) /\ Len(Append(a, g)) = Len(a) + 1
              /\ (\A i \in 1 .. Len(a) : Append(a, g)[i] = a[i]) /\ Append(a, g)[Len(a) + 1] = g
          BY PlainAppend
        <5>2. (m - 1) + 1 = m
          BY <3>1
        <5> QED  BY <4>2, <5>1, <5>2
      <4>4. PICK c : c = DigitChars(r) /\ c = [i \in 1 .. m |-> <<"digit", r[i]>>]
        <5>1. DOMAIN r = 1 .. m
          BY <2>2
        <5>2. DigitChars(r) = [i \in 1 .. m |-> <<"digit", r[i]>>]
          BY <5>1 DEF DigitChars
        <5> QED  BY <5>2
      <4>5. (\A i \in 1 .. m - 1 : r[i] = f[i]) /\ r[m] = d
        <5>1. Len(f) + 1 = m
          BY <3>1
        <5>2. (\A i \in 1 .. Len(f) : Append(f, d)[i] = f[i]) /\ Append(f, d)[Len(f) + 1] = d
          BY PlainAppend
        <5> QED  BY <3>1, <5>1, <5>2
      <4>6. \A i \in 1 .. m : c[i] = b[i]
        <5>1. ASSUME NEW i \in 1 .. m PROVE c[i] = b[i]
          <6>1. CASE i \in 1 .. m - 1
            BY <4>2, <4>3, <4>4, <4>5, <6>1
          <6>2. CASE i = m
            BY <4>1, <4>3, <4>4, <4>5, <6>2
          <6> QED  BY <3>1, <6>1, <6>2
        <5> QED  BY <5>1
      <4>7. c = b
        <5>1. ASSUME NEW i \in 1 .. m PROVE b[i] \in Glyphs
          BY <4>3, ElementOfSeq
        <5>2. c \in [1 .. m -> Glyphs]
          BY <4>4, <4>6, <5>1
        <5>3. c \in Seq(Glyphs) /\ Len(c) = m
          BY <3>1, <5>2, FunctionIsSeq
        <5> QED  BY <4>3, <4>6, <5>3, SeqEqual
      <4>8. Append(a, g) = a \o <<g>> /\ Append(f, d) = f \o <<d>>
        BY AppendIsConcat
      <4> QED  BY <3>1, <4>1, <4>2, <4>3, <4>4, <4>7, <4>8
    <3>4. Says(DigitChars(f) \o << <<"digit", d>> >>, f \o <<d>>)
      BY <3>2, SaysDigit, SaysBoth
    <3> QED  BY <2>2, <3>3, <3>4
  <2> QED  BY <2>3, <2>4
<1>2. Len(digits) \in Nat
  OBVIOUS
<1> QED
  BY <1>1, <1>2

\* Blocks of which each says one digit.
LEMMA BlocksSay ==
    ASSUME NEW digits \in Seq(Digit), NEW seqs, seqs \in Seq(Seq(Glyphs)), Len(seqs) = Len(digits),
           \A i \in 1 .. Len(digits) : Says(seqs[i], <<digits[i]>>)
    PROVE  Says(FlattenSeq(seqs), digits)
<1>1. PICK n \in Nat : n = Len(digits)
  OBVIOUS
<1>2. CASE n = 0
  <2>1. digits = <<>> /\ seqs = <<>>
    BY <1>1, <1>2, EmptySeq
  <2>2. FlattenSeq(seqs) = <<>>
    BY <2>1 DEF FlattenSeq
  <2> QED  BY <2>1, <2>2, SaysNothing
<1>3. CASE n # 0
  <2>1. seqs # <<>>
    BY <1>1, <1>3
  <2>2. PICK g \in [0 .. Len(seqs) -> Seq(Glyphs)] :
          /\ g[0] = <<>>
          /\ \A i \in 1 .. Len(seqs) : g[i] = g[i - 1] \o seqs[i]
          /\ FlattenSeq(seqs) = g[Len(seqs)]
    BY <2>1, FlattenSeqRuns
  <2> DEFINE T == {i \in Nat : i <= n /\ ~Says(g[i], SubSeq(digits, 1, i))}
  <2>3. ASSUME T # {} PROVE FALSE
    <3>1. PICK m \in T : \A k \in T : m <= k
      <4>1. T \subseteq Nat
        OBVIOUS
      <4> HIDE DEF T
      <4> QED  BY <2>3, <4>1, LeastNatural
    <3>2. CASE m = 0
      <4>1. SubSeq(digits, 1, 0) = <<>>
        BY SubSeqEmpty
      <4> QED  BY <2>2, <3>2, <4>1, SaysNothing
    <3>3. CASE m # 0
      <4>1. m - 1 \in Nat /\ m - 1 <= n /\ m - 1 < m /\ m \in 1 .. n
        BY <1>1, <3>3
      <4>2. Says(g[m - 1], SubSeq(digits, 1, m - 1))
        BY <3>1, <4>1
      <4>3. g[m] = g[m - 1] \o seqs[m] /\ Says(seqs[m], <<digits[m]>>)
        BY <1>1, <2>2, <4>1
      <4>4. SubSeq(digits, 1, m) = SubSeq(digits, 1, m - 1) \o <<digits[m]>>
        <5>1. 1 \in 1 .. Len(digits) /\ m \in 1 .. Len(digits)
          BY <1>1, <4>1
        <5> QED  BY <5>1, SubSeqRecursiveSecond
      <4>5. Says(g[m], SubSeq(digits, 1, m))
        BY <4>2, <4>3, <4>4, SaysBoth
      <4> QED  BY <4>5
    <3> QED  BY <3>2, <3>3
  <2>4. Says(g[n], SubSeq(digits, 1, n))
    BY <1>1, <2>3
  <2>5. SubSeq(digits, 1, n) = digits
    BY <1>1, SubSeqFull
  <2> QED  BY <1>1, <2>2, <2>4, <2>5
<1> QED
  BY <1>2, <1>3

\* Separators are not read.
LEMMA GroupingsSay ==
    ASSUME NEW digits \in Seq(Digit), NEW groups, NEW at
    PROVE  Says(applyIntGrouping(digits, groups), digits) /\ Says(applyFracGrouping(digits, at), digits)
<1>1. PICK n \in Nat : n = Len(digits) /\ DOMAIN digits = 1 .. n
  OBVIOUS
<1>2. ASSUME NEW i \in 1 .. n
      PROVE  Says(DigitChars(<<digits[i]>>), <<digits[i]>>) /\ <<digits[i]>> \in Seq(Digit)
  <2>1. digits[i] \in Digit
    BY <1>1, ElementOfSeq
  <2>2. <<digits[i]>> \in Seq(Digit)
    BY <2>1
  <2> QED  BY <2>2, DigitCharsSay
<1>3. Says(Comma, <<>>)
  <2>1. 0 \in Digit
    BY DEF Digit
  <2> QED  BY <2>1, SaysDigit
<1>4. ASSUME NEW a, NEW d, Says(a, <<d>>), <<d>> \in Seq(Digit)
      PROVE  /\ Says(Comma \o a, <<d>>) /\ Says(<<>> \o a, <<d>>)
             /\ Says(a \o Comma, <<d>>) /\ Says(a \o <<>>, <<d>>)
  <2>1. <<>> \o <<d>> = <<d>> /\ <<d>> \o <<>> = <<d>>
    BY <1>4, ConcatEmptySeq
  <2>2. /\ Says(Comma \o a, <<>> \o <<d>>) /\ Says(<<>> \o a, <<>> \o <<d>>)
        /\ Says(a \o Comma, <<d>> \o <<>>) /\ Says(a \o <<>>, <<d>> \o <<>>)
    BY <1>3, <1>4, SaysNothing, SaysBoth
  <2> QED  BY <2>1, <2>2
<1>5. ASSUME NEW s, \A i \in 1 .. n : Says(s[i], <<digits[i]>>), s = [i \in 1 .. n |-> s[i]]
      PROVE  Says(FlattenSeq(s), digits)
  <2>1. \A i \in 1 .. n : s[i] \in Seq(Glyphs)
    BY <1>5 DEF Says
  <2>2. s \in [1 .. n -> Seq(Glyphs)]
    BY <1>5, <2>1
  <2>3. s \in Seq(Seq(Glyphs)) /\ Len(s) = n
    BY <2>2, FunctionIsSeq
  <2> QED  BY <1>1, <1>5, <2>3, BlocksSay
<1>6. Says(applyIntGrouping(digits, groups), digits)
  <2> DEFINE At == IF groups = <<>> THEN {} ELSE computeIntGroupPositions(groups, Len(digits))
             B(i) == (IF Len(digits) - i + 1 \in At THEN Comma ELSE <<>>) \o DigitChars(<<digits[i]>>)
             s == [i \in 1 .. n |-> B(i)]
  <2>1. applyIntGrouping(digits, groups) = FlattenSeq(s)
    BY <1>1 DEF applyIntGrouping
  <2>2. ASSUME NEW i \in 1 .. n PROVE Says(B(i), <<digits[i]>>)
    <3> HIDE DEF At
    <3>1. CASE Len(digits) - i + 1 \in At
      BY <1>2, <1>4, <3>1
    <3>2. CASE Len(digits) - i + 1 \notin At
      BY <1>2, <1>4, <3>2
    <3> QED  BY <3>1, <3>2
  <2> HIDE DEF B
  <2>3. \A i \in 1 .. n : s[i] = B(i)
    OBVIOUS
  <2>4. s = [i \in 1 .. n |-> s[i]]
    OBVIOUS
  <2> HIDE DEF s
  <2> QED  BY <1>5, <2>1, <2>2, <2>3, <2>4
<1>7. Says(applyFracGrouping(digits, at), digits)
  <2> DEFINE B(i) == DigitChars(<<digits[i]>>) \o (IF i \in at /\ i < Len(digits) THEN Comma ELSE <<>>)
             s == [i \in 1 .. n |-> B(i)]
  <2>1. applyFracGrouping(digits, at) = FlattenSeq(s)
    BY <1>1 DEF applyFracGrouping
  <2>2. ASSUME NEW i \in 1 .. n PROVE Says(B(i), <<digits[i]>>)
    <3>1. CASE i \in at /\ i < Len(digits)
      BY <1>2, <1>4, <3>1
    <3>2. CASE ~(i \in at /\ i < Len(digits))
      BY <1>2, <1>4, <3>2
    <3> QED  BY <3>1, <3>2
  <2> HIDE DEF B
  <2>3. \A i \in 1 .. n : s[i] = B(i)
    OBVIOUS
  <2>4. s = [i \in 1 .. n |-> s[i]]
    OBVIOUS
  <2> HIDE DEF s
  <2> QED  BY <1>5, <2>1, <2>2, <2>3, <2>4
<1> QED
  BY <1>6, <1>7

\* What the reader has after a text.
After(text) == Along(ReadStep, Unread, text)

LEMMA AfterMore ==
    ASSUME NEW a \in Seq(Glyphs), NEW b \in Seq(Glyphs)
    PROVE  /\ After(a) \in Said /\ a \o b \in Seq(Glyphs)
           /\ After(a \o b) = Along(ReadStep, After(a), b)
           /\ \A y : Says(b, y) => After(a \o b) = With(After(a), y)
<1>1. After(a) \in Said
  BY ReadStepType, AlongType DEF After
<1>2. a \o b \in Seq(Glyphs)
  BY ConcatProperties
<1>3. After(a \o b) = Along(ReadStep, After(a), b)
  <2>1. ReadStep \in Steps(Said, Glyphs) /\ Unread \in Said
    BY ReadStepType
  <2> QED  BY <2>1, AlongConcat DEF After
<1> QED
  BY <1>1, <1>2, <1>3 DEF Says

\* Characters that are not read: those before the number and after it.
Quiet(said, text) ==
    \A i \in 1 .. Len(text) : /\ text[i][1] \notin {"digit", ".", "e"}
                              /\ text[i][1] = "-" => said.at # "exp" \/ said.exp # <<>>

LEMMA QuietText ==
    ASSUME NEW said \in Said, NEW text \in Seq(Glyphs), Quiet(said, text)
    PROVE  Along(ReadStep, said, text) = said
<1>1. Len(text) \in Nat
  OBVIOUS
<1>2. ASSUME NEW i \in 1 .. Len(text) PROVE ReadStep[<<said, text[i]>>] = said
  <2>1. PICK c \in Glyphs : c = text[i]
    BY ElementOfSeq
  <2>2. c = <<c[1], c[2]>>
    BY PairIs DEF Glyphs
  <2>3. ReadChar(said, <<c[1], c[2]>>) = said
    <3>1. c[1] \notin {"digit", ".", "e"} /\ (c[1] = "-" => said.at # "exp" \/ said.exp # <<>>)
      BY <2>1 DEF Quiet
    <3> QED  BY <3>1 DEF ReadChar
  <2> QED  BY <2>1, <2>2, <2>3, ReadStepType
<1>3. PICK g : g = [i \in 0 .. Len(text) |-> said]
  OBVIOUS
<1>4. Runs(ReadStep, said, text, g)
  <2>1. \A i \in 1 .. Len(text) : g[i] = said /\ g[i - 1] = said
    BY <1>1, <1>3
  <2>2. g[0] = said
    BY <1>1, <1>3
  <2> QED  BY <1>2, <2>1, <2>2 DEF Runs
<1>5. Along(ReadStep, said, text) = g[Len(text)]
  BY <1>1, <1>4, AlongIs
<1> QED
  BY <1>1, <1>3, <1>5

Letter(c) == << <<c, 0>> >>

LEMMA Letters ==
    ASSUME NEW said \in Said
    PROVE  /\ \A c \in {".", "e", "-", ","} : Letter(c) \in Seq(Glyphs)
           /\ Along(ReadStep, said, Letter(".")) = [said EXCEPT !.at = "frac"]
           /\ Along(ReadStep, said, Letter("e")) = [said EXCEPT !.at = "exp"]
           /\ said.at = "exp" /\ said.exp = <<>> => Along(ReadStep, said, Letter("-")) = [said EXCEPT !.minus = TRUE]
           /\ said.at # "exp" => Along(ReadStep, said, Letter("-")) = said
<1>1. ASSUME NEW g \in Glyphs
      PROVE  <<g>> \in Seq(Glyphs) /\ Along(ReadStep, said, <<g>>) = ReadChar(said, g)
  <2>1. <<g>> \in Seq(Glyphs)
    OBVIOUS
  <2>2. ReadStep \in Steps(Said, Glyphs)
    BY ReadStepType
  <2>3. Along(ReadStep, said, <<g>>) = ReadStep[<<said, g>>]
    BY <2>2, AlongOne
  <2> QED  BY <2>1, <2>3, ReadStepType
<1>6. 0 \in Digit
  BY DEF Digit
<1>7. <<".", 0>> \in Glyphs /\ <<"e", 0>> \in Glyphs /\ <<"-", 0>> \in Glyphs /\ <<",", 0>> \in Glyphs
  BY <1>6 DEF Glyphs
<1>2. ReadChar(said, <<".", 0>>) = [said EXCEPT !.at = "frac"]
  BY DEF ReadChar
<1>3. ReadChar(said, <<"e", 0>>) = [said EXCEPT !.at = "exp"]
  BY DEF ReadChar
<1>4. said.at = "exp" /\ said.exp = <<>> => ReadChar(said, <<"-", 0>>) = [said EXCEPT !.minus = TRUE]
  BY DEF ReadChar
<1>5. said.at # "exp" => ReadChar(said, <<"-", 0>>) = said
  BY DEF ReadChar
<1> QED
  BY <1>1, <1>2, <1>3, <1>4, <1>5, <1>7 DEF Letter

\* A number without an exponent, and with one.
LEMMA FixedIsRead ==
    ASSUME NEW int, NEW frac, NEW ti, NEW tf, Says(ti, int), Says(tf, frac),
           NEW point \in {<<>>, Point}, point = <<>> => frac = <<>>
    PROVE  LET text == ti \o point \o tf IN
           /\ text \in Seq(Glyphs)
           /\ After(text) = [int |-> int, frac |-> frac, exp |-> <<>>, minus |-> FALSE,
                             at |-> IF point = <<>> THEN "int" ELSE "frac"]
<1>1. /\ ti \in Seq(Glyphs) /\ tf \in Seq(Glyphs) /\ int \in Seq(Digit) /\ frac \in Seq(Digit)
      /\ <<>> \in Seq(Digit) /\ <<>> \in Seq(Glyphs)
  BY EmptySeq DEF Says
<1>2. Unread \in Said /\ After(<<>>) = Unread
  BY ReadStepType, AlongEmpty DEF After
<1>3. <<>> \o int = int /\ <<>> \o frac = frac /\ <<>> \o ti = ti
  BY <1>1, ConcatEmptySeq
<1>4. After(ti) = [int |-> int, frac |-> <<>>, exp |-> <<>>, minus |-> FALSE, at |-> "int"] /\ After(ti) \in Said
  <2>1. After(<<>> \o ti) = With(After(<<>>), int)
    BY <1>1, AfterMore
  <2>2. With(Unread, int) = [int |-> int, frac |-> <<>>, exp |-> <<>>, minus |-> FALSE, at |-> "int"]
    BY <1>3 DEF With, Unread
  <2>3. After(ti) \in Said
    BY <1>1, AfterMore
  <2> QED  BY <1>2, <1>3, <2>1, <2>2, <2>3
<1>5. CASE point = <<>>
  <2>1. ti \o point = ti /\ frac = <<>>
    BY <1>1, <1>5, ConcatEmptySeq
  <2>2. After(ti \o tf) = With(After(ti), frac) /\ ti \o tf \in Seq(Glyphs)
    BY <1>1, AfterMore
  <2>3. With(After(ti), frac) = After(ti)
    BY <1>4, <2>1, WithMore, <1>1
  <2> QED  BY <1>4, <1>5, <2>1, <2>2, <2>3
<1>6. CASE point = Point /\ point # <<>>
  <2>1. PICK t \in Seq(Glyphs) : t = ti \o point /\ After(t) = [After(ti) EXCEPT !.at = "frac"]
    <3>1. Point \in Seq(Glyphs) /\ Along(ReadStep, After(ti), Point) = [After(ti) EXCEPT !.at = "frac"]
      BY <1>4, Letters DEF Letter, Point
    <3>2. ti \o point \in Seq(Glyphs) /\ After(ti \o point) = Along(ReadStep, After(ti), point)
      BY <1>1, <1>6, <3>1, AfterMore
    <3> QED  BY <1>6, <3>1, <3>2
  <2>2. After(t) = [int |-> int, frac |-> <<>>, exp |-> <<>>, minus |-> FALSE, at |-> "frac"]
    <3>1. [After(ti) EXCEPT !.at = "frac"] = [int |-> After(ti).int, frac |-> After(ti).frac, exp |-> After(ti).exp,
                                              minus |-> After(ti).minus, at |-> "frac"]
      BY <1>1, <1>4, OneField
    <3> QED  BY <1>4, <2>1, <3>1
  <2>3. After(t \o tf) = With(After(t), frac) /\ t \o tf \in Seq(Glyphs)
    BY <1>1, AfterMore
  <2>4. With(After(t), frac) = [int |-> int, frac |-> frac, exp |-> <<>>, minus |-> FALSE, at |-> "frac"]
    BY <1>3, <2>2 DEF With
  <2> QED  BY <1>6, <2>1, <2>3, <2>4
<1> QED
  BY <1>5, <1>6

LEMMA ExponentIsRead ==
    ASSUME NEW int, NEW frac, NEW exp, NEW text \in Seq(Glyphs), NEW te, NEW at, NEW negative \in BOOLEAN, Says(te, exp),
           After(text) = [int |-> int, frac |-> frac, exp |-> <<>>, minus |-> FALSE, at |-> at]
    PROVE  LET sign == IF negative THEN << <<"-", 0>> >> ELSE <<>>
               all == text \o << <<"e", 0>> >> \o sign \o te
           IN /\ all \in Seq(Glyphs)
              /\ After(all) = [int |-> int, frac |-> frac, exp |-> exp, minus |-> negative, at |-> "exp"]
<1>1. te \in Seq(Glyphs) /\ exp \in Seq(Digit) /\ <<>> \in Seq(Glyphs) /\ <<>> \in Seq(Digit) /\ <<>> \o exp = exp
  BY EmptySeq, ConcatEmptySeq DEF Says
<1>2. After(text) \in Said
  BY <1>1, AfterMore
<1>3. PICK t \in Seq(Glyphs) : t = text \o << <<"e", 0>> >> /\ After(t) \in Said
                               /\ After(t) = [int |-> int, frac |-> frac, exp |-> <<>>, minus |-> FALSE, at |-> "exp"]
  <2>1. Letter("e") \in Seq(Glyphs) /\ Along(ReadStep, After(text), Letter("e")) = [After(text) EXCEPT !.at = "exp"]
    BY <1>2, Letters
  <2>2. text \o Letter("e") \in Seq(Glyphs) /\ After(text \o Letter("e")) = Along(ReadStep, After(text), Letter("e"))
    BY <2>1, AfterMore
  <2>3. After(text \o Letter("e")) \in Said
    BY <1>1, <2>2, AfterMore
  <2>4. [After(text) EXCEPT !.at = "exp"] = [int |-> int, frac |-> frac, exp |-> <<>>, minus |-> FALSE, at |-> "exp"]
    <3>1. [After(text) EXCEPT !.at = "exp"] = [int |-> After(text).int, frac |-> After(text).frac, exp |-> After(text).exp,
                                               minus |-> After(text).minus, at |-> "exp"]
      BY <1>1, <1>2, OneField
    <3> QED  BY <3>1
  <2> QED  BY <2>1, <2>2, <2>3, <2>4 DEF Letter
<1> DEFINE sign == IF negative THEN << <<"-", 0>> >> ELSE <<>>
<1>4. PICK u \in Seq(Glyphs) : u = t \o sign /\ After(u) = [int |-> int, frac |-> frac, exp |-> <<>>, minus |-> negative, at |-> "exp"]
  <2>1. CASE negative
    <3>1. Letter("-") \in Seq(Glyphs) /\ Along(ReadStep, After(t), Letter("-")) = [After(t) EXCEPT !.minus = TRUE]
      <4>1. After(t).at = "exp" /\ After(t).exp = <<>>
        BY <1>3
      <4> QED  BY <1>3, <4>1, Letters
    <3>2. t \o Letter("-") \in Seq(Glyphs) /\ After(t \o Letter("-")) = Along(ReadStep, After(t), Letter("-"))
      BY <3>1, AfterMore
    <3>3. [After(t) EXCEPT !.minus = TRUE] = [int |-> int, frac |-> frac, exp |-> <<>>, minus |-> TRUE, at |-> "exp"]
      <4>1. [After(t) EXCEPT !.minus = TRUE] = [int |-> After(t).int, frac |-> After(t).frac, exp |-> After(t).exp,
                                                minus |-> TRUE, at |-> After(t).at]
        BY <1>1, <1>3, OneField
      <4>2. After(t).int = int /\ After(t).frac = frac /\ After(t).exp = <<>> /\ After(t).at = "exp"
        BY <1>3
      <4> QED  BY <4>1, <4>2
    <3>4. negative = TRUE /\ sign = Letter("-")
      BY <2>1 DEF Letter
    <3> QED  BY <3>1, <3>2, <3>3, <3>4
  <2>2. CASE ~negative
    <3>1. negative = FALSE /\ sign = <<>>
      BY <2>2
    <3>2. t \o <<>> = t
      BY ConcatEmptySeq
    <3> QED  BY <1>3, <3>1, <3>2
  <2> QED  BY <2>1, <2>2
<1>5. u \o te \in Seq(Glyphs) /\ After(u \o te) = With(After(u), exp)
  BY <1>1, AfterMore
<1>6. With(After(u), exp) = [int |-> int, frac |-> frac, exp |-> exp, minus |-> negative, at |-> "exp"]
  <2>1. /\ After(u).int = int /\ After(u).frac = frac /\ After(u).exp = <<>> /\ After(u).minus = negative
        /\ After(u).at = "exp"
    BY <1>4
  <2> QED  BY <1>1, <2>1 DEF With
<1> QED
  BY <1>3, <1>4, <1>5, <1>6

LEMMA RowStart ==
    ASSUME NEW q \in Seq(Digit), NEW k \in Nat, k <= Len(q)
    PROVE  \E a \in Seq(Digit) : a = SubSeq(q, 1, k) /\ Len(a) = k /\ \A i \in 1 .. k : a[i] = q[i]
<1>1. SubSeq(q, 1, k) \in Seq(Digit) /\ Len(SubSeq(q, 1, k)) = k /\ \A i \in 1 .. k : SubSeq(q, 1, k)[i] = q[i]
  BY CutInTwo
<1> QED
  BY <1>1

LEMMA RowJoined ==
    ASSUME NEW a \in Seq(Digit), NEW b \in Seq(Digit)
    PROVE  /\ a \o b \in Seq(Digit)
           /\ Len(a) \in Nat /\ Len(b) \in Nat /\ Len(a \o b) = Len(a) + Len(b)
           /\ \A i \in 1 .. Len(a) : (a \o b)[i] = a[i]
           /\ \A i \in 1 .. Len(b) : (a \o b)[Len(a) + i] = b[i]
  BY ConcatIs

LEMMA RowOfThree ==
    ASSUME NEW a \in Seq(Digit), NEW b \in Seq(Digit), NEW c \in Seq(Digit)
    PROVE  (a \o b) \o c = a \o (b \o c)
  BY ConcatAssociative

\* A row without the zeros at its end.
LEMMA PrefixAndZeros ==
    ASSUME NEW d \in Seq(Digit), NEW f \in Seq(Digit), NEW n \in 0 .. Len(d), Len(f) = n,
           \A i \in 1 .. n : f[i] = d[i], \A i \in n + 1 .. Len(d) : d[i] = 0
    PROVE  f \o Zeros(Len(d) - n) = d
<1>1. PICK k \in Nat : k = Len(d) - n /\ Len(d) = n + k
  <2>1. Len(d) - n \in Nat /\ Len(d) = n + (Len(d) - n)
    OBVIOUS
  <2> QED  BY <2>1
<1>2. PICK z \in Seq(Digit) : z = Zeros(k) /\ Len(z) = k /\ \A i \in 1 .. k : z[i] = 0
  <2>1. k \in Int /\ (IF k > 0 THEN k ELSE 0) = k
    OBVIOUS
  <2>2. Zeros(k) \in Seq(Digit) /\ Len(Zeros(k)) = k /\ \A i \in 1 .. Len(Zeros(k)) : Zeros(k)[i] = 0
    BY <2>1, ZerosAre
  <2> QED  BY <2>2
<1>3. PICK r \in Seq(Digit) : /\ r = f \o z /\ Len(r) = n + k
                              /\ \A i \in 1 .. n : r[i] = f[i]
                              /\ \A i \in 1 .. k : r[n + i] = z[i]
  <2> DEFINE r == f \o z
  <2>1. /\ r \in Seq(Digit)
        /\ Len(f) \in Nat /\ Len(z) \in Nat /\ Len(r) = Len(f) + Len(z)
        /\ \A i \in 1 .. Len(f) : r[i] = f[i]
        /\ \A i \in 1 .. Len(z) : r[Len(f) + i] = z[i]
    BY Zenon, RowJoined
  <2>2. r = f \o z
    OBVIOUS
  <2> HIDE DEF r
  <2>3. Len(f) = n /\ Len(z) = k /\ r = f \o z
    BY <1>2, <2>2
  <2>4. /\ Len(r) = n + k /\ \A i \in 1 .. n : r[i] = f[i]
        /\ \A i \in 1 .. k : r[n + i] = z[i]
    BY <2>1, <2>3
  <2> QED  BY <2>1, <2>3, <2>4
<1>4. ASSUME NEW i \in 1 .. Len(r) PROVE r[i] = d[i]
  <2>1. CASE i <= n
    <3>1. i \in 1 .. n
      BY <2>1
    <3> QED  BY <1>3, <3>1
  <2>2. CASE ~(i <= n)
    <3>1. PICK j \in 1 .. k : i = n + j
      <4>1. i - n \in 1 .. k /\ i = n + (i - n)
        BY <1>3, <2>2
      <4> QED  BY <4>1
    <3>2. i \in n + 1 .. Len(d)
      BY <1>1, <3>1
    <3> QED  BY <1>2, <1>3, <3>1, <3>2
  <2> QED  BY <2>1, <2>2
<1>5. r = d
  <2>1. Len(r) = Len(d)
    BY <1>1, <1>3
  <2> QED  BY <1>4, <2>1, SeqEqual
<1> QED
  BY <1>1, <1>2, <1>3, <1>5

LEMMA TrimFractionIs ==
    ASSUME NEW digits \in Seq(Digit), NEW sp, sp.fracMandatory \in Nat, sp.fracOptional \in Nat,
           sp.fracMandatory <= Len(digits)
    PROVE  LET f == TrimFraction(digits, sp) IN
           /\ f \in Seq(Digit) /\ Len(f) \in sp.fracMandatory .. Len(digits)
           /\ f \o Zeros(Len(digits) - Len(f)) = digits
           /\ sp.fracOptional > 0 /\ Len(f) > sp.fracMandatory => Last(f) # 0
<1> DEFINE f == TrimFraction(digits, sp)
           trimmed == TrimRight(digits)
<1>1. PICK l \in Nat : l = Len(digits)
  OBVIOUS
<1>2. PICK n \in 0 .. Len(digits) : (n > 0 => digits[n] # 0) /\ \A i \in n + 1 .. Len(digits) : digits[i] = 0
  BY Trailing
<1>3. trimmed \in Seq(Digit) /\ Len(trimmed) = n /\ \A i \in 1 .. n : trimmed[i] = digits[i]
  BY <1>2, TrimRightIs
<1>4. PICK least \in Nat : least = sp.fracMandatory /\ least <= l
  BY <1>1
<1>5. CASE sp.fracOptional = 0
  <2>1. f = digits
    BY <1>5 DEF TrimFraction
  <2>2. Zeros(l - l) = <<>>
    <3>1. l - l \in Int /\ l - l <= 0
      OBVIOUS
    <3> QED  BY <3>1, NoZeros
  <2>3. digits \o <<>> = digits
    BY ConcatEmptySeq
  <2> HIDE DEF f
  <2>4. f \in Seq(Digit) /\ Len(f) \in sp.fracMandatory .. Len(digits)
    BY <1>1, <1>4, <2>1
  <2>5. f \o Zeros(Len(digits) - Len(f)) = digits
    BY <1>1, <2>1, <2>2, <2>3
  <2> QED  BY <1>5, <2>4, <2>5 DEF f
<1>6. CASE sp.fracOptional > 0 /\ Len(trimmed) < sp.fracMandatory
  <2>1. f = SubSeq(digits, 1, least)
    <3>1. ~(sp.fracOptional = 0)
      BY <1>6
    <3> HIDE DEF trimmed
    <3>2. f = CASE sp.fracOptional = 0 -> digits
                [] sp.fracOptional > 0 /\ Len(trimmed) < sp.fracMandatory -> SubSeq(digits, 1, sp.fracMandatory)
                [] OTHER -> trimmed
      BY DEF TrimFraction, trimmed
    <3> HIDE DEF f
    <3> QED  BY <1>4, <1>6, <3>1, <3>2
  <2>2. PICK g \in Seq(Digit) : g = SubSeq(digits, 1, least) /\ Len(g) = least /\ \A i \in 1 .. least : g[i] = digits[i]
    <3>1. least <= Len(digits)
      BY <1>1, <1>4
    <3> QED  BY <3>1, RowStart
  <2>3. least \in 0 .. Len(digits) /\ \A i \in least + 1 .. Len(digits) : digits[i] = 0
    <3>1. n < least
      BY <1>3, <1>4, <1>6
    <3>2. \A i \in least + 1 .. Len(digits) : i \in n + 1 .. Len(digits)
      BY <1>1, <3>1
    <3> QED  BY <1>1, <1>2, <1>4, <3>2
  <2>4. g \o Zeros(Len(digits) - least) = digits
    BY <2>2, <2>3, PrefixAndZeros
  <2> HIDE DEF f
  <2>5. f \in Seq(Digit) /\ Len(f) = sp.fracMandatory /\ sp.fracMandatory \in sp.fracMandatory .. Len(digits)
    BY <1>1, <1>4, <2>1, <2>2
  <2>6. f \o Zeros(Len(digits) - Len(f)) = digits
    BY <1>4, <2>1, <2>2, <2>4, <2>5
  <2>7. ~(Len(f) > sp.fracMandatory)
    BY <2>5
  <2> QED  BY <2>5, <2>6, <2>7 DEF f
<1>7. CASE sp.fracOptional > 0 /\ ~(Len(trimmed) < sp.fracMandatory)
  <2>1. f = trimmed
    <3>1. ~(sp.fracOptional = 0)
      BY <1>7
    <3> HIDE DEF trimmed
    <3>2. f = CASE sp.fracOptional = 0 -> digits
                [] sp.fracOptional > 0 /\ Len(trimmed) < sp.fracMandatory -> SubSeq(digits, 1, sp.fracMandatory)
                [] OTHER -> trimmed
      BY DEF TrimFraction, trimmed
    <3> HIDE DEF f
    <3> QED  BY <1>7, <3>1, <3>2
  <2> HIDE DEF f, trimmed
  <2>2. f \o Zeros(Len(digits) - n) = digits
    BY <1>2, <1>3, <2>1, PrefixAndZeros
  <2>3. Len(f) = n /\ n >= sp.fracMandatory
    BY <1>3, <1>4, <1>7, <2>1
  <2>4. n \in sp.fracMandatory .. Len(digits)
    BY <1>4, <2>3
  <2>5. n > sp.fracMandatory => Last(f) # 0
    <3>1. n > sp.fracMandatory => n > 0 /\ n \in 1 .. n
      BY <1>4
    <3> QED  BY <1>2, <1>3, <2>1, <2>3, <3>1 DEF Last
  <2> QED  BY <1>3, <2>1, <2>2, <2>3, <2>4, <2>5 DEF f
<1> QED
  BY <1>5, <1>6, <1>7

LEMMA PadLeftIs ==
    ASSUME NEW digits \in Seq(Digit), NEW least \in Nat
    PROVE  LET p == PadLeft(digits, least) IN
           /\ p \in Seq(Digit) /\ Len(p) >= least /\ Number[p] = Number[digits]
           /\ \A q \in Seq(Digit) : p \o q \in Seq(Digit) /\ Number[p \o q] = Number[digits \o q]
<1>1. PICK l \in Nat, n \in Int : l = Len(digits) /\ n = least - Len(digits)
  BY SMTT(40)
<1>2. PICK z \in Seq(Digit) : z = Zeros(n) /\ Len(z) = IF n > 0 THEN n ELSE 0
  BY ZerosAre
<1>3. PadLeft(digits, least) = z \o digits
  BY <1>1, <1>2 DEF PadLeft
<1>4. z \o digits \in Seq(Digit) /\ Len(z \o digits) = Len(z) + Len(digits)
  BY ConcatIs
<1>5. (IF n > 0 THEN n ELSE 0) + l >= least
  BY <1>1
<1>6. \A q \in Seq(Digit) : Number[z \o q] = Number[q]
  BY <1>2, ZerosAround
<1>7. ASSUME NEW q \in Seq(Digit)
      PROVE  (z \o digits) \o q \in Seq(Digit) /\ Number[(z \o digits) \o q] = Number[digits \o q]
  <2>1. digits \o q \in Seq(Digit) /\ (z \o digits) \o q = z \o (digits \o q) /\ z \o (digits \o q) \in Seq(Digit)
    BY ConcatAssociative, ConcatProperties
  <2> QED  BY <1>6, <2>1
<1> QED
  BY <1>1, <1>2, <1>3, <1>4, <1>5, <1>6, <1>7

\* The digits of a text are those of the number that was rounded.
LEMMA SameNumber ==
    ASSUME NEW all \in Seq(Digit), NEW places \in Nat, places < Len(all), NEW least \in Nat, NEW sp,
           sp.fracMandatory \in Nat, sp.fracOptional \in Nat, sp.fracMandatory <= places
    PROVE  LET a == SubSeq(all, 1, Len(all) - places)
               d == SubSeq(all, Len(all) - places + 1, Len(all))
               int == PadLeft(a, least)
               f == TrimFraction(d, sp)
               z == Zeros(places - Len(f))
           IN /\ int \in Seq(Digit) /\ Len(int) >= least
              /\ f \in Seq(Digit) /\ Len(f) \in sp.fracMandatory .. places
              /\ sp.fracOptional > 0 /\ Len(f) > sp.fracMandatory => Last(f) # 0
              /\ int \o f \o z \in Seq(Digit) /\ Number[int \o f \o z] = Number[all]
              /\ <<>> \o f \o z \in Seq(Digit) /\ (Number[all] < Ten(places) => Number[<<>> \o f \o z] = Number[all])
<1>1. PICK k \in Nat : k = Len(all) - places /\ k <= Len(all)
  <2>1. Len(all) - places \in Nat /\ Len(all) - places <= Len(all)
    OBVIOUS
  <2> QED  BY <2>1
<1>2. PICK a \in Seq(Digit), d \in Seq(Digit) :
        a = SubSeq(all, 1, k) /\ d = SubSeq(all, k + 1, Len(all)) /\ Len(d) = places /\ all = a \o d
  <2>1. Len(all) - k = places
    BY <1>1
  <2>2. PICK a \in Seq(Digit), d \in Seq(Digit) :
          /\ a = SubSeq(all, 1, k) /\ Len(a) = k
          /\ d = SubSeq(all, k + 1, Len(all)) /\ Len(d) = Len(all) - k
          /\ all = a \o d /\ \A x \in Seq(Digit) : all \o x = a \o (d \o x)
    BY <1>1, RowCutInTwo
  <2> QED  BY <2>1, <2>2
<1>3. PICK f \in Seq(Digit) : /\ f = TrimFraction(d, sp) /\ Len(f) \in sp.fracMandatory .. places
                              /\ f \o Zeros(places - Len(f)) = d
                              /\ sp.fracOptional > 0 /\ Len(f) > sp.fracMandatory => Last(f) # 0
  BY <1>2, TrimFractionIs
<1>4. PICK z \in Seq(Digit) : z = Zeros(places - Len(f))
  <2>1. places - Len(f) \in Int
    OBVIOUS
  <2> QED  BY <2>1, ZerosAre
<1>5. PICK int \in Seq(Digit) : /\ int = PadLeft(a, least) /\ Len(int) >= least
                                /\ \A q \in Seq(Digit) : int \o q \in Seq(Digit) /\ Number[int \o q] = Number[a \o q]
  <2> DEFINE int == PadLeft(a, least)
  <2>1. int \in Seq(Digit) /\ Len(int) >= least /\ \A q \in Seq(Digit) : int \o q \in Seq(Digit) /\ Number[int \o q] = Number[a \o q]
    BY PadLeftIs
  <2> QED  BY <2>1
<1>6. (int \o f) \o z = int \o (f \o z) /\ <<>> \o f = f
  <2>1. (int \o f) \o z = int \o (f \o z)
    BY RowOfThree
  <2>2. <<>> \o f = f
    BY ConcatEmptySeq
  <2> QED  BY <2>1, <2>2
<1>7. int \o f \o z \in Seq(Digit) /\ Number[int \o f \o z] = Number[all]
  <2>1. f \o z = d
    BY <1>3, <1>4
  <2>2. int \o d \in Seq(Digit) /\ Number[int \o d] = Number[a \o d]
    BY <1>5
  <2> QED  BY <1>2, <1>6, <2>1, <2>2
<1>8. Number[all] < Ten(places) => Number[d] = Number[all]
  <2>1. PICK x \in Nat, y \in Nat, t \in Nat \ {0} : x = Number[a] /\ y = Number[d] /\ t = Ten(places)
    <3>1. Number[a] \in Nat /\ Number[d] \in Nat
      BY NumberReads DEF Reads
    <3> QED  BY <3>1, TenPositive
  <2>2. Number[all] = x * t + y
    <3>1. Number[a \o d] = Number[a] * Ten(Len(d)) + Number[d]
      BY SplitNumber
    <3> QED  BY <1>2, <2>1, <3>1
  <2>5. PICK m \in Nat : m = x * t
    <3>1. x * t \in Nat
      OBVIOUS
    <3> QED  BY <3>1
  <2>3. m + y < t => x = 0
    <3>1. ASSUME x # 0 PROVE x * t >= t
      <4>1. PICK w \in Nat : x = w + 1
        <5>1. x - 1 \in Nat /\ x = (x - 1) + 1
          BY <3>1
        <5> QED  BY <5>1
      <4>2. (w + 1) * t = w * t + t /\ w * t \in Nat
        OBVIOUS
      <4> QED  BY <4>1, <4>2
    <3>2. x # 0 => m >= t
      BY <2>5, <3>1
    <3> QED  BY <3>2
  <2>4. 0 * t + y = y
    OBVIOUS
  <2>6. Number[all] < t => Number[d] = Number[all]
    <3>1. ASSUME Number[all] < t PROVE Number[d] = Number[all]
      <4>1. x = 0
        BY <2>2, <2>3, <2>5, <3>1
      <4> QED  BY <2>1, <2>2, <2>4, <4>1
    <3> QED  BY <3>1
  <2> QED  BY <2>1, <2>6
<1>9. /\ int \in Seq(Digit) /\ Len(int) >= least
      /\ f \in Seq(Digit) /\ Len(f) \in sp.fracMandatory .. places
      /\ sp.fracOptional > 0 /\ Len(f) > sp.fracMandatory => Last(f) # 0
      /\ int \o f \o z \in Seq(Digit) /\ Number[int \o f \o z] = Number[all]
      /\ <<>> \o f \o z \in Seq(Digit) /\ (Number[all] < Ten(places) => Number[<<>> \o f \o z] = Number[all])
  BY <1>3, <1>4, <1>5, <1>6, <1>7, <1>8
<1> QED
  BY <1>1, <1>2, <1>3, <1>4, <1>5, <1>9

-----------------------------------------------------------------------------
(* Pictures.                                                               *)

LEMMA SmallestIs ==
    ASSUME NEW T, T \subseteq Nat, T # {}
    PROVE  Min(T) \in T /\ \A y \in T : Min(T) <= y
<1>1. \E m \in T : \A k \in T : m <= k
  BY LeastNatural
<1> QED
  BY <1>1 DEF Min

LEMMA AnyStretch ==
    ASSUME NEW s, NEW m \in Int, NEW n \in Int
    PROVE  \E S : SubSeq(s, m, n) \in Seq(S)
<1> DEFINE S == {s[i] : i \in m .. n}
<1>1. \A i \in m .. n : s[i] \in S
  OBVIOUS
<1> HIDE DEF S
<1>2. SubSeq(s, m, n) \in Seq(S)
  BY <1>1, SubSeqProperties
<1> QED
  BY <1>2

LEMMA HowManyIs ==
    ASSUME NEW S, NEW text \in Seq(S), NEW chars
    PROVE  HowMany(text, chars) \in Nat
<1>1. DOMAIN text = 1 .. Len(text) /\ Len(text) \in Nat
  OBVIOUS
<1>2. IsFiniteSet(1 .. Len(text))
  BY <1>1, FS_Interval
<1>3. Positions(text, chars) \subseteq 1 .. Len(text)
  BY <1>1 DEF Positions
<1> QED
  BY <1>2, <1>3, FS_Subset, FS_CardinalityType DEF HowMany

\* Characters that a picture has before its number and after it.
Mute(text) == \A i \in 1 .. Len(text) : text[i][1] \notin {"digit", ".", "e"}

LEMMA CharsAreMute ==
    ASSUME NEW picture \in Seq(PictureChars), NEW m \in Int, NEW n \in Int, m >= 1, n <= Len(picture),
           \A i \in m .. n : ~isActiveChar(picture[i])
    PROVE  Chars(SubSeq(picture, m, n)) \in Seq(Glyphs) /\ Mute(Chars(SubSeq(picture, m, n)))
<1> DEFINE text == SubSeq(picture, m, n)
<1>1. \A i \in m .. n : picture[i] \in PictureChars
  <2>1. ASSUME NEW i \in m .. n PROVE picture[i] \in PictureChars
    <3>1. i \in 1 .. Len(picture)
      OBVIOUS
    <3> QED  BY <3>1, ElementOfSeq
  <2> QED  BY <2>1
<1>2. text \in Seq(PictureChars) /\ \A i \in 1 .. n - m + 1 : text[i] = picture[m + i - 1]
  BY <1>1, SubSeqProperties
<1>3. Len(text) = IF m <= n THEN n - m + 1 ELSE 0
  BY <1>1, SubSeqProperties
<1> HIDE DEF text
<1>4. PICK l \in Nat : l = Len(text) /\ DOMAIN text = 1 .. l /\ (l <= n - m + 1 \/ l = 0)
  <2>1. DOMAIN text = 1 .. Len(text) /\ Len(text) \in Nat
    BY <1>2
  <2>2. Len(text) <= n - m + 1 \/ Len(text) = 0
    BY <1>3
  <2> QED  BY <2>1, <2>2
<1>5. ASSUME NEW i \in 1 .. l PROVE text[i] \in PictureChars /\ text[i] \notin {".", "e", "digit"} /\ <<text[i], 0>> \in Glyphs
  <2>1. text[i] \in PictureChars
    BY <1>2, <1>4, ElementOfSeq
  <2>2. PICK j \in m .. n : j = m + i - 1 /\ text[i] = picture[j]
    <3>1. m + i - 1 \in m .. n /\ i \in 1 .. n - m + 1
      BY <1>4
    <3> QED  BY <1>2, <3>1
  <2>3. text[i] \notin {".", "e"}
    BY <2>2 DEF isActiveChar
  <2>4. text[i] # "digit"
    BY <2>1 DEF PictureChars
  <2>5. 0 \in Digit
    BY DEF Digit
  <2>6. <<text[i], 0>> \in Glyphs
    BY <2>1, <2>5 DEF Glyphs
  <2> QED  BY <2>1, <2>3, <2>4, <2>6
<1> DEFINE c == [i \in 1 .. l |-> <<text[i], 0>>]
<1>6. Chars(text) = c
  BY <1>4 DEF Chars
<1>7. c \in [1 .. l -> Glyphs]
  BY <1>5
<1>8. \A i \in 1 .. l : c[i][1] = text[i]
  OBVIOUS
<1> HIDE DEF c
<1>9. c \in Seq(Glyphs) /\ Len(c) = l
  BY <1>7, FunctionIsSeq
<1>10. Mute(c)
  BY <1>5, <1>8, <1>9 DEF Mute
<1> QED
  BY <1>6, <1>9, <1>10 DEF text

IsSubPicture(sp) ==
    /\ sp.intMandatory \in Nat /\ sp.intOptional \in Nat
    /\ sp.fracMandatory \in Nat /\ sp.fracOptional \in Nat
    /\ sp.expMandatory \in Nat /\ sp.scale \in Nat
    /\ sp.prefix \in Seq(Glyphs) /\ Mute(sp.prefix)
    /\ sp.suffix \in Seq(Glyphs) /\ Mute(sp.suffix)

\* A picture is refused, or its parts are known.
LEMMA SubPictureIs ==
    ASSUME NEW picture \in Seq(PictureChars)
    PROVE  LET sp == parseSubPicture(picture) IN
           (\E code : sp = PictureError(code)) \/ ("error" \notin DOMAIN sp /\ IsSubPicture(sp))
<1> DEFINE actives == {i \in DOMAIN picture : isActiveChar(picture[i])}
           active == SubSeq(picture, Min(actives), Max(actives))
           decimals == Positions(active, {"."})
           exponents == Positions(active, {"e"})
           dec == IF decimals = {} THEN Len(active) + 1 ELSE Min(decimals)
           exp == IF exponents = {} THEN Len(active) + 1 ELSE Min(exponents)
           int == SubSeq(active, 1, Min({dec, exp}) - 1)
           frac == SubSeq(active, dec + 1, exp - 1)
           intError == IntError(int, decimals # {})
           sp == [prefix |-> Chars(SubSeq(picture, 1, Min(actives) - 1)),
                  suffix |-> Chars(SubSeq(picture, Max(actives) + 1, Len(picture))),
                  intMandatory |-> HowMany(int, {"0"}), intOptional |-> HowMany(int, {"#"}),
                  fracMandatory |-> HowMany(frac, {"0"}), fracOptional |-> HowMany(frac, {"#"}),
                  expMandatory |-> HowMany(SubSeq(active, exp + 1, Len(active)), PlaceChars),
                  scale |-> ScaleOf(picture), hasDecimal |-> decimals # {},
                  intGroups |-> IntGroups(int), fracGroups |-> FracGroups(frac)]
<1>1. parseSubPicture(picture) =
        IF actives = {} THEN PictureError("D3086")
        ELSE IF \E i \in DOMAIN active : ~isActiveChar(active[i]) /\ active[i] \notin {"%", "m"}
        THEN PictureError("D3086")
        ELSE IF HowMany(picture, {"%"}) > 1 THEN PictureError("D3082")
        ELSE IF HowMany(picture, {"m"}) > 1 THEN PictureError("D3083")
        ELSE IF HowMany(picture, {"%"}) > 0 /\ HowMany(picture, {"m"}) > 0 THEN PictureError("D3084")
        ELSE IF Cardinality(decimals) > 1 THEN PictureError("D3081")
        ELSE IF exponents # {} /\ ScaleOf(picture) # 0 THEN PictureError("D3092")
        ELSE IF \E i \in Positions(active, {","}) : i > exp THEN PictureError("D3093")
        ELSE IF decimals # {} /\ exponents # {} /\ exp < dec THEN PictureError("D3085")
        ELSE IF intError # "ok" THEN PictureError(intError)
        ELSE IF HowMany(int \o frac, PlaceChars) = 0 /\ (decimals # {} \/ exponents # {})
        THEN PictureError("D3085")
        ELSE IF \E i, j \in DOMAIN frac : i < j /\ frac[i] = "#" /\ frac[j] = "0" THEN PictureError("D3091")
        ELSE sp
  BY DEF parseSubPicture
<1> HIDE DEF actives, active, decimals, exponents, dec, exp, int, frac, intError, sp
<1>2. (\E code : parseSubPicture(picture) = PictureError(code)) \/ (actives # {} /\ parseSubPicture(picture) = sp)
  BY <1>1
<1>3. ASSUME actives # {} PROVE "error" \notin DOMAIN sp /\ IsSubPicture(sp)
  <2>1. PICK l \in Nat : l = Len(picture) /\ DOMAIN picture = 1 .. l
    OBVIOUS
  <2>2. actives \in SUBSET (1 .. l)
    BY <2>1 DEF actives
  <2>3. Min(actives) \in actives /\ \A y \in actives : Min(actives) <= y
    <3>1. actives \subseteq Nat
      BY <2>2
    <3> QED  BY <1>3, <3>1, SmallestIs
  <2>4. Max(actives) \in actives /\ \A y \in actives : Max(actives) >= y
    BY <1>3, <2>2, GreatestIndex
  <2>5. PICK first \in 1 .. l, last \in 1 .. l : first = Min(actives) /\ last = Max(actives)
    BY <2>2, <2>3, <2>4
  <2>6. \E S : active \in Seq(S)
    <3>1. Min(actives) \in Int /\ Max(actives) \in Int
      BY <2>5
    <3>2. \E S : SubSeq(picture, Min(actives), Max(actives)) \in Seq(S)
      BY <3>1, AnyStretch
    <3> QED  BY <3>2 DEF active
  <2>7. dec \in Nat /\ exp \in Nat
    <3>1. PICK S : active \in Seq(S)
      BY <2>6
    <3>2. Len(active) + 1 \in Nat /\ DOMAIN active \subseteq Nat
      BY <3>1
    <3>3. decimals \subseteq Nat /\ exponents \subseteq Nat
      BY <3>2 DEF decimals, exponents, Positions
    <3> QED  BY <3>2, <3>3, SmallestIs DEF dec, exp
  <2>8. \E S : int \in Seq(S)
    <3>1. {dec, exp} \subseteq Nat /\ {dec, exp} # {}
      BY <2>7
    <3>2. Min({dec, exp}) \in {dec, exp}
      BY <3>1, SmallestIs
    <3>3. Min({dec, exp}) - 1 \in Int /\ 1 \in Int
      BY <2>7, <3>2
    <3>4. \E S : SubSeq(active, 1, Min({dec, exp}) - 1) \in Seq(S)
      BY <3>3, AnyStretch
    <3> QED  BY <3>4 DEF int
  <2>9. \E S : frac \in Seq(S)
    <3>1. dec + 1 \in Int /\ exp - 1 \in Int
      BY <2>7
    <3> QED  BY <3>1, AnyStretch DEF frac
  <2>10. \E S : SubSeq(active, exp + 1, Len(active)) \in Seq(S)
    <3>1. exp + 1 \in Int /\ Len(active) \in Int
      BY <2>6, <2>7
    <3> QED  BY <3>1, AnyStretch
  <2>11. /\ HowMany(int, {"0"}) \in Nat /\ HowMany(int, {"#"}) \in Nat
         /\ HowMany(frac, {"0"}) \in Nat /\ HowMany(frac, {"#"}) \in Nat
         /\ HowMany(SubSeq(active, exp + 1, Len(active)), PlaceChars) \in Nat
    BY <2>8, <2>9, <2>10, HowManyIs
  <2>12. ScaleOf(picture) \in Nat
    BY DEF ScaleOf
  <2>13. /\ Chars(SubSeq(picture, 1, Min(actives) - 1)) \in Seq(Glyphs)
         /\ Mute(Chars(SubSeq(picture, 1, Min(actives) - 1)))
    <3>1. ASSUME NEW i \in 1 .. first - 1 PROVE ~isActiveChar(picture[i])
      <4>1. i \notin actives /\ i \in DOMAIN picture
        BY <2>1, <2>3, <2>5
      <4> QED  BY <4>1 DEF actives
    <3>2. first - 1 \in Int /\ first - 1 <= Len(picture) /\ 1 >= 1 /\ 1 \in Int
      BY <2>1
    <3> QED  BY <2>5, <3>1, <3>2, CharsAreMute
  <2>14. /\ Chars(SubSeq(picture, Max(actives) + 1, Len(picture))) \in Seq(Glyphs)
         /\ Mute(Chars(SubSeq(picture, Max(actives) + 1, Len(picture))))
    <3>1. ASSUME NEW i \in last + 1 .. l PROVE ~isActiveChar(picture[i])
      <4>1. i \notin actives /\ i \in DOMAIN picture
        BY <2>1, <2>4, <2>5
      <4> QED  BY <4>1 DEF actives
    <3>2. last + 1 \in Int /\ last + 1 >= 1 /\ l \in Int /\ l <= Len(picture)
      BY <2>1
    <3> QED  BY <2>1, <2>5, <3>1, <3>2, CharsAreMute
  <2>15. "error" \notin DOMAIN sp
    BY DEF sp
  <2>16. /\ sp.prefix = Chars(SubSeq(picture, 1, Min(actives) - 1))
         /\ sp.suffix = Chars(SubSeq(picture, Max(actives) + 1, Len(picture)))
         /\ sp.intMandatory = HowMany(int, {"0"}) /\ sp.intOptional = HowMany(int, {"#"})
         /\ sp.fracMandatory = HowMany(frac, {"0"}) /\ sp.fracOptional = HowMany(frac, {"#"})
         /\ sp.expMandatory = HowMany(SubSeq(active, exp + 1, Len(active)), PlaceChars)
         /\ sp.scale = ScaleOf(picture)
    BY DEF sp
  <2> QED  BY <2>11, <2>12, <2>13, <2>14, <2>15, <2>16 DEF IsSubPicture
<1> QED
  BY <1>2, <1>3

\* The pictures that one picture is made of.
Pictures == {pics \in Seq(Seq(PictureChars)) : pics # <<>>}
Unsplit == << <<>> >>
SplitStep == [p \in Pictures \X PictureChars |->
                IF p[2] = ";" THEN Append(p[1], <<>>) ELSE [p[1] EXCEPT ![Len(p[1])] = Append(@, p[2])]]

LEMMA PicturesFacts ==
    ASSUME NEW S, NEW pics \in Seq(Seq(S)), pics # <<>>, NEW c \in S
    PROVE  /\ Append(pics, <<>>) \in Seq(Seq(S)) /\ Append(pics, <<>>) # <<>>
           /\ [pics EXCEPT ![Len(pics)] = Append(@, c)] \in Seq(Seq(S))
           /\ [pics EXCEPT ![Len(pics)] = Append(@, c)] # <<>>
           /\ Head(pics) \in Seq(S) /\ Head(pics) = pics[1] /\ Last(pics) \in Seq(S) /\ Last(pics) = pics[Len(pics)]
<1> DEFINE T == Seq(S)
           n == Len(pics)
           e == [pics EXCEPT ![Len(pics)] = Append(@, c)]
<1>1. pics \in Seq(T) /\ n \in Nat \ {0} /\ DOMAIN pics = 1 .. n /\ <<>> \in T
  BY EmptySeq
<1>2. \A i \in 1 .. n : pics[i] \in T
  BY <1>1, ElementOfSeq
<1>3. \A q \in T : Append(q, c) \in T
  OBVIOUS
<1>4. e = [i \in 1 .. n |-> IF i = n THEN Append(pics[i], c) ELSE pics[i]]
  BY <1>1
<1> HIDE DEF T, n, e
<1>5. e \in [1 .. n -> T]
  BY <1>1, <1>2, <1>3, <1>4
<1>6. e \in Seq(T) /\ Len(e) = n
  BY <1>1, <1>5, FunctionIsSeq
<1>7. e # <<>>
  BY <1>1, <1>6, EmptySeq
<1>8. Append(pics, <<>>) \in Seq(T) /\ Append(pics, <<>>) # <<>>
  <2>1. \A x \in T : Append(pics, x) \in Seq(T) /\ Append(pics, x) # <<>>
    BY <1>1
  <2> QED  BY <1>1, <2>1
<1>9. Head(pics) = pics[1] /\ Last(pics) = pics[n]
  BY DEF Last, n
<1> QED
  BY <1>1, <1>2, <1>6, <1>7, <1>8, <1>9 DEF T, n, e

LEMMA SplitStepType ==
    /\ SplitStep \in Steps(Pictures, PictureChars) /\ Unsplit \in Pictures
    /\ \A pics \in Pictures, c \in PictureChars :
         SplitStep[<<pics, c>>] = IF c = ";" THEN Append(pics, <<>>) ELSE [pics EXCEPT ![Len(pics)] = Append(@, c)]
<1> DEFINE Next(pics, c) == IF c = ";" THEN Append(pics, <<>>) ELSE [pics EXCEPT ![Len(pics)] = Append(@, c)]
<1>1. ASSUME NEW pics \in Pictures, NEW c \in PictureChars PROVE Next(pics, c) \in Pictures
  BY PicturesFacts DEF Pictures
<1>2. Unsplit \in Pictures
  <2> DEFINE T == Seq(PictureChars)
  <2>1. <<>> \in T
    BY EmptySeq
  <2> HIDE DEF T
  <2>2. \A x \in T : <<x>> \in Seq(T) /\ <<x>> # <<>>
    OBVIOUS
  <2> QED  BY <2>1, <2>2 DEF T, Pictures, Unsplit
<1>3. SplitStep = [p \in Pictures \X PictureChars |-> Next(p[1], p[2])]
  BY DEF SplitStep
<1> HIDE DEF Next
<1>4. SplitStep \in Steps(Pictures, PictureChars)
  BY <1>1, <1>3 DEF Steps
<1>5. \A pics \in Pictures, c \in PictureChars : SplitStep[<<pics, c>>] = Next(pics, c)
  BY <1>3
<1> QED
  BY <1>2, <1>4, <1>5 DEF Next

\* How a picture is split.
LEMMA SplittingIs ==
    ASSUME NEW q \in Seq(PictureChars)
    PROVE  splitOnPatternSep(q) = Along(SplitStep, Unsplit, q)
<1> DEFINE D == DOMAIN q
           IsIt(it) == it = [s \in SUBSET D |->
                               IF s = {} THEN Unsplit ELSE LET x == Max(s) IN (IF q[x] = ";" THEN Append(it[s \ {x}], <<>>) ELSE [it[s \ {x}] EXCEPT ![Len(it[s \ {x}])] = Append(@, q[x])])]
           iter == CHOOSE it : IsIt(it)
<1>1. /\ D = 1 .. Len(q) /\ Len(q) \in Nat
      /\ \A i \in 1 .. Len(q) : q[i] \in PictureChars
  <2> DEFINE X == PictureChars
  <2>1. q \in Seq(X)
    OBVIOUS
  <2> HIDE DEF X
  <2>2. \A i \in 1 .. Len(q) : q[i] \in X
    BY <2>1, ElementOfSeq
  <2>3. D = 1 .. Len(q) /\ Len(q) \in Nat
    BY <2>1
  <2> QED  BY <2>2, <2>3 DEF X
<1>2. splitOnPatternSep(q) = iter[D]
  BY DEF splitOnPatternSep, Unsplit, FoldLeft, MapThenFoldSet
<1>3. PICK h \in [SUBSET (1 .. Len(q)) -> Pictures] : Folds(SplitStep, Unsplit, q, Len(q), h)
  <2> DEFINE V == Pictures
  <2>1. SplitStep \in Steps(V, PictureChars) /\ Unsplit \in V
    BY SplitStepType
  <2> HIDE DEF V
  <2>2. \E h \in [SUBSET (1 .. Len(q)) -> V] : Folds(SplitStep, Unsplit, q, Len(q), h)
    BY <2>1, FoldExists
  <2> QED  BY <2>2 DEF V
<1>4. IsIt(h)
  <2>1. ASSUME NEW s \in SUBSET D
        PROVE  h[s] = IF s = {} THEN Unsplit ELSE LET x == Max(s) IN (IF q[x] = ";" THEN Append(h[s \ {x}], <<>>) ELSE [h[s \ {x}] EXCEPT ![Len(h[s \ {x}])] = Append(@, q[x])])
    <3>1. CASE s # {}
      <4>1. Max(s) \in s
        BY <1>1, <3>1, GreatestIndex
      <4>2. q[Max(s)] \in PictureChars /\ h[s \ {Max(s)}] \in Pictures
        BY <1>1, <1>3, <4>1
      <4>3. h[s] = SplitStep[<<h[s \ {Max(s)}], q[Max(s)]>>]
        BY <1>1, <1>3, <3>1 DEF Folds
      <4>4. SplitStep[<<h[s \ {Max(s)}], q[Max(s)]>>] = (IF q[Max(s)] = ";" THEN Append(h[s \ {Max(s)}], <<>>) ELSE [h[s \ {Max(s)}] EXCEPT ![Len(h[s \ {Max(s)}])] = Append(@, q[Max(s)])])
        BY <4>2, SplitStepType
      <4> QED  BY <3>1, <4>3, <4>4
    <3>2. CASE s = {}
      BY <1>1, <1>3, <3>2 DEF Folds
    <3> QED  BY <3>1, <3>2
  <2> QED  BY <1>1, <1>3, <2>1
<1>5. IsIt(iter)
  <2> HIDE DEF IsIt
  <2> QED  BY <1>4
<1> HIDE DEF iter
<1>6. iter[{}] = Unsplit
  BY <1>5
<1>7. ASSUME NEW k \in 1 .. Len(q), iter[1 .. k - 1] \in Pictures
      PROVE  iter[1 .. k] = SplitStep[<<iter[1 .. k - 1], q[k]>>]
  <2>1. 1 .. k \in SUBSET D /\ 1 .. k # {}
    <3>1. k \in 1 .. k /\ \A j \in 1 .. k : j \in 1 .. Len(q)
      BY <1>1
    <3>2. D = 1 .. Len(q)
      BY <1>1
    <3> HIDE DEF D
    <3> QED  BY <3>1, <3>2
  <2>2. PICK s \in SUBSET D : s = 1 .. k
    BY <2>1
  <2>3. iter[s] = (IF q[Max(s)] = ";" THEN Append(iter[s \ {Max(s)}], <<>>) ELSE [iter[s \ {Max(s)}] EXCEPT ![Len(iter[s \ {Max(s)}])] = Append(@, q[Max(s)])])
    BY <1>5, <2>1, <2>2
  <2>4. Max(s) = k /\ s \ {k} = 1 .. k - 1
    BY <1>1, <2>2, GreatestOfInterval
  <2>5. iter[1 .. k] = (IF q[k] = ";" THEN Append(iter[1 .. k - 1], <<>>) ELSE [iter[1 .. k - 1] EXCEPT ![Len(iter[1 .. k - 1])] = Append(@, q[k])])
    BY <2>2, <2>3, <2>4
  <2>6. q[k] \in PictureChars
    BY <1>1
  <2> QED  BY <1>7, <2>5, <2>6, SplitStepType
<1>8. iter[1 .. Len(q)] = Along(SplitStep, Unsplit, q)
  <2> DEFINE V == Pictures
  <2>1. SplitStep \in Steps(V, PictureChars) /\ Unsplit \in V
    BY SplitStepType
  <2>2. \A k \in 1 .. Len(q) : iter[1 .. k - 1] \in V => iter[1 .. k] = SplitStep[<<iter[1 .. k - 1], q[k]>>]
    BY <1>7
  <2> HIDE DEF V
  <2> QED  BY <1>6, <2>1, <2>2, FoldRuns
<1> QED
  BY <1>1, <1>2, <1>8

LEMMA PicturesOf ==
    ASSUME NEW picture \in Seq(PictureChars)
    PROVE  LET pics == splitOnPatternSep(picture) IN
           /\ pics \in Seq(Seq(PictureChars)) /\ pics # <<>>
           /\ DOMAIN pics = 1 .. Len(pics) /\ Len(pics) \in Nat \ {0}
           /\ \A k \in 1 .. Len(pics) : pics[k] \in Seq(PictureChars)
           /\ Head(pics) = pics[1] /\ Last(pics) = pics[Len(pics)]
<1> DEFINE pics == splitOnPatternSep(picture)
           T == Seq(PictureChars)
<1>1. pics \in Pictures
  <2>1. SplitStep \in Steps(Pictures, PictureChars) /\ Unsplit \in Pictures
    BY SplitStepType
  <2>2. pics = Along(SplitStep, Unsplit, picture)
    BY SplittingIs
  <2> HIDE DEF pics
  <2> QED  BY <2>1, <2>2, AlongType
<1>2. pics \in Seq(T) /\ pics # <<>>
  BY <1>1 DEF Pictures
<1> HIDE DEF pics, T
<1>3. DOMAIN pics = 1 .. Len(pics) /\ Len(pics) \in Nat \ {0} /\ \A k \in 1 .. Len(pics) : pics[k] \in T
  <2>1. DOMAIN pics = 1 .. Len(pics) /\ Len(pics) \in Nat \ {0}
    BY <1>2, EmptySeq
  <2> QED  BY <1>2, <2>1, ElementOfSeq
<1>4. Head(pics) = pics[1] /\ Last(pics) = pics[Len(pics)]
  BY DEF Last
<1> QED
  BY <1>2, <1>3, <1>4 DEF pics, T

\* What is written, when a text is.
BodyOf(s, sp) == IF sp.expMandatory > 0 THEN formatWithExponent(s, sp) ELSE formatFixed(s, sp)

LEMMA NotAText ==
    ASSUME NEW code
    PROVE  "text" \notin DOMAIN PictureError(code) /\ "error" \in DOMAIN PictureError(code)
  BY DEF PictureError

LEMMA TextIs ==
    ASSUME NEW n, NEW picture \in Seq(PictureChars), "text" \in DOMAIN formatNumberPicture(n, picture)
    PROVE  LET pics == splitOnPatternSep(picture)
               sp == parseSubPicture(IF parts(n).negative THEN Last(pics) ELSE Head(pics))
               scaled == [n EXCEPT !.negative = FALSE, !.exp = @ + sp.scale]
           IN /\ IsSubPicture(sp)
              /\ \E dash \in {<<>>, Letter("-")} :
                   formatNumberPicture(n, picture).text = ((dash \o sp.prefix) \o BodyOf(scaled, sp)) \o sp.suffix
<1> DEFINE pics == splitOnPatternSep(picture)
           subs == [k \in DOMAIN pics |-> parseSubPicture(pics[k])]
           wrong == {k \in DOMAIN subs : "error" \in DOMAIN subs[k]}
           negative == parts(n).negative
           dash == IF negative /\ Len(subs) = 1 THEN << <<"-", 0>> >> ELSE <<>>
           sp == IF negative THEN subs[Len(subs)] ELSE subs[1]
           scaled == [n EXCEPT !.negative = FALSE, !.exp = @ + sp.scale]
           text == dash \o sp.prefix
                      \o (IF sp.expMandatory > 0 THEN formatWithExponent(scaled, sp) ELSE formatFixed(scaled, sp))
                      \o sp.suffix
           chosen == IF negative THEN Last(pics) ELSE Head(pics)
<1>1. formatNumberPicture(n, picture) =
        IF Len(pics) > 2 THEN PictureError("D3080")
        ELSE IF wrong # {} THEN subs[Min(wrong)]
        ELSE IF sp.expMandatory = 0 /\ Endless(sp.intGroups) THEN [endless |-> TRUE]
        ELSE [text |-> text]
  BY DEF formatNumberPicture
<1>2. PICK m \in Nat \ {0} : /\ m = Len(pics) /\ DOMAIN pics = 1 .. m
                             /\ \A k \in 1 .. m : pics[k] \in Seq(PictureChars)
                             /\ Head(pics) = pics[1] /\ Last(pics) = pics[m]
  <2> HIDE DEF pics
  <2>1. pics = splitOnPatternSep(picture)
    BY DEF pics
  <2> QED  BY <2>1, PicturesOf
<1> HIDE DEF pics
<1>3. Len(subs) = m /\ DOMAIN subs = 1 .. m /\ \A k \in 1 .. m : subs[k] = parseSubPicture(pics[k])
  <2>1. subs = [k \in 1 .. m |-> parseSubPicture(pics[k])]
    BY <1>2
  <2>2. m \in Nat
    OBVIOUS
  <2> QED  BY <2>1, <2>2
<1> HIDE DEF subs
<1>4. \A k \in 1 .. m : (\E code : subs[k] = PictureError(code)) \/ ("error" \notin DOMAIN subs[k] /\ IsSubPicture(subs[k]))
  BY <1>2, <1>3, SubPictureIs
<1>5. wrong = {}
  <2>1. ASSUME wrong # {} PROVE FALSE
    <3>1. wrong \subseteq Nat /\ wrong \subseteq 1 .. m
      BY <1>3
    <3>2. Min(wrong) \in wrong
      BY <2>1, <3>1, SmallestIs
    <3>3. PICK code : subs[Min(wrong)] = PictureError(code)
      BY <1>4, <3>1, <3>2
    <3>4. "text" \notin DOMAIN subs[Min(wrong)] /\ "text" \notin DOMAIN PictureError("D3080")
      BY <3>3, NotAText
    <3> HIDE DEF wrong
    <3> QED  BY <1>1, <2>1, <3>4
  <2> QED  BY <2>1
<1>6. chosen = pics[IF negative THEN m ELSE 1] /\ sp = subs[IF negative THEN m ELSE 1]
  BY <1>2, <1>3
<1>7. (IF negative THEN m ELSE 1) \in 1 .. m
  OBVIOUS
<1>8. sp = parseSubPicture(chosen)
  BY <1>3, <1>6, <1>7
<1>9. IsSubPicture(sp)
  <2>1. "error" \notin DOMAIN sp
    BY <1>3, <1>5, <1>6, <1>7
  <2>2. (\E code : sp = PictureError(code)) \/ IsSubPicture(sp)
    BY <1>4, <1>6, <1>7
  <2> HIDE DEF sp
  <2> QED  BY <2>1, <2>2, NotAText
<1>10. formatNumberPicture(n, picture).text = text
  <2>1. "text" \notin DOMAIN [endless |-> TRUE]
    OBVIOUS
  <2>2. "text" \notin DOMAIN PictureError("D3080")
    BY NotAText
  <2> HIDE DEF text, wrong, sp
  <2>3. formatNumberPicture(n, picture) = [text |-> text]
    BY <1>1, <1>5, <2>1, <2>2
  <2> QED  BY <2>3
<1>11. text = ((dash \o sp.prefix) \o BodyOf(scaled, sp)) \o sp.suffix
  BY DEF BodyOf
<1>12. dash \in {<<>>, Letter("-")}
  BY DEF Letter
<1> HIDE DEF dash, text, sp, scaled, chosen
<1>13. \E d \in {<<>>, Letter("-")} :
         formatNumberPicture(n, picture).text = ((d \o sp.prefix) \o BodyOf(scaled, sp)) \o sp.suffix
  BY <1>10, <1>11, <1>12
<1> QED
  BY <1>8, <1>9, <1>13 DEF pics, chosen, negative, scaled

LEMMA PlacesIs ==
    ASSUME NEW sp, IsSubPicture(sp)
    PROVE  /\ Places(sp) \in Nat /\ sp.fracMandatory <= Places(sp)
           /\ sp.expMandatory = 0 => Places(sp) = sp.fracMandatory + sp.fracOptional
<1>1. /\ sp.intMandatory \in Nat /\ sp.intOptional \in Nat /\ sp.fracMandatory \in Nat
      /\ sp.fracOptional \in Nat /\ sp.expMandatory \in Nat
  BY DEF IsSubPicture
<1>2. \A i, j, f, o, e \in Nat :
        LET places == f + o
            p == IF e > 0 /\ i + places = 0 THEN j ELSE places
        IN p \in Nat /\ f <= p /\ (e = 0 => p = f + o)
  OBVIOUS
<1> QED
  BY <1>1, <1>2 DEF Places

LEMMA LowEnough ==
    ASSUME NEW p \in Nat, NEW x \in Int, NEW y \in Int
    PROVE  \E t \in Nat \ {0} : -p - t <= x /\ -p - t <= y
<1>1. CASE x <= y
  <2>1. CASE x >= 0
    <3>1. -p - 1 <= x /\ -p - 1 <= y /\ 1 \in Nat \ {0}
      BY <1>1, <2>1
    <3> QED  BY <3>1
  <2>2. CASE x < 0
    <3>1. -p - (-x) <= x /\ -p - (-x) <= y /\ -x \in Nat \ {0}
      BY <1>1, <2>2
    <3> QED  BY <3>1
  <2> QED  BY <2>1, <2>2
<1>2. CASE y < x
  <2>1. CASE y >= 0
    <3>1. -p - 1 <= x /\ -p - 1 <= y /\ 1 \in Nat \ {0}
      BY <1>2, <2>1
    <3> QED  BY <3>1
  <2>2. CASE y < 0
    <3>1. -p - (-y) <= x /\ -p - (-y) <= y /\ -y \in Nat \ {0}
      BY <1>2, <2>2
    <3> QED  BY <3>1
  <2> QED  BY <2>1, <2>2
<1> QED
  BY <1>1, <1>2

LEMMA FixedSays ==
    ASSUME NEW s \in Spellings, NEW sp, IsSubPicture(sp), sp.expMandatory = 0
    PROVE  LET body == formatFixed(s, sp)
               said == After(body)
           IN /\ body \in Seq(Glyphs) /\ said \in Said
              /\ said.at # "exp" /\ Exponent(said) = 0 /\ FitsPicture(said, sp)
              /\ ValueRead(said, Places(sp)) = Number[Fixed(s, Places(sp))]
<1> DEFINE places == sp.fracMandatory + sp.fracOptional
           all == Fixed(s, places)
           least == Max({1, sp.intMandatory})
           a == SubSeq(all, 1, Len(all) - places)
           d == SubSeq(all, Len(all) - places + 1, Len(all))
           int == PadLeft(a, least)
           frac == TrimFraction(d, sp)
           ti == applyIntGrouping(int, sp.intGroups)
           tf == applyFracGrouping(frac, sp.fracGroups)
           point == IF frac # <<>> \/ sp.hasDecimal THEN Point ELSE <<>>
           body == formatFixed(s, sp)
           said == After(body)
<1>1. places \in Nat /\ Places(sp) = places /\ sp.fracMandatory \in Nat /\ sp.fracOptional \in Nat
      /\ sp.fracMandatory <= places /\ sp.intMandatory \in Nat
  BY PlacesIs DEF IsSubPicture
<1>2. body = ti \o point \o tf
  BY DEF formatFixed
<1>3. least \in Nat /\ least >= sp.intMandatory
  <2>1. {1, sp.intMandatory} \in SUBSET (1 .. sp.intMandatory + 1) \/ sp.intMandatory = 0
    BY <1>1
  <2>2. CASE sp.intMandatory = 0
    <3>1. {1, 0} = {0, 1} /\ Max({0, 1}) = 1
      BY MaxZero
    <3> QED  BY <2>2, <3>1
  <2>3. CASE {1, sp.intMandatory} \in SUBSET (1 .. sp.intMandatory + 1)
    <3>1. sp.intMandatory + 1 \in Nat /\ {1, sp.intMandatory} # {}
      BY <1>1
    <3>2. Max({1, sp.intMandatory}) \in {1, sp.intMandatory} /\ \A y \in {1, sp.intMandatory} : Max({1, sp.intMandatory}) >= y
      BY <2>3, <3>1, GreatestIndex
    <3> QED  BY <1>1, <3>2
  <2> QED  BY <2>1, <2>2, <2>3
<1>4. all \in Seq(Digit) /\ places < Len(all)
  <2>1. PICK t \in Nat \ {0} : -places - t <= Scale(s)
    <3>1. Scale(s) \in Int
      BY SpellingFacts DEF Scale
    <3> HIDE DEF places
    <3> QED  BY <1>1, <3>1, LowEnough
  <2>2. Len(all) > places /\ all \in Seq(Digit)
    BY <1>1, <2>1, RoundedDigits
  <2> HIDE DEF all
  <2>3. Len(all) \in Nat
    BY <2>2
  <2> QED  BY <1>1, <2>2, <2>3
<1> HIDE DEF all, least, places
<1>5. /\ int \in Seq(Digit) /\ Len(int) >= least
      /\ frac \in Seq(Digit) /\ Len(frac) \in sp.fracMandatory .. places
      /\ sp.fracOptional > 0 /\ Len(frac) > sp.fracMandatory => Last(frac) # 0
      /\ int \o frac \o Zeros(places - Len(frac)) \in Seq(Digit)
      /\ Number[int \o frac \o Zeros(places - Len(frac))] = Number[all]
  BY <1>1, <1>3, <1>4, SameNumber
<1> HIDE DEF int, frac
<1>6. Says(ti, int) /\ Says(tf, frac)
  BY <1>5, GroupingsSay
<1>7. point \in {<<>>, Point} /\ (point = <<>> => frac = <<>>)
  <2>1. Point # <<>>
    BY DEF Point
  <2> QED  BY <2>1
<1> HIDE DEF ti, tf, point
<1>8. body \in Seq(Glyphs) /\ said = [int |-> int, frac |-> frac, exp |-> <<>>, minus |-> FALSE,
                                      at |-> IF point = <<>> THEN "int" ELSE "frac"]
  <2> DEFINE text == ti \o point \o tf
  <2>1. text \in Seq(Glyphs) /\ After(text) = [int |-> int, frac |-> frac, exp |-> <<>>, minus |-> FALSE,
                                              at |-> IF point = <<>> THEN "int" ELSE "frac"]
    BY <1>6, <1>7, FixedIsRead
  <2>2. body = text
    BY <1>2
  <2> HIDE DEF body, text
  <2> QED  BY <2>1, <2>2
<1> HIDE DEF body
<1>9. said \in Said
  <2>1. Unread \in Said /\ ReadStep \in Steps(Said, Glyphs)
    BY ReadStepType
  <2> QED  BY <1>8, <2>1, AlongType DEF After
<1> HIDE DEF said
<1>10. said.int = int /\ said.frac = frac /\ said.exp = <<>> /\ said.minus = FALSE /\ said.at # "exp"
  BY <1>8
<1>11. Exponent(said) = 0
  <2>1. NumberOf(<<>>) = Number[<<>>] /\ Number[<<>>] = 0
    BY EmptySeq, NumberIs, NumberReads DEF Reads
  <2> QED  BY <1>10, <2>1 DEF Exponent
<1>12. ValueRead(said, places) = Number[all]
  BY <1>5, <1>10, NumberIs DEF ValueRead
<1>13. FitsPicture(said, sp)
  <2>1. Len(int) \in Nat
    BY <1>5
  <2> QED  BY <1>1, <1>3, <1>5, <1>10, <2>1 DEF FitsPicture
<1> QED
  BY <1>1, <1>8, <1>9, <1>10, <1>11, <1>12, <1>13 DEF body, said, all

\* Without a digit for the integer, what is rounded up to 1 is written as .0.
LostDigit(m, sp) ==
    sp.intMandatory + sp.intOptional = 0 /\ Number[Fixed(m.value, Places(sp))] >= Ten(Places(sp))

LEMMA ExponentSays ==
    ASSUME NEW s \in Spellings, NEW sp, IsSubPicture(sp), sp.expMandatory > 0
    PROVE  LET body == formatWithExponent(s, sp)
               said == After(body)
               m == Mantissa(s, sp.intMandatory)
           IN /\ body \in Seq(Glyphs) /\ said \in Said
              /\ said.exp # <<>> /\ Exponent(said) = m.exp /\ FitsPicture(said, sp)
              /\ LostDigit(m, sp) \/ ValueRead(said, Places(sp)) = Number[Fixed(m.value, Places(sp))]
<1> DEFINE places == Places(sp)
           m == Mantissa(s, sp.intMandatory)
           all == Fixed(m.value, places)
           a == SubSeq(all, 1, Len(all) - places)
           d == SubSeq(all, Len(all) - places + 1, Len(all))
           int == PadLeft(a, sp.intMandatory)
           frac == TrimFraction(d, sp)
           exp == Decimals(m.exp)
           has == sp.intMandatory + sp.intOptional > 0
           ti == IF has THEN DigitChars(int) ELSE <<>>
           read == IF has THEN int ELSE <<>>
           tf == DigitChars(frac)
           point == IF frac # <<>> \/ (sp.hasDecimal /\ sp.intMandatory + sp.intOptional > 0) THEN Point ELSE <<>>
           sign == IF exp.negative THEN << <<"-", 0>> >> ELSE <<>>
           row == PadLeft(exp.head, sp.expMandatory)
           te == DigitChars(row)
           body == formatWithExponent(s, sp)
           said == After(body)
<1>1. /\ places \in Nat /\ sp.fracMandatory \in Nat /\ sp.fracOptional \in Nat /\ sp.fracMandatory <= places
      /\ sp.intMandatory \in Nat /\ sp.intOptional \in Nat /\ sp.expMandatory \in Nat \ {0}
  BY SMTT(40), PlacesIs DEF IsSubPicture
<1>2. body = ((ti \o point \o tf) \o << <<"e", 0>> >>) \o sign \o te
  BY DEF formatWithExponent
<1>3. m.value \in Spellings /\ m.exp \in Int
  BY <1>1, MantissaIs
<1> HIDE DEF m, places
<1>4. all \in Seq(Digit) /\ places < Len(all) /\ Number[all] \in Nat
  <2>1. PICK t \in Nat \ {0} : -places - t <= Scale(m.value)
    <3>1. Scale(m.value) \in Int
      BY <1>3, SpellingFacts DEF Scale
    <3> QED  BY <1>1, <3>1, LowEnough
  <2>2. Len(all) > places /\ all \in Seq(Digit) /\ Number[all] \in Nat
    BY <1>1, <1>3, <2>1, RoundedDigits
  <2> HIDE DEF all
  <2>3. Len(all) \in Nat
    BY <2>2
  <2> QED  BY <1>1, <2>2, <2>3
<1> HIDE DEF all
<1>5. /\ int \in Seq(Digit) /\ Len(int) >= sp.intMandatory
      /\ frac \in Seq(Digit) /\ Len(frac) \in sp.fracMandatory .. places
      /\ sp.fracOptional > 0 /\ Len(frac) > sp.fracMandatory => Last(frac) # 0
      /\ int \o frac \o Zeros(places - Len(frac)) \in Seq(Digit)
      /\ Number[int \o frac \o Zeros(places - Len(frac))] = Number[all]
      /\ <<>> \o frac \o Zeros(places - Len(frac)) \in Seq(Digit)
      /\ Number[all] < Ten(places) => Number[<<>> \o frac \o Zeros(places - Len(frac))] = Number[all]
  <2>0. /\ sp.intMandatory \in Nat /\ places \in Nat /\ all \in Seq(Digit) /\ places < Len(all)
        /\ sp.fracMandatory \in Nat /\ sp.fracOptional \in Nat /\ sp.fracMandatory <= places
    BY <1>1, <1>4
  <2>1. /\ int \in Seq(Digit) /\ Len(int) >= sp.intMandatory
        /\ frac \in Seq(Digit) /\ Len(frac) \in sp.fracMandatory .. places
        /\ sp.fracOptional > 0 /\ Len(frac) > sp.fracMandatory => Last(frac) # 0
    BY <2>0, SameNumber
  <2>2. /\ int \o frac \o Zeros(places - Len(frac)) \in Seq(Digit)
        /\ Number[int \o frac \o Zeros(places - Len(frac))] = Number[all]
    <3>1. int \o frac \o Zeros(places - Len(frac)) \in Seq(Digit)
      BY <2>0, SameNumber
    <3>2. Number[int \o frac \o Zeros(places - Len(frac))] = Number[all]
      <4>1. PICK least \in Nat : least = sp.intMandatory
        BY <2>0
      <4>2. Number[PadLeft(a, least) \o frac \o Zeros(places - Len(frac))] = Number[all]
        BY <2>0, SameNumber
      <4> QED  BY <4>1, <4>2
    <3> QED  BY <3>1, <3>2
  <2>3. /\ <<>> \o frac \o Zeros(places - Len(frac)) \in Seq(Digit)
        /\ Number[all] < Ten(places) => Number[<<>> \o frac \o Zeros(places - Len(frac))] = Number[all]
    BY <2>0, SameNumber
  <2> QED  BY <2>1, <2>2, <2>3
<1>6. exp.head \in Seq(Digit) /\ exp.negative \in BOOLEAN
      /\ (IF exp.negative THEN -Number[exp.head] ELSE Number[exp.head]) = m.exp
  <2>1. PICK w \in Nat : w = IF m.exp < 0 THEN -m.exp ELSE m.exp
    <3>1. (IF m.exp < 0 THEN -m.exp ELSE m.exp) \in Nat
      BY <1>3
    <3> QED  BY <3>1
  <2>2. exp.head = DecimalDigits[w] /\ exp.negative = (m.exp < 0)
    BY <2>1 DEF Decimals, Spelling
  <2>3. DecimalDigits[w] \in Seq(Digit) /\ Number[DecimalDigits[w]] = w
    BY NumeralIs
  <2> HIDE DEF exp
  <2>4. CASE m.exp < 0
    <3>1. w = -m.exp /\ exp.negative = TRUE
      BY <2>1, <2>2, <2>4
    <3>2. -w = m.exp
      BY <1>3, <3>1
    <3> QED  BY <2>2, <2>3, <3>1, <3>2
  <2>5. CASE ~(m.exp < 0)
    <3>1. w = m.exp /\ exp.negative = FALSE
      <4>1. (m.exp < 0) = FALSE
        BY <2>5
      <4>2. w = m.exp
        BY <2>1, <2>5
      <4>3. exp.negative = FALSE
        BY <2>2, <4>1
      <4> QED  BY <4>2, <4>3
    <3>2. Number[exp.head] = m.exp
      BY <2>2, <2>3, <3>1
    <3> QED  BY <2>2, <2>3, <3>1, <3>2
  <2> QED  BY <2>4, <2>5
<1> HIDE DEF exp, int, frac
<1>7. row \in Seq(Digit) /\ Len(row) >= sp.expMandatory /\ Number[row] = Number[exp.head]
  BY <1>1, <1>6, PadLeftIs
<1> HIDE DEF row
<1>8. Says(ti, read) /\ Says(tf, frac) /\ Says(te, row)
  BY <1>5, <1>7, DigitCharsSay, SaysNothing
<1>9. point \in {<<>>, Point} /\ (point = <<>> => frac = <<>>)
  <2>1. Point # <<>>
    BY DEF Point
  <2> QED  BY <2>1
<1>10. read \in Seq(Digit) /\ Len(read) >= sp.intMandatory
  <2>1. CASE has
    BY <1>5, <2>1
  <2>2. CASE ~has
    <3>1. read = <<>> /\ sp.intMandatory = 0
      BY <1>1, <2>2
    <3>2. <<>> \in Seq(Digit) /\ Len(<<>>) = 0
      BY EmptySeq
    <3> HIDE DEF read
    <3> QED  BY <3>1, <3>2
  <2> QED  BY <2>1, <2>2
<1>11. LostDigit(m, sp) \/ (/\ read \o frac \o Zeros(places - Len(frac)) \in Seq(Digit)
                            /\ Number[read \o frac \o Zeros(places - Len(frac))] = Number[all])
  <2>1. CASE has
    BY <1>5, <2>1
  <2>2. CASE ~has
    <3>1. read = <<>> /\ sp.intMandatory + sp.intOptional = 0
      BY <1>1, <2>2
    <3>2. Number[all] < Ten(places) \/ Number[all] >= Ten(places)
      <4>1. Number[all] \in Nat /\ Ten(places) \in Nat
        BY <1>1, <1>4, TenPositive
      <4>2. \A i, j \in Nat : i < j \/ i >= j
        OBVIOUS
      <4> QED  BY <4>1, <4>2
    <3> QED  BY <1>5, <3>1, <3>2 DEF LostDigit, all, places
  <2> QED  BY <2>1, <2>2
<1> HIDE DEF ti, tf, te, point, read
<1>12. body \in Seq(Glyphs) /\ said = [int |-> read, frac |-> frac, exp |-> row, minus |-> exp.negative, at |-> "exp"]
  <2> DEFINE text == ti \o point \o tf
             at == IF point = <<>> THEN "int" ELSE "frac"
             whole == text \o << <<"e", 0>> >> \o sign \o te
  <2>1. text \in Seq(Glyphs) /\ After(text) = [int |-> read, frac |-> frac, exp |-> <<>>, minus |-> FALSE, at |-> at]
    BY <1>8, <1>9, FixedIsRead
  <2>2. body = whole
    BY <1>2
  <2> HIDE DEF body, text, at
  <2>4. PICK negative \in BOOLEAN : negative = exp.negative
    BY <1>6
  <2>5. Says(te, row)
    BY <1>8
  <2> DEFINE other == text \o << <<"e", 0>> >> \o (IF negative THEN << <<"-", 0>> >> ELSE <<>>) \o te
  <2>6. other \in Seq(Glyphs) /\ After(other) = [int |-> read, frac |-> frac, exp |-> row, minus |-> negative, at |-> "exp"]
    BY SMTT(40), <2>1, <2>5, ExponentIsRead
  <2>7. other = whole
    BY <2>4
  <2> HIDE DEF other, whole
  <2>3. whole \in Seq(Glyphs) /\ After(whole) = [int |-> read, frac |-> frac, exp |-> row, minus |-> exp.negative, at |-> "exp"]
    BY <2>4, <2>6, <2>7
  <2> QED  BY <2>2, <2>3
<1> HIDE DEF body
<1>13. said \in Said
  <2>1. Unread \in Said /\ ReadStep \in Steps(Said, Glyphs)
    BY ReadStepType
  <2> QED  BY <1>12, <2>1, AlongType DEF After
<1> HIDE DEF said, sign
<1>14. said.int = read /\ said.frac = frac /\ said.exp = row /\ said.minus = exp.negative
  BY <1>12
<1>15. Exponent(said) = m.exp
  <2>1. NumberOf(row) = Number[row]
    BY <1>7, NumberIs
  <2> QED  BY <1>6, <1>7, <1>14, <2>1 DEF Exponent
<1>16. said.exp # <<>>
  <2>1. Len(<<>>) = 0
    BY EmptySeq
  <2> QED  BY <1>1, <1>7, <1>14, <2>1
<1>17. LostDigit(m, sp) \/ ValueRead(said, places) = Number[all]
  BY <1>11, <1>14, NumberIs DEF ValueRead
<1>18. FitsPicture(said, sp)
  BY <1>5, <1>10, <1>14 DEF FitsPicture, places
<1> QED
  BY <1>12, <1>13, <1>15, <1>16, <1>17, <1>18 DEF body, said, all, m, places

\* What stands before a number and after it is not read.
LEMMA AroundTheNumber ==
    ASSUME NEW dash \in {<<>>, Letter("-")}, NEW prefix \in Seq(Glyphs), Mute(prefix),
           NEW suffix \in Seq(Glyphs), Mute(suffix), NEW body \in Seq(Glyphs),
           After(body) \in Said, After(body).at # "exp" \/ After(body).exp # <<>>
    PROVE  Reading(((dash \o prefix) \o body) \o suffix) = After(body)
<1>1. Unread \in Said /\ Unread.at = "int"
  BY ReadStepType DEF Unread
<1>2. dash \in Seq(Glyphs) /\ After(dash) = Unread
  <2>1. CASE dash = <<>>
    <3>1. <<>> \in Seq(Glyphs) /\ Along(ReadStep, Unread, <<>>) = Unread
      BY EmptySeq, AlongEmpty
    <3> QED  BY <2>1, <3>1 DEF After
  <2>2. CASE dash = Letter("-")
    BY <1>1, <2>2, Letters DEF After
  <2> QED  BY <2>1, <2>2
<1>3. dash \o prefix \in Seq(Glyphs) /\ After(dash \o prefix) = Unread
  <2>1. Quiet(Unread, prefix)
    BY <1>1 DEF Quiet, Mute
  <2>2. Along(ReadStep, Unread, prefix) = Unread
    BY <1>1, <2>1, QuietText
  <2> QED  BY <1>2, <2>2, AfterMore
<1>4. (dash \o prefix) \o body \in Seq(Glyphs) /\ After((dash \o prefix) \o body) = After(body)
  BY ZenonT(40), <1>3, AfterMore DEF After
<1>5. Quiet(After(body), suffix)
  BY DEF Quiet, Mute
<1>6. Along(ReadStep, After(body), suffix) = After(body)
  BY <1>5, QuietText
<1>7. /\ ((dash \o prefix) \o body) \o suffix \in Seq(Glyphs)
      /\ After(((dash \o prefix) \o body) \o suffix) = After(body)
  BY <1>4, <1>6, AfterMore
<1> QED
  BY <1>7, ReadingIs DEF After

\* The number without its sign and with the scale of a picture.
ScaledBy(n, scale) == [n EXCEPT !.negative = FALSE, !.exp = @ + scale]

LEMMA ScaledIs ==
    ASSUME NEW n \in Spellings, NEW scale \in Nat
    PROVE  LET scaled == ScaledBy(n, scale) IN
           /\ scaled \in Spellings /\ scaled.head = n.head
           /\ (Zero(scaled) <=> Zero(n)) /\ parts(scaled).coefficient = parts(n).coefficient
<1> DEFINE scaled == ScaledBy(n, scale)
<1>1. n.negative \in BOOLEAN /\ n.head \in Seq(Digit) /\ n.fraction \in Nat /\ n.exp \in Int
  BY SpellingFacts
<1>2. scaled \in Spellings /\ scaled.head = n.head
  <2>1. scaled = [negative |-> FALSE, head |-> n.head, fraction |-> n.fraction, exp |-> n.exp + scale]
    <3>1. PICK r : r = [n EXCEPT !.negative = FALSE, !.exp = @ + scale]
      OBVIOUS
    <3>2. r = [negative |-> FALSE, head |-> n.head, fraction |-> n.fraction, exp |-> n.exp + scale]
      BY <3>1 DEF Spellings
    <3> QED  BY <3>1, <3>2 DEF ScaledBy
  <2>2. FALSE \in BOOLEAN /\ n.exp + scale \in Int
    BY <1>1
  <2>3. scaled = Spelling(FALSE, n.head, n.fraction, n.exp + scale)
    BY <2>1 DEF Spelling
  <2>4. scaled \in Spellings
    BY <1>1, <2>2, <2>3, IsSpelling
  <2> QED  BY <2>1, <2>4
<1> HIDE DEF scaled
<1>3. parts(scaled).coefficient = parts(n).coefficient
  BY <1>2 DEF parts
<1> QED
  BY <1>2, <1>3 DEF Zero, scaled

LEMMA LostCarryIs ==
    ASSUME NEW n \in Spellings, NEW sp, IsSubPicture(sp), sp.expMandatory > 0,
           NEW scaled, scaled = ScaledBy(n, sp.scale),
           LostDigit(Mantissa(scaled, sp.intMandatory), sp)
    PROVE  LostCarry(n, sp)
<1> DEFINE m == Mantissa(scaled, sp.intMandatory)
           places == Places(sp)
           k == Number[Fixed(m.value, places)]
<1>1. places \in Nat /\ sp.scale \in Nat /\ sp.intMandatory \in Nat /\ sp.intOptional \in Nat
  BY PlacesIs DEF IsSubPicture
<1>2. sp.intMandatory + sp.intOptional = 0 /\ k >= Ten(places)
  BY DEF LostDigit
<1>3. sp.intMandatory = 0
  BY <1>1, <1>2
<1>4. scaled \in Spellings /\ (Zero(scaled) <=> Zero(n)) /\ parts(scaled).coefficient = parts(n).coefficient
  BY <1>1, ScaledIs
<1>5. Ten(places) \in Nat \ {0}
  BY <1>1, TenPositive
<1>6. ~Zero(n)
  <2>1. ASSUME Zero(scaled) PROVE FALSE
    <3>1. m.value = scaled
      BY <2>1 DEF Mantissa
    <3>2. Fixed(scaled, places) = Zeros(places + 1)
      BY <2>1 DEF Fixed
    <3>3. places + 1 \in Int
      BY <1>1
    <3>4. k = 0
      BY <3>1, <3>2, <3>3, ZeroNumber
    <3> HIDE DEF k, places
    <3> QED  BY <1>2, <1>5, <3>4
  <2> QED  BY <1>4, <2>1
<1>7. m.value = Mantissa(n, 0).value
  <2>1. m.value = Spelling(FALSE, parts(scaled).coefficient, 0, sp.intMandatory - Len(parts(scaled).coefficient))
    BY <1>4, <1>6 DEF Mantissa
  <2>2. Mantissa(n, 0).value = Spelling(FALSE, parts(n).coefficient, 0, 0 - Len(parts(n).coefficient))
    BY <1>6 DEF Mantissa
  <2> HIDE DEF m
  <2> QED  BY <1>3, <1>4, <2>1, <2>2
<1>8. m.value \in Spellings /\ parts(m.value).adjusted = -1
  <2>1. m.value \in Spellings /\ parts(m.value).adjusted = sp.intMandatory - 1
    BY <1>1, <1>4, <1>6, MantissaIs
  <2> QED  BY <1>3, <2>1
<1> HIDE DEF m
<1>9. Fixed(m.value, places) \in Seq(Digit) /\ k \in Nat /\ k <= Ten(places)
  <2>1. PICK t \in Nat \ {0} : -places - t <= Scale(m.value)
    <3>1. Scale(m.value) \in Int
      BY <1>8, SpellingFacts DEF Scale
    <3> HIDE DEF places
    <3> QED  BY <1>1, <3>1, LowEnough
  <2> HIDE DEF places
  <2> QED  BY <1>1, <1>8, <2>1, RoundedDigits
<1>10. k = Ten(places)
  <2> HIDE DEF k, places
  <2> QED  BY <1>2, <1>5, <1>9
<1>11. NumberOf(Fixed(m.value, places)) = NumberOf(<<1>> \o Zeros(places))
  <2>1. 1 \in Digit
    BY DEF Digit
  <2>2. <<1>> \in Seq(Digit)
    BY <2>1
  <2>3. <<1>> \o Zeros(places) \in Seq(Digit)
    <3>1. \A q \in Seq(Digit) : q \o Zeros(places) \in Seq(Digit)
      BY <1>1, ZerosBehind
    <3> QED  BY <2>2, <3>1
  <2>4. NumberOf(<<1>> \o Zeros(places)) = Ten(places)
    BY <2>3, NumberIs DEF Ten
  <2>5. NumberOf(Fixed(m.value, places)) = k
    BY <1>9, NumberIs
  <2> QED  BY <1>10, <2>4, <2>5
<1> QED
  BY <1>2, <1>7, <1>11 DEF LostCarry

\* What has been rounded is nearest.
LEMMA RoundedIsNearest ==
    ASSUME NEW n \in Spellings, NEW scale \in Nat, NEW x \in Int, NEW places \in Nat, NEW v \in Nat,
           NEW t \in Nat \ {0}, x - places - t <= Scale(ScaledBy(n, scale)),
           Rounded(v, Number[Aligned(ScaledBy(n, scale), x - places - t)], Ten(t))
    PROVE  Nearest(v, places, x, n, scale)
<1>1. scale \in Int
  OBVIOUS
<1>2. PICK scaled : scaled = ScaledBy(n, scale) /\ scaled = [n EXCEPT !.negative = FALSE, !.exp = @ + scale]
  BY DEF ScaledBy
<1> QED
  BY <1>1, <1>2, Compared

\* What a text says, that is written for a number.
LEMMA TextSays ==
    ASSUME NEW n \in Spellings, NEW picture \in Seq(PictureChars),
           "text" \in DOMAIN formatNumberPicture(n, picture)
    PROVE  LET pics == splitOnPatternSep(picture)
               sp == parseSubPicture(IF parts(n).negative THEN Last(pics) ELSE Head(pics))
               said == Reading(formatNumberPicture(n, picture).text)
               places == Places(sp)
           IN /\ FitsPicture(said, sp)
              /\ LostCarry(n, sp) \/ Nearest(ValueRead(said, places), places, Exponent(said), n, sp.scale)
<1> DEFINE pics == splitOnPatternSep(picture)
           sp == parseSubPicture(IF parts(n).negative THEN Last(pics) ELSE Head(pics))
           scaled == ScaledBy(n, sp.scale)
           body == BodyOf(scaled, sp)
           said == Reading(formatNumberPicture(n, picture).text)
           places == Places(sp)
           v == ValueRead(said, places)
           x == Exponent(said)
           Near == Nearest(v, places, x, n, sp.scale)
<1>1. /\ IsSubPicture(sp)
      /\ \E dash \in {<<>>, Letter("-")} :
           formatNumberPicture(n, picture).text = ((dash \o sp.prefix) \o body) \o sp.suffix
  BY TextIs DEF ScaledBy
<1> HIDE DEF sp
<1>2. /\ places \in Nat /\ sp.scale \in Nat /\ sp.intMandatory \in Nat /\ sp.expMandatory \in Nat
      /\ sp.prefix \in Seq(Glyphs) /\ Mute(sp.prefix) /\ sp.suffix \in Seq(Glyphs) /\ Mute(sp.suffix)
  BY <1>1, PlacesIs DEF IsSubPicture
<1>3. scaled \in Spellings
  BY <1>2, ScaledIs
<1> HIDE DEF places
<1>5. ASSUME body \in Seq(Glyphs), After(body) \in Said, After(body).at # "exp" \/ After(body).exp # <<>>
      PROVE  said = After(body)
  <2>1. PICK dash \in {<<>>, Letter("-")} :
          formatNumberPicture(n, picture).text = ((dash \o sp.prefix) \o body) \o sp.suffix
    BY <1>1
  <2> HIDE DEF body
  <2>2. Reading(((dash \o sp.prefix) \o body) \o sp.suffix) = After(body)
    BY <1>2, <1>5, AroundTheNumber
  <2> QED  BY <2>1, <2>2
<1>6. ASSUME NEW f \in Spellings, NEW t \in Nat \ {0}, x \in Int,
             -places - t <= Scale(f), x - places - t <= Scale(scaled),
             v = Number[Fixed(f, places)],
             Number[Aligned(f, -places - t)] = Number[Aligned(scaled, x - places - t)]
      PROVE  Near
  <2>1. Number[Fixed(f, places)] \in Nat
        /\ Rounded(Number[Fixed(f, places)], Number[Aligned(f, -places - t)], Ten(t))
    BY <1>2, <1>6, RoundedDigits
  <2>2. v \in Nat /\ Rounded(v, Number[Aligned(scaled, x - places - t)], Ten(t))
    BY <1>6, <2>1
  <2> HIDE DEF v, x
  <2> QED  BY <1>2, <1>6, <2>2, RoundedIsNearest
<1> HIDE DEF scaled
<1>7. ASSUME sp.expMandatory = 0 PROVE FitsPicture(said, sp) /\ (LostCarry(n, sp) \/ Near)
  <2>1. body = formatFixed(scaled, sp)
    BY <1>7 DEF BodyOf
  <2>2. /\ body \in Seq(Glyphs) /\ After(body) \in Said
        /\ After(body).at # "exp" /\ Exponent(After(body)) = 0 /\ FitsPicture(After(body), sp)
        /\ ValueRead(After(body), places) = Number[Fixed(scaled, places)]
    BY <1>1, <1>3, <1>7, <2>1, FixedSays DEF places
  <2>3. said = After(body)
    BY <1>5, <2>2
  <2> HIDE DEF body, said
  <2>4. x = 0 /\ v = Number[Fixed(scaled, places)] /\ FitsPicture(said, sp)
    BY <2>2, <2>3
  <2>5. PICK t \in Nat \ {0} : -places - t <= Scale(scaled)
    <3>1. Scale(scaled) \in Int
      BY <1>3, SpellingFacts DEF Scale
    <3> QED  BY <1>2, <3>1, LowEnough
  <2>6. x - places - t = -places - t /\ x \in Int
    <3> HIDE DEF x
    <3> QED  BY <1>2, <2>4
  <2>7. Near
    <3> HIDE DEF x, v, Near
    <3> QED  BY <1>3, <1>6, <2>4, <2>5, <2>6
  <2> QED  BY <2>4, <2>7
<1>8. ASSUME sp.expMandatory > 0 PROVE FitsPicture(said, sp) /\ (LostCarry(n, sp) \/ Near)
  <2> DEFINE m == Mantissa(scaled, sp.intMandatory)
  <2>1. body = formatWithExponent(scaled, sp)
    BY <1>8 DEF BodyOf
  <2>2. /\ body \in Seq(Glyphs) /\ After(body) \in Said
        /\ After(body).exp # <<>> /\ Exponent(After(body)) = m.exp /\ FitsPicture(After(body), sp)
        /\ LostDigit(m, sp) \/ ValueRead(After(body), places) = Number[Fixed(m.value, places)]
    BY <1>1, <1>3, <1>8, <2>1, ExponentSays DEF places
  <2>3. said = After(body)
    BY <1>5, <2>2
  <2> HIDE DEF body, said
  <2>4. x = m.exp /\ FitsPicture(said, sp) /\ (LostDigit(m, sp) \/ v = Number[Fixed(m.value, places)])
    BY <2>2, <2>3
  <2>5. CASE LostDigit(m, sp)
    <3>1. LostCarry(n, sp)
      BY <1>1, <1>8, <2>5, LostCarryIs DEF scaled
    <3> QED  BY <2>4, <3>1
  <2>6. CASE v = Number[Fixed(m.value, places)]
    <3>1. /\ m.value \in Spellings /\ m.exp \in Int
          /\ \A e \in Int : e <= Scale(m.value) /\ e + m.exp <= Scale(scaled)
               => Number[Aligned(m.value, e)] = Number[Aligned(scaled, e + m.exp)]
      BY <1>2, <1>3, MantissaIs
    <3> HIDE DEF m
    <3>2. PICK t \in Nat \ {0} : -places - t <= Scale(m.value) /\ -places - t <= Scale(scaled) - m.exp
      <4>1. Scale(m.value) \in Int /\ Scale(scaled) - m.exp \in Int
        BY <1>3, <3>1, SpellingFacts DEF Scale
      <4> QED  BY <1>2, <4>1, LowEnough
    <3>3. PICK e \in Int : e = -places - t
      <4>1. -places - t \in Int
        BY <1>2
      <4> QED  BY <4>1
    <3>4. Scale(scaled) \in Int
      BY <1>3, SpellingFacts DEF Scale
    <3>5. e <= Scale(m.value) /\ e + m.exp <= Scale(scaled)
      BY <3>1, <3>2, <3>3, <3>4
    <3>6. x - places - t = e + m.exp /\ x \in Int
      <4> HIDE DEF x
      <4> QED  BY <1>2, <2>4, <3>1, <3>3
    <3>7. Number[Aligned(m.value, -places - t)] = Number[Aligned(scaled, x - places - t)]
      <4> HIDE DEF x
      <4> QED  BY <3>1, <3>3, <3>5, <3>6
    <3>8. Near
      <4>1. x - places - t <= Scale(scaled) /\ -places - t <= Scale(m.value)
        <5> HIDE DEF x
        <5> QED  BY <3>3, <3>5, <3>6
      <4> HIDE DEF x, v, Near
      <4> QED  BY <1>6, <2>6, <3>1, <3>6, <3>7, <4>1
    <3> QED  BY <2>4, <3>8
  <2> QED  BY <2>4, <2>5, <2>6
<1>9. FitsPicture(said, sp) /\ (LostCarry(n, sp) \/ Near)
  BY <1>2, <1>7, <1>8
<1> QED
  BY <1>9 DEF sp, said, places

-----------------------------------------------------------------------------
(* The theorem.                                                            *)

\* A result of $formatNumber is what the code returns for its arguments.
NumbersIInv ==
    call.op = "formatNumber" =>
      /\ call.args \in NumberCalls
      /\ result = formatNumberPicture(call.args[1], call.args[2])

LEMMA NumbersInit == LanguageInit => NumbersIInv
  BY DEF LanguageInit, Idle, NumbersIInv

LEMMA NumbersStep == NumbersIInv /\ [NumbersNext]_languageVars => NumbersIInv'
<1> SUFFICES ASSUME NumbersIInv, [NumbersNext]_languageVars PROVE NumbersIInv'
  OBVIOUS
<1>1. CASE FormatNumber
  <2>1. PICK c \in NumberCalls : Begin("formatNumber", c, formatNumberPicture(c[1], c[2]))
    BY <1>1 DEF FormatNumber
  <2>2. call' = [op |-> "formatNumber", args |-> c] /\ result' = formatNumberPicture(c[1], c[2])
    BY <2>1 DEF Begin
  <2>3. call'.args = c
    BY <2>2
  <2> QED  BY <2>2, <2>3 DEF NumbersIInv
<1>2. CASE Loop
  BY <1>2 DEF Loop, languageVars, NumbersIInv
<1>3. CASE Return
  <2>1. call'.op = "none"
    BY <1>3 DEF Return, Idle
  <2> QED  BY <2>1 DEF NumbersIInv
<1>4. CASE AnotherThan({"formatNumber"})
  BY <1>4 DEF AnotherThan, NumbersIInv
<1>5. CASE UNCHANGED languageVars
  BY <1>5 DEF languageVars, NumbersIInv
<1> QED
  BY <1>1, <1>2, <1>3, <1>4, <1>5 DEF NumbersNext

LEMMA NumbersEnough == NumbersIInv => NumbersSayTheirValue
<1> SUFFICES ASSUME NumbersIInv, call.op = "formatNumber", "text" \in DOMAIN result PROVE NumbersSayTheirValue
  BY DEF NumbersSayTheirValue
<1>1. PICK n \in Spellings, picture \in Seq(PictureChars) :
        n = call.args[1] /\ picture = call.args[2] /\ result = formatNumberPicture(n, picture)
  <2>1. call.args \in Spellings \X Seq(PictureChars)
    BY NumberCallsAssumption DEF NumbersIInv, PictureChars
  <2>2. \A A, B : \A c \in A \X B : c[1] \in A /\ c[2] \in B
    OBVIOUS
  <2>3. call.args[1] \in Spellings /\ call.args[2] \in Seq(PictureChars)
    BY <2>1, <2>2, Zenon
  <2> QED  BY <2>3 DEF NumbersIInv
<1>2. "text" \in DOMAIN formatNumberPicture(n, picture)
  BY <1>1
<1> QED
  BY <1>1, <1>2, TextSays DEF NumbersSayTheirValue

\* A text that $formatNumber has written is read as the number it was called with, times the scale
\* of its picture, rounded half to even to the places of the picture, or the carry of an exponent is
\* lost; and it has the digits that the picture asks for: every number and every picture.
THEOREM EveryNumberSaysItsValue == NumbersSpec => []NumbersSayTheirValue
<1>1. NumbersSpec => []NumbersIInv
  BY NumbersInit, NumbersStep, PTL DEF NumbersSpec
<1> QED
  BY <1>1, NumbersEnough, PTL
=============================================================================
