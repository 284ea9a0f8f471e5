------------------------ MODULE IntegerPictureProofs ------------------------
(***************************************************************************)
(* $parseInteger reads what $formatInteger writes, for every integer and   *)
(* every picture.                                                          *)
(*                                                                         *)
(* The folds of the readers go along their text (DataFacts), and           *)
(* CourseExists makes the recursive writers total.  Then each numeral is   *)
(* proved about alone, by the least number that would not be read back:    *)
(* words, letters, Roman numerals and digits.  The theorem about the two   *)
(* functions puts them together.                                           *)
(***************************************************************************)
EXTENDS IntegerFunctions, DataFacts, FiniteSetTheorems

-----------------------------------------------------------------------------
(* Sums                                                                    *)

Plus == [p \in Int \X Int |-> p[1] + p[2]]

\* Adding is a step.
LEMMA PlusType == Plus \in Steps(Int, Int) /\ 0 \in Int /\ \A a, b \in Int : Plus[<<a, b>>] = a + b
  BY DEF Plus, Steps

\* The fold of Total goes along its sequence.
LEMMA TotalIs ==
    ASSUME NEW q \in Seq(Int)
    PROVE  Total(q) = Along(Plus, 0, q)
<1> DEFINE D == DOMAIN q
           IsIt(it) == it = [s \in SUBSET D |-> IF s = {} THEN 0 ELSE LET x == Max(s) IN it[s \ {x}] + q[x]]
           iter == CHOOSE it : IsIt(it)
<1>1. D = 1 .. Len(q) /\ Len(q) \in Nat
  OBVIOUS
<1>2. PICK h \in [SUBSET (1 .. Len(q)) -> Int] : Folds(Plus, 0, q, Len(q), h)
  BY FoldExists, PlusType
<1>3. IsIt(h)
  <2>1. ASSUME NEW s \in SUBSET D PROVE h[s] = IF s = {} THEN 0 ELSE LET x == Max(s) IN h[s \ {x}] + q[x]
    <3>1. CASE s # {}
      <4>1. Max(s) \in s
        BY <1>1, <3>1, GreatestIndex
      <4>2. q[Max(s)] \in Int /\ h[s \ {Max(s)}] \in Int
        BY <1>1, <1>2, <4>1
      <4> QED  BY <1>1, <1>2, <3>1, <4>2, PlusType DEF Folds
    <3>2. CASE s = {}
      BY <1>1, <1>2, <3>2 DEF Folds
    <3> QED  BY <3>1, <3>2
  <2> QED  BY <1>1, <1>2, <2>1
<1>4. IsIt(iter)
  <2> HIDE DEF IsIt
  <2> QED  BY <1>3
<1>5. Total(q) = iter[D]
  BY DEF Total, FoldLeft, MapThenFoldSet
<1> HIDE DEF iter
<1>6. iter[{}] = 0
  BY <1>4
<1>7. ASSUME NEW k \in 1 .. Len(q), iter[1 .. k - 1] \in Int
      PROVE  iter[1 .. k] = Plus[<<iter[1 .. k - 1], q[k]>>]
  <2>1. 1 .. k \in SUBSET D /\ 1 .. k # {}
    <3>1. k \in 1 .. k /\ \A i \in 1 .. k : i \in 1 .. Len(q)
      BY <1>1
    <3> HIDE DEF iter
    <3> QED  BY <1>1, <3>1, Zenon
  <2>2. iter[1 .. k] = iter[1 .. k - 1] + q[k]
    BY <1>1, <1>4, <2>1, GreatestOfInterval
  <2>3. q[k] \in Int
    OBVIOUS
  <2> QED  BY <1>7, <2>2, <2>3, PlusType
<1>8. iter[1 .. Len(q)] = Along(Plus, 0, q)
  <2> DEFINE Z == Int
  <2>1. Plus \in Steps(Z, Z) /\ 0 \in Z /\ q \in Seq(Z)
    BY PlusType
  <2>2. \A k \in 1 .. Len(q) : iter[1 .. k - 1] \in Z => iter[1 .. k] = Plus[<<iter[1 .. k - 1], q[k]>>]
    BY <1>7
  <2> HIDE DEF Z
  <2> QED  BY <1>6, <2>1, <2>2, FoldRuns
<1> QED
  BY <1>1, <1>5, <1>8

\* A sum of integers is one.
LEMMA TotalType ==
    ASSUME NEW q \in Seq(Int)
    PROVE  Total(q) \in Int
<1> DEFINE Z == Int
<1>1. Plus \in Steps(Z, Z) /\ 0 \in Z /\ q \in Seq(Z)
  BY PlusType
<1> HIDE DEF Z
<1>2. Along(Plus, 0, q) \in Z
  BY <1>1, AlongType
<1> QED
  BY <1>2, TotalIs DEF Z

\* Nothing sums up to zero.
LEMMA TotalEmpty == Total(<<>>) = 0
<1>1. <<>> \in Seq(Int)
  BY EmptySeq
<1> QED
  BY <1>1, TotalIs, AlongEmpty

\* One number more.
LEMMA TotalAppend ==
    ASSUME NEW q \in Seq(Int), NEW x \in Int
    PROVE  Total(Append(q, x)) = Total(q) + x
<1>1. Append(q, x) \in Seq(Int) /\ Total(q) \in Int
  BY TotalType
<1>2. Along(Plus, 0, Append(q, x)) = Plus[<<Along(Plus, 0, q), x>>]
  BY PlusType, AlongAppend
<1> QED
  BY <1>1, <1>2, TotalIs, PlusType

\* One number alone.
LEMMA TotalOne ==
    ASSUME NEW x \in Int
    PROVE  Total(<<x>>) = x
<1>1. PICK e \in Seq(Int) : e = <<>>
  BY EmptySeq
<1>2. Append(e, x) = <<x>>
  BY <1>1
<1>3. Total(Append(e, x)) = Total(e) + x
  BY TotalAppend
<1> QED
  BY <1>1, <1>2, <1>3, TotalEmpty

\* The sum of two sequences is the sum of their sums.
LEMMA TotalConcat ==
    ASSUME NEW a \in Seq(Int), NEW b \in Seq(Int)
    PROVE  Total(a \o b) = Total(a) + Total(b)
<1> DEFINE Has(r) == Total(a \o r) = Total(a) + Total(r)
           T == {n \in Nat : \E r \in Seq(Int) : Len(r) = n /\ ~Has(r)}
<1>1. ASSUME T # {} PROVE FALSE
  <2>1. PICK m \in T : \A k \in T : m <= k
    <3>1. T \subseteq Nat
      OBVIOUS
    <3> HIDE DEF T
    <3> QED  BY <1>1, <3>1, LeastNatural
  <2>2. PICK r \in Seq(Int) : Len(r) = m /\ ~Has(r)
    OBVIOUS
  <2>3. r # <<>>
    <3>1. Total(a \o <<>>) = Total(a) + Total(<<>>)
      BY TotalType, TotalEmpty, ConcatEmptySeq
    <3> QED  BY <2>2, <3>1
  <2>4. PICK f \in Seq(Int), x \in Int : r = Append(f, x)
    BY <2>3, SequenceEmptyOrAppend
  <2>5. Len(f) \in Nat /\ Len(f) < m
    BY <2>2, <2>4
  <2>6. Has(f)
    <3> HIDE DEF Has
    <3> QED  BY <2>1, <2>5
  <2>7. a \o r = Append(a \o f, x) /\ a \o f \in Seq(Int)
    <3> DEFINE Z == Int
    <3>1. a \in Seq(Z) /\ f \in Seq(Z) /\ x \in Z
      BY <2>4
    <3> HIDE DEF Z
    <3>2. a \o Append(f, x) = Append(a \o f, x) /\ a \o f \in Seq(Z)
      BY <3>1, ConcatAppend
    <3> QED  BY <2>4, <3>2 DEF Z
  <2>8. Total(a \o r) = Total(a \o f) + x /\ Total(r) = Total(f) + x
    BY <2>4, <2>7, TotalAppend
  <2>9. Total(a) \in Int /\ Total(f) \in Int
    BY TotalType
  <2> QED  BY <2>2, <2>6, <2>8, <2>9
<1>2. Has(b)
  <2> HIDE DEF Has
  <2>1. Len(b) \in Nat
    OBVIOUS
  <2> QED  BY <1>1, <2>1
<1> QED
  BY <1>2

\* Natural numbers have a natural sum.
LEMMA TotalNat ==
    ASSUME NEW q \in Seq(Nat)
    PROVE  Total(q) \in Nat
<1> DEFINE PlusNat == [p \in Nat \X Nat |-> p[1] + p[2]]
<1>1. PlusNat \in Steps(Nat, Nat) /\ \A a, b \in Nat : PlusNat[<<a, b>>] = a + b
  BY DEF Steps
<1> HIDE DEF PlusNat
<1>2. PICK g \in [0 .. Len(q) -> Nat] : Runs(PlusNat, 0, q, g)
  BY <1>1, RunExists
<1>3. Runs(Plus, 0, q, g)
  <2>1. ASSUME NEW i \in 1 .. Len(q) PROVE g[i] = Plus[<<g[i - 1], q[i]>>]
    <3>1. g[i - 1] \in Nat /\ q[i] \in Nat /\ g[i - 1] \in Int /\ q[i] \in Int
      <4>1. i - 1 \in 0 .. Len(q) /\ q[i] \in Nat
        OBVIOUS
      <4>2. g[i - 1] \in Nat
        BY <1>2, <4>1, Zenon
      <4> QED  BY <4>1, <4>2
    <3>2. g[i] = PlusNat[<<g[i - 1], q[i]>>]
      BY <1>2 DEF Runs
    <3> QED  BY <1>1, <3>1, <3>2, PlusType
  <2> QED  BY <1>2, <2>1 DEF Runs
<1>4. q \in Seq(Int) /\ Len(q) \in Nat
  BY SeqMonotonic
<1> QED
  BY <1>2, <1>3, <1>4, AlongIs, TotalIs

-----------------------------------------------------------------------------
(* The words of a number                                                   *)

\* The nineteen words are different ones.
LEMMA OnesFacts ==
    /\ DOMAIN Ones = 1 .. 19
    /\ \A i \in 1 .. 19 : Ones[i] \notin {"zero", "hundred", "and", "th"}
    /\ \A i, j \in 1 .. 19 : Ones[i] = Ones[j] => i = j
  BY DEF Ones

\* So are the words of the tens.
LEMMA TensFacts ==
    /\ DOMAIN Tens = 1 .. 9
    /\ \A i \in 1 .. 9 : Tens[i] \notin {"zero", "hundred", "and", "th"}
    /\ \A i, j \in 1 .. 9 : Tens[i] = Tens[j] => i = j
    /\ \A i \in 2 .. 9, j \in 1 .. 19 : Tens[i] # Ones[j]
    /\ Tens[1] = Ones[10]
  BY DEF Ones, Tens

\* The scales by their assumption.
LEMMA ScaleFacts ==
    /\ DOMAIN Scales = 1 .. Len(Scales)
    /\ Len(Scales) \in Nat \ {0}
    /\ \A i \in DOMAIN Scales : Scales[i][2] \in Nat /\ Scales[i][2] >= 1000 /\ Scales[i][1] \notin NumberWords
    /\ Scales[Len(Scales)][2] = 1000
    /\ \A i, j \in DOMAIN Scales : i < j => Scales[i][2] > Scales[j][2]
    /\ \A i, j \in DOMAIN Scales : Scales[i][1] = Scales[j][1] => i = j
<1>1. /\ DOMAIN Scales = 1 .. Len(Scales) /\ Len(Scales) \in Nat \ {0}
      /\ \A i \in DOMAIN Scales : Scales[i] \in STRING \X Nat
  BY ScalesAssumption
<1>2. \A i \in DOMAIN Scales : Scales[i][2] \in Nat
  BY <1>1
<1>3. ASSUME NEW i \in DOMAIN Scales PROVE Scales[i][2] >= 1000
  <2>1. CASE i = Len(Scales)
    BY <1>2, <2>1, ScalesAssumption
  <2>2. CASE i # Len(Scales)
    <3>1. i < Len(Scales) /\ Len(Scales) \in DOMAIN Scales
      BY <1>1, <2>2
    <3>2. Scales[i][2] > Scales[Len(Scales)][2]
      BY <3>1, ScalesAssumption
    <3> QED  BY <1>2, <3>1, <3>2, ScalesAssumption
  <2> QED  BY <2>1, <2>2
<1>4. ASSUME NEW i \in DOMAIN Scales, NEW j \in DOMAIN Scales, Scales[i][1] = Scales[j][1]
      PROVE  i = j
  <2>1. i < j \/ j < i \/ i = j
    BY <1>1
  <2> QED  BY <1>4, <2>1, ScalesAssumption
<1> QED
  BY <1>1, <1>2, <1>3, <1>4, ScalesAssumption

\* Above a thousand one of the scales fits, and the greatest that does is below.
LEMMA FittingFacts ==
    ASSUME NEW n \in Nat, n >= 1000
    PROVE  /\ Fitting(n) \in DOMAIN Scales
           /\ n >= Scales[Fitting(n)][2]
           /\ \A j \in DOMAIN Scales : Scales[j][2] <= n => Scales[j][2] <= Scales[Fitting(n)][2]
<1> DEFINE T == {i \in DOMAIN Scales : n >= Scales[i][2]}
<1>1. PICK m \in T : \A k \in T : m <= k
  <2>1. T \subseteq Nat /\ Len(Scales) \in T
    BY ScaleFacts
  <2> HIDE DEF T
  <2> QED  BY <2>1, LeastNatural
<1> DEFINE Is(i) == n >= Scales[i][2] /\ \A j \in 1 .. i - 1 : n < Scales[j][2]
<1>2. Is(m) /\ m \in DOMAIN Scales
  <2>1. ASSUME NEW j \in 1 .. m - 1 PROVE n < Scales[j][2]
    <3>1. j \in DOMAIN Scales /\ j < m
      BY ScaleFacts
    <3> QED  BY <1>1, <3>1, ScaleFacts
  <2> QED  BY <2>1
<1>3. Fitting(n) \in DOMAIN Scales /\ Is(Fitting(n))
  <2>1. Fitting(n) = CHOOSE i \in DOMAIN Scales : Is(i)
    BY DEF Fitting
  <2> HIDE DEF Is
  <2> QED  BY <1>2, <2>1
<1>4. ASSUME NEW j \in DOMAIN Scales, Scales[j][2] <= n
      PROVE  Scales[j][2] <= Scales[Fitting(n)][2]
  <2>1. ~(j < Fitting(n))
    <3>1. j < Fitting(n) => j \in 1 .. Fitting(n) - 1
      BY <1>3, ScaleFacts
    <3>2. Scales[j][2] \in Nat
      BY ScaleFacts
    <3> QED  BY <1>3, <1>4, <3>1, <3>2
  <2>2. j = Fitting(n) \/ Fitting(n) < j
    BY <1>3, <2>1, ScaleFacts
  <2> QED  BY <1>3, <2>2, ScaleFacts
<1> QED
  BY <1>3, <1>4

\* What a number is written in: all of it is read, and none of it is "th".
Vocabulary == (NumberWords \ {"th"}) \union {Scales[i][1] : i \in DOMAIN Scales}

\* The words that are written.
LEMMA VocabularyHas ==
    /\ \A i \in 1 .. 19 : Ones[i] \in Vocabulary
    /\ \A i \in 1 .. 9 : Tens[i] \in Vocabulary
    /\ {"zero", "hundred", "and"} \subseteq Vocabulary
    /\ \A i \in DOMAIN Scales : Scales[i][1] \in Vocabulary
    /\ "th" \notin Vocabulary
<1>1. ASSUME NEW i \in 1 .. 19 PROVE Ones[i] \in Vocabulary
  <2>1. i \in DOMAIN Ones /\ Ones[i] # "th"
    BY OnesFacts
  <2> QED  BY <2>1 DEF Vocabulary, NumberWords
<1>2. ASSUME NEW i \in 1 .. 9 PROVE Tens[i] \in Vocabulary
  <2>1. i \in DOMAIN Tens /\ Tens[i] # "th"
    BY TensFacts
  <2> QED  BY <2>1 DEF Vocabulary, NumberWords
<1>3. {"zero", "hundred", "and"} \subseteq Vocabulary
  BY DEF Vocabulary, NumberWords
<1>4. \A i \in DOMAIN Scales : Scales[i][1] \in Vocabulary
  BY DEF Vocabulary
<1>5. "th" \notin Vocabulary
  <2>1. "th" \in NumberWords
    BY DEF NumberWords
  <2> QED  BY <2>1, ScaleFacts DEF Vocabulary
<1> QED
  BY <1>1, <1>2, <1>3, <1>4, <1>5

\* Sequences of words, as one set.
Texts == Seq(Vocabulary)

\* The texts they make.
LEMMA TextsFacts ==
    /\ <<>> \in Texts
    /\ \A w \in Vocabulary : <<w>> \in Texts
    /\ \A w, x \in Vocabulary : <<w, x>> \in Texts
    /\ \A a, b \in Texts : a \o b \in Texts
BY DEF Texts

\* What is written below a hundred is a text.
LEMMA BelowHundredType ==
    ASSUME NEW n \in 0 .. 99
    PROVE  BelowHundred(n) \in Texts
<1>1. CASE n = 0
  BY <1>1, TextsFacts DEF BelowHundred
<1>2. CASE n \in 1 .. 19
  BY <1>2, VocabularyHas, TextsFacts DEF BelowHundred
<1>3. CASE n > 19
  <2>1. n \div 10 \in 1 .. 9 /\ n % 10 \in 0 .. 9
    BY <1>3
  <2>2. <<Tens[n \div 10]>> \in Texts
    BY <2>1, VocabularyHas, TextsFacts
  <2>3. n % 10 # 0 => <<Ones[n % 10]>> \in Texts
    <3>1. n % 10 # 0 => n % 10 \in 1 .. 19
      BY <2>1
    <3> QED  BY <3>1, VocabularyHas, TextsFacts
  <2>4. (IF n % 10 = 0 THEN <<>> ELSE <<Ones[n % 10]>>) \in Texts
    BY <2>3, TextsFacts
  <2> QED  BY <1>3, <2>2, <2>4, TextsFacts DEF BelowHundred
<1> QED
  BY <1>1, <1>2, <1>3

\* And below a thousand.
LEMMA intToWordsType ==
    ASSUME NEW n \in 0 .. 999
    PROVE  intToWords(n) \in Texts
<1> DEFINE rest == BelowHundred(n % 100)
           tail == IF rest = <<>> THEN <<>> ELSE <<"and">> \o rest
<1>1. n % 100 \in 0 .. 99 /\ (n > 99 => n \div 100 \in 1 .. 9)
  OBVIOUS
<1>2. rest \in Texts
  BY <1>1, BelowHundredType
<1>3. tail \in Texts
  <2> HIDE DEF rest
  <2>1. <<"and">> \in Texts
    BY VocabularyHas, TextsFacts
  <2> QED  BY <1>2, <2>1, TextsFacts
<1>4. n > 99 => <<Ones[n \div 100], "hundred">> \in Texts
  <2>1. n > 99 => n \div 100 \in 1 .. 19
    BY <1>1
  <2> QED  BY SMTT(40), <2>1, VocabularyHas, TextsFacts
<1>5. CASE n = 0
  BY <1>5, VocabularyHas, TextsFacts DEF intToWords
<1>6. CASE n \in 1 .. 99
  <2>1. intToWords(n) = rest
    <3> HIDE DEF rest
    <3> QED  BY <1>6 DEF intToWords, rest
  <2> QED  BY <1>2, <2>1
<1>7. CASE n > 99
  <2>1. intToWords(n) = <<Ones[n \div 100], "hundred">> \o tail
    <3>1. n # 0 /\ n \notin 1 .. 99
      BY <1>7
    <3> DEFINE big == <<Ones[n \div 100], "hundred">> \o tail
               small == <<"zero">>
               all == CASE n = 0 -> small [] n \in 1 .. 99 -> rest [] OTHER -> big
    <3>2. intToWords(n) = all
      BY DEF intToWords
    <3> HIDE DEF rest, big, small
    <3>3. all = big
      BY <3>1
    <3> HIDE DEF all
    <3>4. intToWords(n) = big
      BY <3>2, <3>3
    <3> QED  BY <3>4 DEF big
  <2> HIDE DEF tail
  <2> QED  BY <1>3, <1>4, <1>7, <2>1, TextsFacts
<1> QED
  BY <1>5, <1>6, <1>7

\* A quotient and its remainder.
LEMMA Division ==
    ASSUME NEW n \in Nat, NEW s \in Nat, s > 0
    PROVE  /\ n \div s \in Nat /\ n % s \in Nat /\ n % s < s
           /\ n = s * (n \div s) + (n % s)
  OBVIOUS

\* Both are less than the number.
LEMMA DivisionShrinks ==
    ASSUME NEW n \in Nat, NEW s \in Nat, s > 1, n >= s
    PROVE  n \div s < n /\ n \div s > 0 /\ n % s < n
<1> DEFINE q == n \div s
           r == n % s
<1>1. q \in Nat /\ r \in Nat /\ r < s /\ n = s * q + r
  BY Division
<1> HIDE DEF q, r
<1>2. q > 0
  <2>1. q = 0 => s * q = 0
    OBVIOUS
  <2> QED  BY <1>1, <2>1
<1>3. q < n
  <2>1. s * q >= 2 * q
    BY <1>1
  <2> QED  BY <1>1, <1>2, <2>1
<1> QED
  BY <1>1, <1>2, <1>3 DEF q, r

-----------------------------------------------------------------------------
(* The recursive definition of the words of a number has a solution.       *)

\* One step of it: what is written of n when words says what is written below.
WordsOf(n, words) ==
  IF n < 1000 THEN intToWords(n)
  ELSE LET scale == Scales[Fitting(n)]
           r == n % scale[2]
       IN words[n \div scale[2]] \o <<scale[1]>>
            \o (CASE r = 0 -> <<>>
                  [] r \in 1 .. 99 -> <<"and">> \o words[r]
                  [] OTHER -> words[r])

\* The quotient and the remainder by a scale are numbers already written.
LEMMA WordsOfFacts ==
    ASSUME NEW n \in Nat, n >= 1000
    PROVE  LET scale == Scales[Fitting(n)]
               q == n \div scale[2]
               r == n % scale[2]
           IN /\ scale[2] \in Nat /\ scale[2] >= 1000 /\ scale[1] \in Vocabulary
              /\ q \in Nat /\ r \in Nat /\ q < n /\ r < n /\ r < scale[2] /\ n = scale[2] * q + r
<1> DEFINE s == Scales[Fitting(n)][2]
<1>0. Fitting(n) \in DOMAIN Scales /\ n >= s
  BY FittingFacts
<1>1. s \in Nat /\ s >= 1000 /\ Scales[Fitting(n)][1] \in Vocabulary
  <2>1. PICK i \in DOMAIN Scales : i = Fitting(n)
    BY <1>0
  <2>2. Scales[i][2] \in Nat /\ Scales[i][2] >= 1000
    BY ScaleFacts
  <2>3. Scales[i][1] \in Vocabulary
    BY VocabularyHas
  <2> QED  BY <2>1, <2>2, <2>3
<1> HIDE DEF s
<1>2. n \div s \in Nat /\ n % s \in Nat /\ n \div s < n /\ n % s < n /\ n % s < s /\ n = s * (n \div s) + (n % s)
  BY <1>0, <1>1, Division, DivisionShrinks
<1> QED
  BY <1>1, <1>2 DEF s

\* Words made of texts are a text.
LEMMA WordsOfType ==
    ASSUME NEW n \in Nat, NEW words, \A k \in 0 .. n - 1 : words[k] \in Texts
    PROVE  WordsOf(n, words) \in Texts
<1> DEFINE scale == Scales[Fitting(n)]
           q == n \div scale[2]
           r == n % scale[2]
           and == <<"and">> \o words[r]
           empty == <<>>
           rest == CASE r = 0 -> empty [] r \in 1 .. 99 -> and [] OTHER -> words[r]
           all == words[q] \o <<scale[1]>> \o rest
<1>1. CASE n < 1000
  BY SMTT(40), <1>1, intToWordsType DEF WordsOf
<1>2. CASE ~(n < 1000)
  <2>1. scale[1] \in Vocabulary /\ q \in 0 .. n - 1 /\ r \in 0 .. n - 1
    <3>1. n >= 1000
      BY <1>2
    <3>2. scale[1] \in Vocabulary /\ q \in Nat /\ r \in Nat /\ q < n /\ r < n
      BY <3>1, WordsOfFacts
    <3> HIDE DEF q, r
    <3> QED  BY <3>2
  <2>2. WordsOf(n, words) = all
    BY <1>2, Zenon DEF WordsOf
  <2> HIDE DEF scale, q, r
  <2>3. words[q] \in Texts /\ words[r] \in Texts
    BY <2>1
  <2>4. <<"and">> \in Texts /\ empty \in Texts /\ <<scale[1]>> \in Texts
    BY <2>1, VocabularyHas, TextsFacts
  <2>5. and \in Texts /\ words[q] \o <<scale[1]>> \in Texts
    BY <2>3, <2>4, TextsFacts
  <2> HIDE DEF and, empty
  <2>6. rest \in Texts
    BY <2>3, <2>4, <2>5
  <2> HIDE DEF rest
  <2>7. all \in Texts
    BY <2>5, <2>6, TextsFacts
  <2> HIDE DEF all
  <2> QED  BY <2>2, <2>7
<1> QED
  BY <1>1, <1>2

\* Only what is written of smaller numbers counts.
LEMMA WordsOfBelow ==
    ASSUME NEW n \in Nat, NEW a, NEW b, \A k \in 0 .. n - 1 : a[k] = b[k]
    PROVE  WordsOf(n, a) = WordsOf(n, b)
<1> DEFINE scale == Scales[Fitting(n)]
           q == n \div scale[2]
           r == n % scale[2]
<1>1. CASE n < 1000
  BY <1>1 DEF WordsOf
<1>2. CASE ~(n < 1000)
  <2>1. q \in 0 .. n - 1 /\ r \in 0 .. n - 1
    <3>1. n >= 1000
      BY <1>2
    <3>2. q \in Nat /\ r \in Nat /\ q < n /\ r < n
      BY <3>1, WordsOfFacts
    <3> HIDE DEF q, r
    <3> QED  BY <3>2
  <2>2. a[q] = b[q] /\ a[r] = b[r]
    <3> HIDE DEF q, r
    <3> QED  BY <2>1
  <2> DEFINE part(w) == w[q] \o <<scale[1]>>
                          \o (CASE r = 0 -> <<>>
                                [] r \in 1 .. 99 -> <<"and">> \o w[r]
                                [] OTHER -> w[r])
  <2>3. WordsOf(n, a) = part(a) /\ WordsOf(n, b) = part(b)
    BY <1>2, Zenon DEF WordsOf
  <2> HIDE DEF q, r, scale
  <2>4. part(a) = part(b)
    BY <2>2, Zenon
  <2> HIDE DEF part
  <2> QED  BY <2>3, <2>4
<1> QED
  BY <1>1, <1>2

\* bigIntToWords is total and follows its definition everywhere.
LEMMA bigIntToWordsIs ==
    /\ \A n \in Nat : bigIntToWords[n] \in Texts
    /\ \A n \in Nat : bigIntToWords[n] = WordsOf(n, bigIntToWords)
<1> DEFINE Below(h) == [k \in 0 .. Len(h) - 1 |-> h[k + 1]]
           G == [h \in Seq(Texts) |-> WordsOf(Len(h), Below(h))]
           Is(f) == f = [n \in Nat |-> WordsOf(n, f)]
<1>1. G \in [Seq(Texts) -> Texts]
  <2>1. ASSUME NEW h \in Seq(Texts) PROVE WordsOf(Len(h), Below(h)) \in Texts
    <3>1. Len(h) \in Nat /\ \A k \in 0 .. Len(h) - 1 : Below(h)[k] \in Texts
      OBVIOUS
    <3> HIDE DEF Below
    <3> QED  BY <3>1, WordsOfType
  <2> HIDE DEF Below
  <2> QED  BY <2>1
<1>2. PICK f \in [Nat -> Texts] : \A n \in Nat : f[n] = G[Before(f, n)]
  <2> DEFINE V == Texts
  <2>1. G \in [Seq(V) -> V]
    BY <1>1
  <2> HIDE DEF G, V
  <2>2. \E f \in [Nat -> V] : \A n \in Nat : f[n] = G[Before(f, n)]
    BY <2>1, CourseExists
  <2> QED  BY <2>2 DEF V
<1>3. ASSUME NEW n \in Nat PROVE f[n] = WordsOf(n, f)
  <2> DEFINE h == Before(f, n)
  <2>1. h \in Seq(Texts) /\ Len(h) = n
    <3>1. h \in [1 .. n -> Texts]
      BY <1>2 DEF Before
    <3> HIDE DEF h
    <3> QED  BY <3>1, FunctionIsSeq
  <2>2. \A k \in 0 .. n - 1 : Below(h)[k] = f[k]
    <3>1. ASSUME NEW k \in 0 .. n - 1 PROVE h[k + 1] = f[k]
      BY DEF Before
    <3> HIDE DEF h
    <3> QED  BY <2>1, <3>1
  <2>3. f[n] = G[h]
    BY <1>2
  <2> HIDE DEF h
  <2>4. G[h] = WordsOf(n, Below(h))
    BY <2>1
  <2> HIDE DEF Below, G
  <2> QED  BY <2>2, <2>3, <2>4, WordsOfBelow
<1>4. Is(f)
  BY <1>2, <1>3
<1>5. Is(bigIntToWords)
  <2>1. bigIntToWords = CHOOSE g : Is(g)
    BY Zenon DEF bigIntToWords, WordsOf
  <2> HIDE DEF Is
  <2> QED  BY <1>4, <2>1
<1>6. ASSUME NEW n \in Nat PROVE bigIntToWords[n] = WordsOf(n, bigIntToWords)
  BY <1>5
<1> DEFINE T == {n \in Nat : bigIntToWords[n] \notin Texts}
<1>7. ASSUME T # {} PROVE FALSE
  <2>1. PICK m \in T : \A k \in T : m <= k
    <3>1. T \subseteq Nat
      OBVIOUS
    <3> HIDE DEF T
    <3> QED  BY <1>7, <3>1, LeastNatural
  <2>2. \A k \in 0 .. m - 1 : bigIntToWords[k] \in Texts
    BY <2>1
  <2> QED  BY <1>6, <2>2, WordsOfType
<1> QED
  BY <1>6, <1>7

-----------------------------------------------------------------------------
(* Reading the words                                                       *)

Segment == [value : Nat, scale : Nat]
Segments == Seq(Segment)
At(c, segments) == [current |-> c, segments |-> segments]
Readings == {At(c, segments) : c \in Nat, segments \in Segments}
ReadStep == [p \in Readings \X Vocabulary |-> ReadWord(p[1], p[2])]

\* What a segment holds.
LEMMA SegmentFacts ==
    ASSUME NEW segments \in Segments
    PROVE  /\ Len(segments) \in Nat
           /\ \A i \in 1 .. Len(segments) : /\ segments[i] \in Segment
                                            /\ segments[i].value \in Nat /\ segments[i].scale \in Nat
           /\ Values(segments) \in Seq(Nat) /\ Values(segments) \in Seq(Int)
           /\ Len(Values(segments)) = Len(segments)
           /\ Total(Values(segments)) \in Nat
<1>1. /\ Len(segments) \in Nat /\ DOMAIN segments = 1 .. Len(segments)
      /\ \A i \in 1 .. Len(segments) : segments[i] \in Segment
  BY ElementOfSeq DEF Segments
<1>2. \A i \in 1 .. Len(segments) : segments[i].value \in Nat /\ segments[i].scale \in Nat
  BY <1>1 DEF Segment
<1>3. Values(segments) \in [1 .. Len(segments) -> Nat]
  BY <1>1, <1>2 DEF Values
<1>4. Values(segments) \in Seq(Nat) /\ Len(Values(segments)) = Len(segments)
  BY <1>1, <1>3, FunctionIsSeq
<1> QED
  BY <1>1, <1>2, <1>4, TotalNat, SeqMonotonic

\* What a magnitude absorbs are the segments after the last greater one.
LEMMA AbsorbedFrom ==
    ASSUME NEW segments \in Segments, NEW v \in Nat
    PROVE  \E k \in 0 .. Len(segments) :
             /\ \A j \in k + 1 .. Len(segments) : segments[j].scale <= v
             /\ k > 0 => segments[k].scale > v
             /\ Absorbed(segments, v) =
                  [left |-> SubSeq(segments, 1, k),
                   sum |-> Total(Values(SubSeq(segments, k + 1, Len(segments))))]
<1> DEFINE Fit(k) == \A j \in k + 1 .. Len(segments) : segments[j].scale <= v
           Is(k) == Fit(k) /\ (k > 0 => segments[k].scale > v)
           T == {k \in 0 .. Len(segments) : Fit(k)}
<1>1. Len(segments) \in Nat /\ \A i \in 1 .. Len(segments) : segments[i].scale \in Nat
  BY SegmentFacts
<1>2. PICK m \in T : \A k \in T : m <= k
  <2>1. T \subseteq Nat /\ Len(segments) \in T
    BY <1>1
  <2> HIDE DEF T
  <2> QED  BY <2>1, LeastNatural
<1>3. m \in 0 .. Len(segments) /\ Is(m)
  <2>1. ASSUME m > 0, ~(segments[m].scale > v) PROVE FALSE
    <3>1. m - 1 \in 0 .. Len(segments) /\ m \in 1 .. Len(segments) /\ m - 1 < m
      BY <1>1, <1>2, <2>1
    <3>2. ASSUME NEW j \in m - 1 + 1 .. Len(segments) PROVE segments[j].scale <= v
      <4>1. j = m \/ j \in m + 1 .. Len(segments)
        BY <1>1, <3>1
      <4>2. segments[m].scale <= v
        BY <1>1, <2>1, <3>1
      <4> QED  BY <1>2, <4>1, <4>2
    <3>3. m - 1 \in T
      <4>1. Fit(m - 1)
        BY <3>2
      <4> HIDE DEF Fit
      <4> QED  BY <3>1, <4>1
    <3>4. m <= m - 1
      <4> HIDE DEF T
      <4> QED  BY <1>2, <3>3
    <3> QED  BY <3>1, <3>4
  <2> QED  BY <2>1
<1>4. PICK k \in 0 .. Len(segments) :
        Is(k) /\ k = CHOOSE j \in 0 .. Len(segments) : Is(j)
  <2> HIDE DEF Is
  <2> QED  BY <1>3
<1>5. Absorbed(segments, v) =
        [left |-> SubSeq(segments, 1, k),
         sum |-> Total(Values(SubSeq(segments, k + 1, Len(segments))))]
  BY <1>4 DEF Absorbed
<1> QED
  BY <1>4, <1>5

\* What is absorbed and what is left are numbers and segments.
LEMMA AbsorbedType ==
    ASSUME NEW segments \in Segments, NEW v \in Nat
    PROVE  Absorbed(segments, v).left \in Segments /\ Absorbed(segments, v).sum \in Nat
<1>1. PICK k \in 0 .. Len(segments) :
        Absorbed(segments, v) =
          [left |-> SubSeq(segments, 1, k),
           sum |-> Total(Values(SubSeq(segments, k + 1, Len(segments))))]
  BY AbsorbedFrom
<1>2. Len(segments) \in Nat /\ \A i \in 1 .. Len(segments) : segments[i] \in Segment
  BY SegmentFacts
<1>3. SubSeq(segments, 1, k) \in Segments /\ SubSeq(segments, k + 1, Len(segments)) \in Segments
  <2> DEFINE S == Segment
  <2>1. \A i \in 1 .. Len(segments) : segments[i] \in S
    BY <1>2
  <2> HIDE DEF S
  <2>2. SubSeq(segments, 1, k) \in Seq(S)
    BY <1>2, <2>1, SubSeqProperties
  <2>3. SubSeq(segments, k + 1, Len(segments)) \in Seq(S)
    BY <1>2, <2>1, SubSeqProperties
  <2> QED  BY <2>2, <2>3 DEF S, Segments
<1> QED
  BY <1>1, <1>3, SegmentFacts

\* Those of a greater scale stay, the rest is absorbed.
LEMMA AbsorbedIs ==
    ASSUME NEW a \in Segments, NEW b \in Segments, NEW v \in Nat,
           \A i \in 1 .. Len(a) : a[i].scale > v,
           \A i \in 1 .. Len(b) : b[i].scale <= v
    PROVE  Absorbed(a \o b, v) = [left |-> a, sum |-> Total(Values(b))]
<1> DEFINE S == Segment
           q == a \o b
<1>1. /\ q \in Segments /\ Len(q) = Len(a) + Len(b) /\ Len(a) \in Nat /\ Len(b) \in Nat
      /\ \A i \in 1 .. Len(a) : q[i] = a[i]
      /\ \A i \in 1 .. Len(b) : q[Len(a) + i] = b[i]
  BY ConcatProperties DEF Segments
<1> HIDE DEF q
<1>2. PICK k \in 0 .. Len(q) :
        /\ \A j \in k + 1 .. Len(q) : q[j].scale <= v
        /\ k > 0 => q[k].scale > v
        /\ Absorbed(q, v) = [left |-> SubSeq(q, 1, k),
                             sum |-> Total(Values(SubSeq(q, k + 1, Len(q))))]
  BY <1>1, AbsorbedFrom
<1>3. k = Len(a)
  <2>1. ASSUME k < Len(a) PROVE FALSE
    <3>1. Len(a) \in k + 1 .. Len(q) /\ Len(a) \in 1 .. Len(a)
      BY <1>1, <2>1
    <3>2. q[Len(a)].scale <= v /\ a[Len(a)].scale > v /\ q[Len(a)] = a[Len(a)]
      BY <1>1, <1>2, <3>1
    <3>3. a[Len(a)].scale \in Nat
      BY <3>1, SegmentFacts
    <3> QED  BY <3>2, <3>3
  <2>2. ASSUME k > Len(a) PROVE FALSE
    <3>1. PICK i : i = k - Len(a)
      OBVIOUS
    <3>2. i \in 1 .. Len(b) /\ k = Len(a) + i /\ k > 0
      BY <1>1, <2>2, <3>1
    <3>3. q[k].scale > v /\ b[i].scale <= v /\ q[k] = b[i]
      BY <1>1, <1>2, <3>2
    <3>4. b[i].scale \in Nat
      BY <3>2, SegmentFacts
    <3> QED  BY <3>3, <3>4
  <2> QED  BY <1>1, <2>1, <2>2
<1>4. SubSeq(q, 1, k) = a
  <2>1. 1 \in Int /\ k \in Int /\ \A i \in 1 .. k : q[i] \in S /\ q[i] = a[i]
    <3>1. \A i \in 1 .. k : q[i] \in Segment
      BY <1>1, <1>3, SegmentFacts
    <3> QED  BY <1>1, <1>3, <3>1
  <2>2. SubSeq(q, 1, k) \in Seq(S) /\ Len(SubSeq(q, 1, k)) = k
        /\ \A i \in 1 .. k : SubSeq(q, 1, k)[i] = a[i]
    <3> HIDE DEF S
    <3>1. /\ SubSeq(q, 1, k) \in Seq(S)
          /\ Len(SubSeq(q, 1, k)) = IF 1 <= k THEN k - 1 + 1 ELSE 0
          /\ \A i \in 1 .. k - 1 + 1 : SubSeq(q, 1, k)[i] = q[1 + i - 1]
      BY <2>1, SubSeqProperties
    <3>2. k \in Nat /\ k - 1 + 1 = k
      BY <1>2
    <3> QED  BY <2>1, <3>1, <3>2
  <2>3. a \in Seq(S)
    BY DEF Segments
  <2> HIDE DEF S
  <2> QED  BY <1>3, <2>2, <2>3, SeqEqual
<1>5. SubSeq(q, k + 1, Len(q)) = b
  <2>1. k + 1 \in Int /\ Len(q) \in Int /\ \A i \in k + 1 .. Len(q) : q[i] \in S
    <3>1. ASSUME NEW i \in k + 1 .. Len(q) PROVE q[i] \in Segment
      <4>1. i \in 1 .. Len(q)
        BY <1>1, <1>3
      <4> QED  BY <1>1, <4>1, SegmentFacts
    <3>2. k + 1 \in Int /\ Len(q) \in Int
      BY <1>1, <1>3
    <3> QED  BY <3>1, <3>2, Zenon
  <2>2. SubSeq(q, k + 1, Len(q)) \in Seq(S) /\ Len(SubSeq(q, k + 1, Len(q))) = Len(b)
        /\ \A i \in 1 .. Len(b) : SubSeq(q, k + 1, Len(q))[i] = b[i]
    <3> HIDE DEF S
    <3>1. /\ SubSeq(q, k + 1, Len(q)) \in Seq(S)
          /\ Len(SubSeq(q, k + 1, Len(q))) = IF k + 1 <= Len(q) THEN Len(q) - (k + 1) + 1 ELSE 0
          /\ \A i \in 1 .. Len(q) - (k + 1) + 1 : SubSeq(q, k + 1, Len(q))[i] = q[k + 1 + i - 1]
      BY <2>1, SubSeqProperties
    <3>2. Len(q) - (k + 1) + 1 = Len(b) /\ (k + 1 <= Len(q) <=> Len(b) > 0)
      BY <1>1, <1>3
    <3>3. ASSUME NEW i \in 1 .. Len(b) PROVE SubSeq(q, k + 1, Len(q))[i] = b[i]
      <4>1. k + 1 + i - 1 = Len(a) + i /\ i \in 1 .. Len(q) - (k + 1) + 1
        BY <1>1, <1>3
      <4>2. SubSeq(q, k + 1, Len(q))[i] = q[k + 1 + i - 1]
        BY <3>1, <4>1
      <4> QED  BY <1>1, <4>1, <4>2
    <3>4. Len(SubSeq(q, k + 1, Len(q))) = Len(b)
      BY <1>1, <3>1, <3>2
    <3> QED  BY <3>1, <3>3, <3>4
  <2>3. b \in Seq(S)
    BY DEF Segments
  <2> HIDE DEF S
  <2> QED  BY <2>2, <2>3, SeqEqual
<1> QED
  BY <1>2, <1>4, <1>5 DEF q

\* A small word is worth its place.
LEMMA MagnitudeOfOnes ==
    ASSUME NEW i \in 1 .. 19
    PROVE  Magnitude(Ones[i]) = i /\ Ones[i] # "and"
<1> DEFINE w == Ones[i]
           Is(j) == Ones[j] = w
           n == CHOOSE j \in DOMAIN Ones : Is(j)
           ten == 10 * (CHOOSE j \in 2 .. 9 : Tens[j] = w)
           scale == Scales[CHOOSE j \in DOMAIN Scales : Scales[j][1] = w][2]
           all == CASE w = "zero" -> 0
                    [] w = "hundred" -> 100
                    [] \E j \in DOMAIN Ones : Ones[j] = w -> n
                    [] \E j \in 2 .. 9 : Tens[j] = w -> ten
                    [] OTHER -> scale
<1>1. i \in DOMAIN Ones /\ w \notin {"zero", "hundred", "and"}
  BY OnesFacts
<1>2. n = i
  <2>1. \A j \in DOMAIN Ones : Is(j) => j = i
    BY OnesFacts
  <2>2. Is(i)
    OBVIOUS
  <2> HIDE DEF Is
  <2> QED  BY <1>1, <2>1, <2>2
<1>3. (\E j \in DOMAIN Ones : Ones[j] = w) /\ ~\E j \in 2 .. 9 : Tens[j] = w
  BY <1>1, TensFacts
<1>4. Magnitude(w) = all
  BY Zenon DEF Magnitude
<1> HIDE DEF w, n, ten, scale
<1>5. all = n
  BY <1>1, <1>3
<1> HIDE DEF all
<1> QED  BY <1>1, <1>2, <1>4, <1>5 DEF w

\* A word of tens ten times its place.
LEMMA MagnitudeOfTens ==
    ASSUME NEW i \in 2 .. 9
    PROVE  Magnitude(Tens[i]) = 10 * i /\ Tens[i] # "and"
<1> DEFINE w == Tens[i]
           Is(j) == Tens[j] = w
           n == CHOOSE j \in 2 .. 9 : Is(j)
           one == CHOOSE j \in DOMAIN Ones : Ones[j] = w
           scale == Scales[CHOOSE j \in DOMAIN Scales : Scales[j][1] = w][2]
           all == CASE w = "zero" -> 0
                    [] w = "hundred" -> 100
                    [] \E j \in DOMAIN Ones : Ones[j] = w -> one
                    [] \E j \in 2 .. 9 : Tens[j] = w -> 10 * n
                    [] OTHER -> scale
<1>1. w \notin {"zero", "hundred", "and"}
  BY TensFacts
<1>2. n = i
  <2>1. \A j \in 2 .. 9 : Is(j) => j = i
    BY TensFacts
  <2>2. Is(i)
    OBVIOUS
  <2> HIDE DEF Is
  <2> QED  BY <2>1, <2>2
<1>3. ~(\E j \in DOMAIN Ones : Ones[j] = w) /\ \E j \in 2 .. 9 : Tens[j] = w
  BY OnesFacts, TensFacts
<1>4. Magnitude(w) = all
  BY Zenon DEF Magnitude
<1> HIDE DEF w, n, one, scale
<1>5. all = 10 * n
  BY <1>1, <1>3
<1> HIDE DEF all
<1> QED  BY <1>1, <1>2, <1>4, <1>5 DEF w

\* A scale its value.
LEMMA MagnitudeOfScales ==
    ASSUME NEW i \in DOMAIN Scales
    PROVE  Magnitude(Scales[i][1]) = Scales[i][2] /\ Scales[i][1] # "and"
<1> DEFINE w == Scales[i][1]
           Is(j) == Scales[j][1] = w
           n == CHOOSE j \in DOMAIN Scales : Is(j)
           one == CHOOSE j \in DOMAIN Ones : Ones[j] = w
           ten == 10 * (CHOOSE j \in 2 .. 9 : Tens[j] = w)
           scale == Scales[n][2]
           all == CASE w = "zero" -> 0
                    [] w = "hundred" -> 100
                    [] \E j \in DOMAIN Ones : Ones[j] = w -> one
                    [] \E j \in 2 .. 9 : Tens[j] = w -> ten
                    [] OTHER -> scale
<1>1. w \notin {"zero", "hundred", "and"} /\ w \notin NumberWords
  <2>1. {"zero", "hundred", "and"} \subseteq NumberWords
    BY DEF NumberWords
  <2> QED  BY <2>1, ScaleFacts
<1>2. n = i
  <2>1. \A j \in DOMAIN Scales : Is(j) => j = i
    BY ScaleFacts
  <2>2. Is(i)
    OBVIOUS
  <2> HIDE DEF Is
  <2> QED  BY <2>1, <2>2
<1>3. ~(\E j \in DOMAIN Ones : Ones[j] = w) /\ ~\E j \in 2 .. 9 : Tens[j] = w
  <2>1. \A j \in DOMAIN Ones : Ones[j] \in NumberWords
    BY DEF NumberWords
  <2>2. \A j \in 2 .. 9 : Tens[j] \in NumberWords
    BY TensFacts DEF NumberWords
  <2> QED  BY <1>1, <2>1, <2>2
<1>4. Magnitude(w) = all
  BY Zenon DEF Magnitude
<1>5. scale = Scales[i][2]
  BY <1>2
<1> HIDE DEF w, n, one, ten, scale
<1>6. all = scale
  BY <1>1, <1>3
<1> HIDE DEF all
<1> QED  BY <1>1, <1>4, <1>5, <1>6 DEF w

\* Every word but "and" has a magnitude.
LEMMA MagnitudeFacts ==
    /\ Magnitude("zero") = 0
    /\ Magnitude("hundred") = 100
    /\ \A w \in Vocabulary \ {"and"} : Magnitude(w) \in Nat
<1>1. Magnitude("zero") = 0
  <2>1. ~\E j \in DOMAIN Ones : Ones[j] = "zero"
    BY OnesFacts
  <2>2. ~\E j \in 2 .. 9 : Tens[j] = "zero"
    BY TensFacts
  <2> QED  BY <2>1, <2>2 DEF Magnitude
<1>2. Magnitude("hundred") = 100
  <2>1. ~\E j \in DOMAIN Ones : Ones[j] = "hundred"
    BY OnesFacts
  <2>2. ~\E j \in 2 .. 9 : Tens[j] = "hundred"
    BY TensFacts
  <2> QED  BY <2>1, <2>2 DEF Magnitude
<1>3. ASSUME NEW w \in Vocabulary \ {"and"} PROVE Magnitude(w) \in Nat
  <2>1. \/ w \in {"zero", "hundred"}
        \/ \E i \in DOMAIN Ones : w = Ones[i]
        \/ \E i \in DOMAIN Tens : w = Tens[i]
        \/ \E i \in DOMAIN Scales : w = Scales[i][1]
    BY DEF Vocabulary, NumberWords
  <2>2. CASE w \in {"zero", "hundred"}
    BY <1>1, <1>2, <2>2
  <2>3. CASE \E i \in DOMAIN Ones : w = Ones[i]
    BY <2>3, OnesFacts, MagnitudeOfOnes
  <2>4. CASE \E i \in DOMAIN Tens : w = Tens[i]
    <3>1. PICK i \in 1 .. 9 : w = Tens[i]
      BY <2>4, TensFacts
    <3>2. CASE i = 1
      <4>1. w = Ones[10] /\ 10 \in 1 .. 19
        BY <3>1, <3>2, TensFacts
      <4> QED  BY <4>1, MagnitudeOfOnes
    <3>3. CASE i # 1
      <4>1. i \in 2 .. 9 /\ 10 * i \in Nat
        BY <3>3
      <4> QED  BY <3>1, <4>1, MagnitudeOfTens
    <3> QED  BY <3>2, <3>3
  <2>5. CASE \E i \in DOMAIN Scales : w = Scales[i][1]
    BY <2>5, ScaleFacts, MagnitudeOfScales
  <2> QED  BY <2>1, <2>2, <2>3, <2>4, <2>5
<1> QED
  BY <1>1, <1>2, <1>3

\* What a state of the reader holds.
LEMMA ReadingFacts ==
    /\ \A c \in Nat, segments \in Segments :
         /\ At(c, segments) \in Readings
         /\ At(c, segments).current = c /\ At(c, segments).segments = segments
    /\ \A state \in Readings : state.current \in Nat /\ state.segments \in Segments
BY DEF Readings, At

\* What reading a word does to what has been read.
LEMMA ReadWordIs ==
    ASSUME NEW c \in Nat, NEW segments \in Segments, NEW w \in Vocabulary
    PROVE  LET v == Magnitude(w)
               taken == Absorbed(segments, v)
           IN /\ w = "and" => ReadWord(At(c, segments), w) = At(c, segments)
              /\ w # "and" /\ v < 100 => ReadWord(At(c, segments), w) = At(c + v, segments)
              /\ w # "and" /\ v = 100 => ReadWord(At(c, segments), w) = At(c * 100, segments)
              /\ w # "and" /\ v > 100 =>
                   ReadWord(At(c, segments), w) =
                     At(0, Append(taken.left, [value |-> (c + taken.sum) * v, scale |-> v]))
<1> DEFINE v == Magnitude(w)
           taken == Absorbed(segments, v)
           state == At(c, segments)
           small == [state EXCEPT !.current = @ + v]
           hundred == [state EXCEPT !.current = @ * 100]
           big == [current |-> 0,
                   segments |-> Append(taken.left, [value |-> (c + taken.sum) * v, scale |-> v])]
           all == CASE w = "and" -> state
                    [] w # "and" /\ v < 100 -> small
                    [] w # "and" /\ v = 100 -> hundred
                    [] OTHER -> big
<1>1. ReadWord(state, w) = all
  <2>1. state.segments = segments /\ state.current = c
    BY DEF At
  <2> HIDE DEF state
  <2> QED  BY <2>1, Zenon DEF ReadWord
<1>2. small = At(c + v, segments) /\ hundred = At(c * 100, segments)
      /\ big = At(0, Append(taken.left, [value |-> (c + taken.sum) * v, scale |-> v]))
  BY DEF At
<1>3. w # "and" => v \in Nat
  BY MagnitudeFacts
<1> HIDE DEF small, hundred, big, v, state
<1>4. /\ w = "and" => all = state
      /\ w # "and" /\ v < 100 => all = small
      /\ w # "and" /\ v = 100 => all = hundred
      /\ w # "and" /\ v > 100 => all = big
  BY <1>3
<1> HIDE DEF all
<1> QED
  BY <1>1, <1>2, <1>4 DEF state, v

\* ReadWord is a step.
LEMMA ReadStepIs ==
    /\ ReadStep \in Steps(Readings, Vocabulary)
    /\ \A state \in Readings, w \in Vocabulary : ReadStep[<<state, w>>] = ReadWord(state, w)
<1>1. ASSUME NEW state \in Readings, NEW w \in Vocabulary
      PROVE  ReadWord(state, w) \in Readings
  <2>1. PICK c \in Nat, segments \in Segments : state = At(c, segments)
    BY DEF Readings
  <2> DEFINE v == Magnitude(w)
             taken == Absorbed(segments, v)
             segment == [value |-> (c + taken.sum) * v, scale |-> v]
  <2>2. CASE w = "and"
    BY <2>1, <2>2, ReadWordIs
  <2>3. CASE w # "and"
    <3>1. v \in Nat
      BY <2>3, MagnitudeFacts
    <3>2. c + v \in Nat /\ c * 100 \in Nat /\ (v < 100 \/ v = 100 \/ v > 100)
      <4> HIDE DEF v
      <4> QED  BY <3>1
    <3>3. At(0, Append(taken.left, segment)) \in Readings
      <4> HIDE DEF v
      <4>1. taken.left \in Segments /\ taken.sum \in Nat
        BY <3>1, AbsorbedType
      <4>2. (c + taken.sum) * v \in Nat
        <5> HIDE DEF taken
        <5> QED  BY <3>1, <4>1
      <4>3. segment \in Segment
        <5> HIDE DEF taken
        <5> QED  BY <3>1, <4>2 DEF Segment
      <4> HIDE DEF taken, segment
      <4>4. Append(taken.left, segment) \in Segments
        BY <4>1, <4>3 DEF Segments
      <4> QED  BY <4>4, ReadingFacts
    <3>4. At(c + v, segments) \in Readings /\ At(c * 100, segments) \in Readings
      <4> HIDE DEF v
      <4> QED  BY <3>2, ReadingFacts
    <3>5. \/ ReadWord(At(c, segments), w) = At(c + v, segments)
          \/ ReadWord(At(c, segments), w) = At(c * 100, segments)
          \/ ReadWord(At(c, segments), w) = At(0, Append(taken.left, segment))
      BY <2>3, <3>2, ReadWordIs
    <3> HIDE DEF v, taken, segment
    <3> QED  BY <2>1, <3>3, <3>4, <3>5
  <2> QED  BY <2>2, <2>3
<1> QED
  BY <1>1 DEF ReadStep, Steps

\* What has been read when text has been read on from there.
Reading(state, text) == Along(ReadStep, state, text)

\* Reading goes word by word.
LEMMA ReadingIs ==
    ASSUME NEW state \in Readings
    PROVE  /\ Reading(state, <<>>) = state
           /\ \A w \in Vocabulary : Reading(state, <<w>>) = ReadWord(state, w)
           /\ \A text \in Texts : Reading(state, text) \in Readings
           /\ \A a, b \in Texts : Reading(state, a \o b) = Reading(Reading(state, a), b)
<1>1. Reading(state, <<>>) = state
  BY AlongEmpty DEF Reading
<1>2. ASSUME NEW w \in Vocabulary PROVE Reading(state, <<w>>) = ReadWord(state, w)
  <2>1. Along(ReadStep, state, <<w>>) = ReadStep[<<state, w>>]
    BY ReadStepIs, AlongOne
  <2> QED  BY <2>1, ReadStepIs DEF Reading
<1>3. ASSUME NEW text \in Texts PROVE Reading(state, text) \in Readings
  BY ReadStepIs, AlongType DEF Reading, Texts
<1>4. ASSUME NEW a \in Texts, NEW b \in Texts
      PROVE  Reading(state, a \o b) = Reading(Reading(state, a), b)
  BY ReadStepIs, AlongConcat DEF Reading, Texts
<1> QED
  BY <1>1, <1>2, <1>3, <1>4

\* Two words one after the other.
LEMMA ReadsTwo ==
    ASSUME NEW state \in Readings, NEW w \in Vocabulary, NEW x \in Vocabulary
    PROVE  Reading(state, <<w, x>>) = Reading(Reading(state, <<w>>), <<x>>)
<1>1. /\ <<w, x>> \in Texts /\ Len(<<w, x>>) = 2
      /\ <<w>> \in Texts /\ <<x>> \in Texts
      /\ <<w>> \o <<x>> \in Texts /\ Len(<<w>> \o <<x>>) = 2
  BY DEF Texts
<1>2. \A i \in 1 .. 2 : <<w, x>>[i] = (<<w>> \o <<x>>)[i]
  OBVIOUS
<1> DEFINE two == <<w, x>>
           both == <<w>> \o <<x>>
<1>3. two = both
  <2>1. two \in Seq(Vocabulary) /\ both \in Seq(Vocabulary) /\ Len(two) = 2 /\ Len(both) = 2
        /\ \A i \in 1 .. 2 : two[i] = both[i]
    BY <1>1, <1>2 DEF Texts
  <2> HIDE DEF two, both
  <2> QED  BY <2>1, SeqEqual
<1>4. Reading(state, both) = Reading(Reading(state, <<w>>), <<x>>)
  BY <1>1, ReadingIs
<1> HIDE DEF two, both
<1>5. Reading(state, two) = Reading(Reading(state, <<w>>), <<x>>)
  BY <1>3, <1>4
<1> QED
  BY <1>5 DEF two

\* "and" is passed over.
LEMMA ReadsAnd ==
    ASSUME NEW state \in Readings
    PROVE  Reading(state, <<"and">>) = state
<1>1. PICK c \in Nat, segments \in Segments : state = At(c, segments)
  BY DEF Readings
<1>2. "and" \in Vocabulary
  BY VocabularyHas
<1>3. ReadWord(state, "and") = state
  BY <1>1, <1>2, ReadWordIs
<1> QED
  BY <1>2, <1>3, ReadingIs

\* A small word is added.
LEMMA ReadsSmall ==
    ASSUME NEW c \in Nat, NEW segments \in Segments, NEW w \in Vocabulary, w # "and",
           NEW v \in Nat, Magnitude(w) = v, v < 100
    PROVE  Reading(At(c, segments), <<w>>) = At(c + v, segments)
<1>1. ReadWord(At(c, segments), w) = At(c + v, segments)
  BY ZenonT(40), ReadWordIs
<1>2. At(c, segments) \in Readings
  BY ReadingFacts
<1> QED
  BY <1>1, <1>2, ReadingIs

\* "hundred" multiplies what was said last.
LEMMA ReadsHundred ==
    ASSUME NEW c \in Nat, NEW segments \in Segments
    PROVE  Reading(At(c, segments), <<"hundred">>) = At(c * 100, segments)
<1>1. "hundred" \in Vocabulary /\ "hundred" # "and" /\ Magnitude("hundred") = 100
  BY VocabularyHas, MagnitudeFacts
<1>2. ReadWord(At(c, segments), "hundred") = At(c * 100, segments)
  BY <1>1, ReadWordIs
<1>3. At(c, segments) \in Readings
  BY ReadingFacts
<1> QED
  BY <1>1, <1>2, <1>3, ReadingIs

\* A scale multiplies all that is less, and closes a segment.
LEMMA ReadsScale ==
    ASSUME NEW c \in Nat, NEW segments \in Segments, NEW i \in DOMAIN Scales
    PROVE  LET v == Scales[i][2]
               taken == Absorbed(segments, v)
           IN Reading(At(c, segments), <<Scales[i][1]>>) =
                At(0, Append(taken.left, [value |-> (c + taken.sum) * v, scale |-> v]))
<1> DEFINE w == Scales[i][1]
           v == Scales[i][2]
           taken == Absorbed(segments, v)
           next == At(0, Append(taken.left, [value |-> (c + taken.sum) * v, scale |-> v]))
<1>1. w \in Vocabulary /\ w # "and" /\ Magnitude(w) = v /\ v > 100
  <2>1. v >= 1000 /\ v \in Nat
    BY ScaleFacts
  <2> HIDE DEF v
  <2>2. v > 100
    BY <2>1
  <2> QED  BY <2>2, VocabularyHas, MagnitudeOfScales DEF v
<1> HIDE DEF w, v
<1>2. ReadWord(At(c, segments), w) = next
  BY <1>1, ReadWordIs
<1>3. At(c, segments) \in Readings
  BY ReadingFacts
<1> HIDE DEF next
<1>4. Reading(At(c, segments), <<w>>) = next
  BY <1>1, <1>2, <1>3, ReadingIs
<1> QED
  BY <1>4 DEF next, w, v

\* What is written below a hundred is added.
LEMMA ReadsBelowHundred ==
    ASSUME NEW n \in 0 .. 99, NEW c \in Nat, NEW segments \in Segments
    PROVE  Reading(At(c, segments), BelowHundred(n)) = At(c + n, segments)
<1>0. At(c, segments) \in Readings
  BY ReadingFacts
<1>1. CASE n = 0
  <2>1. BelowHundred(n) = <<>> /\ c + n = c
    BY <1>1 DEF BelowHundred
  <2> QED  BY <1>0, <2>1, ReadingIs
<1>2. CASE n \in 1 .. 19
  <2>1. BelowHundred(n) = <<Ones[n]>> /\ Ones[n] \in Vocabulary
    <3>1. n # 0 /\ BelowHundred(n) = <<Ones[n]>>
      BY SMTT(40), <1>2 DEF BelowHundred
    <3> QED  BY <1>2, <3>1, VocabularyHas
  <2>2. Magnitude(Ones[n]) = n /\ Ones[n] # "and" /\ n < 100
    BY <1>2, MagnitudeOfOnes
  <2>3. Reading(At(c, segments), <<Ones[n]>>) = At(c + n, segments)
    BY <2>1, <2>2, ReadsSmall
  <2> QED  BY <2>1, <2>3
<1>3. CASE n > 19
  <2> DEFINE t == n \div 10
             u == n % 10
  <2>1. t \in 2 .. 9 /\ u \in 0 .. 9 /\ n = 10 * t + u
    BY <1>3
  <2> DEFINE tail == IF u = 0 THEN <<>> ELSE <<Ones[u]>>
  <2>2. BelowHundred(n) = <<Tens[t]>> \o tail
    BY SMTT(40), <1>3 DEF BelowHundred
  <2> HIDE DEF t, u
  <2>3. /\ Tens[t] \in Vocabulary /\ Magnitude(Tens[t]) = 10 * t /\ Tens[t] # "and"
        /\ 10 * t < 100 /\ 10 * t \in Nat
    BY <2>1, VocabularyHas, MagnitudeOfTens
  <2>4. Reading(At(c, segments), <<Tens[t]>>) = At(c + 10 * t, segments)
    <3>1. PICK v \in Nat : v = 10 * t
      BY <2>3
    <3>2. v < 100 /\ Magnitude(Tens[t]) = v
      BY <2>3, <3>1
    <3>3. Reading(At(c, segments), <<Tens[t]>>) = At(c + v, segments)
      BY <2>3, <3>2, ReadsSmall
    <3> QED  BY <3>1, <3>3
  <2>5. PICK d \in Nat : d = c + 10 * t
    BY <2>3
  <2>6. tail \in Texts /\ Reading(At(d, segments), tail) = At(d + u, segments)
    <3>1. At(d, segments) \in Readings
      BY ReadingFacts
    <3>2. CASE u = 0
      <4>1. tail = <<>> /\ d + u = d
        BY <3>2
      <4> QED  BY <3>1, <4>1, ReadingIs, TextsFacts
    <3>3. CASE u # 0
      <4>1. tail = <<Ones[u]>> /\ u \in 1 .. 19 /\ u < 100
        BY <2>1, <3>3
      <4>2. Ones[u] \in Vocabulary /\ Magnitude(Ones[u]) = u /\ Ones[u] # "and"
        BY <4>1, VocabularyHas, MagnitudeOfOnes
      <4>3. Reading(At(d, segments), <<Ones[u]>>) = At(d + u, segments)
        BY <4>1, <4>2, ReadsSmall
      <4> QED  BY <4>1, <4>2, <4>3, TextsFacts
    <3> QED  BY <3>2, <3>3
  <2>7. <<Tens[t]>> \in Texts
    BY <2>3, TextsFacts
  <2> HIDE DEF tail
  <2>8. Reading(At(c, segments), <<Tens[t]>> \o tail) = At(d + u, segments)
    BY <1>0, <2>4, <2>5, <2>6, <2>7, ReadingIs
  <2>9. d + u = c + n
    BY <2>1, <2>5
  <2> QED  BY <2>2, <2>8, <2>9
<1> QED
  BY <1>1, <1>2, <1>3

\* What is written below a thousand is read.
LEMMA ReadsBelowThousand ==
    ASSUME NEW n \in 0 .. 999, NEW segments \in Segments
    PROVE  Reading(At(0, segments), intToWords(n)) = At(n, segments)
<1> DEFINE h == n \div 100
           m == n % 100
           rest == BelowHundred(m)
           tail == IF rest = <<>> THEN <<>> ELSE <<"and">> \o rest
           start == At(0, segments)
           empty == <<>>
<1>0. /\ start \in Readings /\ m \in 0 .. 99 /\ n = 100 * h + m /\ (n > 99 => h \in 1 .. 9)
      /\ rest \in Texts
  <2>1. m \in 0 .. 99 /\ n = 100 * h + m /\ (n > 99 => h \in 1 .. 9)
    OBVIOUS
  <2>2. start \in Readings
    BY ReadingFacts
  <2> HIDE DEF m
  <2> QED  BY <2>1, <2>2, BelowHundredType
<1>1. CASE n = 0
  <2>1. intToWords(n) = <<"zero">>
    BY <1>1 DEF intToWords
  <2>2. "zero" \in Vocabulary /\ "zero" # "and" /\ Magnitude("zero") = 0
    BY MagnitudeFacts, VocabularyHas
  <2>3. Reading(At(0, segments), <<"zero">>) = At(0 + 0, segments)
    BY <2>2, ReadsSmall
  <2> QED  BY <1>1, <2>1, <2>3
<1>2. CASE n \in 1 .. 99
  <2>1. intToWords(n) = rest
    <3> HIDE DEF rest
    <3> QED  BY <1>2 DEF intToWords, rest, m
  <2>0. m = n
    BY <1>2
  <2>2. Reading(At(0, segments), rest) = At(0 + m, segments)
    <3> HIDE DEF m
    <3> QED  BY <1>0, ReadsBelowHundred
  <2> HIDE DEF rest, m
  <2> QED  BY <1>2, <2>0, <2>1, <2>2
<1>3. CASE n > 99
  <2>1. intToWords(n) = <<Ones[h], "hundred">> \o tail
    <3>1. n # 0 /\ n \notin 1 .. 99
      BY <1>3
    <3> DEFINE big == <<Ones[h], "hundred">> \o tail
               small == <<"zero">>
               all == CASE n = 0 -> small [] n \in 1 .. 99 -> rest [] OTHER -> big
    <3>2. intToWords(n) = all
      BY DEF intToWords
    <3> HIDE DEF rest, big, small
    <3>3. all = big
      BY <3>1
    <3> HIDE DEF all
    <3>4. intToWords(n) = big
      BY <3>2, <3>3
    <3> QED  BY <3>4 DEF big
  <2> HIDE DEF m, h
  <2>2. h \in 1 .. 9 /\ h \in 1 .. 19 /\ h \in Nat
    BY <1>0, <1>3
  <2>3. Ones[h] \in Vocabulary /\ Magnitude(Ones[h]) = h /\ Ones[h] # "and" /\ "hundred" \in Vocabulary
    BY <2>2, VocabularyHas, MagnitudeOfOnes
  <2>4. Reading(start, <<Ones[h]>>) = At(h, segments)
    <3>1. Reading(At(0, segments), <<Ones[h]>>) = At(0 + h, segments)
      BY <2>2, <2>3, ReadsSmall
    <3> QED  BY <2>2, <3>1
  <2>5. Reading(At(h, segments), <<"hundred">>) = At(h * 100, segments)
    BY <2>2, ReadsHundred
  <2> HIDE DEF start
  <2>6. Reading(start, <<Ones[h], "hundred">>) = At(h * 100, segments)
    BY <1>0, <2>3, <2>4, <2>5, ReadsTwo
  <2>7. PICK d \in Nat : d = h * 100
    BY <2>2
  <2>8. At(d, segments) \in Readings
    BY ReadingFacts
  <2>9. tail \in Texts /\ Reading(At(d, segments), tail) = At(d + m, segments)
    <3>1. Reading(At(d, segments), rest) = At(d + m, segments)
      BY <1>0, ReadsBelowHundred
    <3> HIDE DEF rest
    <3>2. CASE rest = <<>>
      BY <3>1, <3>2, TextsFacts
    <3>3. CASE rest # <<>>
      <4>1. tail = <<"and">> \o rest /\ <<"and">> \in Texts
        BY <3>3, VocabularyHas, TextsFacts
      <4>2. Reading(At(d, segments), <<"and">>) = At(d, segments)
        BY <2>8, ReadsAnd
      <4>3. Reading(At(d, segments), <<"and">> \o rest) = Reading(At(d, segments), rest)
        BY <1>0, <2>8, <4>1, <4>2, ReadingIs
      <4> QED  BY <1>0, <3>1, <4>1, <4>3, TextsFacts
    <3> QED  BY <3>2, <3>3
  <2> HIDE DEF tail
  <2>10. <<Ones[h], "hundred">> \in Texts
    BY <2>3, TextsFacts
  <2>11. Reading(start, <<Ones[h], "hundred">> \o tail) = At(d + m, segments)
    BY <1>0, <2>6, <2>7, <2>9, <2>10, ReadingIs
  <2>12. d + m = n
    BY <1>0, <2>2, <2>7
  <2> QED  BY <2>1, <2>11, <2>12 DEF start
<1> QED
  BY <1>1, <1>2, <1>3

\* Segments side by side add up.
LEMMA ValuesConcat ==
    ASSUME NEW a \in Segments, NEW b \in Segments
    PROVE  /\ a \o b \in Segments
           /\ Total(Values(a \o b)) = Total(Values(a)) + Total(Values(b))
<1>1. a \o b \in Segments /\ Len(a \o b) = Len(a) + Len(b)
  BY ConcatProperties DEF Segments
<1>2. Values(a \o b) = Values(a) \o Values(b)
  <2>1. /\ Values(a) \in Seq(Nat) /\ Values(b) \in Seq(Nat) /\ Values(a \o b) \in Seq(Nat)
        /\ Len(Values(a)) = Len(a) /\ Len(Values(b)) = Len(b) /\ Len(Values(a \o b)) = Len(a) + Len(b)
        /\ Len(a) \in Nat /\ Len(b) \in Nat
        /\ DOMAIN a = 1 .. Len(a) /\ DOMAIN b = 1 .. Len(b) /\ DOMAIN (a \o b) = 1 .. Len(a) + Len(b)
    <3>1. DOMAIN a = 1 .. Len(a) /\ DOMAIN b = 1 .. Len(b) /\ DOMAIN (a \o b) = 1 .. Len(a) + Len(b)
      BY <1>1 DEF Segments
    <3> QED  BY <1>1, <3>1, SegmentFacts
  <2> DEFINE Z == Nat
             both == Values(a) \o Values(b)
  <2>2. /\ both \in Seq(Z) /\ Len(both) = Len(a) + Len(b) /\ Values(a \o b) \in Seq(Z)
        /\ \A i \in 1 .. Len(a) : both[i] = Values(a)[i]
        /\ \A i \in 1 .. Len(b) : both[Len(a) + i] = Values(b)[i]
    <3>1. Values(a) \in Seq(Z) /\ Values(b) \in Seq(Z) /\ Values(a \o b) \in Seq(Z)
      BY <2>1
    <3>2. PICK x \in Seq(Z), y \in Seq(Z) : x = Values(a) /\ y = Values(b)
      BY <3>1
    <3> HIDE DEF Z
    <3>3. /\ x \o y \in Seq(Z) /\ Len(x \o y) = Len(x) + Len(y)
          /\ \A i \in 1 .. Len(x) : (x \o y)[i] = x[i]
          /\ \A i \in 1 .. Len(y) : (x \o y)[Len(x) + i] = y[i]
      BY ConcatIs
    <3>4. Len(x) = Len(a) /\ Len(y) = Len(b) /\ both = x \o y
      BY <2>1, <3>2
    <3> HIDE DEF both
    <3> QED  BY <3>1, <3>2, <3>3, <3>4
  <2>0. /\ \A i \in 1 .. Len(a) : (a \o b)[i] = a[i]
        /\ \A i \in 1 .. Len(b) : (a \o b)[Len(a) + i] = b[i]
    BY ConcatIs DEF Segments
  <2> HIDE DEF both
  <2>3. ASSUME NEW i \in 1 .. Len(a) + Len(b) PROVE Values(a \o b)[i] = both[i]
    <3>1. Values(a \o b)[i] = (a \o b)[i].value
      BY <2>1 DEF Values
    <3>2. CASE i <= Len(a)
      <4>1. i \in 1 .. Len(a)
        BY <2>1, <3>2
      <4>2. (a \o b)[i] = a[i] /\ both[i] = Values(a)[i]
        BY <2>0, <2>2, <4>1
      <4>3. Values(a)[i] = a[i].value
        BY <2>1, <4>1 DEF Values
      <4> QED  BY <3>1, <4>2, <4>3
    <3>3. CASE ~(i <= Len(a))
      <4>1. PICK j \in 1 .. Len(b) : i = Len(a) + j
        <5>1. i - Len(a) \in 1 .. Len(b) /\ i = Len(a) + (i - Len(a))
          BY <2>1, <3>3
        <5> QED  BY <5>1
      <4>2. (a \o b)[i] = b[j] /\ both[i] = Values(b)[j]
        BY <2>0, <2>2, <4>1
      <4>3. Values(b)[j] = b[j].value
        BY <2>1 DEF Values
      <4> QED  BY <3>1, <4>2, <4>3
    <3> QED  BY <3>2, <3>3
  <2> HIDE DEF Z, both
  <2>4. Values(a \o b) = both
    BY <2>1, <2>2, <2>3, SeqEqual
  <2> QED  BY <2>4 DEF both
<1>3. Values(a) \in Seq(Int) /\ Values(b) \in Seq(Int)
  BY SegmentFacts
<1> QED
  BY <1>1, <1>2, <1>3, TotalConcat

\* One segment is worth its value.
LEMMA OneSegment ==
    ASSUME NEW x \in Nat, NEW s \in Nat
    PROVE  LET segment == [value |-> x, scale |-> s]
           IN /\ segment \in Segment /\ <<segment>> \in Segments
              /\ Len(<<segment>>) = 1 /\ <<segment>>[1] = segment
              /\ Total(Values(<<segment>>)) = x
<1> DEFINE segment == [value |-> x, scale |-> s]
<1>1. segment \in Segment /\ <<segment>> \in Segments /\ segment.value = x
  BY DEF Segment, Segments
<1>2. Values(<<segment>>) = <<x>>
  BY DEF Values
<1>3. Total(<<x>>) = x
  BY TotalOne
<1> QED
  BY <1>1, <1>2, <1>3

\* The words of n, read where only greater scales have been read, add n.
ScaleValues == {Scales[i][2] : i \in DOMAIN Scales}
Reads(n) ==
  \A before \in Segments :
    (\A i \in 1 .. Len(before) : before[i].scale > n) =>
      \E c \in Nat, added \in Segments :
        /\ Reading(At(0, before), bigIntToWords[n]) = At(c, before \o added)
        /\ c + Total(Values(added)) = n
        /\ \A i \in 1 .. Len(added) : added[i].scale <= n /\ added[i].scale \in ScaleValues

\* Reads below a thousand.
LEMMA ReadsSmallNumber ==
    ASSUME NEW n \in Nat, n < 1000
    PROVE  Reads(n)
<1>1. bigIntToWords[n] = intToWords(n) /\ n \in 0 .. 999
  <2>1. bigIntToWords[n] = WordsOf(n, bigIntToWords)
    BY bigIntToWordsIs
  <2>2. WordsOf(n, bigIntToWords) = intToWords(n)
    BY DEF WordsOf
  <2> QED  BY <2>1, <2>2
<1>2. ASSUME NEW before \in Segments
      PROVE  /\ Reading(At(0, before), bigIntToWords[n]) = At(n, before \o <<>>)
             /\ <<>> \in Segments /\ Len(<<>>) = 0 /\ n + Total(Values(<<>>)) = n
  <2>1. before \o <<>> = before /\ <<>> \in Segments /\ Len(<<>>) = 0
    BY EmptySeq, ConcatEmptySeq DEF Segments
  <2>2. Values(<<>>) = <<>>
    <3>1. Values(<<>>) \in Seq(Nat) /\ Len(Values(<<>>)) = Len(<<>>)
      BY <2>1, SegmentFacts
    <3> QED  BY <2>1, <3>1, EmptySeq
  <2>3. n + Total(Values(<<>>)) = n
    BY <2>2, TotalEmpty
  <2>4. Reading(At(0, before), intToWords(n)) = At(n, before)
    BY <1>1, ReadsBelowThousand
  <2> QED  BY <1>1, <2>1, <2>3, <2>4
<1> DEFINE empty == <<>>
<1>3. ASSUME NEW before \in Segments
      PROVE  \E c \in Nat, added \in Segments :
               /\ Reading(At(0, before), bigIntToWords[n]) = At(c, before \o added)
               /\ c + Total(Values(added)) = n
               /\ \A i \in 1 .. Len(added) : added[i].scale <= n /\ added[i].scale \in ScaleValues
  <2>1. /\ Reading(At(0, before), bigIntToWords[n]) = At(n, before \o empty)
        /\ empty \in Segments /\ Len(empty) = 0 /\ n + Total(Values(empty)) = n
    BY <1>2, Zenon
  <2> HIDE DEF empty
  <2>2. \A i \in 1 .. Len(empty) : empty[i].scale <= n /\ empty[i].scale \in ScaleValues
    BY <2>1
  <2>3. \E added \in Segments : /\ Reading(At(0, before), bigIntToWords[n]) = At(n, before \o added)
                                /\ n + Total(Values(added)) = n
                                /\ \A i \in 1 .. Len(added) : added[i].scale <= n /\ added[i].scale \in ScaleValues
    BY ONLY <2>1, <2>2, Zenon
  <2> QED  BY <2>3, Zenon
<1> QED
  BY <1>3 DEF Reads

\* Reads above, from what is below.
LEMMA ReadsGreatNumber ==
    ASSUME NEW n \in Nat, n >= 1000, \A k \in 0 .. n - 1 : Reads(k)
    PROVE  Reads(n)
<1> DEFINE i == Fitting(n)
           name == Scales[i][1]
           s == Scales[i][2]
           q == n \div s
           r == n % s
<1>1. /\ i \in DOMAIN Scales /\ s \in Nat /\ s >= 1000 /\ s <= n /\ name \in Vocabulary
      /\ q \in Nat /\ r \in Nat /\ q < n /\ r < n /\ r < s /\ n = s * q + r
      /\ \A t \in ScaleValues : t <= n => t <= s
  <2>1. /\ s \in Nat /\ s >= 1000 /\ name \in Vocabulary
        /\ q \in Nat /\ r \in Nat /\ q < n /\ r < n /\ r < s /\ n = s * q + r
    BY WordsOfFacts
  <2>2. i \in DOMAIN Scales /\ n >= s
    BY FittingFacts
  <2>3. ASSUME NEW t \in ScaleValues, t <= n PROVE t <= s
    <3>1. PICK j \in DOMAIN Scales : t = Scales[j][2]
      BY DEF ScaleValues
    <3> QED  BY <2>3, <3>1, FittingFacts
  <2>4. s <= n
    <3> HIDE DEF s
    <3> QED  BY <2>1, <2>2
  <2> HIDE DEF i, s, q, r
  <2> QED  BY <2>1, <2>2, <2>3, <2>4
<1> DEFINE and == <<"and">> \o bigIntToWords[r]
           empty == <<>>
           rest == CASE r = 0 -> empty [] r \in 1 .. 99 -> and [] OTHER -> bigIntToWords[r]
<1>2. bigIntToWords[n] = bigIntToWords[q] \o <<name>> \o rest
  <2>1. ~(n < 1000)
    OBVIOUS
  <2>2. bigIntToWords[n] = WordsOf(n, bigIntToWords)
    BY bigIntToWordsIs
  <2>3. WordsOf(n, bigIntToWords) = bigIntToWords[q] \o <<name>> \o rest
    BY ONLY <2>1, Zenon DEF WordsOf
  <2> HIDE DEF q, name, rest
  <2> QED  BY <2>2, <2>3
<1> HIDE DEF i, name, s, q, r
<1>3. /\ bigIntToWords[q] \in Texts /\ bigIntToWords[r] \in Texts /\ <<name>> \in Texts
      /\ <<"and">> \in Texts /\ <<>> \in Texts
  <2>1. <<name>> \in Texts /\ <<"and">> \in Texts /\ <<>> \in Texts
    BY <1>1, TextsFacts, VocabularyHas
  <2>2. bigIntToWords[q] \in Texts /\ bigIntToWords[r] \in Texts
    BY <1>1, bigIntToWordsIs
  <2> QED  BY <2>1, <2>2, Zenon
<1>4. rest \in Texts
  <2>1. and \in Texts /\ empty \in Texts
    BY <1>3, TextsFacts
  <2> HIDE DEF and, empty
  <2> QED  BY <1>3, <2>1
<1>5. Reads(q) /\ Reads(r)
  BY <1>1
<1> SUFFICES ASSUME NEW before \in Segments, \A j \in 1 .. Len(before) : before[j].scale > n
             PROVE  \E c \in Nat, added \in Segments :
                      /\ Reading(At(0, before), bigIntToWords[n]) = At(c, before \o added)
                      /\ c + Total(Values(added)) = n
                      /\ \A j \in 1 .. Len(added) : added[j].scale <= n /\ added[j].scale \in ScaleValues
  BY DEF Reads
<1>6. \A j \in 1 .. Len(before) :
        before[j].scale \in Nat /\ before[j].scale > q /\ before[j].scale > s /\ before[j].scale > r
  <2>1. \A j \in 1 .. Len(before) : before[j].scale \in Nat /\ before[j].scale > n
    BY SegmentFacts
  <2> QED  BY <1>1, <2>1
<1>7. PICK c \in Nat, added \in Segments :
        /\ Reading(At(0, before), bigIntToWords[q]) = At(c, before \o added)
        /\ c + Total(Values(added)) = q
        /\ \A j \in 1 .. Len(added) : added[j].scale <= q /\ added[j].scale \in ScaleValues
  BY <1>5, <1>6 DEF Reads
<1>8. \A j \in 1 .. Len(added) : added[j].scale <= s
  <2>1. ASSUME NEW j \in 1 .. Len(added) PROVE added[j].scale <= s
    <3>1. added[j].scale <= q /\ added[j].scale \in ScaleValues /\ added[j].scale \in Nat
      BY <1>7, SegmentFacts
    <3>2. added[j].scale <= n
      BY <1>1, <3>1
    <3> QED  BY <1>1, <3>1, <3>2
  <2> QED  BY <2>1
<1> DEFINE segment == [value |-> q * s, scale |-> s]
           one == <<segment>>
           then == before \o one
<1>9. Reading(At(c, before \o added), <<name>>) = At(0, then)
  <2>1. Absorbed(before \o added, s) = [left |-> before, sum |-> Total(Values(added))]
    <3>1. s \in Nat
      BY <1>1
    <3> QED  BY <3>1, <1>6, <1>8, AbsorbedIs
  <2> DEFINE taken == Absorbed(before \o added, s)
             next == [value |-> (c + taken.sum) * s, scale |-> s]
  <2>2. next = segment /\ taken.left = before
    BY <1>7, <2>1
  <2>3. before \o added \in Segments
    BY ValuesConcat
  <2>4. Reading(At(c, before \o added), <<name>>) = At(0, Append(taken.left, next))
    BY <1>1, <2>3, ReadsScale DEF name, s
  <2> HIDE DEF taken, next
  <2>5. Append(before, segment) = then
    <3>1. segment \in Segment
      BY <1>1 DEF Segment
    <3> HIDE DEF segment
    <3> QED  BY <3>1, AppendIsConcat DEF Segments
  <2> HIDE DEF segment, then
  <2> QED  BY <2>2, <2>4, <2>5
<1>10. /\ segment \in Segment /\ one \in Segments /\ Len(one) = 1 /\ one[1] = segment
       /\ Total(Values(one)) = q * s /\ segment.scale = s
  <2>1. q * s \in Nat
    BY <1>1
  <2> QED  BY <1>1, <2>1, OneSegment
<1> HIDE DEF segment, one
<1>11. /\ then \in Segments /\ Len(then) = Len(before) + 1 /\ Len(before) \in Nat
       /\ \A j \in 1 .. Len(then) : then[j].scale > r
  <2>1. /\ then \in Segments /\ Len(then) = Len(before) + 1 /\ Len(before) \in Nat
        /\ \A j \in 1 .. Len(before) : then[j] = before[j]
        /\ then[Len(before) + 1] = segment
    <3>1. before \in Seq(Segment) /\ one \in Seq(Segment) /\ 1 \in 1 .. Len(one)
      BY <1>10 DEF Segments
    <3>2. /\ then \in Seq(Segment) /\ Len(then) = Len(before) + 1 /\ Len(before) \in Nat
          /\ \A j \in 1 .. Len(before) : then[j] = before[j]
          /\ then[Len(before) + 1] = one[1]
      <4>1. /\ then \in Seq(Segment) /\ Len(then) = Len(before) + Len(one) /\ Len(before) \in Nat
            /\ \A j \in 1 .. Len(before) : then[j] = before[j]
            /\ \A j \in 1 .. Len(one) : then[Len(before) + j] = one[j]
        BY <3>1, ConcatIs
      <4> HIDE DEF then
      <4> QED  BY <1>10, <3>1, <4>1
    <3> QED  BY <1>10, <3>2 DEF Segments
  <2> HIDE DEF then
  <2>2. ASSUME NEW j \in 1 .. Len(then) PROVE then[j].scale > r
    <3>1. j \in 1 .. Len(before) \/ j = Len(before) + 1
      BY <2>1
    <3>2. CASE j \in 1 .. Len(before)
      BY <1>6, <2>1, <3>2
    <3>3. CASE j = Len(before) + 1
      BY <1>1, <1>10, <2>1, <3>3
    <3> QED  BY <3>1, <3>2, <3>3
  <2> QED  BY <2>1, <2>2
<1>12. Reading(At(0, before), bigIntToWords[q] \o <<name>>) = At(0, then)
  <2>1. At(0, before) \in Readings
    BY ReadingFacts
  <2> HIDE DEF then
  <2> QED  BY <1>3, <1>7, <1>9, <2>1, ReadingIs
<1>13. bigIntToWords[q] \o <<name>> \in Texts /\ At(0, before) \in Readings /\ At(0, then) \in Readings
  BY <1>3, <1>11, ReadingFacts, TextsFacts
<1>14. Reading(At(0, before), bigIntToWords[n]) = Reading(At(0, then), rest)
  <2> HIDE DEF then, rest
  <2> QED  BY <1>2, <1>4, <1>12, <1>13, ReadingIs
<1>15. CASE r = 0
  <2>1. rest = empty
    <3> HIDE DEF empty, and
    <3> QED  BY <1>15
  <2>2. Reading(At(0, then), <<>>) = At(0, then)
    <3> HIDE DEF then
    <3> QED  BY <1>13, ReadingIs
  <2>3. 0 + Total(Values(one)) = n
    BY <1>1, <1>10, <1>15
  <2>4. \A j \in 1 .. Len(one) : one[j].scale <= n /\ one[j].scale \in ScaleValues
    BY <1>1, <1>10 DEF ScaleValues, s
  <2> HIDE DEF rest
  <2>5. Reading(At(0, before), bigIntToWords[n]) = At(0, before \o one)
    BY <1>14, <2>1, <2>2
  <2> QED  BY <1>10, <2>3, <2>4, <2>5
<1>16. CASE r # 0
  <2>1. Reading(At(0, then), rest) = Reading(At(0, then), bigIntToWords[r])
    <3> HIDE DEF then
    <3>1. Reading(At(0, then), and) = Reading(At(0, then), bigIntToWords[r])
      BY <1>3, <1>13, ReadsAnd, ReadingIs
    <3> HIDE DEF and, empty
    <3>2. rest = and \/ rest = bigIntToWords[r]
      BY <1>16
    <3> HIDE DEF rest
    <3> QED  BY <3>1, <3>2
  <2> HIDE DEF rest
  <2>2. PICK d \in Nat, more \in Segments :
          /\ Reading(At(0, then), bigIntToWords[r]) = At(d, then \o more)
          /\ d + Total(Values(more)) = r
          /\ \A j \in 1 .. Len(more) : more[j].scale <= r /\ more[j].scale \in ScaleValues
    <3> HIDE DEF then
    <3> QED  BY <1>5, <1>11 DEF Reads
  <2> DEFINE all == one \o more
  <2>3. all \in Segments /\ Total(Values(all)) = q * s + Total(Values(more))
    BY <1>10, ValuesConcat
  <2>4. then \o more = before \o all
    BY SMTT(40), <1>10, ConcatAssociative DEF Segments
  <2>5. d + Total(Values(all)) = n
    <3>1. Total(Values(more)) \in Nat
      BY SegmentFacts
    <3>2. PICK t \in Nat : t = Total(Values(more))
      BY <3>1
    <3>3. PICK p \in Nat : p = q * s
      BY <1>1
    <3>4. n = p + r /\ d + t = r
      BY <1>1, <2>2, <3>2, <3>3
    <3>5. Total(Values(all)) = p + t
      BY <2>3, <3>2, <3>3
    <3> HIDE DEF all
    <3> QED  BY <1>1, <3>4, <3>5
  <2>6. ASSUME NEW j \in 1 .. Len(all)
        PROVE  all[j].scale <= n /\ all[j].scale \in ScaleValues
    <3>1. Len(all) = 1 + Len(more) /\ Len(more) \in Nat /\ all[1] = segment
          /\ \A k \in 1 .. Len(more) : all[1 + k] = more[k]
      <4>1. one \in Seq(Segment) /\ more \in Seq(Segment) /\ 1 \in 1 .. Len(one)
        BY <1>10 DEF Segments
      <4>2. /\ Len(all) = Len(one) + Len(more) /\ Len(more) \in Nat
            /\ \A k \in 1 .. Len(one) : all[k] = one[k]
            /\ \A k \in 1 .. Len(more) : all[Len(one) + k] = more[k]
        BY <4>1, ConcatIs
      <4> HIDE DEF all
      <4> QED  BY <1>10, <4>1, <4>2
    <3> HIDE DEF all
    <3>2. CASE j = 1
      BY <1>1, <1>10, <3>1, <3>2 DEF ScaleValues, s
    <3>3. CASE j # 1
      <4>1. PICK k \in 1 .. Len(more) : j = 1 + k
        <5>1. j - 1 \in 1 .. Len(more) /\ j = 1 + (j - 1)
          BY <3>1, <3>3
        <5> QED  BY <5>1
      <4>2. all[j] = more[k] /\ more[k].scale \in Nat
        BY <3>1, <4>1, SegmentFacts
      <4>3. more[k].scale <= n
        <5>1. more[k].scale <= r /\ more[k].scale \in ScaleValues
          BY <2>2
        <5> QED  BY SMTT(40), <1>1, <4>2, <5>1
      <4> QED  BY <2>2, <4>2, <4>3
    <3> QED  BY <3>2, <3>3
  <2> HIDE DEF all, then
  <2>7. Reading(At(0, before), bigIntToWords[n]) = At(d, before \o all)
    BY <1>14, <2>1, <2>2, <2>4
  <2> QED  BY <2>3, <2>5, <2>6, <2>7
<1> QED
  BY <1>15, <1>16

\* Reads everywhere.
LEMMA ReadsWords == \A n \in Nat : Reads(n)
<1> DEFINE T == {n \in Nat : ~Reads(n)}
<1>1. ASSUME T # {} PROVE FALSE
  <2>1. PICK m \in T : \A k \in T : m <= k
    <3>1. T \subseteq Nat
      OBVIOUS
    <3> HIDE DEF T
    <3> QED  BY <1>1, <3>1, LeastNatural
  <2>2. \A k \in 0 .. m - 1 : Reads(k)
    BY <2>1
  <2>3. m < 1000 \/ m >= 1000
    OBVIOUS
  <2> QED  BY <2>2, <2>3, ReadsSmallNumber, ReadsGreatNumber
<1> QED
  BY <1>1

\* The fold of wordsToBigInt goes along the words.
LEMMA ReadingFold ==
    ASSUME NEW text \in Texts
    PROVE  FoldLeft(ReadWord, [current |-> 0, segments |-> <<>>], text) = Reading(At(0, <<>>), text)
<1> DEFINE D == DOMAIN text
           start == [current |-> 0, segments |-> <<>>]
           IsIt(it) == it = [s \in SUBSET D |->
                               IF s = {} THEN start ELSE LET x == Max(s) IN ReadWord(it[s \ {x}], text[x])]
           iter == CHOOSE it : IsIt(it)
<1>0. start = At(0, <<>>) /\ start \in Readings
  <2>1. <<>> \in Segments
    BY EmptySeq DEF Segments
  <2>2. start = At(0, <<>>)
    BY DEF At
  <2> QED  BY <2>1, <2>2, ReadingFacts
<1>1. /\ D = 1 .. Len(text) /\ Len(text) \in Nat /\ text \in Seq(Vocabulary)
      /\ \A i \in 1 .. Len(text) : text[i] \in Vocabulary
  BY DEF Texts
<1>2. FoldLeft(ReadWord, start, text) = iter[D]
  BY DEF FoldLeft, MapThenFoldSet
<1> HIDE DEF start
<1>3. PICK h \in [SUBSET (1 .. Len(text)) -> Readings] : Folds(ReadStep, start, text, Len(text), h)
  BY <1>0, <1>1, FoldExists, ReadStepIs
<1>4. IsIt(h)
  <2>1. ASSUME NEW s \in SUBSET D
        PROVE  h[s] = IF s = {} THEN start ELSE LET x == Max(s) IN ReadWord(h[s \ {x}], text[x])
    <3>1. CASE s # {}
      <4>1. Max(s) \in s
        BY <1>1, <3>1, GreatestIndex
      <4>2. text[Max(s)] \in Vocabulary /\ h[s \ {Max(s)}] \in Readings
        BY <1>1, <1>3, <4>1
      <4> QED  BY <1>1, <1>3, <3>1, <4>2, ReadStepIs DEF Folds
    <3>2. CASE s = {}
      BY <1>1, <1>3, <3>2 DEF Folds
    <3> QED  BY <3>1, <3>2
  <2> QED  BY <1>1, <1>3, <2>1
<1>5. IsIt(iter)
  <2> HIDE DEF IsIt
  <2> QED  BY <1>4
<1> HIDE DEF iter
<1>6. iter[{}] = start
  BY <1>5
<1>7. ASSUME NEW k \in 1 .. Len(text), iter[1 .. k - 1] \in Readings
      PROVE  iter[1 .. k] = ReadStep[<<iter[1 .. k - 1], text[k]>>]
  <2>1. 1 .. k \in SUBSET D /\ 1 .. k # {}
    <3>1. k \in 1 .. k /\ \A j \in 1 .. k : j \in 1 .. Len(text)
      BY <1>1
    <3>2. D = 1 .. Len(text)
      BY <1>1
    <3> HIDE DEF D
    <3> QED  BY <3>1, <3>2
  <2>2. iter[1 .. k] = ReadWord(iter[1 .. k - 1], text[k])
    <3>1. PICK s \in SUBSET D : s = 1 .. k
      BY <2>1
    <3>2. iter[s] = ReadWord(iter[s \ {Max(s)}], text[Max(s)])
      BY <1>5, <2>1, <3>1
    <3>3. Max(s) = k /\ s \ {k} = 1 .. k - 1
      BY <1>1, <3>1, GreatestOfInterval
    <3> QED  BY <3>1, <3>2, <3>3
  <2> QED  BY <1>1, <1>7, <2>2, ReadStepIs
<1>8. iter[1 .. Len(text)] = Along(ReadStep, start, text)
  <2> DEFINE V == Readings
             X == Vocabulary
  <2>1. ReadStep \in Steps(V, X) /\ start \in V /\ text \in Seq(X)
    BY <1>0, ReadStepIs DEF Texts
  <2>2. \A k \in 1 .. Len(text) :
          iter[1 .. k - 1] \in V => iter[1 .. k] = ReadStep[<<iter[1 .. k - 1], text[k]>>]
    BY <1>7
  <2> HIDE DEF V, X, start
  <2> QED  BY <1>6, <2>1, <2>2, FoldRuns
<1> QED
  BY <1>0, <1>1, <1>2, <1>8 DEF Reading, start

\* An ordinal is turned back, a cardinal stays.
LEMMA deOrdinaliseIs ==
    ASSUME NEW text \in Texts
    PROVE  deOrdinalise(text) = text /\ deOrdinalise(applyOrdinalWord(text)) = text
<1>1. deOrdinalise(text) = text
  <2>1. text # <<>> => Last(text) \in Vocabulary
    BY FrontAndLast, ElementOfSeq DEF Last, Texts
  <2>2. ~(text # <<>> /\ Last(text) = "th")
    BY <2>1, VocabularyHas
  <2> QED  BY <2>2 DEF deOrdinalise
<1> DEFINE S == Vocabulary \union {"th"}
<1>2. text \in Seq(S) /\ "th" \in S
  <2>1. text \in Seq(Vocabulary) /\ Vocabulary \subseteq S
    BY DEF Texts
  <2> HIDE DEF S
  <2>2. text \in Seq(S)
    BY <2>1, SeqMonotonic
  <2> QED  BY <2>2 DEF S
<1> HIDE DEF S
<1> DEFINE th == Append(text, "th")
<1>3. th # <<>> /\ Last(th) = "th" /\ Front(th) = text
  BY <1>2, FrontOfAppend DEF Front, Last
<1>4. applyOrdinalWord(text) = th
  BY DEF applyOrdinalWord
<1> HIDE DEF th
<1>5. deOrdinalise(th) = text
  BY <1>3 DEF deOrdinalise
<1> QED
  BY <1>1, <1>4, <1>5

\* Reading the words of a number gives the number, be they cardinal or ordinal.
THEOREM WordsReadBack ==
    \A n \in Nat : /\ wordsToBigInt(bigIntToWords[n]) = n
                   /\ wordsToBigInt(applyOrdinalWord(bigIntToWords[n])) = n
<1> SUFFICES ASSUME NEW n \in Nat, NEW words, deOrdinalise(words) = bigIntToWords[n]
             PROVE  wordsToBigInt(words) = n
  BY bigIntToWordsIs, deOrdinaliseIs
<1> DEFINE none == <<>>
<1>1. none \in Segments /\ Len(none) = 0
  BY EmptySeq DEF Segments
<1> HIDE DEF none
<1>2. PICK c \in Nat, added \in Segments :
        /\ Reading(At(0, none), bigIntToWords[n]) = At(c, none \o added)
        /\ c + Total(Values(added)) = n
  <2>1. \A i \in 1 .. Len(none) : none[i].scale > n
    BY <1>1
  <2>2. Reads(n)
    BY ReadsWords
  <2> QED  BY <1>1, <2>1, <2>2 DEF Reads
<1>3. none \o added = added
  BY ConcatEmptySeq DEF none, Segments
<1> DEFINE end == FoldLeft(ReadWord, [current |-> 0, segments |-> <<>>], deOrdinalise(words))
<1>4. end = At(c, added)
  <2>1. FoldLeft(ReadWord, [current |-> 0, segments |-> <<>>], bigIntToWords[n]) = Reading(At(0, none), bigIntToWords[n])
    BY bigIntToWordsIs, ReadingFold DEF none
  <2> QED  BY <1>2, <1>3, <2>1
<1>5. wordsToBigInt(words) = end.current + Total(Values(end.segments))
  BY DEF wordsToBigInt
<1> HIDE DEF end
<1>6. end.current = c /\ end.segments = added
  BY <1>4, ReadingFacts
<1> QED
  BY <1>2, <1>5, <1>6

-----------------------------------------------------------------------------
(* Alphabetic numerals                                                     *)

AlphabeticOf(n, below) ==
  IF n = 0 THEN <<>> ELSE Append(below[(n - 1) \div 26], ((n - 1) % 26) + 1)
Letters == Seq(1 .. 26)

\* The last letter and the number before it.
LEMMA AlphabeticParts ==
    ASSUME NEW n \in Nat, n # 0
    PROVE  /\ (n - 1) \div 26 \in 0 .. n - 1
           /\ ((n - 1) % 26) + 1 \in 1 .. 26
           /\ n = ((n - 1) \div 26) * 26 + (((n - 1) % 26) + 1)
  OBVIOUS

\* Letters before a letter are letters.
LEMMA AlphabeticOfType ==
    ASSUME NEW n \in Nat, NEW below, \A k \in 0 .. n - 1 : below[k] \in Letters
    PROVE  AlphabeticOf(n, below) \in Letters
<1>1. CASE n = 0
  BY <1>1, EmptySeq DEF AlphabeticOf, Letters
<1>2. CASE n # 0
  BY <1>2, AlphabeticParts DEF AlphabeticOf, Letters
<1> QED
  BY <1>1, <1>2

\* Only what is below is looked at.
LEMMA AlphabeticOfBelow ==
    ASSUME NEW n \in Nat, NEW a, NEW b, \A k \in 0 .. n - 1 : a[k] = b[k]
    PROVE  AlphabeticOf(n, a) = AlphabeticOf(n, b)
<1>1. CASE n = 0
  BY <1>1 DEF AlphabeticOf
<1>2. CASE n # 0
  <2>1. a[(n - 1) \div 26] = b[(n - 1) \div 26]
    BY <1>2, AlphabeticParts
  <2> QED  BY <1>2, <2>1 DEF AlphabeticOf
<1> QED
  BY <1>1, <1>2

\* bigIntToAlphabetic is total and follows its definition everywhere.
LEMMA bigIntToAlphabeticIs ==
    /\ \A n \in Nat : bigIntToAlphabetic[n] \in Letters
    /\ \A n \in Nat : bigIntToAlphabetic[n] = AlphabeticOf(n, bigIntToAlphabetic)
<1> DEFINE Below(h) == [k \in 0 .. Len(h) - 1 |-> h[k + 1]]
           G == [h \in Seq(Letters) |-> AlphabeticOf(Len(h), Below(h))]
           Is(f) == f = [n \in Nat |-> AlphabeticOf(n, f)]
<1>1. G \in [Seq(Letters) -> Letters]
  <2>1. ASSUME NEW h \in Seq(Letters) PROVE AlphabeticOf(Len(h), Below(h)) \in Letters
    <3>1. Len(h) \in Nat /\ \A k \in 0 .. Len(h) - 1 : Below(h)[k] \in Letters
      OBVIOUS
    <3> HIDE DEF Below
    <3> QED  BY <3>1, AlphabeticOfType
  <2> HIDE DEF Below
  <2> QED  BY <2>1
<1>2. PICK f \in [Nat -> Letters] : \A n \in Nat : f[n] = G[Before(f, n)]
  <2> DEFINE V == Letters
  <2>1. G \in [Seq(V) -> V]
    BY <1>1
  <2> HIDE DEF G, V
  <2>2. \E f \in [Nat -> V] : \A n \in Nat : f[n] = G[Before(f, n)]
    BY <2>1, CourseExists
  <2> QED  BY <2>2 DEF V
<1>3. ASSUME NEW n \in Nat PROVE f[n] = AlphabeticOf(n, f)
  <2> DEFINE h == Before(f, n)
  <2>1. h \in Seq(Letters) /\ Len(h) = n
    <3>1. h \in [1 .. n -> Letters]
      BY <1>2 DEF Before
    <3> HIDE DEF h
    <3> QED  BY <3>1, FunctionIsSeq
  <2>2. \A k \in 0 .. n - 1 : Below(h)[k] = f[k]
    <3>1. ASSUME NEW k \in 0 .. n - 1 PROVE h[k + 1] = f[k]
      BY DEF Before
    <3> HIDE DEF h
    <3> QED  BY <2>1, <3>1
  <2>3. f[n] = G[h]
    BY <1>2
  <2> HIDE DEF h
  <2>4. G[h] = AlphabeticOf(n, Below(h))
    BY <2>1
  <2> HIDE DEF Below, G
  <2> QED  BY <2>2, <2>3, <2>4, AlphabeticOfBelow
<1>4. Is(f)
  BY <1>2, <1>3
<1>5. Is(bigIntToAlphabetic)
  <2>1. bigIntToAlphabetic = CHOOSE g : Is(g)
    BY Zenon DEF bigIntToAlphabetic, AlphabeticOf
  <2> HIDE DEF Is
  <2> QED  BY <1>4, <2>1
<1>6. ASSUME NEW n \in Nat PROVE bigIntToAlphabetic[n] = AlphabeticOf(n, bigIntToAlphabetic)
  BY <1>5
<1> DEFINE T == {n \in Nat : bigIntToAlphabetic[n] \notin Letters}
<1>7. ASSUME T # {} PROVE FALSE
  <2>1. PICK m \in T : \A k \in T : m <= k
    <3>1. T \subseteq Nat
      OBVIOUS
    <3> HIDE DEF T
    <3> QED  BY <1>7, <3>1, LeastNatural
  <2>2. \A k \in 0 .. m - 1 : bigIntToAlphabetic[k] \in Letters
    BY <2>1
  <2> QED  BY <1>6, <2>2, AlphabeticOfType
<1> QED
  BY <1>6, <1>7

AlphabeticStep == [p \in Int \X (1 .. 26) |-> p[1] * 26 + p[2]]

\* The step of FromAlphabetic.
LEMMA AlphabeticStepType ==
    /\ AlphabeticStep \in Steps(Int, 1 .. 26) /\ 0 \in Int
    /\ \A a \in Int, c \in 1 .. 26 : AlphabeticStep[<<a, c>>] = a * 26 + c
  BY DEF AlphabeticStep, Steps

\* Its fold goes along the letters.
LEMMA FromAlphabeticIs ==
    ASSUME NEW q \in Seq(1 .. 26)
    PROVE  FromAlphabetic(q) = Along(AlphabeticStep, 0, q)
<1> DEFINE D == DOMAIN q
           IsIt(it) == it = [s \in SUBSET D |->
                               IF s = {} THEN 0 ELSE LET x == Max(s) IN it[s \ {x}] * 26 + q[x]]
           iter == CHOOSE it : IsIt(it)
<1>1. /\ D = 1 .. Len(q) /\ Len(q) \in Nat
      /\ \A i \in 1 .. Len(q) : q[i] \in 1 .. 26
  <2> DEFINE X == 1 .. 26
  <2>1. q \in Seq(X)
    OBVIOUS
  <2> HIDE DEF X
  <2>2. \A i \in 1 .. Len(q) : q[i] \in X
    BY <2>1, ElementOfSeq
  <2>3. D = 1 .. Len(q) /\ Len(q) \in Nat
    BY <2>1
  <2> QED  BY <2>2, <2>3 DEF X
<1>2. FromAlphabetic(q) = iter[D]
  BY DEF FromAlphabetic, FoldLeft, MapThenFoldSet
<1>3. PICK h \in [SUBSET (1 .. Len(q)) -> Int] : Folds(AlphabeticStep, 0, q, Len(q), h)
  <2> DEFINE V == Int
  <2>1. AlphabeticStep \in Steps(V, 1 .. 26) /\ 0 \in V
    BY AlphabeticStepType
  <2> HIDE DEF V
  <2>2. \E h \in [SUBSET (1 .. Len(q)) -> V] : Folds(AlphabeticStep, 0, q, Len(q), h)
    BY <2>1, FoldExists
  <2> QED  BY <2>2 DEF V
<1>4. IsIt(h)
  <2>1. ASSUME NEW s \in SUBSET D
        PROVE  h[s] = IF s = {} THEN 0 ELSE LET x == Max(s) IN h[s \ {x}] * 26 + q[x]
    <3>1. CASE s # {}
      <4>1. Max(s) \in s
        BY <1>1, <3>1, GreatestIndex
      <4>2. q[Max(s)] \in 1 .. 26 /\ h[s \ {Max(s)}] \in Int
        BY <1>1, <1>3, <4>1
      <4>3. h[s] = AlphabeticStep[<<h[s \ {Max(s)}], q[Max(s)]>>]
        BY <1>1, <1>3, <3>1 DEF Folds
      <4>4. AlphabeticStep[<<h[s \ {Max(s)}], q[Max(s)]>>] = h[s \ {Max(s)}] * 26 + q[Max(s)]
        BY <4>2, AlphabeticStepType
      <4> QED  BY <3>1, <4>3, <4>4
    <3>2. CASE s = {}
      BY <1>1, <1>3, <3>2 DEF Folds
    <3> QED  BY <3>1, <3>2
  <2> QED  BY <1>1, <1>3, <2>1
<1>5. IsIt(iter)
  <2> HIDE DEF IsIt
  <2> QED  BY <1>4
<1> HIDE DEF iter
<1>6. iter[{}] = 0
  BY <1>5
<1>7. ASSUME NEW k \in 1 .. Len(q), iter[1 .. k - 1] \in Int
      PROVE  iter[1 .. k] = AlphabeticStep[<<iter[1 .. k - 1], q[k]>>]
  <2>1. 1 .. k \in SUBSET D /\ 1 .. k # {}
    <3>1. k \in 1 .. k /\ \A j \in 1 .. k : j \in 1 .. Len(q)
      BY <1>1
    <3>2. D = 1 .. Len(q)
      BY <1>1
    <3> HIDE DEF D
    <3> QED  BY <3>1, <3>2
  <2>2. PICK s \in SUBSET D : s = 1 .. k
    BY <2>1
  <2>3. iter[s] = iter[s \ {Max(s)}] * 26 + q[Max(s)]
    BY <1>5, <2>1, <2>2
  <2>4. Max(s) = k /\ s \ {k} = 1 .. k - 1
    BY <1>1, <2>2, GreatestOfInterval
  <2>5. iter[1 .. k] = iter[1 .. k - 1] * 26 + q[k]
    BY <2>2, <2>3, <2>4
  <2>6. q[k] \in 1 .. 26
    BY <1>1
  <2> QED  BY <1>7, <2>5, <2>6, AlphabeticStepType
<1>8. iter[1 .. Len(q)] = Along(AlphabeticStep, 0, q)
  <2> DEFINE V == Int
  <2>1. AlphabeticStep \in Steps(V, 1 .. 26) /\ 0 \in V
    BY AlphabeticStepType
  <2>2. \A k \in 1 .. Len(q) : iter[1 .. k - 1] \in V => iter[1 .. k] = AlphabeticStep[<<iter[1 .. k - 1], q[k]>>]
    BY <1>7
  <2> HIDE DEF V
  <2> QED  BY <1>6, <2>1, <2>2, FoldRuns
<1> QED
  BY <1>1, <1>2, <1>8

\* Reading the letters of a number gives the number.
THEOREM LettersReadBack ==
    \A n \in Nat : FromAlphabetic(bigIntToAlphabetic[n]) = n
<1> DEFINE T == {n \in Nat : FromAlphabetic(bigIntToAlphabetic[n]) # n}
<1>1. ASSUME T # {} PROVE FALSE
  <2>1. PICK m \in T : \A k \in T : m <= k
    <3>1. T \subseteq Nat
      OBVIOUS
    <3> HIDE DEF T
    <3> QED  BY <1>1, <3>1, LeastNatural
  <2>2. CASE m = 0
    <3>1. bigIntToAlphabetic[0] = <<>>
      BY bigIntToAlphabeticIs DEF AlphabeticOf
    <3>2. FromAlphabetic(<<>>) = 0
      <4>1. <<>> \in Seq(1 .. 26)
        BY EmptySeq
      <4> QED  BY <4>1, FromAlphabeticIs, AlongEmpty
    <3> QED  BY <2>2, <3>1, <3>2
  <2>3. CASE m # 0
    <3> DEFINE k == (m - 1) \div 26
               c == ((m - 1) % 26) + 1
               text == bigIntToAlphabetic[k]
    <3>1. k \in Nat /\ k < m /\ c \in 1 .. 26 /\ m = k * 26 + c /\ m \in Nat
      BY <2>3, AlphabeticParts
    <3>2. bigIntToAlphabetic[m] = Append(text, c)
      BY <2>3, bigIntToAlphabeticIs DEF AlphabeticOf
    <3> HIDE DEF k, c
    <3>3. text \in Seq(1 .. 26) /\ FromAlphabetic(text) = k
      <4>1. k \notin T
        BY <2>1, <3>1
      <4> QED  BY <3>1, <4>1, bigIntToAlphabeticIs DEF Letters
    <3>4. FromAlphabetic(Append(text, c)) = k * 26 + c
      <4> HIDE DEF text
      <4> DEFINE V == Int
                 X == 1 .. 26
      <4>1. AlphabeticStep \in Steps(V, X) /\ 0 \in V /\ text \in Seq(X) /\ c \in X
        BY <3>1, <3>3, AlphabeticStepType
      <4>2. Append(text, c) \in Seq(1 .. 26)
        BY <3>1, <3>3
      <4> HIDE DEF V, X
      <4>3. Along(AlphabeticStep, 0, Append(text, c)) = AlphabeticStep[<<Along(AlphabeticStep, 0, text), c>>]
        BY <4>1, AlongAppend
      <4>4. Along(AlphabeticStep, 0, text) = k
        BY <3>3, FromAlphabeticIs
      <4>5. FromAlphabetic(Append(text, c)) = AlphabeticStep[<<k, c>>]
        BY <4>2, <4>3, <4>4, FromAlphabeticIs
      <4>6. k \in Int
        BY <3>1
      <4> QED  BY <3>1, <4>5, <4>6, AlphabeticStepType
    <3> QED  BY <2>1, <3>1, <3>2, <3>4
  <2> QED  BY <2>2, <2>3
<1> QED
  BY <1>1

-----------------------------------------------------------------------------
(* Roman numerals                                                          *)

\* The table.
LEMMA RomansAre ==
    /\ DOMAIN Romans = 1 .. 13
    /\ Romans[1][1] = 1000 /\ Romans[1][2] = <<"M">>
    /\ Romans[2][1] = 900 /\ Romans[2][2] = <<"C", "M">>
    /\ Romans[3][1] = 500 /\ Romans[3][2] = <<"D">>
    /\ Romans[4][1] = 400 /\ Romans[4][2] = <<"C", "D">>
    /\ Romans[5][1] = 100 /\ Romans[5][2] = <<"C">>
    /\ Romans[6][1] = 90 /\ Romans[6][2] = <<"X", "C">>
    /\ Romans[7][1] = 50 /\ Romans[7][2] = <<"L">>
    /\ Romans[8][1] = 40 /\ Romans[8][2] = <<"X", "L">>
    /\ Romans[9][1] = 10 /\ Romans[9][2] = <<"X">>
    /\ Romans[10][1] = 9 /\ Romans[10][2] = <<"I", "X">>
    /\ Romans[11][1] = 5 /\ Romans[11][2] = <<"V">>
    /\ Romans[12][1] = 4 /\ Romans[12][2] = <<"I", "V">>
    /\ Romans[13][1] = 1 /\ Romans[13][2] = <<"I">>
  BY DEF Romans

\* Its indices one by one.
LEMMA RomanIndices ==
    ASSUME NEW i \in 1 .. 13
    PROVE  i \in {1, 2, 3, 4, 5, 6, 7, 8, 9, 10, 11, 12, 13}
  OBVIOUS

\* The letters with an entry of their own, and their values.
OneLetter == {1, 3, 5, 7, 9, 11, 13}

\* No two entries have the same letter.
LEMMA OneLetterIs ==
    ASSUME NEW i \in OneLetter
    PROVE  /\ Len(Romans[i][2]) = 1 /\ Romans[i][2] = <<Romans[i][2][1]>>
           /\ \A j \in 1 .. 13 : Romans[j][2] = <<Romans[i][2][1]>> => j = i
<1>1. \A j \in OneLetter : Romans[j][2] = <<Romans[j][2][1]>> /\ Len(Romans[j][2]) = 1
  <2>1. /\ Len(<<"M">>) = 1 /\ Len(<<"D">>) = 1 /\ Len(<<"C">>) = 1 /\ Len(<<"L">>) = 1
        /\ Len(<<"X">>) = 1 /\ Len(<<"V">>) = 1 /\ Len(<<"I">>) = 1
    OBVIOUS
  <2>2. \A j \in OneLetter : Len(Romans[j][2]) = 1
    <3>1. Len(Romans[1][2]) = 1 /\ Len(Romans[3][2]) = 1
      BY <2>1, RomansAre
    <3>2. Len(Romans[5][2]) = 1 /\ Len(Romans[7][2]) = 1
      BY <2>1, RomansAre
    <3>3. Len(Romans[9][2]) = 1 /\ Len(Romans[11][2]) = 1
      BY <2>1, RomansAre
    <3>4. Len(Romans[13][2]) = 1
      BY <2>1, RomansAre
    <3> QED  BY <3>1, <3>2, <3>3, <3>4 DEF OneLetter
  <2>3. \A j \in OneLetter : Romans[j][2] = <<Romans[j][2][1]>>
    BY RomansAre DEF OneLetter
  <2> QED  BY <2>2, <2>3
<1>2. \A j \in {2, 4, 6, 8, 10, 12} : Len(Romans[j][2]) = 2
  <2>1. /\ Len(<<"C", "M">>) = 2 /\ Len(<<"C", "D">>) = 2 /\ Len(<<"X", "C">>) = 2
        /\ Len(<<"X", "L">>) = 2 /\ Len(<<"I", "X">>) = 2 /\ Len(<<"I", "V">>) = 2
    OBVIOUS
  <2>2. Len(Romans[2][2]) = 2 /\ Len(Romans[4][2]) = 2
    BY <2>1, RomansAre
  <2>3. Len(Romans[6][2]) = 2 /\ Len(Romans[8][2]) = 2
    BY <2>1, RomansAre
  <2>4. Len(Romans[10][2]) = 2 /\ Len(Romans[12][2]) = 2
    BY <2>1, RomansAre
  <2> QED  BY <2>2, <2>3, <2>4
<1>3. \A j \in OneLetter : Romans[j][2][1] = Romans[i][2][1] => j = i
  BY RomansAre DEF OneLetter
<1>4. ASSUME NEW j \in 1 .. 13, Romans[j][2] = <<Romans[i][2][1]>> PROVE j = i
  <2>1. j \notin {2, 4, 6, 8, 10, 12}
    BY <1>2, <1>4
  <2>2. j \in OneLetter
    BY <2>1, RomanIndices DEF OneLetter
  <2> QED  BY <1>1, <1>3, <1>4, <2>2
<1> QED
  BY <1>1, <1>4

\* RomanValue finds the entry of a letter.
LEMMA RomanValueOf ==
    ASSUME NEW i \in OneLetter
    PROVE  RomanValue(Romans[i][2][1]) = Romans[i][1]
<1> DEFINE letter == Romans[i][2][1]
           Is(j) == Romans[j][2] = <<letter>>
<1>1. Is(i) /\ \A j \in 1 .. 13 : Is(j) => j = i
  BY OneLetterIs
<1>2. i \in DOMAIN Romans /\ DOMAIN Romans = 1 .. 13
  BY RomansAre DEF OneLetter
<1>3. (CHOOSE j \in DOMAIN Romans : Is(j)) = i
  <2> HIDE DEF Is
  <2> QED  BY <1>1, <1>2
<1>4. RomanValue(letter) = Romans[CHOOSE j \in DOMAIN Romans : Is(j)][1]
  BY DEF RomanValue
<1> HIDE DEF Is
<1> QED
  BY <1>3, <1>4

\* The seven letters.
LEMMA RomanValues ==
    /\ RomanValue("M") = 1000 /\ RomanValue("D") = 500 /\ RomanValue("C") = 100
    /\ RomanValue("L") = 50 /\ RomanValue("X") = 10 /\ RomanValue("V") = 5 /\ RomanValue("I") = 1
<1>1. \A i \in OneLetter : RomanValue(Romans[i][2][1]) = Romans[i][1]
  BY RomanValueOf
<1>2. /\ Romans[1][2][1] = "M" /\ Romans[3][2][1] = "D" /\ Romans[5][2][1] = "C" /\ Romans[7][2][1] = "L"
      /\ Romans[9][2][1] = "X" /\ Romans[11][2][1] = "V" /\ Romans[13][2][1] = "I"
  BY RomansAre
<1>3. \A i \in {1, 3, 5, 7, 9, 11, 13} : RomanValue(Romans[i][2][1]) = Romans[i][1]
  BY <1>1 DEF OneLetter
<1> QED
  BY <1>2, <1>3, RomansAre

RomanTexts == Seq(RomanLetters)

\* What the entries hold: at most two letters, and the greater of the values.
LEMMA RomanEntries ==
    /\ RomanLetters = {"M", "D", "C", "L", "X", "V", "I"}
    /\ \A l \in RomanLetters : RomanValue(l) \in Nat
    /\ \A i \in 1 .. 13 : Romans[i][1] \in Nat /\ Romans[i][1] > 0 /\ Romans[i][2] \in RomanTexts
    /\ \A i, j \in 1 .. 13 : i < j => Romans[i][1] > Romans[j][1]
    /\ Romans[13][1] = 1
<1>1. RomanLetters = {"M", "D", "C", "L", "X", "V", "I"}
  <2>1. RomanLetters = {Romans[i][2][1] : i \in {1, 2, 3, 4, 5, 6, 7, 8, 9, 10, 11, 12, 13}}
    <3>1. 1 .. 13 = {1, 2, 3, 4, 5, 6, 7, 8, 9, 10, 11, 12, 13}
      OBVIOUS
    <3> QED  BY <3>1, RomansAre DEF RomanLetters
  <2> QED  BY <2>1, RomansAre
<1>2. \A l \in RomanLetters : RomanValue(l) \in Nat
  BY <1>1, RomanValues
<1>3. ASSUME NEW i \in 1 .. 13
      PROVE  Romans[i][1] \in Nat /\ Romans[i][1] > 0
  BY RomansAre, RomanIndices
<1>4. \A i, j \in 1 .. 13 : i < j => Romans[i][1] > Romans[j][1]
  BY RomansAre, RomanIndices
<1>5. ASSUME NEW i \in 1 .. 13 PROVE Romans[i][2] \in RomanTexts
  <2>1. /\ <<"M">> \in RomanTexts /\ <<"C", "M">> \in RomanTexts /\ <<"D">> \in RomanTexts
        /\ <<"C", "D">> \in RomanTexts /\ <<"C">> \in RomanTexts /\ <<"X", "C">> \in RomanTexts
        /\ <<"L">> \in RomanTexts /\ <<"X", "L">> \in RomanTexts /\ <<"X">> \in RomanTexts
        /\ <<"I", "X">> \in RomanTexts /\ <<"V">> \in RomanTexts /\ <<"I", "V">> \in RomanTexts
        /\ <<"I">> \in RomanTexts
    BY <1>1 DEF RomanTexts
  <2> DEFINE Is(j) == Romans[j][2] \in RomanTexts
  <2>2. /\ Is(1) /\ Is(2) /\ Is(3) /\ Is(4) /\ Is(5) /\ Is(6) /\ Is(7) /\ Is(8) /\ Is(9)
        /\ Is(10) /\ Is(11) /\ Is(12) /\ Is(13)
    BY <2>1, RomansAre
  <2> HIDE DEF Is
  <2>3. Is(i)
    BY <2>2, RomanIndices
  <2> QED  BY <2>3 DEF Is
<1>6. Romans[13][1] = 1
  BY RomansAre
<1> QED
  BY <1>1, <1>2, <1>3, <1>4, <1>5, <1>6

\* The letters of an entry: none of a later entry starts above the last one.
LEMMA RomanFirstLast ==
    ASSUME NEW i \in 1 .. 13
    PROVE  LET e == Romans[i][2]
           IN /\ Len(e) \in Nat \ {0}
              /\ \A j \in i .. 13 : RomanValue(Romans[j][2][1]) <= RomanValue(e[Len(e)])
<1> DEFINE first(j) == RomanValue(Romans[j][2][1])
           last(j) == RomanValue(Romans[j][2][Len(Romans[j][2])])
<1>1. /\ Len(<<"M">>) = 1 /\ Len(<<"D">>) = 1 /\ Len(<<"C">>) = 1 /\ Len(<<"L">>) = 1
      /\ Len(<<"X">>) = 1 /\ Len(<<"V">>) = 1 /\ Len(<<"I">>) = 1
      /\ Len(<<"C", "M">>) = 2 /\ Len(<<"C", "D">>) = 2 /\ Len(<<"X", "C">>) = 2
      /\ Len(<<"X", "L">>) = 2 /\ Len(<<"I", "X">>) = 2 /\ Len(<<"I", "V">>) = 2
  OBVIOUS
<1>2. /\ Len(Romans[1][2]) = 1 /\ Len(Romans[3][2]) = 1 /\ Len(Romans[5][2]) = 1 /\ Len(Romans[7][2]) = 1
      /\ Len(Romans[9][2]) = 1 /\ Len(Romans[11][2]) = 1 /\ Len(Romans[13][2]) = 1
      /\ Len(Romans[2][2]) = 2 /\ Len(Romans[4][2]) = 2 /\ Len(Romans[6][2]) = 2
      /\ Len(Romans[8][2]) = 2 /\ Len(Romans[10][2]) = 2 /\ Len(Romans[12][2]) = 2
  BY <1>1, RomansAre
<1>3. /\ first(1) = 1000 /\ first(2) = 100 /\ first(3) = 500 /\ first(4) = 100 /\ first(5) = 100
      /\ first(6) = 10 /\ first(7) = 50 /\ first(8) = 10 /\ first(9) = 10 /\ first(10) = 1
      /\ first(11) = 5 /\ first(12) = 1 /\ first(13) = 1
  BY RomansAre, RomanValues
<1>4. /\ last(1) = 1000 /\ last(2) = 1000 /\ last(3) = 500 /\ last(4) = 500 /\ last(5) = 100
      /\ last(6) = 100 /\ last(7) = 50 /\ last(8) = 50 /\ last(9) = 10 /\ last(10) = 10
      /\ last(11) = 5 /\ last(12) = 5 /\ last(13) = 1
  BY <1>2, RomansAre, RomanValues
<1> HIDE DEF first, last
<1>5. ASSUME NEW j \in i .. 13 PROVE first(j) <= last(i)
  <2>1. i \in 1 .. 13 /\ j \in 1 .. 13 /\ i <= j
    OBVIOUS
  <2>2. CASE i \in 1 .. 2
    <3>1. last(i) = 1000
      BY <1>4, <2>2
    <3>2. first(j) <= 1000
      BY <1>3, <2>1, RomanIndices
    <3> QED  BY <3>1, <3>2
  <2>3. CASE i \in 3 .. 4
    <3>1. last(i) = 500 /\ j \in 3 .. 13
      BY <1>4, <2>1, <2>3
    <3>2. j \in {3, 4, 5, 6, 7, 8, 9, 10, 11, 12, 13}
      BY <3>1
    <3>3. first(j) <= 500
      BY <1>3, <3>2
    <3> QED  BY <3>1, <3>3
  <2>4. CASE i \in 5 .. 6
    <3>1. last(i) = 100 /\ j \in 5 .. 13
      BY <1>4, <2>1, <2>4
    <3>2. j \in {5, 6, 7, 8, 9, 10, 11, 12, 13}
      BY <3>1
    <3>3. first(j) <= 100
      BY <1>3, <3>2
    <3> QED  BY <3>1, <3>3
  <2>5. CASE i \in 7 .. 8
    <3>1. last(i) = 50 /\ j \in 7 .. 13
      BY <1>4, <2>1, <2>5
    <3>2. j \in {7, 8, 9, 10, 11, 12, 13}
      BY <3>1
    <3>3. first(j) <= 50
      BY <1>3, <3>2
    <3> QED  BY <3>1, <3>3
  <2>6. CASE i \in 9 .. 10
    <3>1. last(i) = 10 /\ j \in {9, 10, 11, 12, 13}
      BY <1>4, <2>1, <2>6
    <3>2. first(j) <= 10
      BY <1>3, <3>1
    <3> QED  BY <3>1, <3>2
  <2>7. CASE i \in 11 .. 12
    <3>1. last(i) = 5 /\ j \in {11, 12, 13}
      BY <1>4, <2>1, <2>7
    <3>2. first(j) <= 5
      BY <1>3, <3>1
    <3> QED  BY <3>1, <3>2
  <2>8. CASE i = 13
    <3>1. last(i) = 1 /\ j = 13
      BY <1>4, <2>1, <2>8
    <3> QED  BY <1>3, <3>1
  <2>9. \/ i \in 1 .. 2 \/ i \in 3 .. 4 \/ i \in 5 .. 6 \/ i \in 7 .. 8
        \/ i \in 9 .. 10 \/ i \in 11 .. 12 \/ i = 13
    BY <2>1
  <2> QED  BY <2>2, <2>3, <2>4, <2>5, <2>6, <2>7, <2>8, <2>9, Zenon
<1>6. Len(Romans[i][2]) \in Nat \ {0}
  <2> DEFINE size(j) == Len(Romans[j][2])
  <2>1. /\ size(1) = 1 /\ size(2) = 2 /\ size(3) = 1 /\ size(4) = 2 /\ size(5) = 1 /\ size(6) = 2
        /\ size(7) = 1 /\ size(8) = 2 /\ size(9) = 1 /\ size(10) = 2 /\ size(11) = 1 /\ size(12) = 2
        /\ size(13) = 1
    BY <1>2
  <2> HIDE DEF size
  <2>2. size(i) \in {1, 2}
    BY <2>1, RomanIndices
  <2>3. size(i) \in Nat \ {0}
    BY <2>2
  <2> QED  BY <2>3 DEF size
<1> QED
  BY <1>5, <1>6 DEF first, last

RomanFitting(n) == CHOOSE i \in DOMAIN Romans : /\ n >= Romans[i][1]
                                                /\ \A j \in 1 .. i - 1 : n < Romans[j][1]
RomanOf(n, below) ==
  IF n = 0 THEN <<>>
  ELSE LET entry == Romans[RomanFitting(n)]
       IN entry[2] \o below[n - entry[1]]

\* The entry that fits is the first one, and the first for all smaller numbers.
LEMMA RomanFittingIs ==
    ASSUME NEW n \in Nat, n # 0
    PROVE  LET i == RomanFitting(n)
           IN /\ i \in 1 .. 13 /\ n >= Romans[i][1]
              /\ n - Romans[i][1] \in Nat /\ n - Romans[i][1] < n
              /\ \A j \in 1 .. i - 1 : n < Romans[j][1]
<1> DEFINE T == {i \in 1 .. 13 : n >= Romans[i][1]}
           Is(i) == n >= Romans[i][1] /\ \A j \in 1 .. i - 1 : n < Romans[j][1]
<1>1. PICK m \in T : \A k \in T : m <= k
  <2>1. T \subseteq Nat /\ 13 \in T
    BY RomanEntries
  <2> HIDE DEF T
  <2> QED  BY <2>1, LeastNatural
<1>2. m \in 1 .. 13 /\ Is(m)
  <2>1. ASSUME NEW j \in 1 .. m - 1 PROVE n < Romans[j][1]
    <3>1. j \in 1 .. 13 /\ j < m /\ m \in Nat
      OBVIOUS
    <3>2. j \notin T
      <4> HIDE DEF T
      <4> QED  BY <1>1, <3>1
    <3> QED  BY <3>1, <3>2, RomanEntries
  <2> QED  BY <2>1
<1>3. RomanFitting(n) \in 1 .. 13 /\ Is(RomanFitting(n))
  <2>1. RomanFitting(n) = CHOOSE i \in DOMAIN Romans : Is(i)
    BY DEF RomanFitting
  <2>2. DOMAIN Romans = 1 .. 13
    BY RomansAre
  <2> HIDE DEF Is
  <2> QED  BY <1>2, <2>1, <2>2
<1>4. Romans[RomanFitting(n)][1] \in Nat /\ Romans[RomanFitting(n)][1] > 0
  BY <1>3, RomanEntries
<1> QED
  BY <1>3, <1>4

\* A smaller number has a later entry.
LEMMA RomanFittingLater ==
    ASSUME NEW n \in Nat, NEW m \in Nat, n # 0, m <= n, m # 0
    PROVE  RomanFitting(n) <= RomanFitting(m)
<1> DEFINE i == RomanFitting(n)
           j == RomanFitting(m)
<1>1. i \in 1 .. 13 /\ j \in 1 .. 13 /\ m >= Romans[j][1] /\ \A k \in 1 .. i - 1 : n < Romans[k][1]
  BY RomanFittingIs
<1> HIDE DEF i, j
<1>2. ASSUME j < i PROVE FALSE
  <2>1. j \in 1 .. i - 1 /\ Romans[j][1] \in Nat
    BY <1>1, <1>2, RomanEntries
  <2> QED  BY <1>1, <2>1
<1> QED
  BY <1>1, <1>2 DEF i, j

\* An entry before a numeral is a numeral.
LEMMA RomanOfType ==
    ASSUME NEW n \in Nat, NEW below, \A k \in 0 .. n - 1 : below[k] \in RomanTexts
    PROVE  RomanOf(n, below) \in RomanTexts
<1>1. CASE n = 0
  BY <1>1, EmptySeq DEF RomanOf, RomanTexts
<1>2. CASE n # 0
  <2> DEFINE entry == Romans[RomanFitting(n)]
  <2>1. entry[2] \in RomanTexts /\ n - entry[1] \in 0 .. n - 1
    <3>1. PICK i \in 1 .. 13 : i = RomanFitting(n)
      BY <1>2, RomanFittingIs
    <3>2. Romans[i][2] \in RomanTexts /\ Romans[i][1] \in Nat
      BY RomanEntries
    <3>3. n - Romans[i][1] \in Nat /\ n - Romans[i][1] < n
      BY <1>2, <3>1, RomanFittingIs
    <3>4. n - Romans[i][1] \in 0 .. n - 1
      BY <3>2, <3>3
    <3> QED  BY <3>1, <3>2, <3>4
  <2>2. RomanOf(n, below) = entry[2] \o below[n - entry[1]]
    BY <1>2 DEF RomanOf
  <2> HIDE DEF entry
  <2>3. below[n - entry[1]] \in RomanTexts
    BY <2>1
  <2> QED  BY <2>1, <2>2, <2>3, ConcatProperties DEF RomanTexts
<1> QED
  BY <1>1, <1>2

\* Only what is below is looked at.
LEMMA RomanOfBelow ==
    ASSUME NEW n \in Nat, NEW a, NEW b, \A k \in 0 .. n - 1 : a[k] = b[k]
    PROVE  RomanOf(n, a) = RomanOf(n, b)
<1>1. CASE n = 0
  BY <1>1 DEF RomanOf
<1>2. CASE n # 0
  <2> DEFINE entry == Romans[RomanFitting(n)]
  <2>1. n - entry[1] \in 0 .. n - 1
    BY <1>2, RomanFittingIs
  <2>2. RomanOf(n, a) = entry[2] \o a[n - entry[1]] /\ RomanOf(n, b) = entry[2] \o b[n - entry[1]]
    BY <1>2 DEF RomanOf
  <2> HIDE DEF entry
  <2> QED  BY <2>1, <2>2
<1> QED
  BY <1>1, <1>2

\* toRoman is total and follows its definition everywhere.
LEMMA toRomanIs ==
    /\ \A n \in Nat : toRoman[n] \in RomanTexts
    /\ \A n \in Nat : toRoman[n] = RomanOf(n, toRoman)
<1> DEFINE Below(h) == [k \in 0 .. Len(h) - 1 |-> h[k + 1]]
           G == [h \in Seq(RomanTexts) |-> RomanOf(Len(h), Below(h))]
           Is(f) == f = [n \in Nat |-> RomanOf(n, f)]
<1>1. G \in [Seq(RomanTexts) -> RomanTexts]
  <2>1. ASSUME NEW h \in Seq(RomanTexts) PROVE RomanOf(Len(h), Below(h)) \in RomanTexts
    <3>1. Len(h) \in Nat /\ \A k \in 0 .. Len(h) - 1 : Below(h)[k] \in RomanTexts
      OBVIOUS
    <3> HIDE DEF Below
    <3> QED  BY <3>1, RomanOfType
  <2> HIDE DEF Below
  <2> QED  BY <2>1
<1>2. PICK f \in [Nat -> RomanTexts] : \A n \in Nat : f[n] = G[Before(f, n)]
  <2> DEFINE V == RomanTexts
  <2>1. G \in [Seq(V) -> V]
    BY <1>1
  <2> HIDE DEF G, V
  <2>2. \E f \in [Nat -> V] : \A n \in Nat : f[n] = G[Before(f, n)]
    BY <2>1, CourseExists
  <2> QED  BY <2>2 DEF V
<1>3. ASSUME NEW n \in Nat PROVE f[n] = RomanOf(n, f)
  <2> DEFINE h == Before(f, n)
  <2>1. h \in Seq(RomanTexts) /\ Len(h) = n
    <3>1. h \in [1 .. n -> RomanTexts]
      BY <1>2 DEF Before
    <3> HIDE DEF h
    <3> QED  BY <3>1, FunctionIsSeq
  <2>2. \A k \in 0 .. n - 1 : Below(h)[k] = f[k]
    <3>1. ASSUME NEW k \in 0 .. n - 1 PROVE h[k + 1] = f[k]
      BY DEF Before
    <3> HIDE DEF h
    <3> QED  BY <2>1, <3>1
  <2>3. f[n] = G[h]
    BY <1>2
  <2> HIDE DEF h
  <2>4. G[h] = RomanOf(n, Below(h))
    BY <2>1
  <2> HIDE DEF Below, G
  <2> QED  BY <2>2, <2>3, <2>4, RomanOfBelow
<1>4. Is(f)
  BY <1>2, <1>3
<1>5. Is(toRoman)
  <2>1. toRoman = CHOOSE g : Is(g)
    BY Zenon DEF toRoman, RomanOf, RomanFitting
  <2> HIDE DEF Is
  <2> QED  BY <1>4, <2>1
<1>6. ASSUME NEW n \in Nat PROVE toRoman[n] = RomanOf(n, toRoman)
  BY <1>5
<1> DEFINE T == {n \in Nat : toRoman[n] \notin RomanTexts}
<1>7. ASSUME T # {} PROVE FALSE
  <2>1. PICK m \in T : \A k \in T : m <= k
    <3>1. T \subseteq Nat
      OBVIOUS
    <3> HIDE DEF T
    <3> QED  BY <1>7, <3>1, LeastNatural
  <2>2. \A k \in 0 .. m - 1 : toRoman[k] \in RomanTexts
    BY <2>1
  <2> QED  BY <1>6, <2>2, RomanOfType
<1> QED
  BY <1>6, <1>7

-----------------------------------------------------------------------------
(* Reading Roman numerals                                                  *)

CountsOf(text) == [i \in DOMAIN text |-> Counts(text, i)]

\* What the letters of a numeral count.
LEMMA CountsType ==
    ASSUME NEW text \in RomanTexts
    PROVE  /\ DOMAIN text = 1 .. Len(text) /\ Len(text) \in Nat
           /\ \A i \in 1 .. Len(text) : text[i] \in RomanLetters /\ RomanValue(text[i]) \in Nat /\ Counts(text, i) \in Int
           /\ CountsOf(text) \in Seq(Int) /\ Len(CountsOf(text)) = Len(text)
           /\ fromRoman(text) = Total(CountsOf(text))
<1>1. DOMAIN text = 1 .. Len(text) /\ Len(text) \in Nat
  BY DEF RomanTexts
<1>2. ASSUME NEW i \in 1 .. Len(text)
      PROVE  text[i] \in RomanLetters /\ RomanValue(text[i]) \in Nat /\ Counts(text, i) \in Int
  <2>1. text[i] \in RomanLetters
    BY ElementOfSeq DEF RomanTexts
  <2>2. RomanValue(text[i]) \in Nat
    BY <2>1, RomanEntries
  <2>3. Counts(text, i) \in {RomanValue(text[i]), -RomanValue(text[i])}
    BY DEF Counts
  <2> QED  BY <2>1, <2>2, <2>3
<1>3. CountsOf(text) \in [1 .. Len(text) -> Int]
  BY <1>1, <1>2 DEF CountsOf
<1>4. CountsOf(text) \in Seq(Int) /\ Len(CountsOf(text)) = Len(text)
  BY <1>1, <1>3, FunctionIsSeq
<1> QED
  BY <1>1, <1>2, <1>4 DEF fromRoman, CountsOf

\* Two numerals side by side add up, unless the second starts with a greater
\* letter than the first ends with.
LEMMA fromRomanConcat ==
    ASSUME NEW e \in RomanTexts, NEW t \in RomanTexts, e # <<>>,
           t # <<>> => RomanValue(t[1]) <= RomanValue(e[Len(e)])
    PROVE  fromRoman(e \o t) = fromRoman(e) + fromRoman(t)
<1> DEFINE q == e \o t
           m == Len(e)
<1>1. /\ q \in RomanTexts /\ m \in Nat /\ Len(t) \in Nat /\ Len(q) = m + Len(t)
      /\ \A i \in 1 .. m : q[i] = e[i]
      /\ \A i \in 1 .. Len(t) : q[m + i] = t[i]
  BY ConcatIs DEF RomanTexts
<1>2. m > 0
  BY <1>1, EmptySeq DEF RomanTexts
<1> HIDE DEF q, m
<1>3. ASSUME NEW i \in 1 .. m PROVE Counts(q, i) = Counts(e, i)
  <2>1. q[i] = e[i] /\ i \in 1 .. Len(q)
    BY <1>1
  <2>2. CASE i < m
    <3>1. i < Len(q) /\ i < Len(e) /\ q[i + 1] = e[i + 1]
      BY <1>1, <2>2 DEF m
    <3> QED  BY <2>1, <3>1 DEF Counts
  <2>3. CASE i = m
    <3>1. ~(i < Len(e))
      BY <1>1, <2>3 DEF m
    <3>2. ~(i < Len(q) /\ RomanValue(q[i + 1]) > RomanValue(q[i]))
      <4>1. CASE t = <<>>
        <5>1. Len(q) = i
          BY <1>1, <2>3, <4>1
        <5> QED  BY <5>1
      <4>2. CASE t # <<>>
        <5>1. 1 \in 1 .. Len(t)
          BY <4>2, EmptySeq, <1>1 DEF RomanTexts
        <5>2. q[i + 1] = t[1]
          BY <1>1, <2>3, <5>1
        <5>3. RomanValue(t[1]) \in Nat /\ RomanValue(e[Len(e)]) \in Nat
          <6>1. Len(e) \in 1 .. Len(e)
            BY <1>1, <1>2 DEF m
          <6> QED  BY <5>1, <6>1, CountsType
        <5>4. RomanValue(t[1]) <= RomanValue(q[i])
          BY <2>1, <2>3, <4>2 DEF m
        <5>5. RomanValue(q[i]) \in Nat
          BY <1>1, <2>1, CountsType
        <5> QED  BY <5>2, <5>3, <5>4, <5>5
      <4> QED  BY <4>1, <4>2
    <3> QED  BY <2>1, <3>1, <3>2 DEF Counts
  <2> QED  BY <1>1, <2>2, <2>3
<1>4. ASSUME NEW i \in 1 .. Len(t) PROVE Counts(q, m + i) = Counts(t, i)
  <2>1. q[m + i] = t[i] /\ (m + i < Len(q) <=> i < Len(t))
    BY <1>1
  <2>2. i < Len(t) => q[m + i + 1] = t[i + 1]
    <3>1. i < Len(t) => i + 1 \in 1 .. Len(t) /\ m + i + 1 = m + (i + 1)
      BY <1>1
    <3> QED  BY <1>1, <3>1
  <2> QED  BY <2>1, <2>2 DEF Counts
<1>5. CountsOf(q) = CountsOf(e) \o CountsOf(t)
  <2> DEFINE Z == Int
  <2>1. PICK x \in Seq(Z), y \in Seq(Z) : x = CountsOf(e) /\ y = CountsOf(t)
    BY CountsType
  <2>2. CountsOf(q) \in Seq(Z)
    BY <1>1, CountsType
  <2> HIDE DEF Z
  <2>3. /\ x \o y \in Seq(Z) /\ Len(x \o y) = Len(x) + Len(y)
        /\ \A i \in 1 .. Len(x) : (x \o y)[i] = x[i]
        /\ \A i \in 1 .. Len(y) : (x \o y)[Len(x) + i] = y[i]
    BY ConcatIs
  <2>4. Len(x) = m /\ Len(y) = Len(t) /\ Len(CountsOf(q)) = m + Len(t)
    BY <1>1, <2>1, CountsType DEF m
  <2>5. ASSUME NEW i \in 1 .. m + Len(t) PROVE CountsOf(q)[i] = (x \o y)[i]
    <3>1. CountsOf(q)[i] = Counts(q, i)
      <4>1. i \in DOMAIN q
        BY <1>1, CountsType
      <4> QED  BY <4>1 DEF CountsOf
    <3>2. CASE i <= m
      <4>1. i \in 1 .. m
        BY <1>1, <3>2
      <4>2. x[i] = Counts(e, i)
        <5>1. i \in DOMAIN e
          BY <4>1, CountsType DEF m
        <5> QED  BY <2>1, <5>1 DEF CountsOf
      <4> QED  BY <1>3, <2>3, <2>4, <3>1, <4>1, <4>2
    <3>3. CASE ~(i <= m)
      <4>1. PICK j \in 1 .. Len(t) : i = m + j
        <5>1. i - m \in 1 .. Len(t) /\ i = m + (i - m)
          BY <1>1, <3>3
        <5> QED  BY <5>1
      <4>2. y[j] = Counts(t, j)
        <5>1. j \in DOMAIN t
          BY <4>1, CountsType
        <5> QED  BY <2>1, <5>1 DEF CountsOf
      <4>3. (x \o y)[i] = y[j]
        BY <2>3, <2>4, <4>1
      <4> QED  BY <1>4, <3>1, <4>1, <4>2, <4>3
    <3> QED  BY <3>2, <3>3
  <2>6. CountsOf(q) = x \o y
    BY <2>2, <2>3, <2>4, <2>5, SeqEqual
  <2> QED  BY <2>1, <2>6
<1>6. CountsOf(e) \in Seq(Int) /\ CountsOf(t) \in Seq(Int)
  BY CountsType
<1>7. fromRoman(q) = Total(CountsOf(e)) + Total(CountsOf(t))
  BY <1>1, <1>5, <1>6, CountsType, TotalConcat
<1> QED
  BY <1>7, CountsType DEF q

\* A letter alone counts for itself.
LEMMA fromOneRoman ==
    ASSUME NEW l \in RomanLetters
    PROVE  fromRoman(<<l>>) = RomanValue(l)
<1> DEFINE text == <<l>>
<1>1. text \in RomanTexts /\ Len(text) = 1 /\ text[1] = l /\ DOMAIN text = 1 .. 1
  BY DEF RomanTexts
<1> HIDE DEF text
<1>2. Counts(text, 1) = RomanValue(l)
  BY <1>1 DEF Counts
<1>3. CountsOf(text) = <<RomanValue(l)>>
  BY <1>1, <1>2 DEF CountsOf
<1>4. RomanValue(l) \in Int
  BY RomanEntries
<1> QED
  BY <1>1, <1>3, <1>4, CountsType, TotalOne DEF text

\* A letter before a greater one counts against it.
LEMMA fromTwoRoman ==
    ASSUME NEW k \in RomanLetters, NEW l \in RomanLetters, RomanValue(l) > RomanValue(k)
    PROVE  fromRoman(<<k, l>>) = RomanValue(l) - RomanValue(k)
<1> DEFINE text == <<k, l>>
<1>1. text \in RomanTexts /\ Len(text) = 2 /\ text[1] = k /\ text[2] = l /\ DOMAIN text = 1 .. 2
  BY DEF RomanTexts
<1> HIDE DEF text
<1>2. PICK a \in Nat, b \in Nat : a = RomanValue(k) /\ b = RomanValue(l)
  BY RomanEntries
<1>3. Counts(text, 1) = -a /\ Counts(text, 2) = b
  BY <1>1, <1>2 DEF Counts
<1>4. CountsOf(text) = <<-a, b>>
  BY <1>1, <1>3 DEF CountsOf
<1>5. Total(<<-a, b>>) = b - a
  <2>1. PICK x \in Int : x = -a
    BY <1>2
  <2>2. PICK one \in Seq(Int) : one = <<x>>
    <3> DEFINE Z == Int
    <3>1. x \in Z
      OBVIOUS
    <3> HIDE DEF Z
    <3>2. <<x>> \in Seq(Z)
      BY <3>1
    <3> QED  BY <3>2 DEF Z
  <2>3. <<x, b>> = Append(one, b)
    <3> DEFINE Z == Int
    <3>1. x \in Z /\ b \in Z /\ one = <<x>>
      BY <1>2, <2>2
    <3> HIDE DEF Z
    <3> QED  BY <3>1
  <2>4. Total(Append(one, b)) = Total(one) + b
    <3>1. one \in Seq(Int) /\ b \in Int
      BY <1>2, <2>2
    <3> QED  BY <3>1, TotalAppend, Zenon
  <2>5. Total(one) = x
    BY <2>1, <2>2, TotalOne
  <2>6. Total(<<x, b>>) = x + b
    BY <2>3, <2>4, <2>5
  <2>7. x + b = b - a
    BY <1>2, <2>1
  <2> QED  BY <2>1, <2>6, <2>7
<1> QED
  BY <1>1, <1>2, <1>4, <1>5, CountsType DEF text

\* Every entry is read as its value.
LEMMA fromRomanEntry ==
    ASSUME NEW i \in 1 .. 13
    PROVE  fromRoman(Romans[i][2]) = Romans[i][1]
<1>1. /\ fromRoman(<<"M">>) = 1000 /\ fromRoman(<<"D">>) = 500 /\ fromRoman(<<"C">>) = 100
      /\ fromRoman(<<"L">>) = 50 /\ fromRoman(<<"X">>) = 10 /\ fromRoman(<<"V">>) = 5
      /\ fromRoman(<<"I">>) = 1
  BY RomanEntries, RomanValues, fromOneRoman
<1>2. /\ fromRoman(<<"C", "M">>) = 1000 - 100 /\ fromRoman(<<"C", "D">>) = 500 - 100
      /\ fromRoman(<<"X", "C">>) = 100 - 10 /\ fromRoman(<<"X", "L">>) = 50 - 10
      /\ fromRoman(<<"I", "X">>) = 10 - 1 /\ fromRoman(<<"I", "V">>) = 5 - 1
  BY RomanEntries, RomanValues, fromTwoRoman
<1>3. /\ 1000 - 100 = 900 /\ 500 - 100 = 400 /\ 100 - 10 = 90 /\ 50 - 10 = 40 /\ 10 - 1 = 9 /\ 5 - 1 = 4
  OBVIOUS
<1>4. /\ fromRoman(Romans[1][2]) = Romans[1][1] /\ fromRoman(Romans[3][2]) = Romans[3][1]
      /\ fromRoman(Romans[5][2]) = Romans[5][1] /\ fromRoman(Romans[7][2]) = Romans[7][1]
      /\ fromRoman(Romans[9][2]) = Romans[9][1] /\ fromRoman(Romans[11][2]) = Romans[11][1]
      /\ fromRoman(Romans[13][2]) = Romans[13][1]
  BY <1>1, RomansAre
<1>5. /\ fromRoman(Romans[2][2]) = Romans[2][1] /\ fromRoman(Romans[4][2]) = Romans[4][1]
      /\ fromRoman(Romans[6][2]) = Romans[6][1] /\ fromRoman(Romans[8][2]) = Romans[8][1]
      /\ fromRoman(Romans[10][2]) = Romans[10][1] /\ fromRoman(Romans[12][2]) = Romans[12][1]
  BY <1>2, <1>3, RomansAre
<1> DEFINE Is(j) == fromRoman(Romans[j][2]) = Romans[j][1]
<1>6. /\ Is(1) /\ Is(2) /\ Is(3) /\ Is(4) /\ Is(5) /\ Is(6) /\ Is(7) /\ Is(8) /\ Is(9) /\ Is(10)
      /\ Is(11) /\ Is(12) /\ Is(13)
  BY <1>4, <1>5
<1> HIDE DEF Is
<1>7. Is(i)
  BY <1>6, RomanIndices
<1> QED
  BY <1>7 DEF Is

\* Reading the Roman numeral of a number gives the number.
THEOREM RomansReadBack ==
    \A n \in Nat : fromRoman(toRoman[n]) = n
<1> DEFINE T == {n \in Nat : fromRoman(toRoman[n]) # n}
<1>1. ASSUME T # {} PROVE FALSE
  <2>1. PICK n \in T : \A k \in T : n <= k
    <3>1. T \subseteq Nat
      OBVIOUS
    <3> HIDE DEF T
    <3> QED  BY <1>1, <3>1, LeastNatural
  <2>2. CASE n = 0
    <3>1. toRoman[0] = <<>>
      BY toRomanIs DEF RomanOf
    <3>2. fromRoman(<<>>) = 0
      <4>1. <<>> \in RomanTexts /\ Len(<<>>) = 0
        BY EmptySeq DEF RomanTexts
      <4>2. CountsOf(<<>>) \in Seq(Int) /\ Len(CountsOf(<<>>)) = 0 /\ fromRoman(<<>>) = Total(CountsOf(<<>>))
        BY <4>1, CountsType
      <4>3. CountsOf(<<>>) = <<>>
        BY <4>2, EmptySeq
      <4> QED  BY <4>2, <4>3, TotalEmpty
    <3> QED  BY <2>2, <3>1, <3>2
  <2>3. CASE n # 0
    <3> DEFINE i == RomanFitting(n)
               e == Romans[i][2]
               m == n - Romans[i][1]
               t == toRoman[m]
    <3>1. i \in 1 .. 13 /\ m \in Nat /\ m < n /\ n \in Nat /\ Romans[i][1] \in Nat
      BY <2>3, RomanFittingIs, RomanEntries
    <3>2. toRoman[n] = e \o t
      BY <2>3, toRomanIs DEF RomanOf
    <3>3. fromRoman(t) = m /\ t \in RomanTexts
      <4>1. m \notin T
        <5> HIDE DEF T, m
        <5> QED  BY <2>1, <3>1
      <4> HIDE DEF m
      <4> QED  BY <3>1, <4>1, toRomanIs
    <3>4. e \in RomanTexts /\ e # <<>> /\ fromRoman(e) = Romans[i][1]
      <4> HIDE DEF i
      <4>1. e \in RomanTexts /\ Len(e) # 0 /\ fromRoman(e) = Romans[i][1]
        BY <3>1, RomanEntries, RomanFirstLast, fromRomanEntry
      <4>2. Len(<<>>) = 0
        BY EmptySeq
      <4> QED  BY <4>1, <4>2
    <3>5. t # <<>> => RomanValue(t[1]) <= RomanValue(e[Len(e)])
      <4>1. CASE m = 0
        <5>1. t = <<>>
          BY <4>1, toRomanIs DEF RomanOf
        <5> QED  BY <5>1
      <4>2. CASE m # 0
        <5> DEFINE j == RomanFitting(m)
                   f == Romans[j][2]
        <5>1. j \in 1 .. 13 /\ i <= j
          <6> HIDE DEF m
          <6>1. m <= n
            BY <3>1
          <6> QED  BY <2>3, <3>1, <4>2, <6>1, RomanFittingIs, RomanFittingLater DEF i
        <5>2. t = f \o toRoman[m - Romans[j][1]] /\ m - Romans[j][1] \in Nat
          <6> HIDE DEF m
          <6> QED  BY <3>1, <4>2, toRomanIs, RomanFittingIs DEF RomanOf
        <5> HIDE DEF i, j, m
        <5>3. f \in RomanTexts /\ Len(f) \in Nat \ {0} /\ toRoman[m - Romans[j][1]] \in RomanTexts
          BY <5>1, <5>2, RomanEntries, RomanFirstLast, toRomanIs
        <5>4. t[1] = f[1]
          <6>1. 1 \in 1 .. Len(f)
            BY <5>3
          <6> HIDE DEF t, f
          <6> QED  BY <5>2, <5>3, <6>1, ConcatIs DEF RomanTexts
        <5>5. j \in i .. 13
          BY <3>1, <5>1
        <5>6. RomanValue(f[1]) <= RomanValue(e[Len(e)])
          BY <3>1, <5>5, RomanFirstLast
        <5> QED  BY <5>4, <5>6
      <4> QED  BY <4>1, <4>2
    <3> HIDE DEF e, t
    <3>6. fromRoman(e \o t) = Romans[i][1] + m
      BY <3>3, <3>4, <3>5, fromRomanConcat
    <3>7. Romans[i][1] + m = n
      BY <3>1
    <3> QED  BY <2>1, <3>2, <3>6, <3>7
  <2> QED  BY <2>2, <2>3
<1> QED
  BY <1>1

-----------------------------------------------------------------------------
(* Decimal numerals                                                        *)

\* Zeros before the digits of a number do not change it.
LEMMA ZerosValue ==
    ASSUME NEW k \in Nat, NEW n \in Nat
    PROVE  LET zeros == [i \in 1 .. k |-> 0]
               padded == zeros \o DecimalDigits[n]
           IN padded \in Numerals /\ Along(TenTimes, 0, padded) = n
<1> DEFINE zeros == [i \in 1 .. k |-> 0]
           V == Nat
           D == 0 .. 9
<1>1. TenTimes \in Steps(V, D) /\ 0 \in V
  BY TenTimesType
<1>2. zeros \in Seq(D) /\ Len(zeros) = k /\ \A i \in 1 .. k : zeros[i] = 0
  <2>1. zeros \in [1 .. k -> D] /\ \A i \in 1 .. k : zeros[i] = 0
    OBVIOUS
  <2> HIDE DEF zeros, D
  <2> QED  BY <2>1, FunctionIsSeq
<1>3. PICK q \in Seq(D) : q = DecimalDigits[n] /\ q # <<>>
  BY DecimalDigitsIs DEF Numerals
<1>4. Along(TenTimes, 0, zeros) = 0
  <2> DEFINE g == [i \in 0 .. k |-> 0]
  <2>1. g[0] = 0 /\ g[k] = 0
    OBVIOUS
  <2>2. ASSUME NEW i \in 1 .. k PROVE g[i] = TenTimes[<<g[i - 1], zeros[i]>>]
    <3>1. g[i] = 0 /\ g[i - 1] = 0 /\ zeros[i] = 0
      OBVIOUS
    <3>2. TenTimes[<<0, 0>>] = 0
      <4>1. PICK z \in Nat : z = 0
        OBVIOUS
      <4>2. z \in 0 .. 9
        BY <4>1
      <4>3. TenTimes[<<z, z>>] = 10 * z + z
        BY <4>2, TenTimesType
      <4> QED  BY <4>1, <4>3
    <3> HIDE DEF g, zeros
    <3> QED  BY <3>1, <3>2
  <2> HIDE DEF g, zeros
  <2>3. Runs(TenTimes, 0, zeros, g) /\ Len(zeros) \in Nat
    BY <1>2, <2>1, <2>2 DEF Runs
  <2>4. Along(TenTimes, 0, zeros) = g[Len(zeros)]
    BY <2>3, AlongIs
  <2> QED  BY <1>2, <2>1, <2>4
<1> HIDE DEF zeros
<1>5. Along(TenTimes, 0, zeros \o q) = n
  <2>1. Along(TenTimes, 0, q) = n
    BY <1>3, DigitsValue
  <2> HIDE DEF V, D
  <2> QED  BY <1>1, <1>2, <1>4, <2>1, AlongConcat
<1>6. zeros \o q \in Seq(D) /\ zeros \o q # <<>>
  <2> HIDE DEF D
  <2>1. /\ zeros \o q \in Seq(D) /\ Len(zeros \o q) = k + Len(q) /\ Len(q) \in Nat
    BY <1>2, ConcatIs
  <2>2. Len(q) # 0
    BY <1>3, EmptySeq
  <2>3. Len(zeros \o q) # 0
    BY <2>1, <2>2
  <2> QED  BY <2>1, <2>3, EmptySeq
<1> QED
  BY <1>3, <1>5, <1>6 DEF Numerals, zeros

-----------------------------------------------------------------------------
(* What a decimal text is made of                                          *)

Figures == [c : {"digit"}, v : STRING, d : 0 .. 9]
OrdinalSuffixes == {"th", "st", "nd", "rd"}
Marks == [c : {"sep"}, v : STRING] \union [c : {"letters"}, v : OrdinalSuffixes]
Characters == Figures \union Marks
Places == [c : {"digit", "#", "sep"}, v : STRING]

\* Digits are read, marks are not.
LEMMA CharacterFacts ==
    ASSUME NEW picture
    PROVE  /\ \A c \in Figures : c # Minus /\ c.d \in 0 .. 9 /\ IsDigit(c)
           /\ \A c \in Marks : c # Minus /\ ~IsRead(c, picture)
           /\ IsRead(Minus, picture)
<1>1. ASSUME NEW c \in Figures PROVE c # Minus /\ c.d \in 0 .. 9 /\ IsDigit(c)
  BY DEF Figures, Minus, IsDigit
<1>2. ASSUME NEW c \in Marks PROVE c # Minus /\ ~IsRead(c, picture)
  BY DEF Marks, Minus, IsRead, IsDigit
<1> QED
  BY <1>1, <1>2 DEF IsRead

ReadDigit(picture) ==
  [p \in Nat \X (Characters \union {Minus}) |->
     IF p[2] # Minus /\ IsRead(p[2], picture) THEN 10 * p[1] + p[2].d ELSE p[1]]

\* The step of ReadDigits.
LEMMA ReadDigitType ==
    ASSUME NEW picture
    PROVE  /\ ReadDigit(picture) \in Steps(Nat, Characters \union {Minus}) /\ 0 \in Nat
           /\ \A a \in Nat, c \in Characters \union {Minus} :
                ReadDigit(picture)[<<a, c>>] =
                  IF c # Minus /\ IsRead(c, picture) THEN 10 * a + c.d ELSE a
<1> DEFINE All == Characters \union {Minus}
<1>1. ASSUME NEW a \in Nat, NEW c \in All
      PROVE  (IF c # Minus /\ IsRead(c, picture) THEN 10 * a + c.d ELSE a) \in Nat
  <2>1. CASE c # Minus /\ IsRead(c, picture)
    <3>1. c.d \in 0 .. 9
      BY <2>1, CharacterFacts DEF Characters
    <3> QED  BY <2>1, <3>1
  <2>2. CASE ~(c # Minus /\ IsRead(c, picture))
    BY <2>2
  <2> QED  BY <2>1, <2>2
<1> HIDE DEF All
<1>2. ReadDigit(picture) =
        [p \in Nat \X All |-> IF p[2] # Minus /\ IsRead(p[2], picture) THEN 10 * p[1] + p[2].d ELSE p[1]]
  BY DEF ReadDigit, All
<1>3. ReadDigit(picture) \in Steps(Nat, All)
  <2>1. ASSUME NEW p \in Nat \X All
        PROVE  (IF p[2] # Minus /\ IsRead(p[2], picture) THEN 10 * p[1] + p[2].d ELSE p[1]) \in Nat
    BY <1>1
  <2> QED  BY <1>2, <2>1 DEF Steps
<1>4. ASSUME NEW a \in Nat, NEW c \in All
      PROVE  ReadDigit(picture)[<<a, c>>] = IF c # Minus /\ IsRead(c, picture) THEN 10 * a + c.d ELSE a
  <2>1. <<a, c>> \in Nat \X All /\ <<a, c>>[1] = a /\ <<a, c>>[2] = c
    OBVIOUS
  <2> QED  BY <1>2, <2>1
<1> QED
  BY <1>3, <1>4 DEF All

\* Its fold goes along the characters.
LEMMA ReadDigitsIs ==
    ASSUME NEW picture, NEW q \in Seq((Characters \union {Minus}))
    PROVE  ReadDigits(q, picture) = Along(ReadDigit(picture), 0, q)
<1> DEFINE D == DOMAIN q
           IsIt(it) == it = [s \in SUBSET D |->
                               IF s = {} THEN 0 ELSE LET x == Max(s) IN IF q[x] # Minus /\ IsRead(q[x], picture) THEN 10 * it[s \ {x}] + q[x].d ELSE it[s \ {x}]]
           iter == CHOOSE it : IsIt(it)
<1>1. /\ D = 1 .. Len(q) /\ Len(q) \in Nat
      /\ \A i \in 1 .. Len(q) : q[i] \in (Characters \union {Minus})
  <2> DEFINE X == (Characters \union {Minus})
  <2>1. q \in Seq(X)
    OBVIOUS
  <2> HIDE DEF X
  <2>2. \A i \in 1 .. Len(q) : q[i] \in X
    BY <2>1, ElementOfSeq
  <2>3. D = 1 .. Len(q) /\ Len(q) \in Nat
    BY <2>1
  <2> QED  BY <2>2, <2>3 DEF X
<1>2. ReadDigits(q, picture) = iter[D]
  BY DEF ReadDigits, FoldLeft, MapThenFoldSet
<1>3. PICK h \in [SUBSET (1 .. Len(q)) -> Nat] : Folds(ReadDigit(picture), 0, q, Len(q), h)
  <2> DEFINE V == Nat
  <2>1. ReadDigit(picture) \in Steps(V, (Characters \union {Minus})) /\ 0 \in V
    BY ReadDigitType
  <2> HIDE DEF V
  <2>2. \E h \in [SUBSET (1 .. Len(q)) -> V] : Folds(ReadDigit(picture), 0, q, Len(q), h)
    BY <2>1, FoldExists
  <2> QED  BY <2>2 DEF V
<1>4. IsIt(h)
  <2>1. ASSUME NEW s \in SUBSET D
        PROVE  h[s] = IF s = {} THEN 0 ELSE LET x == Max(s) IN IF q[x] # Minus /\ IsRead(q[x], picture) THEN 10 * h[s \ {x}] + q[x].d ELSE h[s \ {x}]
    <3>1. CASE s # {}
      <4>1. Max(s) \in s
        BY <1>1, <3>1, GreatestIndex
      <4>2. q[Max(s)] \in (Characters \union {Minus}) /\ h[s \ {Max(s)}] \in Nat
        BY <1>1, <1>3, <4>1
      <4>3. h[s] = ReadDigit(picture)[<<h[s \ {Max(s)}], q[Max(s)]>>]
        BY <1>1, <1>3, <3>1 DEF Folds
      <4>4. ReadDigit(picture)[<<h[s \ {Max(s)}], q[Max(s)]>>] = IF q[Max(s)] # Minus /\ IsRead(q[Max(s)], picture) THEN 10 * h[s \ {Max(s)}] + q[Max(s)].d ELSE h[s \ {Max(s)}]
        BY <4>2, ReadDigitType
      <4> QED  BY <3>1, <4>3, <4>4
    <3>2. CASE s = {}
      BY <1>1, <1>3, <3>2 DEF Folds
    <3> QED  BY <3>1, <3>2
  <2> QED  BY <1>1, <1>3, <2>1
<1>5. IsIt(iter)
  <2> HIDE DEF IsIt
  <2> QED  BY <1>4
<1> HIDE DEF iter
<1>6. iter[{}] = 0
  BY <1>5
<1>7. ASSUME NEW k \in 1 .. Len(q), iter[1 .. k - 1] \in Nat
      PROVE  iter[1 .. k] = ReadDigit(picture)[<<iter[1 .. k - 1], q[k]>>]
  <2>1. 1 .. k \in SUBSET D /\ 1 .. k # {}
    <3>1. k \in 1 .. k /\ \A j \in 1 .. k : j \in 1 .. Len(q)
      BY <1>1
    <3>2. D = 1 .. Len(q)
      BY <1>1
    <3> HIDE DEF D
    <3> QED  BY <3>1, <3>2
  <2>2. PICK s \in SUBSET D : s = 1 .. k
    BY <2>1
  <2>3. iter[s] = IF q[Max(s)] # Minus /\ IsRead(q[Max(s)], picture) THEN 10 * iter[s \ {Max(s)}] + q[Max(s)].d ELSE iter[s \ {Max(s)}]
    BY <1>5, <2>1, <2>2
  <2>4. Max(s) = k /\ s \ {k} = 1 .. k - 1
    BY <1>1, <2>2, GreatestOfInterval
  <2>5. iter[1 .. k] = IF q[k] # Minus /\ IsRead(q[k], picture) THEN 10 * iter[1 .. k - 1] + q[k].d ELSE iter[1 .. k - 1]
    BY <2>2, <2>3, <2>4
  <2>6. q[k] \in (Characters \union {Minus})
    BY <1>1
  <2> QED  BY <1>7, <2>5, <2>6, ReadDigitType
<1>8. iter[1 .. Len(q)] = Along(ReadDigit(picture), 0, q)
  <2> DEFINE V == Nat
  <2>1. ReadDigit(picture) \in Steps(V, (Characters \union {Minus})) /\ 0 \in V
    BY ReadDigitType
  <2>2. \A k \in 1 .. Len(q) : iter[1 .. k - 1] \in V => iter[1 .. k] = ReadDigit(picture)[<<iter[1 .. k - 1], q[k]>>]
    BY <1>7
  <2> HIDE DEF V
  <2> QED  BY <1>6, <2>1, <2>2, FoldRuns
<1> QED
  BY <1>1, <1>2, <1>8

\* Places are counted by a natural number.
LEMMA PosRType ==
    ASSUME NEW picture \in Seq(Places), NEW i \in DOMAIN picture
    PROVE  PosR(picture, i) \in Nat
<1> DEFINE S == {j \in i + 1 .. Len(picture) : IsPlace(picture[j])}
<1>1. IsFiniteSet(i + 1 .. Len(picture)) /\ S \subseteq i + 1 .. Len(picture)
  <2>1. i + 1 \in Int /\ Len(picture) \in Int
    OBVIOUS
  <2> QED  BY <2>1, FS_Interval
<1>2. IsFiniteSet(S)
  BY <1>1, FS_Subset
<1>3. Cardinality(S) \in Nat
  BY <1>2, FS_CardinalityType
<1> QED
  BY <1>3 DEF PosR

\* Least chooses one of the set.
LEMMA LeastIs ==
    ASSUME NEW S, S \subseteq Nat, S # {}
    PROVE  Least(S) \in S
<1>1. \E m \in S : \A k \in S : m <= k
  BY LeastNatural
<1> QED
  BY <1>1 DEF Least

\* What is written between the digits is at most a separator.
LEMMA MarkType ==
    ASSUME NEW picture \in Seq(Places), NEW pos
    PROVE  Mark(picture, pos) \in {<<>>} \union {<<c>> : c \in Marks}
<1> DEFINE seps == Separators(picture)
           own == {i \in seps : PosR(picture, i) = pos}
           distances == {PosR(picture, i) : i \in seps}
           interval == Least(distances)
           Goes == own = {} /\ seps # {} /\ Regular(picture, interval) /\ pos % interval = 0
           other == CHOOSE i \in seps : PosR(picture, i) = interval
<1>1. /\ seps \subseteq DOMAIN picture /\ DOMAIN picture \subseteq Nat
      /\ \A i \in seps : picture[i] \in Marks
  <2>1. seps \subseteq DOMAIN picture /\ DOMAIN picture \subseteq Nat
    BY DEF Separators
  <2>2. ASSUME NEW i \in seps PROVE picture[i] \in Marks
    <3>1. i \in 1 .. Len(picture) /\ ~IsPlace(picture[i])
      BY DEF Separators
    <3>2. picture[i] \in Places
      BY <3>1, ElementOfSeq
    <3> QED  BY <3>1, <3>2 DEF Places, Marks, IsPlace
  <2> QED  BY <2>1, <2>2
<1>2. Mark(picture, pos) = CASE own # {} -> <<picture[Least(own)]>>
                             [] Goes -> <<picture[other]>>
                             [] OTHER -> <<>>
  BY Zenon DEF Mark
<1>3. own # {} => Least(own) \in seps
  <2>1. own \subseteq Nat /\ own \subseteq seps
    BY <1>1
  <2> HIDE DEF own, seps
  <2> QED  BY <2>1, LeastIs
<1>4. Goes => other \in seps
  <2> SUFFICES ASSUME seps # {} PROVE other \in seps
    OBVIOUS
  <2>1. distances \subseteq Nat /\ distances # {}
    <3>1. ASSUME NEW i \in seps PROVE PosR(picture, i) \in Nat
      BY <1>1, PosRType
    <3> HIDE DEF seps
    <3> QED  BY <3>1
  <2>2. interval \in distances
    <3> HIDE DEF distances
    <3> QED  BY <2>1, LeastIs
  <2>3. \E i \in seps : PosR(picture, i) = interval
    <3> HIDE DEF interval
    <3> QED  BY <2>2
  <2> HIDE DEF interval, seps
  <2> QED  BY <2>3
<1>5. Goes => own = {}
  OBVIOUS
<1> HIDE DEF own, Goes, other, seps
<1> QED
  BY <1>1, <1>2, <1>3, <1>4, <1>5

Figure(f, d) == [c |-> "digit", v |-> f, d |-> d]

\* A mark is not read.
LEMMA MarkRead ==
    ASSUME NEW picture, NEW mark \in {<<>>} \union {<<c>> : c \in Marks}, NEW a \in Nat
    PROVE  /\ mark \in Seq(Characters) /\ mark \in Seq(Characters \union {Minus})
           /\ Along(ReadDigit(picture), a, mark) = a
<1> DEFINE G == ReadDigit(picture)
           X == Characters \union {Minus}
           V == Nat
<1>1. CASE mark = <<>>
  BY <1>1, EmptySeq, AlongEmpty
<1>2. CASE mark # <<>>
  <2>1. PICK c \in Marks : mark = <<c>>
    BY <1>2
  <2>2. c \in Characters /\ c \in X /\ G[<<a, c>>] = a
    BY ReadDigitType, CharacterFacts DEF Characters
  <2>3. G \in Steps(V, X) /\ a \in V
    BY ReadDigitType
  <2> HIDE DEF G, V, X
  <2>4. <<c>> \in Seq(X) /\ <<c>> \in Seq(Characters)
    BY <2>2
  <2>5. Along(G, a, <<c>>) = G[<<a, c>>]
    BY <2>2, <2>3, AlongOne
  <2> QED  BY <2>1, <2>2, <2>4, <2>5 DEF G, X
<1> QED
  BY <1>1, <1>2

\* A digit with the mark before it is read as the digit.
LEMMA PieceRead ==
    ASSUME NEW picture \in Seq(Places), NEW f \in Families(picture), f \in STRING, NEW d \in 0 .. 9,
           NEW mark \in {<<>>} \union {<<c>> : c \in Marks}, NEW a \in Nat
    PROVE  /\ Figure(f, d) \in Figures
           /\ <<Figure(f, d)>> \in Seq(Characters) /\ Append(mark, Figure(f, d)) \in Seq(Characters)
           /\ Along(ReadDigit(picture), a, <<Figure(f, d)>>) = 10 * a + d
           /\ Along(ReadDigit(picture), a, Append(mark, Figure(f, d))) = 10 * a + d
<1> DEFINE G == ReadDigit(picture)
           X == Characters \union {Minus}
           V == Nat
<1>1. PICK x : x = Figure(f, d)
  OBVIOUS
<1>2. x \in Figures /\ x.d = d /\ x.v = f
  BY <1>1 DEF Figure, Figures
<1>3. x \in Characters /\ x \in X /\ x # Minus /\ IsRead(x, picture)
  BY <1>2, CharacterFacts DEF Characters, IsRead
<1>4. G \in Steps(V, X) /\ a \in V /\ G[<<a, x>>] = 10 * a + d
  BY <1>2, <1>3, ReadDigitType
<1>5. mark \in Seq(Characters) /\ mark \in Seq(X) /\ Along(G, a, mark) = a
  BY MarkRead
<1> HIDE DEF G, V, X
<1>6. Along(G, a, <<x>>) = 10 * a + d
  BY <1>3, <1>4, AlongOne
<1>7. <<x>> \in Seq(Characters) /\ Append(mark, x) \in Seq(Characters)
  BY <1>3, <1>5
<1>8. Along(G, a, Append(mark, x)) = 10 * a + d
  BY <1>3, <1>4, <1>5, AlongAppend
<1> QED
  BY <1>1, <1>2, <1>6, <1>7, <1>8 DEF G

\* The families of a picture.
LEMMA FamiliesType ==
    ASSUME NEW picture \in Seq(Places)
    PROVE  Families(picture) \subseteq STRING
<1>1. ASSUME NEW i \in DOMAIN picture PROVE picture[i].v \in STRING
  <2>1. picture[i] \in Places
    BY ElementOfSeq
  <2> QED  BY <2>1 DEF Places
<1> QED
  BY <1>1 DEF Families

\* The grouped digits are read as the digits.
LEMMA GroupingRead ==
    ASSUME NEW picture \in Seq(Places), NEW f \in Families(picture), NEW padded \in Numerals
    PROVE  LET digits == [i \in DOMAIN padded |-> [c |-> "digit", v |-> f, d |-> padded[i]]]
               text == applyIntegerGrouping(digits, picture)
           IN /\ text \in Seq(Characters) /\ Len(text) \in Nat \ {0}
              /\ text[1] \in Figures /\ text[1].v = f
              /\ ReadDigits(text, picture) = Along(TenTimes, 0, padded)
<1> DEFINE n == Len(padded)
           digits == [i \in DOMAIN padded |-> [c |-> "digit", v |-> f, d |-> padded[i]]]
           piece(i) == IF i = 1 THEN <<digits[i]>> ELSE Append(Mark(picture, Len(digits) - i + 1), digits[i])
           pieces == [i \in DOMAIN digits |-> piece(i)]
           text == applyIntegerGrouping(digits, picture)
           G == ReadDigit(picture)
           X == Characters \union {Minus}
           V == Nat
           C == Characters
<1>1. n \in Nat \ {0} /\ DOMAIN padded = 1 .. n /\ padded \in Seq(0 .. 9) /\ \A i \in 1 .. n : padded[i] \in 0 .. 9
  <2>1. padded \in Seq(0 .. 9) /\ padded # <<>>
    BY DEF Numerals
  <2>2. n \in Nat /\ n # 0 /\ DOMAIN padded = 1 .. n
    BY <2>1, EmptySeq
  <2> QED  BY <2>1, <2>2, ElementOfSeq
<1>2. f \in STRING
  BY FamiliesType
<1>3. DOMAIN digits = 1 .. n /\ \A i \in 1 .. n : digits[i] = Figure(f, padded[i])
  BY <1>1 DEF Figure
<1>4. text = FlattenSeq(pieces)
  BY DEF applyIntegerGrouping
<1> HIDE DEF digits, text
<1>5. ASSUME NEW i \in 1 .. n
      PROVE  /\ pieces[i] \in Seq(C)
             /\ \A a \in Nat : Along(G, a, pieces[i]) = 10 * a + padded[i]
  <2>1. Mark(picture, Len(digits) - i + 1) \in {<<>>} \union {<<c>> : c \in Marks}
    BY MarkType
  <2>2. PICK mark \in {<<>>} \union {<<c>> : c \in Marks} : mark = Mark(picture, Len(digits) - i + 1)
    BY <2>1
  <2>3. PICK x : x = Figure(f, padded[i]) /\ x = digits[i]
    BY <1>3
  <2>4. PICK d \in 0 .. 9 : d = padded[i]
    BY <1>1
  <2>5. pieces[i] = IF i = 1 THEN <<x>> ELSE Append(mark, x)
    BY <1>3, <2>2, <2>3
  <2>6. /\ <<x>> \in Seq(C) /\ Append(mark, x) \in Seq(C)
        /\ \A a \in Nat : /\ Along(G, a, <<x>>) = 10 * a + d
                          /\ Along(G, a, Append(mark, x)) = 10 * a + d
    <3>1. /\ <<x>> \in Seq(C) /\ Append(mark, x) \in Seq(C)
      <4>1. 0 \in Nat
        OBVIOUS
      <4> QED  BY <1>2, <2>2, <2>3, <2>4, <4>1, PieceRead
    <3>2. ASSUME NEW a \in Nat
          PROVE  /\ Along(G, a, <<x>>) = 10 * a + d
                 /\ Along(G, a, Append(mark, x)) = 10 * a + d
      <4>1. /\ Along(ReadDigit(picture), a, <<Figure(f, d)>>) = 10 * a + d
            /\ Along(ReadDigit(picture), a, Append(mark, Figure(f, d))) = 10 * a + d
        BY <1>2, PieceRead, Zenon
      <4> QED  BY <2>3, <2>4, <4>1
    <3> QED  BY <3>1, <3>2
  <2> HIDE DEF pieces, C, G
  <2> QED  BY <2>4, <2>5, <2>6
<1>6. pieces \in Seq(Seq(C)) /\ Len(pieces) = n /\ pieces # <<>>
  <2> DEFINE Z == Seq(C)
  <2>1. pieces \in [1 .. n -> Z]
    BY <1>3, <1>5
  <2>2. n \in Nat /\ n # 0
    BY <1>1
  <2> HIDE DEF pieces, Z, n
  <2>3. pieces \in Seq(Z) /\ Len(pieces) = n
    BY <2>1, <2>2, FunctionIsSeq
  <2> QED  BY <2>2, <2>3, EmptySeq DEF Z
<1>7. pieces[1] = <<digits[1]>>
  BY <1>1, <1>3
<1> HIDE DEF pieces
<1>8. PICK g \in [0 .. n -> Seq(C)] : /\ g[0] = <<>>
                                      /\ \A i \in 1 .. n : g[i] = g[i - 1] \o pieces[i]
                                      /\ text = g[n]
  <2> HIDE DEF C, n
  <2> QED  BY <1>4, <1>6, FlattenSeqRuns
<1>9. PICK h \in [0 .. n -> V] : Runs(TenTimes, 0, padded, h)
  <2> DEFINE D == 0 .. 9
  <2>1. TenTimes \in Steps(V, D) /\ 0 \in V /\ padded \in Seq(D)
    BY <1>1, TenTimesType
  <2> HIDE DEF V, D
  <2> QED  BY <2>1, RunExists
<1>10. h[0] = 0 /\ \A i \in 1 .. n : h[i] = 10 * h[i - 1] + padded[i] /\ h[i - 1] \in Nat
  <2>1. ASSUME NEW i \in 1 .. n PROVE h[i] = 10 * h[i - 1] + padded[i] /\ h[i - 1] \in Nat
    <3>1. h[i] = TenTimes[<<h[i - 1], padded[i]>>]
      BY <1>9 DEF Runs
    <3>2. i - 1 \in 0 .. n
      BY <1>1
    <3>3. h[i - 1] \in Nat /\ padded[i] \in 0 .. 9
      BY <1>1, <1>9, <3>2
    <3> QED  BY <3>1, <3>3, TenTimesType
  <2> QED  BY <1>9, <2>1 DEF Runs
<1> DEFINE T == {k \in 0 .. n : Along(G, 0, g[k]) # h[k]}
           U == {k \in 1 .. n : ~(Len(g[k]) \in Nat \ {0} /\ g[k][1] = digits[1])}
<1>11. ASSUME T # {} PROVE FALSE
  <2>1. PICK m \in T : \A k \in T : m <= k
    <3>1. T \subseteq Nat
      OBVIOUS
    <3> HIDE DEF T
    <3> QED  BY <1>11, <3>1, LeastNatural
  <2>2. m \in 0 .. n /\ Along(G, 0, g[m]) # h[m]
    OBVIOUS
  <2>3. m # 0
    BY <1>8, <1>10, <2>2, AlongEmpty
  <2>4. m \in 1 .. n /\ m - 1 \in 0 .. n /\ m - 1 < m /\ m \in Nat /\ m - 1 \in Nat
    BY <1>1, <2>2, <2>3
  <2>5. Along(G, 0, g[m - 1]) = h[m - 1]
    <3>1. m - 1 \notin T
      <4> HIDE DEF T
      <4> QED  BY <2>1, <2>4
    <3> QED  BY <2>4, <3>1
  <2>6. g[m] = g[m - 1] \o pieces[m] /\ g[m - 1] \in Seq(X) /\ pieces[m] \in Seq(X)
    <3>1. g[m - 1] \in Seq(C) /\ pieces[m] \in Seq(C)
      BY <1>5, <1>8, <2>4
    <3>2. \A q \in Seq(C) : q \in Seq(X)
      <4>1. C \subseteq X
        OBVIOUS
      <4> HIDE DEF C, X
      <4> QED  BY <4>1
    <3> QED  BY <1>8, <2>4, <3>1, <3>2
  <2>7. G \in Steps(V, X) /\ 0 \in V
    BY ReadDigitType
  <2>8. Along(G, 0, g[m]) = Along(G, h[m - 1], pieces[m])
    <3> HIDE DEF G, V, X
    <3> QED  BY <2>5, <2>6, <2>7, AlongConcat
  <2>9. Along(G, h[m - 1], pieces[m]) = 10 * h[m - 1] + padded[m]
    BY <1>5, <1>10, <2>4
  <2> QED  BY <1>10, <2>2, <2>4, <2>8, <2>9
<1>12. ASSUME U # {} PROVE FALSE
  <2>1. PICK m \in U : \A k \in U : m <= k
    <3>1. U \subseteq Nat
      OBVIOUS
    <3> HIDE DEF U
    <3> QED  BY <1>12, <3>1, LeastNatural
  <2>2. m \in 1 .. n /\ ~(Len(g[m]) \in Nat \ {0} /\ g[m][1] = digits[1])
    OBVIOUS
  <2>3. CASE m = 1
    <3>1. g[m] = <<>> \o <<digits[1]>>
      <4>1. 1 \in 1 .. n /\ 1 - 1 = 0
        BY <2>2, <2>3
      <4>2. g[1] = g[0] \o pieces[1]
        BY <1>8, <4>1
      <4> QED  BY <1>7, <1>8, <2>3, <4>2
    <3>2. <<digits[1]>> \in Seq(C)
      BY <1>5, <1>7, <2>2, <2>3
    <3>3. g[m] = <<digits[1]>>
      BY <3>1, <3>2, ConcatEmptySeq
    <3>4. Len(<<digits[1]>>) = 1 /\ <<digits[1]>>[1] = digits[1]
      OBVIOUS
    <3> QED  BY <2>2, <3>3, <3>4
  <2>4. CASE m # 1
    <3>1. m \in 1 .. n /\ m - 1 \in 1 .. n /\ m - 1 < m /\ m \in Nat /\ m - 1 \in Nat /\ m - 1 \in 0 .. n
      BY <1>1, <2>2, <2>4
    <3>2. Len(g[m - 1]) \in Nat \ {0} /\ g[m - 1][1] = digits[1]
      <4>1. m - 1 \notin U
        <5> HIDE DEF U
        <5> QED  BY <2>1, <3>1
      <4> QED  BY <3>1, <4>1
    <3>3. g[m] = g[m - 1] \o pieces[m] /\ g[m - 1] \in Seq(C) /\ pieces[m] \in Seq(C)
      BY <1>5, <1>8, <3>1
    <3>4. /\ Len(g[m]) = Len(g[m - 1]) + Len(pieces[m]) /\ Len(pieces[m]) \in Nat
          /\ \A i \in 1 .. Len(g[m - 1]) : g[m][i] = g[m - 1][i]
      <4> HIDE DEF C
      <4>1. PICK a \in Seq(C), b \in Seq(C) : a = g[m - 1] /\ b = pieces[m] /\ g[m] = a \o b
        BY <3>3
      <4>2. /\ Len(b) \in Nat /\ Len(a \o b) = Len(a) + Len(b)
            /\ \A i \in 1 .. Len(a) : (a \o b)[i] = a[i]
        BY ConcatIs
      <4> QED  BY <4>1, <4>2
    <3>5. 1 \in 1 .. Len(g[m - 1]) /\ Len(g[m]) \in Nat \ {0}
      <4>1. PICK p \in Nat \ {0}, r \in Nat : p = Len(g[m - 1]) /\ r = Len(pieces[m])
        BY <3>2, <3>4
      <4>2. p + r \in Nat \ {0} /\ 1 \in 1 .. p
        OBVIOUS
      <4> QED  BY <3>4, <4>1, <4>2
    <3> QED  BY <2>2, <3>2, <3>4, <3>5
  <2> QED  BY <2>3, <2>4
<1>13. n \in 0 .. n /\ n \in 1 .. n /\ 1 \in 1 .. n /\ Len(padded) = n
  BY <1>1
<1>14. Along(G, 0, text) = h[n] /\ Len(text) \in Nat \ {0} /\ text[1] = digits[1] /\ text \in Seq(C)
  <2>1. n \notin T /\ n \notin U
    <3> HIDE DEF T, U
    <3> QED  BY <1>11, <1>12
  <2> QED  BY <1>8, <1>13, <2>1
<1>15. h[n] = Along(TenTimes, 0, padded)
  <2> HIDE DEF n
  <2> QED  BY <1>1, <1>9, <1>13, AlongIs
<1>16. ReadDigits(text, picture) = Along(G, 0, text)
  <2>1. text \in Seq(X)
    <3>1. C \subseteq X
      OBVIOUS
    <3> HIDE DEF C, X
    <3> QED  BY <1>14, <3>1
  <2> QED  BY <2>1, ReadDigitsIs
<1>17. digits[1] \in Figures /\ digits[1].v = f
  <2>1. digits[1] = Figure(f, padded[1]) /\ padded[1] \in 0 .. 9
    BY <1>1, <1>3, <1>13
  <2> QED  BY <1>2, <2>1 DEF Figure, Figures
<1> QED
  BY <1>14, <1>15, <1>16, <1>17 DEF text, digits

\* A text whose first character is a digit of the picture is read by its
\* digits, and with a hyphen before it as less than zero.
LEMMA ParseDecimalIs ==
    ASSUME NEW picture, NEW text \in Seq(Characters), Len(text) \in Nat \ {0},
           text[1] \in Figures, text[1].v \in Families(picture)
    PROVE  /\ ReadDigits(text, picture) \in Nat
           /\ ParseDecimal(text, picture) = ReadAs(ReadDigits(text, picture))
           /\ ParseDecimal(<<Minus>> \o text, picture) = ReadAs(-ReadDigits(text, picture))
<1> DEFINE X == Characters \union {Minus}
           G == ReadDigit(picture)
           read(q) == {i \in DOMAIN q : IsRead(q[i], picture)}
           signs(q) == {i \in read(q) : q[i] = Minus}
           value(q) == ReadDigits(q, picture)
           Empty(q) == Families(picture) = {}
           Wrong(q) == Families(picture) # {} /\ (read(q) = signs(q) \/ \E i \in signs(q), j \in read(q) : j < i)
<1>1. ASSUME NEW q
      PROVE  ParseDecimal(q, picture) =
               CASE Empty(q) -> Malformed("D3130")
                 [] Wrong(q) -> Malformed("D3137")
                 [] OTHER -> ReadAs(IF signs(q) = {} THEN value(q) ELSE -value(q))
  BY Zenon DEF ParseDecimal
<1>2. DOMAIN text = 1 .. Len(text) /\ \A i \in 1 .. Len(text) : text[i] \in Characters /\ text[i] # Minus
  <2>1. ASSUME NEW i \in 1 .. Len(text) PROVE text[i] \in Characters /\ text[i] # Minus
    <3>1. text[i] \in Characters
      BY ElementOfSeq
    <3> QED  BY <3>1, CharacterFacts DEF Characters
  <2> QED  BY <2>1
<1>3. 1 \in 1 .. Len(text) /\ IsRead(text[1], picture)
  BY CharacterFacts DEF IsRead
<1>4. text \in Seq(X)
  <2>1. Characters \subseteq X
    OBVIOUS
  <2> HIDE DEF X
  <2> QED  BY <2>1
<1>5. value(text) \in Nat
  <2> DEFINE V == Nat
  <2>1. G \in Steps(V, X) /\ 0 \in V
    BY ReadDigitType
  <2>2. value(text) = Along(G, 0, text)
    BY <1>4, ReadDigitsIs
  <2> HIDE DEF V, G, X
  <2>3. value(text) \in V
    BY <1>4, <2>1, <2>2, AlongType
  <2> QED  BY <2>3 DEF V
<1>6. ParseDecimal(text, picture) = ReadAs(value(text))
  <2>1. signs(text) = {} /\ 1 \in read(text)
    BY <1>2, <1>3
  <2>2. ~Empty(text) /\ ~Wrong(text)
    <3> HIDE DEF read
    <3> QED  BY <2>1
  <2> HIDE DEF signs, value, Empty, Wrong
  <2> QED  BY <1>1, <2>1, <2>2
<1> DEFINE q == <<Minus>> \o text
<1>7. /\ DOMAIN q = 1 .. Len(text) + 1 /\ q[1] = Minus
      /\ \A i \in 1 .. Len(text) : q[i + 1] = text[i]
      /\ value(q) = value(text)
  <2>1. PICK m : m = <<Minus>>
    OBVIOUS
  <2>2. m \in Seq(X) /\ Len(m) = 1 /\ m[1] = Minus
    <3>1. Minus \in X
      OBVIOUS
    <3> HIDE DEF X
    <3> QED  BY <2>1, <3>1
  <2>3. /\ m \o text \in Seq(X) /\ Len(m \o text) = Len(m) + Len(text)
        /\ \A i \in 1 .. Len(m) : (m \o text)[i] = m[i]
        /\ \A i \in 1 .. Len(text) : (m \o text)[Len(m) + i] = text[i]
    <3> HIDE DEF X
    <3>1. PICK a \in Seq(X), b \in Seq(X) : a = m /\ b = text
      BY <1>4, <2>2
    <3>2. /\ a \o b \in Seq(X) /\ Len(a \o b) = Len(a) + Len(b)
          /\ \A i \in 1 .. Len(a) : (a \o b)[i] = a[i]
          /\ \A i \in 1 .. Len(b) : (a \o b)[Len(a) + i] = b[i]
      BY ConcatIs
    <3> QED  BY <3>1, <3>2
  <2>4. value(m \o text) = value(text)
    <3> DEFINE V == Nat
    <3>1. G \in Steps(V, X) /\ 0 \in V /\ Minus \in X
      BY ReadDigitType
    <3>2. G[<<0, Minus>>] = 0
      <4>1. 0 \in Nat /\ Minus \in X
        OBVIOUS
      <4> QED  BY <4>1, ReadDigitType
    <3>3. value(m \o text) = Along(G, 0, m \o text) /\ value(text) = Along(G, 0, text)
      BY <1>4, <2>3, ReadDigitsIs
    <3> HIDE DEF V, G, X, value
    <3>4. Along(G, 0, m) = 0
      BY <2>1, <3>1, <3>2, AlongOne
    <3>5. Along(G, 0, m \o text) = Along(G, 0, text)
      BY <1>4, <2>2, <3>1, <3>4, AlongConcat
    <3> QED  BY <3>3, <3>5
  <2>5. q = m \o text
    BY <2>1
  <2> HIDE DEF q, X, value
  <2>6. Len(q) = Len(text) + 1 /\ DOMAIN q = 1 .. Len(q)
    BY <2>2, <2>3, <2>5
  <2>7. q[1] = Minus
    <3>1. 1 \in 1 .. Len(m)
      BY <2>2
    <3> QED  BY <2>2, <2>3, <2>5, <3>1
  <2>8. ASSUME NEW i \in 1 .. Len(text) PROVE q[i + 1] = text[i]
    <3>1. q[1 + i] = text[i] /\ 1 + i = i + 1
      BY <2>2, <2>3, <2>5
    <3> QED  BY <3>1
  <2> QED  BY <2>4, <2>5, <2>6, <2>7, <2>8
<1> HIDE DEF q
<1>8. signs(q) = {1}
  <2>1. 1 \in signs(q)
    <3>1. 1 \in 1 .. Len(text) + 1
      OBVIOUS
    <3> QED  BY <1>7, <3>1, CharacterFacts
  <2>2. ASSUME NEW j \in signs(q), j # 1 PROVE FALSE
    <3>1. j \in 1 .. Len(text) + 1 /\ q[j] = Minus
      BY <1>7
    <3>2. j - 1 \in 1 .. Len(text) /\ (j - 1) + 1 = j
      BY <2>2, <3>1
    <3>3. q[(j - 1) + 1] = text[j - 1]
      BY <1>7, <3>2
    <3>4. text[j - 1] # Minus
      BY <1>2, <3>2
    <3> QED  BY <3>1, <3>2, <3>3, <3>4
  <2> HIDE DEF signs
  <2> QED  BY <2>1, <2>2
<1>9. 2 \in read(q) /\ \A j \in read(q) : ~(j < 1)
  <2>1. 2 \in DOMAIN q
    BY <1>3, <1>7
  <2>2. q[2] = text[1]
    <3>1. q[1 + 1] = text[1] /\ 1 + 1 = 2
      BY <1>3, <1>7
    <3> QED  BY <3>1
  <2>3. IsRead(q[2], picture)
    BY <1>3, <2>2
  <2>4. \A j \in DOMAIN q : ~(j < 1)
    BY <1>7
  <2> QED  BY <2>1, <2>3, <2>4
<1>10. ParseDecimal(q, picture) = ReadAs(-value(q))
  <2>1. ~Empty(q) /\ ~Wrong(q) /\ signs(q) # {}
    <3> HIDE DEF read, signs
    <3> QED  BY <1>8, <1>9
  <2> HIDE DEF signs, value, Empty, Wrong
  <2> QED  BY <1>1, <2>1
<1> QED
  BY <1>5, <1>6, <1>7, <1>10 DEF q

\* The suffix of an ordinal is a mark.
LEMMA ordinalSuffixType ==
    ASSUME NEW n \in Nat
    PROVE  ordinalSuffix(n) \in {<<c>> : c \in Marks}
<1> DEFINE last == IF n % 100 \in 11 .. 13 THEN "th"
                   ELSE CASE n % 10 = 1 -> "st" [] n % 10 = 2 -> "nd" [] n % 10 = 3 -> "rd"
                          [] OTHER -> "th"
           Teens == n % 100 \in 11 .. 13
           One == n % 10 = 1
           Two == n % 10 = 2
           Three == n % 10 = 3
<1>1. last \in OrdinalSuffixes
  <2>1. last = IF Teens THEN "th" ELSE CASE One -> "st" [] Two -> "nd" [] Three -> "rd" [] OTHER -> "th"
    BY Zenon
  <2> HIDE DEF last, Teens, One, Two, Three
  <2> QED  BY <2>1 DEF OrdinalSuffixes
<1>2. ordinalSuffix(n) = <<[c |-> "letters", v |-> last]>>
  BY Zenon DEF ordinalSuffix
<1> HIDE DEF last
<1>3. [c |-> "letters", v |-> last] \in Marks
  BY <1>1 DEF Marks
<1> QED
  BY <1>2, <1>3

\* What a decimal picture writes, with or without the suffix of an ordinal, is
\* read as the number, and with a hyphen before it as its negative.
THEOREM DecimalsReadBack ==
    ASSUME NEW n \in Nat, NEW picture \in Seq(Places), NEW ordinal \in BOOLEAN,
           Families(picture) # {}, "error" \notin DOMAIN formatIntegerDecimal(n, picture)
    PROVE  LET text == formatIntegerDecimal(n, picture).digits
                         \o (IF ordinal THEN ordinalSuffix(n) ELSE <<>>)
           IN /\ ParseDecimal(text, picture) = ReadAs(n)
              /\ ParseDecimal(<<Minus>> \o text, picture) = ReadAs(-n)
<1> DEFINE mandatory == Cardinality({i \in DOMAIN picture : IsDigit(picture[i])})
           plain == DecimalDigits[n]
           k == IF mandatory > Len(plain) THEN mandatory - Len(plain) ELSE 0
           padded == [i \in 1 .. k |-> 0] \o plain
           family == IF Families(picture) = {} THEN "0" ELSE CHOOSE f \in Families(picture) : TRUE
           digits == [i \in DOMAIN padded |-> [c |-> "digit", v |-> family, d |-> padded[i]]]
           grouped == applyIntegerGrouping(digits, picture)
           suffix == IF ordinal THEN ordinalSuffix(n) ELSE <<>>
<1>1. k \in Nat
  <2>1. mandatory \in Nat
    <3> DEFINE S == {i \in DOMAIN picture : IsDigit(picture[i])}
    <3>1. IsFiniteSet(1 .. Len(picture))
      <4>1. 1 \in Int /\ Len(picture) \in Int
        OBVIOUS
      <4> QED  BY <4>1, FS_Interval
    <3>2. S \subseteq 1 .. Len(picture)
      OBVIOUS
    <3>3. IsFiniteSet(S)
      BY <3>1, <3>2, FS_Subset
    <3> QED  BY <3>3, FS_CardinalityType
  <2>2. Len(plain) \in Nat
    BY DecimalDigitsIs DEF Numerals
  <2> HIDE DEF mandatory, plain
  <2> QED  BY <2>1, <2>2
<1>2. padded \in Numerals /\ Along(TenTimes, 0, padded) = n
  <2> HIDE DEF k
  <2> QED  BY <1>1, ZerosValue
<1>3. PICK f \in Families(picture) : f = family
  OBVIOUS
<1> DEFINE Two == \E f1, f2 \in Families(picture) : f1 # f2
<1>4. formatIntegerDecimal(n, picture) = IF Two THEN Malformed("D3131") ELSE [digits |-> grouped]
  BY Zenon DEF formatIntegerDecimal
<1>5. formatIntegerDecimal(n, picture) = [digits |-> grouped]
  <2>1. "error" \in DOMAIN Malformed("D3131")
    BY DEF Malformed
  <2> HIDE DEF Two, grouped
  <2> QED  BY <1>4, <2>1
<1>6. /\ grouped \in Seq(Characters) /\ Len(grouped) \in Nat \ {0}
      /\ grouped[1] \in Figures /\ grouped[1].v = f
      /\ ReadDigits(grouped, picture) = n
  <2> HIDE DEF padded, family
  <2>1. digits = [i \in DOMAIN padded |-> [c |-> "digit", v |-> f, d |-> padded[i]]]
    BY <1>3
  <2>2. LET ds == [i \in DOMAIN padded |-> [c |-> "digit", v |-> f, d |-> padded[i]]]
            text == applyIntegerGrouping(ds, picture)
        IN /\ text \in Seq(Characters) /\ Len(text) \in Nat \ {0}
           /\ text[1] \in Figures /\ text[1].v = f
           /\ ReadDigits(text, picture) = Along(TenTimes, 0, padded)
    BY <1>2, GroupingRead, Zenon
  <2> HIDE DEF digits
  <2> QED  BY <1>2, <2>1, <2>2
<1>7. suffix \in {<<>>} \union {<<c>> : c \in Marks}
  BY ordinalSuffixType
<1> HIDE DEF k, padded, family, digits, grouped, suffix
<1> DEFINE text == grouped \o suffix
           X == Characters \union {Minus}
           G == ReadDigit(picture)
<1>8. suffix \in Seq(Characters) /\ suffix \in Seq(X) /\ Along(G, n, suffix) = n
  BY <1>7, MarkRead
<1>9. /\ text \in Seq(Characters) /\ Len(text) \in Nat \ {0} /\ text[1] = grouped[1]
  <2>1. /\ text \in Seq(Characters) /\ Len(text) = Len(grouped) + Len(suffix) /\ Len(suffix) \in Nat
        /\ \A i \in 1 .. Len(grouped) : text[i] = grouped[i]
    BY <1>6, <1>8, ConcatIs
  <2> HIDE DEF text
  <2>2. PICK p \in Nat \ {0}, r \in Nat : p = Len(grouped) /\ r = Len(suffix)
    BY <1>6, <2>1
  <2>3. p + r \in Nat \ {0} /\ 1 \in 1 .. p
    OBVIOUS
  <2> QED  BY <2>1, <2>2, <2>3
<1>10. ReadDigits(text, picture) = n
  <2> DEFINE V == Nat
  <2>1. G \in Steps(V, X) /\ 0 \in V
    BY ReadDigitType
  <2>2. grouped \in Seq(X) /\ text \in Seq(X)
    <3>1. Characters \subseteq X
      OBVIOUS
    <3> HIDE DEF X, text
    <3> QED  BY <1>6, <1>9, <3>1
  <2>3. ReadDigits(grouped, picture) = Along(G, 0, grouped) /\ ReadDigits(text, picture) = Along(G, 0, text)
    BY <2>2, ReadDigitsIs
  <2> HIDE DEF V, G, X
  <2>4. Along(G, 0, text) = Along(G, n, suffix)
    BY <1>6, <1>8, <2>1, <2>2, <2>3, AlongConcat
  <2> QED  BY <1>8, <2>3, <2>4
<1>11. text[1] \in Figures /\ text[1].v \in Families(picture)
  BY <1>3, <1>6, <1>9
<1> HIDE DEF text
<1>12. ParseDecimal(text, picture) = ReadAs(n) /\ ParseDecimal(<<Minus>> \o text, picture) = ReadAs(-n)
  BY <1>9, <1>10, <1>11, ParseDecimalIs
<1> QED
  BY <1>5, <1>12 DEF text, suffix

Pictures == [kind : {"words", "roman", "letter", "decimal"}, ordinal : BOOLEAN, decimal : Seq(Places)]

\* What parseIntegerWithPicture gives for what formatIntegerWithPicture wrote.
ReadBack(n, p) ==
  CASE p.kind = "words" -> ReadAs(AbsValue(n))
    [] p.kind \in {"roman", "letter"} /\ n < 0 -> Malformed("D3137")
    [] p.kind = "decimal" /\ Families(p.decimal) = {} -> Malformed("D3130")
    [] OTHER -> ReadAs(n)

\* Whatever kind of picture it is, the reader gets back the number, or says why not.
LEMMA FormatThenParse ==
    ASSUME NEW n \in Int, NEW p \in Pictures, "text" \in DOMAIN formatIntegerWithPicture(n, p)
    PROVE  parseIntegerWithPicture(formatIntegerWithPicture(n, p), p) = ReadBack(n, p)
<1> DEFINE m == AbsValue(n)
           P == p.decimal
           K == p.kind
           written == formatIntegerWithPicture(n, p)
           decimal == formatIntegerDecimal(m, P)
           NoPlace == ~\E i \in DOMAIN P : IsPlace(P[i])
           Signed(text) == IF n < 0 THEN <<Minus>> \o text ELSE text
<1>1. /\ m \in Nat /\ (n < 0 => m = -n /\ -m = n) /\ (~(n < 0) => m = n)
      /\ p.ordinal \in BOOLEAN /\ P \in Seq(Places) /\ K \in {"words", "roman", "letter", "decimal"}
  BY DEF AbsValue, Pictures
<1>2. \A text : Written(n, text).negative = (n < 0) /\ Written(n, text).text = text
  BY DEF Written
<1>3. written = CASE K = "words" -> Written(n, IF p.ordinal THEN applyOrdinalWord(bigIntToWords[m]) ELSE bigIntToWords[m])
                  [] K = "roman" -> Written(n, toRoman[m])
                  [] K = "letter" -> Written(n, bigIntToAlphabetic[m])
                  [] K = "decimal" /\ NoPlace -> Malformed("D3130")
                  [] OTHER -> IF "error" \in DOMAIN decimal THEN decimal
                              ELSE Written(n, decimal.digits \o (IF p.ordinal THEN ordinalSuffix(m) ELSE <<>>))
  BY Zenon DEF formatIntegerWithPicture
<1>4. parseIntegerWithPicture(written, p) =
        CASE K = "words" -> ReadAs(wordsToBigInt(written.text))
          [] K \in {"roman", "letter"} /\ written.negative -> Malformed("D3137")
          [] K = "roman" /\ ~written.negative -> ReadAs(fromRoman(written.text))
          [] K = "letter" /\ ~written.negative -> ReadAs(FromAlphabetic(written.text))
          [] OTHER -> ParseDecimal(IF written.negative THEN <<Minus>> \o written.text ELSE written.text, P)
  BY Zenon DEF parseIntegerWithPicture
<1>5. ReadBack(n, p) =
        CASE K = "words" -> ReadAs(m)
          [] K \in {"roman", "letter"} /\ n < 0 -> Malformed("D3137")
          [] K = "decimal" /\ Families(P) = {} -> Malformed("D3130")
          [] OTHER -> ReadAs(n)
  BY Zenon DEF ReadBack
<1> HIDE DEF m, written, decimal, P, K, NoPlace
<1>6. CASE K = "words"
  <2> DEFINE text == IF p.ordinal THEN applyOrdinalWord(bigIntToWords[m]) ELSE bigIntToWords[m]
  <2>1. written = Written(n, text)
    <3> HIDE DEF text
    <3> QED  BY <1>3, <1>6 DEF text
  <2>2. wordsToBigInt(text) = m
    BY <1>1, WordsReadBack
  <2> HIDE DEF text
  <2>3. written.text = text
    BY <1>2, <2>1
  <2> QED  BY <1>4, <1>5, <1>6, <2>2, <2>3 DEF written
<1>7. CASE K = "roman"
  <2>1. written = Written(n, toRoman[m])
    BY <1>3, <1>7
  <2>2. written.negative = (n < 0) /\ written.text = toRoman[m]
    BY <1>2, <2>1
  <2>3. fromRoman(toRoman[m]) = m
    BY <1>1, RomansReadBack
  <2>4. CASE n < 0
    BY <1>4, <1>5, <1>7, <2>2, <2>4 DEF written
  <2>5. CASE ~(n < 0)
    BY <1>1, <1>4, <1>5, <1>7, <2>2, <2>3, <2>5 DEF written
  <2> QED  BY <2>4, <2>5
<1>8. CASE K = "letter"
  <2>1. written = Written(n, bigIntToAlphabetic[m])
    BY <1>3, <1>8
  <2>2. written.negative = (n < 0) /\ written.text = bigIntToAlphabetic[m]
    BY <1>2, <2>1
  <2>3. FromAlphabetic(bigIntToAlphabetic[m]) = m
    BY <1>1, LettersReadBack
  <2>4. CASE n < 0
    BY <1>4, <1>5, <1>8, <2>2, <2>4 DEF written
  <2>5. CASE ~(n < 0)
    BY <1>1, <1>4, <1>5, <1>8, <2>2, <2>3, <2>5 DEF written
  <2> QED  BY <2>4, <2>5
<1>9. CASE K = "decimal"
  <2> DEFINE text == decimal.digits \o (IF p.ordinal THEN ordinalSuffix(m) ELSE <<>>)
  <2>1. written \in {Malformed("D3130"), decimal, Written(n, text)}
    <3> HIDE DEF text
    <3> QED  BY <1>3, <1>9 DEF text
  <2>2. "error" \notin DOMAIN decimal /\ written = Written(n, text)
    <3>1. "text" \notin DOMAIN Malformed("D3130") /\ "text" \notin DOMAIN Malformed("D3131")
      BY DEF Malformed
    <3>2. decimal = Malformed("D3131") \/ \E digits : decimal = [digits |-> digits]
      BY DEF decimal, formatIntegerDecimal
    <3>3. "text" \notin DOMAIN decimal
      BY <3>1, <3>2
    <3>4. "text" \in DOMAIN written
      BY DEF written
    <3>5. written = Written(n, text)
      <4> HIDE DEF text
      <4> QED  BY <2>1, <3>1, <3>3, <3>4
    <3>6. "error" \in DOMAIN decimal => written \in {Malformed("D3130"), decimal}
      <4> HIDE DEF text
      <4> QED  BY <1>3, <1>9
    <3>7. "error" \notin DOMAIN decimal
      BY <3>1, <3>3, <3>4, <3>6
    <3> QED  BY <3>5, <3>7
  <2> HIDE DEF text
  <2>3. written.negative = (n < 0) /\ written.text = text
    BY <1>2, <2>2
  <2>4. parseIntegerWithPicture(written, p) = ParseDecimal(Signed(text), P)
    BY <1>4, <1>9, <2>3
  <2>5. CASE Families(P) = {}
    <3>1. \A q : ParseDecimal(q, P) = Malformed("D3130")
      BY <2>5 DEF ParseDecimal
    <3> QED  BY <1>5, <1>9, <2>4, <2>5, <3>1 DEF written
  <2>6. CASE Families(P) # {}
    <3>1. ParseDecimal(text, P) = ReadAs(m) /\ ParseDecimal(<<Minus>> \o text, P) = ReadAs(-m)
      BY <1>1, <2>2, <2>6, DecimalsReadBack DEF text, decimal
    <3>2. ParseDecimal(Signed(text), P) = ReadAs(n)
      BY <1>1, <3>1
    <3> QED  BY <1>5, <1>9, <2>4, <2>6, <3>2 DEF written
  <2> QED  BY <2>5, <2>6
<1> QED
  BY <1>1, <1>6, <1>7, <1>8, <1>9

IntegersIInv ==
  /\ call.op = "formatInteger" =>
       \E c \in IntegerCalls : /\ call = [op |-> "formatInteger", args |-> c]
                               /\ result = formatIntegerWithPicture(c[1], c[2])
  /\ IntegersReadBack

\* The text that waits to be read is the one that was written.
LEMMA IntegersInductive == IntegersSpec => []IntegersIInv
<1>1. LanguageInit => IntegersIInv
  BY DEF LanguageInit, IntegersIInv, IntegersReadBack, Idle
<1>2. IntegersIInv /\ [IntegersNext]_languageVars => IntegersIInv'
  <2> SUFFICES ASSUME IntegersIInv, [IntegersNext]_languageVars PROVE IntegersIInv'
    OBVIOUS
  <2>1. CASE FormatInteger
    <3>1. PICK c \in IntegerCalls : Begin("formatInteger", c, formatIntegerWithPicture(c[1], c[2]))
      BY <2>1 DEF FormatInteger
    <3>2. /\ call' = [op |-> "formatInteger", args |-> c]
          /\ result' = formatIntegerWithPicture(c[1], c[2])
      BY <3>1 DEF Begin
    <3>3. call'.op = "formatInteger" /\ call'.op # "parseInteger"
      BY <3>2
    <3> QED  BY <3>2, <3>3 DEF IntegersIInv, IntegersReadBack
  <2>2. CASE ParseInteger
    <3>1. /\ call.op = "formatInteger" /\ "text" \in DOMAIN result
          /\ call' = [call EXCEPT !.op = "parseInteger"]
          /\ result' = parseIntegerWithPicture(result, call.args[2])
      BY <2>2 DEF ParseInteger, Continue
    <3>2. PICK c \in IntegerCalls : /\ call = [op |-> "formatInteger", args |-> c]
                                    /\ result = formatIntegerWithPicture(c[1], c[2])
      BY <3>1 DEF IntegersIInv
    <3>3. c[1] \in Int /\ c[2] \in Pictures
      BY IntegerCallsAssumption DEF Pictures, Places
    <3>4. call'.op = "parseInteger" /\ call'.args = c /\ call.args = c
      BY <3>1, <3>2
    <3>5. result' = ReadBack(c[1], c[2])
      BY <3>1, <3>2, <3>3, <3>4, FormatThenParse
    <3> QED  BY <3>4, <3>5 DEF IntegersIInv, IntegersReadBack, ReadBack
  <2>3. CASE Return
    BY <2>3 DEF Return, Idle, IntegersIInv, IntegersReadBack
  <2>5. CASE AnotherThan({"formatInteger", "parseInteger"})
    BY <2>5 DEF AnotherThan, IntegersIInv, IntegersReadBack
  <2>4. CASE UNCHANGED languageVars
    BY <2>4 DEF languageVars, IntegersIInv, IntegersReadBack
  <2> QED  BY <2>1, <2>2, <2>3, <2>4, <2>5 DEF IntegersNext
<1> QED
  BY <1>1, <1>2, PTL DEF IntegersSpec

\* Every number that is written, the reader gets back.
THEOREM EveryIntegerReadBack == IntegersSpec => []IntegersReadBack
<1>1. IntegersIInv => IntegersReadBack
  BY DEF IntegersIInv
<1> QED
  BY <1>1, IntegersInductive, PTL
=============================================================================
