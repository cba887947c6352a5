---------------------------- MODULE ProofLemmas -----------------------------
(* Facts about data that the proofs of several components rest on.           *)
EXTENDS Integers, SequencesExt, FiniteSetsExt, SequenceTheorems, FiniteSetTheorems,
        WellFoundedInduction, Totals, TLAPS

\* Every nonempty set of naturals has a least element, and Min picks it.
LEMMA MinOfNaturals ==
  ASSUME NEW S \in SUBSET Nat, S # {}
  PROVE  /\ Min(S) \in S
         /\ \A y \in S : Min(S) <= y
<1>1. PICK x \in S : \A y \in S : ~ (<<y, x>> \in OpToRel(<, Nat))
  BY NatLessThanWellFounded, WFMin
<1>2. \A y \in S : y < x => <<y, x>> \in OpToRel(<, Nat)
  BY DEF OpToRel
<1>3. \A y \in S : x <= y
  <2> SUFFICES ASSUME NEW y \in S, y < x PROVE FALSE
    OBVIOUS
  <2> QED
    BY <1>1, <1>2
<1> QED
  BY <1>3 DEF Min

\* A nonempty set of naturals with an upper bound has a greatest element, and
\* Max picks it: it is the bound less the least distance to it.
LEMMA MaxOfBoundedNaturals ==
  ASSUME NEW S \in SUBSET Nat, S # {}, NEW b \in Nat, \A y \in S : y <= b
  PROVE  /\ Max(S) \in S
         /\ \A y \in S : y <= Max(S)
<1> DEFINE D == {b - y : y \in S}
<1>1. D \in SUBSET Nat /\ D # {}
  <2>1. \A y \in S : b - y \in Nat
    OBVIOUS
  <2>2. PICK z : z \in S
    OBVIOUS
  <2>3. b - z \in D
    BY <2>2
  <2> QED
    BY <2>1, <2>3
<1>2. Min(D) \in D /\ \A d \in D : Min(D) <= d
  BY <1>1, MinOfNaturals
<1>3. PICK x \in S : Min(D) = b - x
  BY <1>2
<1>4. \A y \in S : y <= x
  <2> SUFFICES ASSUME NEW y \in S PROVE y <= x
    OBVIOUS
  <2>1. Min(D) <= b - y
    BY <1>2
  <2> QED
    BY <2>1, <1>3
<1> QED
  BY <1>4 DEF Max

\* A piece of a sequence is a sequence over the same set.
LEMMA SubSeqType ==
  ASSUME NEW S, NEW s \in Seq(S), NEW m \in Nat \ {0}, NEW n \in Int, n <= Len(s)
  PROVE  SubSeq(s, m, n) \in Seq(S)
<1>1. \A i \in m..n : s[i] \in S
  BY ElementOfSeq
<1> QED
  BY <1>1, SubSeqProperties

\* Appending to a sequence, written as a function of its indexes.
LEMMA AppendAsFunction ==
  ASSUME NEW S, NEW s \in Seq(S), NEW e \in S
  PROVE  Append(s, e) = [i \in 1..(Len(s) + 1) |-> IF i = Len(s) + 1 THEN e ELSE s[i]]
<1> DEFINE longer == [i \in 1..(Len(s) + 1) |-> IF i = Len(s) + 1 THEN e ELSE s[i]]
<1>1. Len(s) \in Nat /\ \A i \in 1..Len(s) : s[i] \in S
  BY LenProperties, ElementOfSeq
<1>2. longer \in [1..(Len(s) + 1) -> S]
  BY <1>1
<1>3. longer \in Seq(S) /\ Len(longer) = Len(s) + 1
  <2> HIDE DEF longer
  <2>1. longer \in Seq(S)
    BY <1>1, <1>2, SeqDef
  <2>2. DOMAIN longer = 1..Len(longer) /\ Len(longer) \in Nat
    BY <2>1, LenProperties
  <2> QED
    BY <1>1, <1>2, <2>1, <2>2
<1>4. /\ Append(s, e) \in Seq(S) /\ Len(Append(s, e)) = Len(s) + 1
      /\ \A i \in 1..Len(s) : Append(s, e)[i] = s[i]
      /\ Append(s, e)[Len(s) + 1] = e
  BY <1>1, AppendProperties
<1>5. \A i \in 1..(Len(s) + 1) : Append(s, e)[i] = longer[i]
  BY <1>1, <1>4
<1> QED
  BY <1>3, <1>4, <1>5, SeqEqual

-----------------------------------------------------------------------------
(* Sums.  A recursive function is what CHOOSE picks among those that satisfy *)
(* its equation; that there is one, and only one, is shown by looking at the *)
(* least place where this would fail.                                        *)
Sums(f, n, g) == g = [i \in 0..n |-> IF i = 0 THEN 0 ELSE g[i - 1] + f[i]]

LEMMA SumsExist ==
  ASSUME NEW n \in Nat, NEW f, \A i \in 1..n : f[i] \in Int
  PROVE  \E g \in [0..n -> Int] : Sums(f, n, g)
<1> DEFINE Fails == {m \in 0..n : ~ \E g \in [0..m -> Int] : Sums(f, m, g)}
<1> SUFFICES ASSUME Fails # {} PROVE FALSE
  BY n \in 0..n
<1> DEFINE m == Min(Fails)
<1>1. m \in Fails /\ \A y \in Fails : m <= y
  <2>1. Fails \in SUBSET Nat
    OBVIOUS
  <2> HIDE DEF Fails
  <2> QED
    BY <2>1, MinOfNaturals
<1> HIDE DEF m
<1>2. m # 0
  <2>1. [i \in 0..0 |-> 0] \in [0..0 -> Int] /\ Sums(f, 0, [i \in 0..0 |-> 0])
    BY DEF Sums
  <2> QED
    BY <1>1, <2>1
<1>3. m - 1 \in 0..n /\ m \in Nat /\ m - 1 \notin Fails
  BY <1>1, <1>2
<1>4. PICK g \in [0..m - 1 -> Int] : Sums(f, m - 1, g)
  BY <1>3
<1> DEFINE h == [i \in 0..m |-> IF i = m THEN g[m - 1] + f[m] ELSE g[i]]
<1>5. \A i \in 0..m - 1 : h[i] = g[i]
  BY <1>3
<1>6. \A i \in 0..m - 1 : g[i] = IF i = 0 THEN 0 ELSE g[i - 1] + f[i]
  BY <1>4 DEF Sums
<1>7. \A i \in 0..m : h[i] = IF i = 0 THEN 0 ELSE h[i - 1] + f[i]
  BY <1>2, <1>3, <1>5, <1>6
<1>8. h \in [0..m -> Int]
  BY <1>1, <1>2, <1>3, <1>4
<1>9. Sums(f, m, h)
  BY <1>7, <1>8 DEF Sums
<1> QED
  BY <1>1, <1>8, <1>9

LEMMA SumsAgree ==
  ASSUME NEW n \in Nat, NEW k \in 0..n, NEW f, NEW d, NEW g, NEW h,
         Sums(f, n, g), Sums(d, k, h), \A i \in 1..k : f[i] = d[i]
  PROVE  g[k] = h[k]
<1> DEFINE Differ == {i \in 0..k : g[i] # h[i]}
<1> SUFFICES ASSUME Differ # {} PROVE FALSE
  OBVIOUS
<1> DEFINE m == Min(Differ)
<1>1. m \in Differ /\ \A y \in Differ : m <= y
  <2>1. Differ \in SUBSET Nat
    OBVIOUS
  <2> HIDE DEF Differ
  <2> QED
    BY <2>1, MinOfNaturals
<1> HIDE DEF m
<1>2. \A i \in 0..n : g[i] = IF i = 0 THEN 0 ELSE g[i - 1] + f[i]
  BY DEF Sums
<1>3. \A i \in 0..k : h[i] = IF i = 0 THEN 0 ELSE h[i - 1] + d[i]
  BY DEF Sums
<1>4. m # 0
  BY <1>1, <1>2, <1>3
<1>5. m - 1 \in 0..k /\ m - 1 \notin Differ /\ m \in 1..k
  BY <1>1, <1>4
<1> QED
  BY <1>1, <1>2, <1>3, <1>4, <1>5

LEMMA TotalIsSum ==
  ASSUME NEW n \in Nat, NEW f, \A i \in 1..n : f[i] \in Int
  PROVE  \E g \in [0..n -> Int] : Sums(f, n, g) /\ Total(f, n) = g[n]
<1>1. PICK g \in [0..n -> Int] : Sums(f, n, g)
  BY SumsExist
<1> DEFINE c == CHOOSE h : Sums(f, n, h)
<1>2. Sums(f, n, c)
  BY <1>1
<1>3. Total(f, n) = c[n]
  BY DEF Total, Sums
<1>4. c[n] = g[n]
  BY <1>1, <1>2, SumsAgree, n \in 0..n
<1> QED
  BY <1>1, <1>3, <1>4

\* The sum grows by the number at its end, and depends on the numbers summed only.
LEMMA TotalFacts ==
  ASSUME NEW n \in Nat, NEW f, \A i \in 1..n : f[i] \in Int
  PROVE  /\ Total(f, n) \in Int
         /\ n = 0 => Total(f, n) = 0
         /\ n # 0 => Total(f, n) = Total(f, n - 1) + f[n]
<1>1. PICK g \in [0..n -> Int] : Sums(f, n, g) /\ Total(f, n) = g[n]
  BY TotalIsSum
<1>2. g[n] = IF n = 0 THEN 0 ELSE g[n - 1] + f[n]
  BY <1>1 DEF Sums
<1>3. CASE n = 0
  BY <1>1, <1>2, <1>3
<1>4. CASE n # 0
  <2>1. n - 1 \in Nat /\ n - 1 \in 0..n /\ \A i \in 1..n - 1 : f[i] \in Int
    BY <1>4
  <2>2. PICK h \in [0..n - 1 -> Int] : Sums(f, n - 1, h) /\ Total(f, n - 1) = h[n - 1]
    BY <2>1, TotalIsSum
  <2>3. g[n - 1] = h[n - 1]
    BY <1>1, <2>1, <2>2, SumsAgree
  <2> QED
    BY <1>1, <1>2, <1>4, <2>2, <2>3
<1> QED
  BY <1>3, <1>4

LEMMA TotalSame ==
  ASSUME NEW n \in Nat, NEW f, NEW d, \A i \in 1..n : f[i] \in Int /\ f[i] = d[i]
  PROVE  Total(f, n) = Total(d, n)
<1>1. PICK g \in [0..n -> Int] : Sums(f, n, g) /\ Total(f, n) = g[n]
  BY TotalIsSum
<1>2. PICK h \in [0..n -> Int] : Sums(d, n, h) /\ Total(d, n) = h[n]
  BY TotalIsSum
<1> QED
  BY <1>1, <1>2, SumsAgree, n \in 0..n

\* Powers, in the same way.
Powers(b, n, g) == g = [i \in 0..n |-> IF i = 0 THEN 1 ELSE b * g[i - 1]]

LEMMA PowersExist ==
  ASSUME NEW n \in Nat, NEW b \in Nat
  PROVE  \E g \in [0..n -> Nat] : Powers(b, n, g)
<1> DEFINE Fails == {m \in 0..n : ~ \E g \in [0..m -> Nat] : Powers(b, m, g)}
<1> SUFFICES ASSUME Fails # {} PROVE FALSE
  BY n \in 0..n
<1> DEFINE m == Min(Fails)
<1>1. m \in Fails /\ \A y \in Fails : m <= y
  <2>1. Fails \in SUBSET Nat
    OBVIOUS
  <2> HIDE DEF Fails
  <2> QED
    BY <2>1, MinOfNaturals
<1> HIDE DEF m
<1>2. m # 0
  <2>1. [i \in 0..0 |-> 1] \in [0..0 -> Nat] /\ Powers(b, 0, [i \in 0..0 |-> 1])
    BY DEF Powers
  <2> QED
    BY <1>1, <2>1
<1>3. m - 1 \in 0..n /\ m \in Nat /\ m - 1 \notin Fails
  <2>1. m \in 0..n
    BY <1>1
  <2> HIDE DEF Fails
  <2> QED
    BY <1>1, <1>2, <2>1
<1>4. PICK g \in [0..m - 1 -> Nat] : Powers(b, m - 1, g)
  BY <1>3
<1> DEFINE p == b * g[m - 1]
           h == [i \in 0..m |-> IF i = m THEN p ELSE g[i]]
<1>5. p \in Nat
  <2>1. g[m - 1] \in Nat
    BY <1>3, <1>4
  <2> QED
    BY <2>1
<1>6. \A i \in 0..m - 1 : h[i] = g[i]
  BY <1>3
<1>7. \A i \in 0..m - 1 : g[i] = IF i = 0 THEN 1 ELSE b * g[i - 1]
  BY <1>4 DEF Powers
<1>8. ASSUME NEW i \in 0..m PROVE h[i] = IF i = 0 THEN 1 ELSE b * h[i - 1]
  <2>1. CASE i = m
    BY <1>2, <1>3, <1>6, <2>1
  <2>2. CASE i # m
    <3>1. i \in 0..m - 1 /\ (i # 0 => i - 1 \in 0..m - 1)
      BY <1>3, <2>2
    <3> HIDE DEF h
    <3> QED
      BY <1>6, <1>7, <3>1
  <2> QED
    BY <2>1, <2>2
<1>9. h \in [0..m -> Nat]
  <2> HIDE DEF p
  <2> QED
    BY <1>1, <1>2, <1>3, <1>4, <1>5
<1>10. Powers(b, m, h)
  <2>1. DOMAIN h = 0..m /\ h = [i \in DOMAIN h |-> h[i]]
    OBVIOUS
  <2> HIDE DEF h
  <2> QED
    BY <1>8, <2>1 DEF Powers
<1> QED
  BY <1>1, <1>9, <1>10

LEMMA PowersAgree ==
  ASSUME NEW n \in Nat, NEW k \in 0..n, NEW b, NEW g, NEW h, Powers(b, n, g), Powers(b, k, h)
  PROVE  g[k] = h[k]
<1> DEFINE Differ == {i \in 0..k : g[i] # h[i]}
<1> SUFFICES ASSUME Differ # {} PROVE FALSE
  OBVIOUS
<1> DEFINE m == Min(Differ)
<1>1. m \in Differ /\ \A y \in Differ : m <= y
  <2>1. Differ \in SUBSET Nat
    OBVIOUS
  <2> HIDE DEF Differ
  <2> QED
    BY <2>1, MinOfNaturals
<1> HIDE DEF m
<1>2. \A i \in 0..n : g[i] = IF i = 0 THEN 1 ELSE b * g[i - 1]
  BY DEF Powers
<1>3. \A i \in 0..k : h[i] = IF i = 0 THEN 1 ELSE b * h[i - 1]
  BY DEF Powers
<1>4. m # 0
  BY <1>1, <1>2, <1>3
<1>5. m - 1 \in 0..k /\ m - 1 \notin Differ /\ m \in 1..k
  BY <1>1, <1>4
<1> QED
  BY <1>1, <1>2, <1>3, <1>4, <1>5

LEMMA PowerIs ==
  ASSUME NEW n \in Nat, NEW b \in Nat
  PROVE  \E g \in [0..n -> Nat] : Powers(b, n, g) /\ Power(b, n) = g[n]
<1>1. PICK g \in [0..n -> Nat] : Powers(b, n, g)
  BY PowersExist
<1> DEFINE c == CHOOSE h : Powers(b, n, h)
<1>2. Powers(b, n, c)
  BY <1>1
<1>3. Power(b, n) = c[n]
  BY DEF Power, Powers
<1>4. c[n] = g[n]
  BY <1>1, <1>2, PowersAgree, n \in 0..n
<1> QED
  BY <1>1, <1>3, <1>4

LEMMA PowerFacts ==
  ASSUME NEW n \in Nat, NEW b \in Nat
  PROVE  /\ Power(b, n) \in Nat
         /\ n = 0 => Power(b, n) = 1
         /\ Power(b, n + 1) = b * Power(b, n)
<1>1. PICK g \in [0..n + 1 -> Nat] : Powers(b, n + 1, g) /\ Power(b, n + 1) = g[n + 1]
  <2>1. n + 1 \in Nat
    OBVIOUS
  <2> QED
    BY <2>1, PowerIs
<1>2. PICK h \in [0..n -> Nat] : Powers(b, n, h) /\ Power(b, n) = h[n]
  BY PowerIs
<1>3. g[n] = h[n]
  BY <1>1, <1>2, PowersAgree
<1>4. g[n + 1] = b * g[n]
  <2>1. \A i \in 0..n + 1 : g[i] = IF i = 0 THEN 1 ELSE b * g[i - 1]
    BY <1>1 DEF Powers
  <2>2. n + 1 \in 0..n + 1 /\ n + 1 # 0 /\ n + 1 - 1 = n
    OBVIOUS
  <2> QED
    BY <2>1, <2>2
<1>5. n = 0 => h[n] = 1
  BY <1>2 DEF Powers
<1>6. h[n] \in Nat
  BY <1>2
<1> QED
  BY <1>1, <1>2, <1>3, <1>4, <1>5, <1>6

\* An element is taken out of a sequence.
LEMMA ElementRemoved ==
  ASSUME NEW S, NEW s \in Seq(S), NEW i \in 1..Len(s)
  PROVE  /\ RemoveAt(s, i) \in Seq(S) /\ Len(RemoveAt(s, i)) = Len(s) - 1
         /\ \A j \in 1..Len(s) - 1 : RemoveAt(s, i)[j] = IF j < i THEN s[j] ELSE s[j + 1]
<1> DEFINE front == SubSeq(s, 1, i - 1)
           back  == SubSeq(s, i + 1, Len(s))
<1>1. Len(s) \in Nat /\ i \in Nat /\ 1 <= i /\ i <= Len(s) /\ \A j \in 1..Len(s) : s[j] \in S
  OBVIOUS
<1>2. /\ front \in Seq(S) /\ Len(front) = i - 1
      /\ \A j \in 1..i - 1 : front[j] = s[j]
  <2>1. \A j \in 1..i - 1 : s[j] \in S
    BY <1>1
  <2>2. /\ front \in Seq(S) /\ Len(front) = IF 1 <= i - 1 THEN i - 1 - 1 + 1 ELSE 0
        /\ \A j \in 1..i - 1 - 1 + 1 : front[j] = s[1 + j - 1]
    BY <1>1, <2>1, SubSeqProperties
  <2>3. i - 1 - 1 + 1 = i - 1 /\ \A j \in 1..i - 1 : 1 + j - 1 = j
    BY <1>1
  <2> HIDE DEF front
  <2> QED
    BY <1>1, <2>2, <2>3
<1>3. /\ back \in Seq(S) /\ Len(back) = Len(s) - i
      /\ \A j \in 1..Len(s) - i : back[j] = s[i + j]
  <2>1. \A j \in i + 1..Len(s) : s[j] \in S
    BY <1>1
  <2>2. /\ back \in Seq(S) /\ Len(back) = IF i + 1 <= Len(s) THEN Len(s) - (i + 1) + 1 ELSE 0
        /\ \A j \in 1..Len(s) - (i + 1) + 1 : back[j] = s[i + 1 + j - 1]
    BY <1>1, <2>1, SubSeqProperties
  <2>3. Len(s) - (i + 1) + 1 = Len(s) - i /\ \A j \in 1..Len(s) - i : i + 1 + j - 1 = i + j
    BY <1>1
  <2> HIDE DEF back
  <2>4. Len(back) = Len(s) - i
    <3>1. CASE i + 1 <= Len(s)
      BY <1>1, <2>2, <3>1
    <3>2. CASE ~(i + 1 <= Len(s))
      <4>1. i = Len(s)
        BY <1>1, <3>2
      <4> QED
        BY <1>1, <2>2, <3>2, <4>1
    <3> QED
      BY <3>1, <3>2
  <2>5. ASSUME NEW j \in 1..Len(s) - i
        PROVE  back[j] = s[i + j]
    <3>1. j \in 1..Len(s) - (i + 1) + 1 /\ i + 1 + j - 1 = i + j
      BY <2>3
    <3>2. back[j] = s[i + 1 + j - 1]
      BY <2>2, <3>1
    <3> QED
      BY <3>1, <3>2
  <2> QED
    BY <2>2, <2>4, <2>5
<1> HIDE DEF front, back
<1>4. /\ front \o back \in Seq(S) /\ Len(front \o back) = Len(front) + Len(back)
      /\ \A j \in 1..Len(front) + Len(back) :
           (front \o back)[j] = IF j <= Len(front) THEN front[j] ELSE back[j - Len(front)]
  BY <1>2, <1>3, ConcatProperties
<1>5. ASSUME NEW j \in 1..Len(s) - 1
      PROVE  (front \o back)[j] = IF j < i THEN s[j] ELSE s[j + 1]
  <2>1. (front \o back)[j] = IF j <= Len(front) THEN front[j] ELSE back[j - Len(front)]
    BY <1>1, <1>2, <1>3, <1>4
  <2>2. CASE j < i
    BY <1>1, <1>2, <2>1, <2>2
  <2>3. CASE ~(j < i)
    <3>1. /\ ~(j <= i - 1) /\ j - (i - 1) \in 1..Len(s) - i /\ i + (j - (i - 1)) = j + 1
      BY <1>1, <2>3
    <3>2. back[j - (i - 1)] = s[j + 1]
      BY <1>3, <3>1
    <3> QED
      BY <1>2, <2>1, <2>3, <3>1, <3>2
  <2> QED
    BY <2>2, <2>3
<1>6. Len(front) + Len(back) = Len(s) - 1
  BY <1>1, <1>2, <1>3
<1>7. RemoveAt(s, i) = front \o back
  BY DEF RemoveAt, front, back
<1> QED
  BY <1>4, <1>5, <1>6, <1>7

=============================================================================
