--------------------------- MODULE Algorithms_proofs ---------------------------
(***************************************************************************)
(* Proofs about the pure algorithms and the inputs of a generation, for any *)
(* players, games, templates, files and configure requests.  In this order: *)
(* what a filter keeps (Filters); the numerals and names of SlotNames; the  *)
(* inputs read by a generation (Inputs); the options of a text (Templates); *)
(* the way of an output into the archive and back (Artifacts).              *)
(*                                                                          *)
(* Induction is over sets: the numbers that have a property are all of Nat  *)
(* when no smallest one is missing (CountingUp).                            *)
(***************************************************************************)
EXTENDS SlotNames, Inputs, Templates, Artifacts, FiniteSetTheorems, TLAPS

\* How many elements of I are up to i.
Rank(I, i) == Cardinality({j \in I : j <= i})

LEMMA RankGrows ==
    ASSUME NEW I \in SUBSET Int, IsFiniteSet(I), NEW i \in I
    PROVE  /\ Rank(I, i) \in 1..Cardinality(I)
           /\ \A k \in I : i < k => Rank(I, i) < Rank(I, k)
<1> DEFINE Below(k) == {j \in I : j <= k}
<1>1. \A k \in I : IsFiniteSet(Below(k)) /\ Cardinality(Below(k)) \in 0..Cardinality(I)
  <2> TAKE k \in I
  <2>1. Below(k) \in SUBSET I
    OBVIOUS
  <2> HIDE DEF Below
  <2> QED BY <2>1, FS_Subset, FS_CardinalityType
<1>2. Below(i) # {}
  OBVIOUS
<1>3. Cardinality(Below(i)) # 0
  <2> HIDE DEF Below
  <2> QED BY <1>1, <1>2, FS_EmptySet
<1>4. ASSUME NEW k \in I, i < k
      PROVE  Cardinality(Below(i)) < Cardinality(Below(k))
  <2>0. \A j \in I : (j <= i => j <= k) /\ k <= k /\ ~(k <= i)
    BY <1>4
  <2>1. Below(i) \in SUBSET Below(k) /\ k \in Below(k) /\ k \notin Below(i)
    BY <2>0
  <2> HIDE DEF Below
  <2>2. Cardinality(Below(i)) <= Cardinality(Below(k)) /\ Cardinality(Below(i)) # Cardinality(Below(k))
    BY <1>1, <2>1, FS_Subset
  <2> QED BY <1>1, <2>2
<1> QED
  BY <1>1, <1>3, <1>4 DEF Rank

\* Ascending goes through the set, from one number to a greater one.
LEMMA AscendingEnumerates ==
    ASSUME NEW I \in SUBSET Int, IsFiniteSet(I)
    PROVE  /\ Ascending(I) \in [1..Cardinality(I) -> I]
           /\ \A n \in 1..Cardinality(I) : Rank(I, Ascending(I)[n]) = n
           /\ \A i \in I : Ascending(I)[Rank(I, i)] = i
           /\ Cardinality(I) \in Nat
<1> DEFINE N == Cardinality(I)
           f == [i \in I |-> Rank(I, i)]
<1>1. N \in Nat
  BY FS_CardinalityType
<1>2. \A i \in I : Rank(I, i) \in 1..N
  BY RankGrows
<1>3. \A i, k \in I : Rank(I, i) = Rank(I, k) => i = k
  <2> TAKE i, k \in I
  <2>1. i < k \/ k < i \/ i = k
    OBVIOUS
  <2> QED BY <1>1, <1>2, <2>1, RankGrows
<1>4. f \in Injection(I, 1..N)
  BY <1>2, <1>3 DEF Injection, IsInjective
<1>5. IsFiniteSet(1..N) /\ Cardinality(1..N) = N
  BY <1>1, FS_Interval
<1>6. f \in Surjection(I, 1..N)
  <2> HIDE DEF f
  <2> QED BY <1>4, <1>5, FS_Injection
<1>7. \A n \in 1..N : \E i \in I : Rank(I, i) = n
  BY <1>6 DEF Surjection
<1>8. \A n \in 1..N : Ascending(I)[n] = CHOOSE i \in I : Rank(I, i) = n
  BY DEF Ascending, Rank
<1>9. \A n \in 1..N : Ascending(I)[n] \in I /\ Rank(I, Ascending(I)[n]) = n
  BY <1>7, <1>8
<1>10. \A i \in I : Ascending(I)[Rank(I, i)] = i
  BY <1>2, <1>3, <1>9
<1>11. Ascending(I) = [n \in 1..N |-> Ascending(I)[n]]
  BY DEF Ascending
<1> QED
  BY <1>1, <1>9, <1>10, <1>11

LEMMA AscendingGrows ==
    ASSUME NEW I \in SUBSET Int, IsFiniteSet(I),
           NEW m \in 1..Cardinality(I), NEW n \in 1..Cardinality(I), m < n
    PROVE  Ascending(I)[m] < Ascending(I)[n]
<1> DEFINE a == Ascending(I)[m]
           b == Ascending(I)[n]
<1>1. a \in I /\ b \in I /\ Rank(I, a) = m /\ Rank(I, b) = n /\ Cardinality(I) \in Nat
  BY AscendingEnumerates
<1> HIDE DEF a, b
<1>2. b < a => Rank(I, b) < Rank(I, a)
  BY <1>1, RankGrows
<1>3. a \in Int /\ b \in Int /\ a # b
  BY <1>1
<1>4. a < b
  BY <1>1, <1>2, <1>3
<1> QED BY <1>4 DEF a, b

LEMMA AscendingOfNone == Ascending({}) = <<>>
BY FS_EmptySet DEF Ascending

\* A greater number comes last.
LEMMA AscendingAppends ==
    ASSUME NEW I \in SUBSET Int, IsFiniteSet(I), NEW m \in Int, \A i \in I : i < m
    PROVE  /\ Cardinality(I \cup {m}) = Cardinality(I) + 1
           /\ \A n \in 1..Cardinality(I) : Ascending(I \cup {m})[n] = Ascending(I)[n]
           /\ Ascending(I \cup {m})[Cardinality(I) + 1] = m
<1> DEFINE J == I \cup {m}
           N == Cardinality(I)
<1>1. m \notin I
  OBVIOUS
<1>2. IsFiniteSet(J) /\ Cardinality(J) = N + 1 /\ N \in Nat /\ J \in SUBSET Int
  BY <1>1, FS_AddElement, FS_CardinalityType
<1>3. \A i \in I : Rank(J, i) = Rank(I, i)
  <2> TAKE i \in I
  <2>1. {j \in J : j <= i} = {j \in I : j <= i}
    OBVIOUS
  <2> QED BY <2>1 DEF Rank
<1>4. Rank(J, m) = N + 1
  <2>0. \A j \in J : j <= m
    OBVIOUS
  <2>1. {j \in J : j <= m} = J
    BY <2>0
  <2> QED BY <1>2, <2>1 DEF Rank
<1>5. m \in J /\ I \subseteq J
  OBVIOUS
<1> HIDE DEF J
<1>6. \A i \in J : Ascending(J)[Rank(J, i)] = i
  BY <1>2, AscendingEnumerates
<1>7. \A n \in 1..N : Ascending(I)[n] \in I /\ Rank(I, Ascending(I)[n]) = n
  BY AscendingEnumerates
<1>8. \A n \in 1..N : Ascending(J)[n] = Ascending(I)[n]
  BY <1>3, <1>5, <1>6, <1>7
<1> QED
  BY <1>2, <1>4, <1>5, <1>6, <1>8 DEF J

LEMMA AscendingInterval ==
    ASSUME NEW N \in Nat
    PROVE  Cardinality(1..N) = N /\ \A n \in 1..N : Ascending(1..N)[n] = n
<1>1. IsFiniteSet(1..N) /\ Cardinality(1..N) = N
  BY FS_Interval
<1>2. ASSUME NEW n \in 1..N PROVE Rank(1..N, n) = n
  <2>1. {j \in 1..N : j <= n} = 1..n
    OBVIOUS
  <2>2. Cardinality(1..n) = n
    BY FS_Interval
  <2> QED BY <2>1, <2>2 DEF Rank
<1>3. \A n \in 1..N : Ascending(1..N)[Rank(1..N, n)] = n
  BY <1>1, AscendingEnumerates
<1> QED BY <1>1, <1>2, <1>3

LEMMA DomainIsFinite ==
    ASSUME NEW S, NEW s \in Seq(S), NEW I \in SUBSET DOMAIN s
    PROVE  /\ I \in SUBSET Int /\ IsFiniteSet(I)
           /\ DOMAIN s = 1..Len(s) /\ Len(s) \in Nat /\ Cardinality(I) \in 0..Len(s)
<1>1. DOMAIN s = 1..Len(s) /\ Len(s) \in Nat
  OBVIOUS
<1>2. IsFiniteSet(1..Len(s)) /\ Cardinality(1..Len(s)) = Len(s)
  <2>1. 1 \in Int /\ Len(s) \in Int /\ (1 > Len(s) <=> Len(s) = 0)
    BY <1>1
  <2>2. /\ IsFiniteSet(1..Len(s))
        /\ Cardinality(1..Len(s)) = IF 1 > Len(s) THEN 0 ELSE Len(s) - 1 + 1
    BY <2>1, FS_Interval
  <2> QED BY <1>1, <2>2
<1>3. IsFiniteSet(I) /\ Cardinality(I) <= Len(s) /\ Cardinality(I) \in Nat
  BY <1>1, <1>2, FS_Subset, FS_CardinalityType
<1> QED BY <1>1, <1>3

\* What is kept of a list is a list of its elements, in their order.
LEMMA KeptIsPart ==
    ASSUME NEW S, NEW s \in Seq(S), NEW I \in SUBSET DOMAIN s
    PROVE  /\ Kept(s, I) \in Seq(S)
           /\ Len(Kept(s, I)) = Cardinality(I) /\ DOMAIN Kept(s, I) = 1..Cardinality(I)
           /\ Cardinality(I) \in 0..Len(s)
           /\ \A n \in DOMAIN Kept(s, I) : Ascending(I)[n] \in I /\ Kept(s, I)[n] = s[Ascending(I)[n]]
           /\ \A i \in I : \E n \in DOMAIN Kept(s, I) : Ascending(I)[n] = i /\ Kept(s, I)[n] = s[i]
<1>1. I \in SUBSET Int /\ IsFiniteSet(I) /\ Cardinality(I) \in 0..Len(s) /\ Len(s) \in Nat
  BY DomainIsFinite
<1>2. /\ Ascending(I) \in [1..Cardinality(I) -> I]
      /\ \A i \in I : Ascending(I)[Rank(I, i)] = i
  BY <1>1, AscendingEnumerates
<1>3. \A i \in I : Rank(I, i) \in 1..Cardinality(I)
  BY <1>1, RankGrows
<1>4. \A n \in 1..Cardinality(I) : Ascending(I)[n] \in I /\ s[Ascending(I)[n]] \in S
  BY <1>2
<1>5. Kept(s, I) \in [1..Cardinality(I) -> S]
  BY <1>4 DEF Kept
<1>6. Kept(s, I) \in Seq(S) /\ Len(Kept(s, I)) = Cardinality(I)
  BY <1>1, <1>5
<1> QED
  BY <1>1, <1>2, <1>3, <1>4, <1>5, <1>6 DEF Kept

LEMMA KeptNone == \A s : Kept(s, {}) = <<>>
BY FS_EmptySet DEF Kept

LEMMA KeptAll ==
    ASSUME NEW S, NEW s \in Seq(S)
    PROVE  Kept(s, DOMAIN s) = s
<1>1. DOMAIN s = 1..Len(s) /\ Len(s) \in Nat
  OBVIOUS
<1>2. Kept(s, DOMAIN s) = [n \in 1..Len(s) |-> s[n]]
  BY <1>1, AscendingInterval DEF Kept
<1> QED BY <1>1, <1>2

\* One more element, kept or not.
LEMMA KeptAppended ==
    ASSUME NEW S, NEW s \in Seq(S), NEW e \in S, NEW I \in SUBSET DOMAIN s
    PROVE  /\ Kept(Append(s, e), I) = Kept(s, I)
           /\ Kept(Append(s, e), I \cup {Len(s) + 1}) = Append(Kept(s, I), e)
<1> DEFINE t == Append(s, e)
           m == Len(s) + 1
           N == Cardinality(I)
<1>1. /\ I \in SUBSET Int /\ IsFiniteSet(I) /\ N \in Nat /\ Len(s) \in Nat /\ m \in Int
      /\ \A i \in I : i < m /\ t[i] = s[i]
  BY DomainIsFinite
<1>2. t[m] = e
  OBVIOUS
<1>3. \A n \in 1..N : Ascending(I)[n] \in I
  BY <1>1, AscendingEnumerates
<1>4. Kept(t, I) = Kept(s, I)
  BY <1>1, <1>3 DEF Kept
<1>5. /\ Cardinality(I \cup {m}) = N + 1
      /\ \A n \in 1..N : Ascending(I \cup {m})[n] = Ascending(I)[n]
      /\ Ascending(I \cup {m})[N + 1] = m
  <2> HIDE DEF m
  <2> QED BY <1>1, AscendingAppends
<1>6. Kept(s, I) \in Seq(S) /\ Len(Kept(s, I)) = N /\ Kept(s, I) = [n \in 1..N |-> s[Ascending(I)[n]]]
  BY KeptIsPart DEF Kept
<1>7. Append(Kept(s, I), e) = [n \in 1..(N + 1) |-> IF n = N + 1 THEN e ELSE Kept(s, I)[n]]
  BY <1>1, <1>6
<1>8. Kept(t, I \cup {m}) = [n \in 1..(N + 1) |-> t[Ascending(I \cup {m})[n]]]
  BY <1>5 DEF Kept
<1> HIDE DEF t, m, N
<1>9. \A n \in 1..(N + 1) : t[Ascending(I \cup {m})[n]] = IF n = N + 1 THEN e ELSE Kept(s, I)[n]
  <2>1. ASSUME NEW n \in 1..N
        PROVE  /\ n \in 1..(N + 1) /\ n # N + 1 /\ Kept(s, I)[n] = s[Ascending(I)[n]]
               /\ t[Ascending(I \cup {m})[n]] = t[Ascending(I)[n]]
    <3>1. n \in 1..(N + 1) /\ n # N + 1
      BY <1>1
    <3>2. Kept(s, I)[n] = s[Ascending(I)[n]]
      BY DEF Kept, N
    <3>3. Ascending(I \cup {m})[n] = Ascending(I)[n]
      BY <1>5
    <3> QED BY <3>1, <3>2, <3>3
  <2>2. \A n \in 1..N : t[Ascending(I)[n]] = s[Ascending(I)[n]]
    BY <1>1, <1>3
  <2>3. \A n \in 1..(N + 1) : n \in 1..N \/ n = N + 1
    BY <1>1
  <2> QED BY <1>2, <1>5, <2>1, <2>2, <2>3
<1>10. Kept(t, I \cup {m}) = Append(Kept(s, I), e)
  BY <1>7, <1>8, <1>9
<1> QED
  BY <1>4, <1>10 DEF t, m

LEMMA CountingUp ==
    ASSUME NEW S, 0 \in S, \A n \in Nat : n \in S => n + 1 \in S
    PROVE  Nat \subseteq S
<1> DEFINE R == {ss \in Nat \X Nat : ss[1] < ss[2]}
           T == Nat \ S
<1>2. IsWellFoundedOn(R, Nat)
  BY NatLessThanWellFounded, Zenon DEF OpToRel
<1>3. \A x, y \in Nat : <<y, x>> \in R <=> y < x
  OBVIOUS
<1>4. T \subseteq Nat
  OBVIOUS
<1> HIDE DEF R, T
<1>5. ASSUME T # {} PROVE FALSE
  <2>1. PICK x \in T : \A y \in T : <<y, x>> \notin R
    BY <1>2, <1>4, <1>5, WFMin
  <2>2. x \in Nat /\ x \notin S /\ \A y \in Nat : y < x => y \in S
    BY <1>3, <1>4, <2>1 DEF T
  <2>3. x # 0 /\ x - 1 \in Nat /\ x - 1 < x /\ x = (x - 1) + 1
    BY <2>2
  <2> QED
    BY <2>2, <2>3
<1> QED
  BY <1>5 DEF T

LEMMA CountingUpFromAll ==
    ASSUME NEW S, \A n \in Nat : (\A k \in Nat : k < n => k \in S) => n \in S
    PROVE  Nat \subseteq S
<1> DEFINE T == {n \in Nat : \A k \in Nat : k < n => k \in S}
<1>1. 0 \in T
  OBVIOUS
<1>2. ASSUME NEW n \in Nat, n \in T PROVE n + 1 \in T
  <2>1. \A k \in Nat : k < n + 1 => k < n \/ k = n
    OBVIOUS
  <2> QED BY <1>2, <2>1
<1>3. \A n \in Nat : n \in T => n + 1 \in T
  BY <1>2
<1> HIDE DEF T
<1>4. Nat \subseteq T
  BY <1>1, <1>3, CountingUp
<1> QED BY <1>4 DEF T

------------------------------------------------------------------------------
\* The numerals of the numbers in D.
IsNumeral(g, D) ==
    g = [n \in D |-> IF n < Base THEN <<Digit[n + 1]>>
                     ELSE Append(g[n \div Base], Digit[(n % Base) + 1])]

LEMMA FewerDigits ==
    ASSUME NEW n \in Nat, n >= Base
    PROVE  n \div Base \in Nat /\ n \div Base < n /\ n % Base \in 0..9
<1>1. Base \in 2..10
  BY SlotNamesAssumption
<1>2. \A b \in 2..10 : b = 2 \/ b = 3 \/ b = 4 \/ b = 5 \/ b = 6 \/ b = 7 \/ b = 8 \/ b = 9 \/ b = 10
  OBVIOUS
<1>3. \A m \in Nat : m >= 2 => m \div 2 \in Nat /\ m \div 2 < m /\ m % 2 \in 0..9
  OBVIOUS
<1>4. \A m \in Nat : m >= 3 => m \div 3 \in Nat /\ m \div 3 < m /\ m % 3 \in 0..9
  OBVIOUS
<1>5. \A m \in Nat : m >= 4 => m \div 4 \in Nat /\ m \div 4 < m /\ m % 4 \in 0..9
  OBVIOUS
<1>6. \A m \in Nat : m >= 5 => m \div 5 \in Nat /\ m \div 5 < m /\ m % 5 \in 0..9
  OBVIOUS
<1>7. \A m \in Nat : m >= 6 => m \div 6 \in Nat /\ m \div 6 < m /\ m % 6 \in 0..9
  OBVIOUS
<1>8. \A m \in Nat : m >= 7 => m \div 7 \in Nat /\ m \div 7 < m /\ m % 7 \in 0..9
  OBVIOUS
<1>9. \A m \in Nat : m >= 8 => m \div 8 \in Nat /\ m \div 8 < m /\ m % 8 \in 0..9
  OBVIOUS
<1>10. \A m \in Nat : m >= 9 => m \div 9 \in Nat /\ m \div 9 < m /\ m % 9 \in 0..9
  OBVIOUS
<1>11. \A m \in Nat : m >= 10 => m \div 10 \in Nat /\ m \div 10 < m /\ m % 10 \in 0..9
  OBVIOUS
<1> QED
  BY <1>1, <1>2, <1>3, <1>4, <1>5, <1>6, <1>7, <1>8, <1>9, <1>10, <1>11

LEMMA NumeralsAgree ==
    ASSUME NEW m \in Nat, NEW g, IsNumeral(g, 0..m), NEW n \in Nat, NEW h, IsNumeral(h, 0..n), NEW k \in Nat, k <= m, k <= n
    PROVE  g[k] = h[k]
<1> DEFINE S == {i \in Nat : i <= m /\ i <= n => g[i] = h[i]}
<1>1. ASSUME NEW i \in Nat, \A j \in Nat : j < i => j \in S
      PROVE  i \in S
  <2> SUFFICES ASSUME i <= m, i <= n PROVE g[i] = h[i]
    OBVIOUS
  <2>1. i \in 0..m /\ i \in 0..n
    OBVIOUS
  <2>2. CASE i < Base
    BY <2>1, <2>2 DEF IsNumeral
  <2>3. CASE ~(i < Base)
    <3>1. i \div Base \in Nat /\ i \div Base < i
      BY <2>3, FewerDigits, SlotNamesAssumption
    <3> DEFINE j == i \div Base
    <3>2. g[j] = h[j]
      <4> HIDE DEF j
      <4>1. j \in Nat /\ j < i /\ j <= m /\ j <= n
        BY <3>1 DEF j
      <4> QED BY <1>1, <4>1
    <3>3. g[i] = Append(g[j], Digit[(i % Base) + 1])
      BY <2>1, <2>3 DEF IsNumeral
    <3>4. h[i] = Append(h[j], Digit[(i % Base) + 1])
      BY <2>1, <2>3 DEF IsNumeral
    <3> QED BY <3>2, <3>3, <3>4
  <2> QED BY <2>2, <2>3
<1> HIDE DEF S
<1>2. Nat \subseteq S
  BY <1>1, CountingUpFromAll
<1>3. k \in S
  BY <1>2
<1> QED BY <1>3 DEF S

LEMMA NumeralsExist == \A n \in Nat : \E g : IsNumeral(g, 0..n)
<1> DEFINE S == {n \in Nat : \E g : IsNumeral(g, 0..n)}
           Body(g, n) == IF n < Base THEN <<Digit[n + 1]>>
                         ELSE Append(g[n \div Base], Digit[(n % Base) + 1])
<1>1. 0 \in S
  <2> DEFINE h == [n \in 0..0 |-> <<Digit[n + 1]>>]
  <2>1. \A n \in 0..0 : n < Base
    BY SlotNamesAssumption
  <2>2. IsNumeral(h, 0..0)
    BY <2>1 DEF IsNumeral
  <2> QED BY <2>2
<1>2. ASSUME NEW n \in Nat, n \in S
      PROVE  n + 1 \in S
  <2>1. PICK g : IsNumeral(g, 0..n)
    BY <1>2
  <2> DEFINE h == [k \in 0..(n + 1) |-> Body(g, k)]
  <2>2. \A k \in 0..n : g[k] = h[k]
    <3>1. \A k \in 0..n : g[k] = Body(g, k)
      BY <2>1 DEF IsNumeral
    <3>2. \A k \in 0..n : k \in 0..(n + 1)
      OBVIOUS
    <3>3. \A k \in 0..(n + 1) : h[k] = Body(g, k)
      OBVIOUS
    <3> HIDE DEF h, Body
    <3> QED BY <3>1, <3>2, <3>3
  <2>3. ASSUME NEW k \in 0..(n + 1) PROVE Body(g, k) = Body(h, k)
    <3>1. CASE k < Base
      BY <3>1
    <3>2. CASE ~(k < Base)
      <4>1. k \div Base \in Nat /\ k \div Base < k
        BY <3>2, FewerDigits, SlotNamesAssumption
      <4>2. k \div Base \in 0..n
        BY <4>1
      <4>3. g[k \div Base] = h[k \div Base]
        <5> HIDE DEF h
        <5> QED BY <2>2, <4>2
      <4> HIDE DEF h
      <4> QED BY <3>2, <4>3
    <3> QED BY <3>1, <3>2
  <2>4. h = [k \in 0..(n + 1) |-> Body(h, k)]
    <3>1. h = [k \in 0..(n + 1) |-> h[k]] /\ \A k \in 0..(n + 1) : h[k] = Body(g, k)
      OBVIOUS
    <3> HIDE DEF h, Body
    <3> QED BY <2>3, <3>1
  <2>5. IsNumeral(h, 0..(n + 1))
    <3> HIDE DEF h
    <3> QED BY <2>4 DEF IsNumeral
  <2> QED BY <2>5
<1>3. \A n \in Nat : n \in S => n + 1 \in S
  BY <1>2
<1> HIDE DEF S
<1>4. Nat \subseteq S
  BY <1>1, <1>3, CountingUp
<1> QED BY <1>4 DEF S

LEMMA NumeralIsDefined == IsNumeral(Numeral, Nat)
<1> DEFINE Upto(n) == CHOOSE g : IsNumeral(g, 0..n)
           G == [n \in Nat |-> Upto(n)[n]]
<1>1. \A n \in Nat : IsNumeral(Upto(n), 0..n)
  <2> TAKE n \in Nat
  <2>1. \E g : IsNumeral(g, 0..n)
    BY NumeralsExist
  <2> QED BY <2>1, Zenon
<1> HIDE DEF Upto
<1>2. \A n \in Nat : \A k \in Nat : k <= n => Upto(n)[k] = G[k]
  <2> TAKE n \in Nat
  <2> TAKE k \in Nat
  <2> HAVE k <= n
  <2>1. IsNumeral(Upto(n), 0..n) /\ IsNumeral(Upto(k), 0..k)
    BY <1>1
  <2>2. Upto(n)[k] = Upto(k)[k]
    BY <2>1, NumeralsAgree
  <2> QED BY <2>2
<1>3. ASSUME NEW n \in Nat
      PROVE  G[n] = IF n < Base THEN <<Digit[n + 1]>>
                    ELSE Append(G[n \div Base], Digit[(n % Base) + 1])
  <2>1. G[n] = Upto(n)[n] /\ n \in 0..n
    OBVIOUS
  <2>2. Upto(n)[n] = IF n < Base THEN <<Digit[n + 1]>>
                     ELSE Append(Upto(n)[n \div Base], Digit[(n % Base) + 1])
    BY <1>1, <2>1 DEF IsNumeral
  <2>3. CASE n < Base
    BY <2>1, <2>2, <2>3
  <2>4. CASE ~(n < Base)
    <3>1. n \div Base \in Nat /\ n \div Base <= n
      BY <2>4, FewerDigits, SlotNamesAssumption
    <3>2. Upto(n)[n \div Base] = G[n \div Base]
      <4> HIDE DEF G
      <4> QED BY <1>2, <3>1
    <3> HIDE DEF G
    <3> QED BY <2>1, <2>2, <2>4, <3>2
  <2> QED BY <2>3, <2>4
<1>4. IsNumeral(G, Nat)
  <2>1. G = [n \in Nat |-> G[n]]
    OBVIOUS
  <2> HIDE DEF G
  <2> QED BY <1>3, <2>1 DEF IsNumeral
<1>5. \E g : IsNumeral(g, Nat)
  BY <1>4
<1>6. Numeral = CHOOSE g : IsNumeral(g, Nat)
  BY DEF Numeral, IsNumeral
<1> QED BY <1>5, <1>6, Zenon

\* The characters of a name.
Char == STRING \cup {"_", "G"} \cup {Digit[i] : i \in 1..10}

LEMMA DigitIsChar == \A i \in 1..10 : Digit[i] \in Char
BY DEF Char

LEMMA LettersAreChars == "_" \in Char /\ "G" \in Char /\ STRING \subseteq Char
BY DEF Char

\* Texts over any set of characters.
LEMMA TextOfOne == ASSUME NEW S, NEW x \in S PROVE <<x>> \in Seq(S) /\ Len(<<x>>) = 1
OBVIOUS

LEMMA TextGrows ==
    ASSUME NEW S, NEW t \in Seq(S), NEW x \in S
    PROVE  Append(t, x) \in Seq(S) /\ Len(Append(t, x)) = Len(t) + 1 /\ Len(t) \in Nat
OBVIOUS

LEMMA TextsJoin ==
    ASSUME NEW S, NEW t \in Seq(S), NEW u \in Seq(S)
    PROVE  t \o u \in Seq(S) /\ Len(t \o u) = Len(t) + Len(u) /\ Len(t) \in Nat /\ Len(u) \in Nat
OBVIOUS

LEMMA TextHas == ASSUME NEW S, NEW t \in Seq(S), NEW i \in 1..Len(t) PROVE t[i] \in S
OBVIOUS

LEMMA TextOf ==
    ASSUME NEW S, NEW n \in Nat, NEW f \in [1..n -> S]
    PROVE  f \in Seq(S)
OBVIOUS

LEMMA TextIn ==
    ASSUME NEW S, NEW U, S \subseteq U, NEW t \in Seq(S)
    PROVE  t \in Seq(U)
<1>1. Len(t) \in Nat /\ t \in [1..Len(t) -> S]
  OBVIOUS
<1>2. t \in [1..Len(t) -> U]
  BY <1>1
<1> QED BY <1>1, <1>2, TextOf

\* A numeral has at least a digit.
LEMMA NumeralIsText == \A n \in Nat : Numeral[n] \in Seq(Char) /\ Len(Numeral[n]) >= 1
<1> DEFINE IsText(t) == t \in Seq(Char) /\ Len(t) >= 1
           S == {n \in Nat : IsText(Numeral[n])}
<1>1. ASSUME NEW n \in Nat, \A k \in Nat : k < n => k \in S
      PROVE  n \in S
  <2>1. Numeral[n] = IF n < Base THEN <<Digit[n + 1]>>
                     ELSE Append(Numeral[n \div Base], Digit[(n % Base) + 1])
    BY NumeralIsDefined DEF IsNumeral
  <2>2. CASE n < Base
    <3>1. n + 1 \in 1..10
      BY <2>2, SlotNamesAssumption
    <3> DEFINE d == Digit[n + 1]
    <3>2. d \in Char
      BY <3>1, DigitIsChar
    <3>3. Numeral[n] = <<d>>
      BY <2>1, <2>2
    <3> HIDE DEF d
    <3>4. <<d>> \in Seq(Char) /\ Len(<<d>>) = 1
      BY <3>2, TextOfOne
    <3>5. IsText(<<d>>)
      BY <3>4
    <3> HIDE DEF IsText
    <3> QED BY <3>3, <3>5
  <2>3. CASE ~(n < Base)
    <3>1. n \div Base \in Nat /\ n \div Base < n /\ n % Base \in 0..9
      BY <2>3, FewerDigits, SlotNamesAssumption
    <3>2. (n % Base) + 1 \in 1..10
      BY <3>1
    <3> DEFINE d == Digit[(n % Base) + 1]
               t == Numeral[n \div Base]
    <3>3. d \in Char
      BY <3>2, DigitIsChar
    <3>4. t \in Seq(Char)
      BY <1>1, <3>1
    <3>5. Numeral[n] = Append(t, d)
      BY <2>1, <2>3
    <3> HIDE DEF d, t
    <3>6. Append(t, d) \in Seq(Char) /\ Len(Append(t, d)) = Len(t) + 1 /\ Len(t) \in Nat
      BY <3>3, <3>4, TextGrows
    <3>7. Len(Append(t, d)) >= 1
      BY <3>6
    <3> QED BY <3>5, <3>6, <3>7
  <2> QED BY <2>2, <2>3
<1> HIDE DEF S
<1>2. Nat \subseteq S
  BY <1>1, CountingUpFromAll
<1> QED BY <1>2 DEF S

LEMMA Shortened ==
    ASSUME NEW S, NEW s \in Seq(S), NEW n \in Nat
    PROVE  /\ Prefix(s, n) \in Seq(S) /\ LastOf(s, n) \in Seq(S)
           /\ Len(Prefix(s, n)) = IF Len(s) > n THEN n ELSE Len(s)
           /\ Len(LastOf(s, n)) = IF Len(s) > n THEN n ELSE Len(s)
<1>1. Len(s) \in Nat
  OBVIOUS
<1>2. CASE Len(s) > n
  <2>1. SubSeq(s, 1, n) \in Seq(S) /\ Len(SubSeq(s, 1, n)) = n
    BY <1>1, <1>2
  <2>2. SubSeq(s, Len(s) - n + 1, Len(s)) \in Seq(S) /\ Len(SubSeq(s, Len(s) - n + 1, Len(s))) = n
    BY <1>1, <1>2
  <2> QED BY <1>2, <2>1, <2>2 DEF Prefix, LastOf
<1>3. CASE ~(Len(s) > n)
  BY <1>1, <1>3 DEF Prefix, LastOf
<1> QED BY <1>2, <1>3

LEMMA NameIsShort ==
    ASSUME NEW player \in Seq(Char), NEW abbr \in Seq(Char), NEW n \in Nat
    PROVE  Len(BuildSlotName(player, abbr, n)) \in 1..SlotMaxLen
<1> DEFINE numeral == Numeral[n]
           mark == <<"_">>
           long == mark \o abbr \o numeral
           short == mark \o numeral
           suffix == IF Len(long) < SlotMaxLen THEN long ELSE short
<1>1. numeral \in Seq(Char) /\ Len(numeral) >= 1
  BY NumeralIsText
<1>2. SlotMaxLen \in Nat /\ SlotMaxLen >= 1
  BY SlotNamesAssumption
<1>3. mark \in Seq(Char) /\ Len(mark) = 1
  BY LettersAreChars, TextOfOne
<1>4. BuildSlotName(player, abbr, n) =
        IF Len(suffix) < SlotMaxLen THEN Prefix(player, SlotMaxLen - Len(suffix)) \o suffix
        ELSE LastOf(numeral, SlotMaxLen)
  BY DEF BuildSlotName
<1> HIDE DEF numeral, mark
<1>5. suffix \in Seq(Char) /\ Len(suffix) \in Nat /\ Len(suffix) >= 1
  <2>1. mark \o abbr \in Seq(Char) /\ Len(mark \o abbr) = 1 + Len(abbr) /\ Len(abbr) \in Nat
    BY <1>3, TextsJoin
  <2>2. long \in Seq(Char) /\ Len(long) = Len(mark \o abbr) + Len(numeral) /\ Len(numeral) \in Nat
    BY <1>1, <2>1, TextsJoin
  <2>3. short \in Seq(Char) /\ Len(short) = 1 + Len(numeral)
    BY <1>1, <1>3, TextsJoin
  <2>4. long \in Seq(Char) /\ Len(long) \in Nat /\ Len(long) >= 1
    BY <1>1, <2>1, <2>2
  <2>5. short \in Seq(Char) /\ Len(short) \in Nat /\ Len(short) >= 1
    BY <1>1, <2>2, <2>3
  <2> HIDE DEF long, short
  <2>6. CASE Len(long) < SlotMaxLen
    BY <2>4, <2>6
  <2>7. CASE ~(Len(long) < SlotMaxLen)
    BY <2>5, <2>7
  <2> QED BY <2>6, <2>7
<1> HIDE DEF suffix
<1>6. CASE Len(suffix) < SlotMaxLen
  <2> DEFINE m == SlotMaxLen - Len(suffix)
             p == Prefix(player, m)
  <2>1. m \in Nat
    BY <1>2, <1>5, <1>6
  <2>2. m + Len(suffix) = SlotMaxLen
    BY <1>2, <1>5
  <2>3. BuildSlotName(player, abbr, n) = p \o suffix
    BY <1>4, <1>6
  <2> HIDE DEF m
  <2>4. p \in Seq(Char) /\ Len(p) = (IF Len(player) > m THEN m ELSE Len(player)) /\ Len(player) \in Nat
    BY <2>1, Shortened
  <2>5. Len(p) <= m /\ Len(p) \in Nat
    BY <2>1, <2>4
  <2> HIDE DEF p
  <2>6. Len(p \o suffix) = Len(p) + Len(suffix)
    BY <1>5, <2>4, TextsJoin
  <2> QED BY <1>2, <1>5, <2>1, <2>2, <2>3, <2>5, <2>6
<1>7. CASE ~(Len(suffix) < SlotMaxLen)
  <2>1. Len(LastOf(numeral, SlotMaxLen)) = IF Len(numeral) > SlotMaxLen THEN SlotMaxLen ELSE Len(numeral)
    BY <1>1, <1>2, Shortened
  <2>2. Len(numeral) \in Nat
    BY <1>1
  <2> QED BY <1>1, <1>2, <1>4, <1>7, <2>1, <2>2
<1> QED BY <1>6, <1>7

LEMMA PlayerIsText == \A p \in Player : SanitizePlayerName(p) \in Seq(Char)
<1> TAKE p \in Player
<1>1. p \in Seq(Char) /\ DefaultPlayer \in Seq(Char)
  BY LettersAreChars, TextIn, SlotNamesAssumption
<1> DEFINE I == {i \in DOMAIN p : p[i] \in Alphanumeric}
<1>2. I \in SUBSET DOMAIN p
  OBVIOUS
<1>3. SanitizePlayerName(p) = IF Kept(p, I) = <<>> THEN DefaultPlayer ELSE Kept(p, I)
  BY DEF SanitizePlayerName, Filter
<1> HIDE DEF I
<1>4. Kept(p, I) \in Seq(Char)
  BY <1>1, <1>2, KeptIsPart
<1> QED BY <1>1, <1>3, <1>4

LEMMA GameIsText == \A g \in Game : AbbreviateGame(g) \in Seq(Char)
<1> TAKE g \in Game
<1> DEFINE Word == [initial : STRING, stop : BOOLEAN]
           I == {i \in DOMAIN g : ~g[i].stop}
           chosen == IF Kept(g, I) = <<>> THEN g ELSE Kept(g, I)
           initials == [i \in DOMAIN chosen |-> chosen[i].initial]
<1>1. g \in Seq(Word)
  BY SlotNamesAssumption
<1>2. I \in SUBSET DOMAIN g
  OBVIOUS
<1>3. AbbreviateGame(g) = IF chosen = <<>> THEN <<"G">> ELSE Prefix(initials, 4)
  BY DEF AbbreviateGame, Filter
<1>4. chosen \in Seq(Word)
  <2> HIDE DEF I, Word
  <2>1. Kept(g, I) \in Seq(Word)
    BY <1>1, <1>2, KeptIsPart
  <2> QED BY <1>1, <2>1
<1> HIDE DEF chosen
<1>5. initials \in Seq(Char)
  <2>1. Len(chosen) \in Nat /\ DOMAIN chosen = 1..Len(chosen)
    BY <1>4
  <2>2. \A i \in 1..Len(chosen) : chosen[i].initial \in Char
    <3> TAKE i \in 1..Len(chosen)
    <3>1. chosen[i] \in Word
      <4> HIDE DEF Word
      <4> QED BY <1>4, TextHas
    <3>2. chosen[i].initial \in STRING
      BY <3>1
    <3> QED BY <3>2, LettersAreChars
  <2>3. initials \in [1..Len(chosen) -> Char]
    BY <2>1, <2>2
  <2> HIDE DEF initials
  <2> QED BY <2>1, <2>3, TextOf
<1> HIDE DEF initials
<1>6. Prefix(initials, 4) \in Seq(Char)
  BY <1>5, Shortened
<1>7. <<"G">> \in Seq(Char)
  BY LettersAreChars, TextOfOne
<1> QED BY <1>3, <1>6, <1>7

------------------------------------------------------------------------------
\* The counters count.
Counting == perPair \in [DOMAIN perPair -> Nat]

LEMMA StepKeepsShort ==
    ASSUME Counting, ShortNames, NamesNext PROVE Counting' /\ ShortNames'
<1>1. PICK slot \in Slot \ DOMAIN names, player \in Player, game \in Game : NameSlot(slot, player, game)
  BY DEF NamesNext
<1> DEFINE base == SanitizePlayerName(player)
           abbr == AbbreviateGame(game)
           idx == Met(<<base, abbr>>) + 1
<1>2. base \in Seq(Char) /\ abbr \in Seq(Char)
  BY PlayerIsText, GameIsText
<1>3. idx \in Nat
  BY DEF Met, Counting
<1>4. PICK n \in idx..(idx + Cardinality(used)) :
         /\ perPair' = Put(perPair, <<base, abbr>>, idx)
         /\ names' = Put(names, slot, BuildSlotName(base, abbr, n))
  BY <1>1 DEF NameSlot
<1> HIDE DEF base, abbr, idx
<1>5. n \in Nat
  BY <1>3, <1>4
<1>6. Len(BuildSlotName(base, abbr, n)) \in 1..SlotMaxLen
  BY <1>2, <1>5, NameIsShort
<1>7. \A s \in DOMAIN names' : (names'[s] = BuildSlotName(base, abbr, n) \/ (s \in DOMAIN names /\ names'[s] = names[s]))
  BY <1>4 DEF Put
<1>8. ShortNames'
  BY <1>6, <1>7 DEF ShortNames
<1>9. Counting'
  BY <1>3, <1>4 DEF Put, Counting
<1> QED BY <1>8, <1>9

\* A name is at least one character and at most SlotMaxLen, whatever the
\* players, the games and the counters (preflight.go:87).
THEOREM NamesAreShort == NamesSpec => []ShortNames
<1>1. NamesInit => Counting /\ ShortNames
  BY DEF NamesInit, Counting, ShortNames
<1>2. Counting /\ ShortNames /\ [NamesNext]_namesVars => Counting' /\ ShortNames'
  BY StepKeepsShort DEF namesVars, Counting, ShortNames
<1> QED
  BY <1>1, <1>2, PTL DEF NamesSpec

------------------------------------------------------------------------------

NamesInv == NamesTypeOK /\ UniqueNames

\* One turn of the loop keeps the names distinct: the new one is not in used,
\* and used holds every name given (preflight.go:102-106).
LEMMA StepKeepsNames ==
    ASSUME NamesInv, NamesNext PROVE NamesInv'
<1>1. PICK slot \in Slot \ DOMAIN names, player \in Player, game \in Game : NameSlot(slot, player, game)
  BY DEF NamesNext
<1> DEFINE base == SanitizePlayerName(player)
           abbr == AbbreviateGame(game)
           idx == Met(<<base, abbr>>) + 1
<1>2. PICK n \in idx..(idx + Cardinality(used)) :
         /\ FirstFree(base, abbr, idx, n)
         /\ used' = used \cup {BuildSlotName(base, abbr, n)}
         /\ names' = Put(names, slot, BuildSlotName(base, abbr, n))
  BY <1>1 DEF NameSlot
<1> DEFINE name == BuildSlotName(base, abbr, n)
<1>3. name \notin used
  BY <1>2 DEF FirstFree
<1> HIDE DEF name
<1>4. used' = used \cup {name} /\ names' = Put(names, slot, name)
  BY <1>2 DEF name
<1>5. /\ DOMAIN names' = DOMAIN names \cup {slot}
      /\ names'[slot] = name
      /\ \A s \in DOMAIN names : names'[s] = names[s]
  BY <1>1, <1>4 DEF Put
<1>6. \A s \in DOMAIN names : names[s] \in used
  BY DEF NamesInv, NamesTypeOK
<1>7. used' = {names'[s] : s \in DOMAIN names'}
  BY <1>4, <1>5 DEF NamesInv, NamesTypeOK
<1>8. NamesTypeOK'
  BY <1>1, <1>5, <1>7 DEF NamesInv, NamesTypeOK
<1>9. ASSUME NEW a \in DOMAIN names', NEW b \in DOMAIN names', names'[a] = names'[b]
      PROVE  a = b
  BY <1>3, <1>5, <1>6, <1>9 DEF NamesInv, UniqueNames
<1> QED
  BY <1>8, <1>9 DEF NamesInv, UniqueNames

\* GenerateSlotNames proposes no name twice.
THEOREM NamesAreUnique == NamesSpec => []UniqueNames
<1>1. NamesInit => NamesInv
  BY DEF NamesInit, NamesInv, NamesTypeOK, UniqueNames
<1>2. NamesInv /\ [NamesNext]_namesVars => NamesInv'
  BY StepKeepsNames DEF namesVars, NamesInv, NamesTypeOK, UniqueNames
<1>3. NamesInv => UniqueNames
  BY DEF NamesInv
<1> QED
  BY <1>1, <1>2, <1>3, PTL DEF NamesSpec

------------------------------------------------------------------------------
InputsSpec == InputsInit /\ [][InputsNext]_inputsVars

(* A request at work has slots, and a next write to do.                      *)
ConfTyped ==
    conf \in [Configurer -> [slots : Configuration \cup {<<>>}, next : Nat]]

(* Who has done every upload since its own first finds all it has stored.    *)
AloneWrote ==
    \A c \in Configurer :
        (alone = c /\ conf[c].next > 0) =>
            /\ conf[c].next - 1 <= Len(conf[c].slots)
            /\ HasSlots(yamls, conf[c].slots, conf[c].next - 1)

(* What is stored is the last configuration nothing came between.            *)
IntendedStored ==
    intended # <<>> =>
        /\ HasSlots(yamls, intended, Len(intended))
        /\ manifest = Refs(intended)

(* What an undisturbed reader has got is still what is stored.               *)
ExpectedRead ==
    expected # <<>> =>
        /\ expected = intended
        /\ reader.worlds = manifest
        /\ reader.at = "yamls" =>
             /\ DOMAIN yamls = reader.todo \cup DOMAIN reader.yamls
             /\ \A p \in DOMAIN reader.yamls : reader.yamls[p] = yamls[p]

(* The reader expects nothing before it has read the manifest.               *)
AsleepExpects == reader.at \in {"none", "manifest"} => expected = <<>>

InputsInv ==
    ConfTyped /\ AloneWrote /\ IntendedStored /\ ExpectedRead /\ AsleepExpects

------------------------------------------------------------------------------
(* A request is a finite sequence.                                           *)
LEMMA SlotsAreASequence ==
    ASSUME NEW slots \in Configuration \cup {<<>>}
    PROVE  Len(slots) \in Nat /\ DOMAIN slots = 1..Len(slots)
<1>1. CASE slots = <<>>
  BY <1>1
<1>2. CASE slots \in Configuration
  <2>1. slots \in Seq({slots[i] : i \in DOMAIN slots})
    BY <1>2, InputsAssumption
  <2> QED BY <2>1
<1> QED BY <1>1, <1>2

(* One more YAML stored is one more slot of the request that is had.         *)
LEMMA StoredOneMore ==
    ASSUME NEW files, NEW slots, NEW n \in Nat, n > 0,
           HasSlots(files, slots, n - 1),
           NEW more, more = [p \in DOMAIN files \cup {slots[n].player} |->
                               IF p = slots[n].player THEN slots[n].world ELSE files[p]]
    PROVE  HasSlots(more, slots, n)
<1> SUFFICES ASSUME NEW i \in 1..n
             PROVE  /\ slots[i].player \in DOMAIN more
                    /\ (\A j \in (i + 1)..n : slots[j].player # slots[i].player) =>
                          more[slots[i].player] = slots[i].world
  BY DEF HasSlots
<1>0. DOMAIN more = DOMAIN files \cup {slots[n].player}
  OBVIOUS
<1>1. CASE i = n
  BY <1>0, <1>1
<1>2. CASE i # n
  <2>1. i \in 1..(n - 1) /\ n \in (i + 1)..n
    BY <1>2
  <2>2. slots[i].player \in DOMAIN files
    BY <2>1 DEF HasSlots
  <2>3. ASSUME \A j \in (i + 1)..n : slots[j].player # slots[i].player
        PROVE  more[slots[i].player] = slots[i].world
    <3>1. \A j \in (i + 1)..(n - 1) : slots[j].player # slots[i].player
      BY <2>3, <2>1
    <3>2. files[slots[i].player] = slots[i].world
      BY <3>1, <2>1 DEF HasSlots
    <3>3. slots[n].player # slots[i].player
      BY <2>3, <2>1
    <3> QED BY <3>2, <3>3, <2>2
  <2> QED BY <1>0, <2>2, <2>3
<1> QED BY <1>1, <1>2

------------------------------------------------------------------------------
LEMMA InputsInitInv == InputsInit => InputsInv
<1> SUFFICES ASSUME InputsInit PROVE InputsInv
  OBVIOUS
<1>1. ConfTyped
  BY DEF InputsInit, ConfTyped, Idle
<1>2. AloneWrote
  BY InputsAssumption DEF InputsInit, AloneWrote
<1>3. IntendedStored /\ ExpectedRead /\ AsleepExpects
  BY DEF InputsInit, IntendedStored, ExpectedRead, AsleepExpects
<1> QED BY <1>1, <1>2, <1>3 DEF InputsInv

(* A request that begins has written nothing.                                *)
LEMMA ConfigureKeeps ==
    ASSUME InputsInv, NEW c \in Configurer, NEW slots \in Configuration, Configure(c, slots)
    PROVE  InputsInv'
<1> USE DEF InputsInv, Configure
<1>1. ConfTyped'
  BY DEF ConfTyped
<1>2. AloneWrote'
  <2> SUFFICES ASSUME NEW d \in Configurer, alone = d, conf'[d].next > 0
               PROVE  /\ conf'[d].next - 1 <= Len(conf'[d].slots)
                      /\ HasSlots(yamls, conf'[d].slots, conf'[d].next - 1)
    BY DEF AloneWrote
  <2>1. CASE d = c
    <3>1. conf'[d].slots = slots /\ conf'[d].next = 1
      BY <2>1 DEF ConfTyped
    <3>2. Len(slots) \in Nat
      BY SlotsAreASequence
    <3> QED BY <3>1, <3>2 DEF HasSlots
  <2>2. CASE d # c
    BY <2>2 DEF AloneWrote, ConfTyped
  <2> QED BY <2>1, <2>2
<1>3. IntendedStored' /\ ExpectedRead' /\ AsleepExpects'
  BY DEF IntendedStored, ExpectedRead, AsleepExpects
<1> QED BY <1>1, <1>2, <1>3

(* An upload makes a request the only one, or keeps it the only one, and ends *)
(* what was intended and expected.                                           *)
LEMMA UploadYamlKeeps ==
    ASSUME InputsInv, NEW c \in Configurer, UploadYaml(c)
    PROVE  InputsInv'
<1> DEFINE slots == conf[c].slots
           i == conf[c].next
<1>1. /\ slots \in Configuration \cup {<<>>} /\ i \in Nat
      /\ Len(slots) \in Nat /\ i \in 1..Len(slots)
  BY SlotsAreASequence DEF InputsInv, ConfTyped, UploadYaml
<1>2. conf' = [conf EXCEPT ![c] = [slots |-> slots, next |-> i + 1]]
  BY DEF UploadYaml, Advance
<1>3. ConfTyped'
  BY <1>1, <1>2 DEF InputsInv, ConfTyped
<1>4. AloneWrote'
  <2> SUFFICES ASSUME NEW d \in Configurer, alone' = d, conf'[d].next > 0
               PROVE  /\ conf'[d].next - 1 <= Len(conf'[d].slots)
                      /\ HasSlots(yamls', conf'[d].slots, conf'[d].next - 1)
    BY DEF AloneWrote
  <2>1. d = c /\ (i = 1 \/ alone = c)
    BY InputsAssumption DEF UploadYaml
  <2>2. conf'[d].slots = slots /\ conf'[d].next - 1 = i
    BY <1>1, <1>2, <2>1 DEF InputsInv, ConfTyped
  <2>3. HasSlots(yamls, slots, i - 1)
    <3>1. CASE i = 1
      BY <3>1 DEF HasSlots
    <3>2. CASE alone = c
      BY <3>2, <1>1 DEF InputsInv, AloneWrote
    <3> QED BY <2>1, <3>1, <3>2
  <2>4. HasSlots(yamls', slots, i)
    <3>1. yamls' = [p \in DOMAIN yamls \cup {slots[i].player} |->
                      IF p = slots[i].player THEN slots[i].world ELSE yamls[p]]
      BY DEF UploadYaml
    <3>2. i \in Nat /\ i > 0
      BY <1>1
    <3> HIDE DEF slots, i
    <3> QED BY <2>3, <3>1, <3>2, StoredOneMore, Zenon
  <2> QED BY <1>1, <2>2, <2>4
<1>5. IntendedStored' /\ ExpectedRead' /\ AsleepExpects'
  BY DEF UploadYaml, IntendedStored, ExpectedRead, AsleepExpects
<1> QED BY <1>3, <1>4, <1>5 DEF InputsInv

(* The manifest of the only one completes what it has stored.                *)
LEMMA UploadManifestKeeps ==
    ASSUME InputsInv, NEW c \in Configurer, UploadManifest(c)
    PROVE  InputsInv'
<1> DEFINE slots == conf[c].slots
<1>1. slots \in Configuration \cup {<<>>} /\ Len(slots) \in Nat
  BY SlotsAreASequence DEF InputsInv, ConfTyped
<1>2. ConfTyped'
  BY <1>1 DEF InputsInv, ConfTyped, UploadManifest, Advance
<1>3. AloneWrote'
  BY InputsAssumption DEF UploadManifest, AloneWrote
<1>4. IntendedStored'
  <2> SUFFICES ASSUME intended' # <<>>
               PROVE  HasSlots(yamls', intended', Len(intended')) /\ manifest' = Refs(intended')
    BY DEF IntendedStored
  <2>1. alone = c /\ intended' = slots /\ manifest' = Refs(slots) /\ yamls' = yamls
    BY DEF UploadManifest
  <2>2. conf[c].next - 1 = Len(slots) /\ conf[c].next > 0
    BY <1>1 DEF UploadManifest
  <2>3. HasSlots(yamls, slots, Len(slots))
    BY <2>1, <2>2 DEF InputsInv, AloneWrote
  <2> QED BY <2>1, <2>3
<1>5. ExpectedRead' /\ AsleepExpects'
  BY DEF UploadManifest, ExpectedRead, AsleepExpects
<1> QED BY <1>2, <1>3, <1>4, <1>5 DEF InputsInv

(* A request that ends, whether it wrote the row or not, is idle.            *)
LEMMA EndKeeps ==
    ASSUME InputsInv, NEW c \in Configurer, Draft(c) \/ Abandon(c)
    PROVE  InputsInv'
<1>1. /\ conf' = [conf EXCEPT ![c] = Idle]
      /\ UNCHANGED <<yamls, manifest, reader, alone, intended, expected>>
  BY DEF Draft, Abandon
<1>2. ConfTyped'
  BY <1>1 DEF InputsInv, ConfTyped, Idle
<1>3. AloneWrote'
  BY <1>1 DEF InputsInv, AloneWrote, ConfTyped, Idle
<1>4. IntendedStored' /\ ExpectedRead' /\ AsleepExpects'
  BY <1>1 DEF InputsInv, IntendedStored, ExpectedRead, AsleepExpects
<1> QED BY <1>2, <1>3, <1>4 DEF InputsInv

(* A reader writes nothing, and reads what is stored.                        *)
LEMMA ReadKeeps ==
    ASSUME InputsInv,
           \/ Generate \/ ReadManifest \/ ListSessionYamls \/ Pending \/ GiveUp
           \/ \E p \in reader.todo : DownloadSessionYaml(p)
    PROVE  InputsInv'
<1>1. UNCHANGED <<yamls, manifest, conf, alone, intended>>
  BY DEF Generate, ReadManifest, ListSessionYamls, Pending, GiveUp, DownloadSessionYaml
<1>2. ConfTyped' /\ AloneWrote' /\ IntendedStored'
  BY <1>1 DEF InputsInv, ConfTyped, AloneWrote, IntendedStored
<1>3. ExpectedRead' /\ AsleepExpects'
  <2>1. CASE Generate
    BY <2>1 DEF InputsInv, ExpectedRead, AsleepExpects, Generate, Asleep
  <2>2. CASE ReadManifest
    BY <2>2 DEF ReadManifest, ExpectedRead, AsleepExpects
  <2>3. CASE ListSessionYamls
    BY <2>3 DEF InputsInv, ExpectedRead, AsleepExpects, ListSessionYamls, NoYamls
  <2>4. CASE Pending \/ GiveUp
    BY <2>4 DEF Pending, GiveUp, ExpectedRead, AsleepExpects
  <2>5. ASSUME NEW p \in reader.todo, DownloadSessionYaml(p)
        PROVE  ExpectedRead' /\ AsleepExpects'
    BY <2>5 DEF InputsInv, ExpectedRead, AsleepExpects, DownloadSessionYaml
  <2> QED BY <2>1, <2>2, <2>3, <2>4, <2>5
<1> QED BY <1>2, <1>3 DEF InputsInv

LEMMA InputsNextInv == InputsInv /\ [InputsNext]_inputsVars => InputsInv'
<1> SUFFICES ASSUME InputsInv, [InputsNext]_inputsVars PROVE InputsInv'
  OBVIOUS
<1>1. CASE UNCHANGED inputsVars
  BY <1>1 DEF inputsVars, InputsInv, ConfTyped, AloneWrote, IntendedStored, ExpectedRead, AsleepExpects
<1>2. CASE Elsewhere
  BY <1>2 DEF Elsewhere, InputsInv, ConfTyped, AloneWrote, IntendedStored, ExpectedRead, AsleepExpects
<1> QED
  BY <1>1, <1>2, ConfigureKeeps, UploadYamlKeeps, UploadManifestKeeps, EndKeeps, ReadKeeps DEF InputsNext

(* For any requests that overlap, fail and repeat: a generation that reads    *)
(* while nobody writes is given exactly the last configuration whose uploads *)
(* nothing came between, each player with its last slot (session.go:1077-1098).*)
THEOREM InputsConfiguredIsGiven == InputsSpec => []ConfiguredIsGiven
<1>1. InputsInv => ConfiguredIsGiven
  <2> SUFFICES ASSUME InputsInv, reader.at = "yamls", reader.todo = {}, expected # <<>>
               PROVE  /\ HasSlots(reader.yamls, expected, Len(expected))
                      /\ reader.worlds = {expected[i].world : i \in DOMAIN expected}
    BY DEF ConfiguredIsGiven
  <2>1. /\ expected = intended /\ reader.worlds = manifest
        /\ DOMAIN yamls = DOMAIN reader.yamls
        /\ \A p \in DOMAIN reader.yamls : reader.yamls[p] = yamls[p]
    BY DEF InputsInv, ExpectedRead
  <2>2. HasSlots(yamls, expected, Len(expected)) /\ manifest = Refs(expected)
    BY <2>1 DEF InputsInv, IntendedStored
  <2>3. HasSlots(reader.yamls, expected, Len(expected))
    BY <2>1, <2>2 DEF HasSlots
  <2> QED BY <2>1, <2>2, <2>3 DEF Refs
<1> QED BY <1>1, InputsInitInv, InputsNextInv, PTL DEF InputsSpec

------------------------------------------------------------------------------
LEMMA Smallest ==
    ASSUME NEW D \in SUBSET Nat, D # {}
    PROVE  \E m \in D : \A k \in D : m <= k
<1> DEFINE R == {ss \in Nat \X Nat : ss[1] < ss[2]}
<1>1. IsWellFoundedOn(R, Nat)
  BY NatLessThanWellFounded, Zenon DEF OpToRel
<1>2. \A x, y \in Nat : <<y, x>> \in R <=> y < x
  OBVIOUS
<1> HIDE DEF R
<1>3. PICK x \in D : \A y \in D : <<y, x>> \notin R
  BY <1>1, WFMin
<1>4. ASSUME NEW y \in D PROVE x <= y
  <2>1. x \in Nat /\ y \in Nat
    OBVIOUS
  <2>2. ~(y < x)
    BY <1>2, <1>3, <2>1
  <2> QED BY <2>1, <2>2
<1> QED BY <1>4

------------------------------------------------------------------------------
\* The text read, as a parameter: what Templates defines of lines.
Stops == {"section", "top", "group", "key"}
InSection(t) == \E s \in 1..Len(t) : t[s].kind = "section" /\ \A j \in s..Len(t) : t[j].kind # "top"
HeadsOf(t) ==
    {i \in DOMAIN t : /\ t[i].kind = "key"
                      /\ \E s \in 1..i : t[s].kind = "section" /\ \A j \in s..i : t[j].kind # "top"}
IsEnd(t, i, e) ==
    /\ \A j \in (i + 1)..e : t[j].kind \notin Stops
    /\ e < Len(t) => t[e + 1].kind \in Stops
EndOf(t, i) == CHOOSE e \in i..Len(t) : IsEnd(t, i, e)
BlockOf(t, i) == SubSeq(t, i + 1, EndOf(t, i))
Unending(t, i) == \A j \in (i + 1)..Len(t) : t[j].kind \notin Stops

LEMMA OfLines ==
    /\ Heads = HeadsOf(lines)
    /\ \A i : Block(i) = BlockOf(lines, i)
BY DEF Heads, HeadsOf, Block, BlockOf, BlockEnd, EndOf, IsEnd, Stops

LEMMA EndUnique ==
    ASSUME NEW S, NEW t \in Seq(S), NEW i \in 1..Len(t), NEW e \in i..Len(t), IsEnd(t, i, e)
    PROVE  EndOf(t, i) = e
<1> DEFINE E == EndOf(t, i)
<1>0. Len(t) \in Nat
  OBVIOUS
<1>1. E \in i..Len(t) /\ IsEnd(t, i, E)
  BY DEF EndOf
<1> HIDE DEF E
<1>2. ~(E < e)
  <2> SUFFICES ASSUME E < e PROVE FALSE
    OBVIOUS
  <2>1. E + 1 \in (i + 1)..e /\ E < Len(t)
    BY <1>0, <1>1
  <2> QED BY <1>1, <2>1 DEF IsEnd
<1>3. ~(e < E)
  <2> SUFFICES ASSUME e < E PROVE FALSE
    OBVIOUS
  <2>1. e + 1 \in (i + 1)..E /\ e < Len(t)
    BY <1>0, <1>1
  <2> QED BY <1>1, <2>1 DEF IsEnd
<1> QED BY <1>0, <1>1, <1>2, <1>3 DEF E

LEMMA EndExists ==
    ASSUME NEW S, NEW t \in Seq(S), NEW i \in 1..Len(t)
    PROVE  /\ EndOf(t, i) \in i..Len(t) /\ IsEnd(t, i, EndOf(t, i))
           /\ Unending(t, i) <=> EndOf(t, i) = Len(t)
<1>0. Len(t) \in Nat
  OBVIOUS
<1>1. CASE Unending(t, i)
  <2>1. Len(t) \in i..Len(t) /\ IsEnd(t, i, Len(t))
    BY <1>0, <1>1 DEF Unending, IsEnd
  <2> QED BY <1>1, <2>1, EndUnique
<1>2. CASE ~Unending(t, i)
  <2> DEFINE D == {j \in (i + 1)..Len(t) : t[j].kind \in Stops}
  <2>1. D # {} /\ D \in SUBSET Nat
    BY <1>0, <1>2 DEF Unending
  <2>2. PICK m \in D : \A k \in D : m <= k
    <3> HIDE DEF D
    <3> QED BY <2>1, Smallest
  <2> DEFINE e == m - 1
  <2>3. e \in i..Len(t) /\ e < Len(t) /\ e + 1 = m
    BY <1>0, <2>2
  <2>4. \A j \in (i + 1)..e : t[j].kind \notin Stops
    <3> TAKE j \in (i + 1)..e
    <3>1. j \in (i + 1)..Len(t) /\ j < m
      BY <1>0, <2>3
    <3>2. j \notin D
      BY <2>2, <3>1
    <3> QED BY <3>1, <3>2
  <2>5. IsEnd(t, i, e)
    BY <2>2, <2>3, <2>4 DEF IsEnd
  <2> HIDE DEF e
  <2>6. EndOf(t, i) = e
    BY <2>3, <2>5, EndUnique
  <2> QED BY <1>0, <1>2, <2>3, <2>5, <2>6
<1> QED BY <1>1, <1>2

\* One more line.
LEMMA BlockGrows ==
    ASSUME NEW S, NEW t \in Seq(S), NEW l \in S, NEW i \in 1..Len(t)
    PROVE  LET u == Append(t, l)
           IN  /\ u[i] = t[i] /\ BlockOf(t, i) \in Seq(S)
               /\ (Unending(t, i) /\ l.kind \notin Stops) =>
                     BlockOf(u, i) = Append(BlockOf(t, i), l) /\ Unending(u, i)
               /\ ~(Unending(t, i) /\ l.kind \notin Stops) =>
                     BlockOf(u, i) = BlockOf(t, i) /\ ~Unending(u, i)
<1> DEFINE u == Append(t, l)
           E == EndOf(t, i)
           n == Len(t)
<1>1. n \in Nat /\ u \in Seq(S) /\ Len(u) = n + 1 /\ u[n + 1] = l /\ \A j \in 1..n : u[j] = t[j]
  OBVIOUS
<1>2. E \in i..n /\ IsEnd(t, i, E) /\ (Unending(t, i) <=> E = n)
  BY EndExists
<1>3. i \in 1..Len(u) /\ i \in 1..n /\ u[i] = t[i]
  BY <1>1
<1>4. BlockOf(t, i) = SubSeq(t, i + 1, E) /\ SubSeq(t, i + 1, E) \in Seq(S)
  BY <1>1, <1>2 DEF BlockOf
<1>5. ASSUME Unending(t, i), l.kind \notin Stops
      PROVE  BlockOf(u, i) = Append(BlockOf(t, i), l) /\ Unending(u, i)
  <2>1. Unending(u, i)
    <3> SUFFICES ASSUME NEW j \in (i + 1)..Len(u) PROVE u[j].kind \notin Stops
      BY DEF Unending
    <3>1. j = n + 1 \/ (j \in (i + 1)..n /\ j \in 1..n)
      BY <1>1, <1>3
    <3> QED BY <1>1, <1>5, <3>1 DEF Unending
  <2>2. EndOf(u, i) = n + 1
    BY <1>1, <1>3, <2>1, EndExists
  <2>3. SubSeq(u, i + 1, n + 1) = Append(SubSeq(t, i + 1, n), l)
    <3> DEFINE a == SubSeq(t, i + 1, n)
               b == SubSeq(u, i + 1, n + 1)
    <3>1. a = [k \in 1..(n - i) |-> t[i + k]] /\ a \in Seq(S) /\ Len(a) = n - i
      BY <1>1, <1>3
    <3> HIDE DEF u
    <3>2. b = [k \in 1..(n - i + 1) |-> u[i + k]]
      <4>1. n + 1 - (i + 1) + 1 = n - i + 1 /\ n - i + 1 \in Nat /\ i + 1 \in Int /\ n + 1 \in Int
        BY <1>1, <1>3
      <4>2. b = [k \in 1..((n + 1) - (i + 1) + 1) |-> u[(i + 1) + k - 1]]
        BY <4>1
      <4>3. \A k \in 1..(n - i + 1) : (i + 1) + k - 1 = i + k
        BY <1>1, <1>3
      <4> HIDE DEF b
      <4> QED BY <4>1, <4>2, <4>3
    <3> HIDE DEF a, b
    <3>3. Append(a, l) = [k \in 1..(n - i + 1) |-> IF k = n - i + 1 THEN l ELSE a[k]]
      BY <1>1, <1>3, <3>1
    <3>4. \A k \in 1..(n - i + 1) : u[i + k] = IF k = n - i + 1 THEN l ELSE a[k]
      <4> TAKE k \in 1..(n - i + 1)
      <4>1. CASE k = n - i + 1
        BY <1>1, <1>3, <4>1
      <4>2. CASE k # n - i + 1
        <5>1. k \in 1..(n - i) /\ i + k \in 1..n
          BY <1>1, <1>3, <4>2
        <5> HIDE DEF u
        <5> QED BY <1>1, <3>1, <4>2, <5>1
      <4> QED BY <4>1, <4>2
    <3> QED BY <3>2, <3>3, <3>4 DEF a, b
  <2> QED BY <1>2, <1>4, <1>5, <2>1, <2>2, <2>3 DEF BlockOf
<1>6. ASSUME ~(Unending(t, i) /\ l.kind \notin Stops)
      PROVE  BlockOf(u, i) = BlockOf(t, i) /\ ~Unending(u, i)
  <2>1. E \in i..Len(u) /\ E < Len(u) /\ E # Len(u)
    BY <1>1, <1>2, <1>3
  <2>2. \A j \in (i + 1)..E : u[j].kind \notin Stops
    <3> TAKE j \in (i + 1)..E
    <3>1. j \in 1..n
      BY <1>1, <1>2, <1>3
    <3> QED BY <1>1, <1>2, <3>1 DEF IsEnd
  <2>3. u[E + 1].kind \in Stops
    <3>1. CASE E = n
      BY <1>1, <1>2, <1>6, <3>1
    <3>2. CASE E # n
      <4>1. E < n /\ E + 1 \in 1..n
        BY <1>1, <1>2, <1>3, <3>2
      <4> QED BY <1>1, <1>2, <4>1 DEF IsEnd
    <3> QED BY <3>1, <3>2
  <2>4. EndOf(u, i) = E
    <3>1. IsEnd(u, i, E)
      BY <2>2, <2>3 DEF IsEnd
    <3> HIDE DEF u, E
    <3> QED BY <1>1, <1>3, <2>1, <3>1, EndUnique
  <2>5. SubSeq(u, i + 1, E) = SubSeq(t, i + 1, E)
    BY <1>1, <1>2, <1>3
  <2>6. ~Unending(u, i)
    <3> HIDE DEF u, E
    <3> QED BY <1>1, <1>3, <2>1, <2>4, EndExists
  <2> QED BY <1>4, <2>4, <2>5, <2>6 DEF BlockOf
<1> HIDE DEF u
<1> QED BY <1>3, <1>4, <1>5, <1>6 DEF u

\* A key that was just read has no lines yet.
LEMMA BlockOfLast ==
    ASSUME NEW S, NEW t \in Seq(S), NEW l \in S
    PROVE  BlockOf(Append(t, l), Len(t) + 1) = <<>> /\ Unending(Append(t, l), Len(t) + 1)
<1> DEFINE u == Append(t, l)
           m == Len(t) + 1
<1>1. Len(t) \in Nat /\ u \in Seq(S) /\ Len(u) = m /\ m \in 1..Len(u)
  OBVIOUS
<1> HIDE DEF u
<1>2. Unending(u, m)
  BY <1>1 DEF Unending
<1> HIDE DEF m
<1>3. EndOf(u, m) = m
  BY <1>1, <1>2, EndExists
<1>4. SubSeq(u, m + 1, m) = <<>>
  BY <1>1
<1> QED BY <1>2, <1>3, <1>4 DEF BlockOf, u, m

LEMMA HeadsGrow ==
    ASSUME NEW S, NEW t \in Seq(S), NEW l \in S
    PROVE  LET u == Append(t, l)
           IN  /\ HeadsOf(t) \in SUBSET (1..Len(t))
               /\ \A i \in HeadsOf(t) : t[i].kind = "key"
               /\ (l.kind = "key" /\ InSection(t)) => HeadsOf(u) = HeadsOf(t) \cup {Len(t) + 1}
               /\ ~(l.kind = "key" /\ InSection(t)) => HeadsOf(u) = HeadsOf(t)
               /\ InSection(u) <=> l.kind = "section" \/ (InSection(t) /\ l.kind # "top")
<1> DEFINE u == Append(t, l)
           n == Len(t)
           In(x, i) == \E s \in 1..i : x[s].kind = "section" /\ \A j \in s..i : x[j].kind # "top"
<1>1. n \in Nat /\ Len(u) = n + 1 /\ u[n + 1] = l /\ (\A j \in 1..n : u[j] = t[j])
      /\ DOMAIN t = 1..n /\ DOMAIN u = 1..(n + 1)
  OBVIOUS
<1>2. ASSUME NEW i \in 1..n PROVE In(u, i) <=> In(t, i)
  <2>1. \A s \in 1..i : s \in 1..n /\ \A j \in s..i : j \in 1..n
    BY <1>1
  <2> HIDE DEF u
  <2> QED BY <1>1, <2>1
<1>3. In(u, n + 1) <=> l.kind = "section" \/ (In(t, n) /\ l.kind # "top")
  <2>1. ASSUME In(u, n + 1) PROVE l.kind = "section" \/ (In(t, n) /\ l.kind # "top")
    <3>1. PICK s \in 1..(n + 1) : u[s].kind = "section" /\ \A j \in s..(n + 1) : u[j].kind # "top"
      BY <2>1
    <3>2. CASE s = n + 1
      BY <1>1, <3>1, <3>2
    <3>3. CASE s # n + 1
      <4>1. s \in 1..n /\ n + 1 \in s..(n + 1) /\ \A j \in s..n : j \in s..(n + 1) /\ j \in 1..n
        BY <1>1, <3>3
      <4> HIDE DEF u
      <4> QED BY <1>1, <3>1, <4>1
    <3> QED BY <3>2, <3>3
  <2>2. ASSUME l.kind = "section" PROVE In(u, n + 1)
    <3>1. n + 1 \in 1..(n + 1) /\ \A j \in (n + 1)..(n + 1) : j = n + 1
      BY <1>1
    <3> HIDE DEF u
    <3> QED BY <1>1, <2>2, <3>1
  <2>3. ASSUME In(t, n), l.kind # "top" PROVE In(u, n + 1)
    <3>1. PICK s \in 1..n : t[s].kind = "section" /\ \A j \in s..n : t[j].kind # "top"
      BY <2>3
    <3>2. s \in 1..(n + 1) /\ \A j \in s..(n + 1) : j = n + 1 \/ (j \in s..n /\ j \in 1..n)
      BY <1>1
    <3> HIDE DEF u
    <3> QED BY <1>1, <2>3, <3>1, <3>2
  <2> QED BY <2>1, <2>2, <2>3
<1>4. HeadsOf(u) = {i \in 1..(n + 1) : u[i].kind = "key" /\ In(u, i)}
  BY <1>1 DEF HeadsOf
<1>5. HeadsOf(t) = {i \in 1..n : t[i].kind = "key" /\ In(t, i)}
  BY <1>1 DEF HeadsOf
<1>6. (InSection(u) <=> In(u, n + 1)) /\ (InSection(t) <=> In(t, n))
  BY <1>1 DEF InSection
<1>7. 1..(n + 1) = (1..n) \cup {n + 1} /\ n + 1 \notin 1..n
  BY <1>1
<1> HIDE DEF u, In, n
<1>8. \A i \in HeadsOf(u) : i \in HeadsOf(t) \/ (i = n + 1 /\ l.kind = "key" /\ InSection(t))
  BY <1>1, <1>2, <1>3, <1>4, <1>5, <1>6, <1>7
<1>9. \A i \in HeadsOf(t) : i \in HeadsOf(u)
  BY <1>1, <1>2, <1>4, <1>5, <1>7
<1>10. (l.kind = "key" /\ InSection(t)) => n + 1 \in HeadsOf(u)
  BY <1>1, <1>3, <1>4, <1>6, <1>7
<1>11. (l.kind = "key" /\ InSection(t)) => HeadsOf(u) = HeadsOf(t) \cup {n + 1}
  BY <1>8, <1>9, <1>10
<1>12. ~(l.kind = "key" /\ InSection(t)) => HeadsOf(u) = HeadsOf(t)
  BY <1>8, <1>9
<1>13. HeadsOf(t) \in SUBSET (1..n) /\ \A i \in HeadsOf(t) : t[i].kind = "key"
  BY <1>5
<1> QED BY <1>3, <1>6, <1>11, <1>12, <1>13 DEF u, n

------------------------------------------------------------------------------
\* The lines of some kinds, in their order.
Told(b, K) == Filter(b, LAMBDA l : l.kind \in K)

LEMMA ToldOfNone == \A K : Told(<<>>, K) = <<>>
<1> TAKE K
<1>1. {i \in DOMAIN <<>> : <<>>[i].kind \in K} = {}
  OBVIOUS
<1> QED BY <1>1, KeptNone DEF Told, Filter

LEMMA ToldGrows ==
    ASSUME NEW S, NEW b \in Seq(S), NEW l \in S, NEW K
    PROVE  Told(Append(b, l), K) = IF l.kind \in K THEN Append(Told(b, K), l) ELSE Told(b, K)
<1> DEFINE c == Append(b, l)
           n == Len(b)
           I == {i \in DOMAIN b : b[i].kind \in K}
           J == {i \in DOMAIN c : c[i].kind \in K}
<1>1. /\ n \in Nat /\ DOMAIN b = 1..n /\ DOMAIN c = (1..n) \cup {n + 1}
      /\ c[n + 1] = l /\ \A i \in 1..n : c[i] = b[i]
  OBVIOUS
<1>2. Told(c, K) = Kept(c, J) /\ Told(b, K) = Kept(b, I)
  BY DEF Told, Filter
<1>3. Kept(c, I) = Kept(b, I) /\ Kept(c, I \cup {n + 1}) = Append(Kept(b, I), l)
  <2>1. I \in SUBSET DOMAIN b
    OBVIOUS
  <2> HIDE DEF I
  <2> QED BY <2>1, KeptAppended
<1>4. J = IF l.kind \in K THEN I \cup {n + 1} ELSE I
  <2> HIDE DEF c, n
  <2> QED BY <1>1
<1> HIDE DEF I, J, c
<1> QED BY <1>2, <1>3, <1>4 DEF c

\* The options of some heads of a text, in their order.
Option(t, i) ==
    BuildOption(t[i].key, Told(BlockOf(t, i), Comment), Told(BlockOf(t, i), {"value", "junk"}))
OptionsOf(t, D) == [n \in 1..Cardinality(D) |-> Option(t, Ascending(D)[n])]

LEMMA SameOptions ==
    ASSUME NEW t, NEW u, NEW D \in SUBSET Int, IsFiniteSet(D),
           \A i \in D : u[i] = t[i] /\ BlockOf(u, i) = BlockOf(t, i)
    PROVE  OptionsOf(u, D) = OptionsOf(t, D)
<1>1. \A n \in 1..Cardinality(D) : Ascending(D)[n] \in D
  BY AscendingEnumerates
<1>2. \A i \in D : Option(u, i) = Option(t, i)
  BY DEF Option
<1> QED BY <1>1, <1>2 DEF OptionsOf

LEMMA OneMoreOption ==
    ASSUME NEW t, NEW D \in SUBSET Int, IsFiniteSet(D), NEW h \in Int, \A i \in D : i < h
    PROVE  OptionsOf(t, D \cup {h}) = Append(OptionsOf(t, D), Option(t, h))
<1> DEFINE N == Cardinality(D)
           A == Ascending(D)
           B == Ascending(D \cup {h})
<1>1. Cardinality(D \cup {h}) = N + 1 /\ (\A n \in 1..N : B[n] = A[n]) /\ B[N + 1] = h /\ N \in Nat
  BY AscendingAppends, FS_CardinalityType
<1> HIDE DEF N, A, B
<1>2. OptionsOf(t, D) = [n \in 1..N |-> Option(t, A[n])]
  BY DEF OptionsOf, N, A
<1>3. OptionsOf(t, D \cup {h}) = [n \in 1..(N + 1) |-> Option(t, B[n])]
  BY <1>1 DEF OptionsOf, B
<1> DEFINE f == [n \in 1..N |-> Option(t, A[n])]
           T == {Option(t, A[n]) : n \in 1..N}
<1>4. f \in Seq(T) /\ Len(f) = N
  BY <1>1
<1>5. Append(f, Option(t, h)) = [n \in 1..(N + 1) |-> IF n = N + 1 THEN Option(t, h) ELSE f[n]]
  BY <1>1, <1>4
<1>6. \A n \in 1..(N + 1) : Option(t, B[n]) = IF n = N + 1 THEN Option(t, h) ELSE f[n]
  <2> TAKE n \in 1..(N + 1)
  <2>1. CASE n = N + 1
    BY <1>1, <2>1
  <2>2. CASE n # N + 1
    <3>1. n \in 1..N
      BY <1>1, <2>2
    <3> QED BY <1>1, <2>2, <3>1
  <2> QED BY <2>1, <2>2
<1> HIDE DEF f
<1>7. OptionsOf(t, D \cup {h}) = Append(f, Option(t, h))
  BY <1>3, <1>5, <1>6
<1> QED BY <1>2, <1>7 DEF f

------------------------------------------------------------------------------
TemplateSpec == TemplateInit /\ [][TemplateNext]_templateVars

\* The option under way is that of the last key, and has what was read since.
UnderWay(h) ==
    /\ Unending(lines, h) /\ \A i \in HeadsOf(lines) \ {h} : i < h /\ ~Unending(lines, i)
    /\ curKey = lines[h].key
    /\ curComments = Told(BlockOf(lines, h), Comment)
    /\ curValues = Told(BlockOf(lines, h), {"value", "junk"})
    /\ result = OptionsOf(lines, HeadsOf(lines) \ {h})

LinesRead ==
    /\ layout \in Layouts /\ lines \in Seq(Text(layout))
    /\ inGameSection \in BOOLEAN /\ (inGameSection <=> InSection(lines))
    /\ curKey # None => inGameSection
OptionsRead ==
    /\ parsed => result = OptionsOf(lines, HeadsOf(lines))
    /\ (~parsed /\ curKey = None) =>
          /\ \A i \in HeadsOf(lines) : ~Unending(lines, i)
          /\ result = OptionsOf(lines, HeadsOf(lines))
    /\ (~parsed /\ curKey # None) => \E h \in HeadsOf(lines) : UnderWay(h)
TemplateInv == LinesRead /\ OptionsRead

\* The heads are lines of the text.
LEMMA HeadsAreLines ==
    ASSUME NEW S, NEW t \in Seq(S)
    PROVE  /\ HeadsOf(t) \in SUBSET (1..Len(t)) /\ HeadsOf(t) \in SUBSET Int
           /\ IsFiniteSet(HeadsOf(t)) /\ Len(t) \in Nat
<1>1. HeadsOf(t) \in SUBSET DOMAIN t
  BY DEF HeadsOf
<1>2. IsFiniteSet(HeadsOf(t)) /\ HeadsOf(t) \in SUBSET Int /\ DOMAIN t = 1..Len(t) /\ Len(t) \in Nat
  BY <1>1, DomainIsFinite
<1> QED BY <1>1, <1>2

\* What a flush leaves.
LEMMA FlushedIsAll ==
    ASSUME LinesRead, OptionsRead, ~parsed
    PROVE  Flushed = OptionsOf(lines, HeadsOf(lines))
<1>1. CASE curKey = None
  BY <1>1 DEF OptionsRead, Flushed
<1>2. CASE curKey # None
  <2>1. PICK h \in HeadsOf(lines) : UnderWay(h)
    BY <1>2 DEF OptionsRead
  <2> DEFINE D == HeadsOf(lines) \ {h}
  <2>2. HeadsOf(lines) \in SUBSET Int /\ IsFiniteSet(HeadsOf(lines))
    BY HeadsAreLines DEF LinesRead
  <2>3. D \in SUBSET Int /\ IsFiniteSet(D) /\ h \in Int /\ D \cup {h} = HeadsOf(lines)
    BY <2>1, <2>2, FS_Subset
  <2>4. \A i \in D : i < h
    BY <2>1 DEF UnderWay
  <2>5. Flushed = Append(OptionsOf(lines, D), Option(lines, h))
    BY <1>2, <2>1 DEF Flushed, UnderWay, Option
  <2> HIDE DEF D
  <2> QED BY <2>3, <2>4, <2>5, OneMoreOption
<1> QED BY <1>1, <1>2

\* A line that ends every block, or finds them all ended, changes no option.
LEMMA EndedOptions ==
    ASSUME NEW S, NEW t \in Seq(S), NEW l \in S,
           l.kind \in Stops \/ \A i \in HeadsOf(t) : ~Unending(t, i)
    PROVE  /\ OptionsOf(Append(t, l), HeadsOf(t)) = OptionsOf(t, HeadsOf(t))
           /\ \A i \in HeadsOf(t) : ~Unending(Append(t, l), i)
<1> DEFINE u == Append(t, l)
<1>1. HeadsOf(t) \in SUBSET (1..Len(t)) /\ HeadsOf(t) \in SUBSET Int /\ IsFiniteSet(HeadsOf(t))
  BY HeadsAreLines
<1>2. \A i \in HeadsOf(t) : u[i] = t[i] /\ BlockOf(u, i) = BlockOf(t, i) /\ ~Unending(u, i)
  <2> TAKE i \in HeadsOf(t)
  <2>1. i \in 1..Len(t) /\ ~(Unending(t, i) /\ l.kind \notin Stops)
    BY <1>1
  <2> QED BY <2>1, BlockGrows
<1> HIDE DEF u
<1>3. OptionsOf(u, HeadsOf(t)) = OptionsOf(t, HeadsOf(t))
  BY <1>1, <1>2, SameOptions
<1> QED BY <1>2, <1>3 DEF u

LEMMA LinesReadKept ==
    ASSUME LinesRead, NEW l \in Text(layout), ReadLine(l)
    PROVE  LinesRead'
<1>1. layout' = layout /\ lines' = Append(lines, l) /\ lines \in Seq(Text(layout))
  BY DEF ReadLine, LinesRead
<1>2. lines' \in Seq(Text(layout)')
  <2>1. Text(layout)' = Text(layout)
    BY <1>1 DEF Text
  <2> QED BY <1>1, <2>1
<1>3. InSection(lines') <=> l.kind = "section" \/ (InSection(lines) /\ l.kind # "top")
  BY <1>1, HeadsGrow
<1>4. /\ inGameSection' \in BOOLEAN
      /\ inGameSection' <=> (l.kind = "section" \/ (inGameSection /\ l.kind # "top"))
      /\ curKey' # None => inGameSection'
  <2>1. inGameSection \in BOOLEAN /\ (curKey # None => inGameSection)
    BY DEF LinesRead
  <2>2. CASE Unindented(l)
    BY <2>1, <2>2 DEF Unindented, Flush
  <2>3. CASE Heading(l)
    BY <2>1, <2>3 DEF Heading, Flush
  <2>4. CASE Detail(l)
    BY <2>1, <2>4 DEF Detail, Comment
  <2>5. CASE Passed(l)
    BY <2>1, <2>5 DEF Passed, Comment
  <2> QED BY <2>2, <2>3, <2>4, <2>5 DEF ReadLine
<1> HIDE DEF Text
<1> QED BY <1>1, <1>2, <1>3, <1>4 DEF LinesRead

\* An option ends, or none is under way: what was read is in result.
LEMMA RestKept ==
    ASSUME LinesRead, NEW l \in Text(layout), lines' = Append(lines, l), ~parsed', curKey' = None,
           l.kind \in Stops \/ (\A i \in HeadsOf(lines) : ~Unending(lines, i)),
           ~(l.kind = "key" /\ InSection(lines)),
           result' = OptionsOf(lines, HeadsOf(lines))
    PROVE  OptionsRead'
<1>1. lines \in Seq(Text(layout))
  BY DEF LinesRead
<1>2. HeadsOf(lines') = HeadsOf(lines)
  BY <1>1, HeadsGrow
<1>3. /\ OptionsOf(lines', HeadsOf(lines)) = OptionsOf(lines, HeadsOf(lines))
      /\ \A i \in HeadsOf(lines) : ~Unending(lines', i)
  BY <1>1, EndedOptions
<1> QED BY <1>2, <1>3 DEF OptionsRead

\* A key opens an option.
LEMMA KeyKept ==
    ASSUME LinesRead, NEW l \in Text(layout), lines' = Append(lines, l), ~parsed', l.kind = "key",
           InSection(lines), curKey' = l.key, curComments' = <<>>, curValues' = <<>>,
           result' = OptionsOf(lines, HeadsOf(lines))
    PROVE  OptionsRead'
<1> DEFINE m == Len(lines) + 1
           H == HeadsOf(lines)
<1>1. lines \in Seq(Text(layout)) /\ l.key # None
  BY TemplatesAssumption DEF LinesRead
<1>2. HeadsOf(lines') = H \cup {m} /\ H \in SUBSET (1..Len(lines)) /\ Len(lines) \in Nat
  BY <1>1, HeadsGrow, HeadsAreLines
<1>3. OptionsOf(lines', H) = result' /\ \A i \in H : ~Unending(lines', i)
  BY <1>1, EndedOptions DEF Stops
<1>4. BlockOf(lines', m) = <<>> /\ Unending(lines', m) /\ lines'[m] = l
  BY <1>1, BlockOfLast
<1>5. m \in HeadsOf(lines') /\ HeadsOf(lines') \ {m} = H /\ \A i \in H : i < m
  BY <1>2
<1>6. Told(BlockOf(lines', m), Comment) = <<>> /\ Told(BlockOf(lines', m), {"value", "junk"}) = <<>>
  BY <1>4, ToldOfNone
<1>7. \E h \in HeadsOf(lines') :
        /\ Unending(lines', h) /\ \A i \in HeadsOf(lines') \ {h} : i < h /\ ~Unending(lines', i)
        /\ curKey' = lines'[h].key
        /\ curComments' = Told(BlockOf(lines', h), Comment)
        /\ curValues' = Told(BlockOf(lines', h), {"value", "junk"})
        /\ result' = OptionsOf(lines', HeadsOf(lines') \ {h})
  <2> HIDE DEF m, H
  <2>1. /\ Unending(lines', m) /\ \A i \in HeadsOf(lines') \ {m} : i < m /\ ~Unending(lines', i)
        /\ curKey' = lines'[m].key
        /\ curComments' = Told(BlockOf(lines', m), Comment)
        /\ curValues' = Told(BlockOf(lines', m), {"value", "junk"})
        /\ result' = OptionsOf(lines', HeadsOf(lines') \ {m})
    BY <1>3, <1>4, <1>5, <1>6
  <2> QED BY <1>5, <2>1
<1>8. curKey' # None
  BY <1>1
<1> QED BY <1>7, <1>8 DEF OptionsRead, UnderWay

\* A line of the option under way.
LEMMA DetailKept ==
    ASSUME LinesRead, NEW l \in Text(layout), lines' = Append(lines, l), ~parsed', l.kind \notin Stops,
           NEW h \in HeadsOf(lines), UnderWay(h), curKey # None, curKey' = curKey, result' = result,
           curComments' = IF l.kind \in Comment THEN Append(curComments, l) ELSE curComments,
           curValues' = IF l.kind \in {"value", "junk"} THEN Append(curValues, l) ELSE curValues
    PROVE  OptionsRead'
<1> DEFINE H == HeadsOf(lines)
           S == Text(layout)
<1>1. lines \in Seq(S) /\ l.kind # "key"
  BY DEF LinesRead, Stops
<1> HIDE DEF S
<1>2. HeadsOf(lines') = H
  BY <1>1, HeadsGrow DEF S
<1>3. H \in SUBSET (1..Len(lines)) /\ H \in SUBSET Int /\ IsFiniteSet(H)
  BY <1>1, HeadsAreLines
<1>4. /\ lines'[h] = lines[h] /\ BlockOf(lines, h) \in Seq(S)
      /\ BlockOf(lines', h) = Append(BlockOf(lines, h), l) /\ Unending(lines', h)
  BY <1>1, <1>3, BlockGrows DEF UnderWay, S
<1>5. \A i \in H \ {h} : lines'[i] = lines[i] /\ BlockOf(lines', i) = BlockOf(lines, i) /\ ~Unending(lines', i)
  <2> TAKE i \in H \ {h}
  <2>1. i \in 1..Len(lines) /\ ~Unending(lines, i)
    BY <1>3 DEF UnderWay
  <2> QED BY <1>1, <2>1, BlockGrows DEF S
<1>6. H \ {h} \in SUBSET Int /\ IsFiniteSet(H \ {h})
  BY <1>3, FS_Subset
<1>7. OptionsOf(lines', H \ {h}) = OptionsOf(lines, H \ {h})
  <2> HIDE DEF H
  <2> QED BY <1>5, <1>6, SameOptions
<1>8. /\ curComments' = Told(BlockOf(lines', h), Comment)
      /\ curValues' = Told(BlockOf(lines', h), {"value", "junk"})
  BY <1>4, ToldGrows DEF UnderWay, S
<1>9. /\ Unending(lines', h) /\ \A i \in HeadsOf(lines') \ {h} : i < h /\ ~Unending(lines', i)
      /\ curKey' = lines'[h].key
      /\ curComments' = Told(BlockOf(lines', h), Comment)
      /\ curValues' = Told(BlockOf(lines', h), {"value", "junk"})
      /\ result' = OptionsOf(lines', HeadsOf(lines') \ {h})
  BY <1>2, <1>4, <1>5, <1>7, <1>8 DEF UnderWay
<1>10. h \in HeadsOf(lines')
  BY <1>2
<1> QED BY <1>9, <1>10 DEF OptionsRead, UnderWay

LEMMA LineKept ==
    ASSUME TemplateInv, NEW l \in Text(layout), ReadLine(l)
    PROVE  TemplateInv'
<1>1. LinesRead /\ OptionsRead /\ LinesRead'
  BY LinesReadKept DEF TemplateInv
<1>2. lines' = Append(lines, l) /\ ~parsed /\ ~parsed'
  BY DEF ReadLine
<1>3. inGameSection <=> InSection(lines)
  BY <1>1 DEF LinesRead
<1>4. Flushed = OptionsOf(lines, HeadsOf(lines))
  BY <1>1, <1>2, FlushedIsAll
<1>5. curKey = None => (\A i \in HeadsOf(lines) : ~Unending(lines, i)) /\ result = OptionsOf(lines, HeadsOf(lines))
  BY <1>1, <1>2 DEF OptionsRead
<1>6. curKey # None => inGameSection
  BY <1>1 DEF LinesRead
<1>7. CASE Unindented(l)
  <2>1. l.kind \in Stops /\ l.kind # "key" /\ l.kind \in {"section", "top"}
    BY <1>7 DEF Unindented, Stops
  <2>2. curKey' = None /\ result' = OptionsOf(lines, HeadsOf(lines))
    BY <1>4, <1>5, <1>6, <1>7 DEF Unindented, Flush
  <2> QED BY <1>1, <1>2, <2>1, <2>2, RestKept DEF TemplateInv
<1>8. CASE Heading(l) /\ l.kind # "key"
  <2>1. l.kind \in Stops /\ curKey' = None /\ result' = OptionsOf(lines, HeadsOf(lines))
    BY <1>4, <1>8 DEF Heading, Flush, Stops
  <2> QED BY <1>1, <1>2, <1>8, <2>1, RestKept DEF TemplateInv
<1>9. CASE Heading(l) /\ l.kind = "key"
  <2>1. /\ InSection(lines) /\ curKey' = l.key /\ curComments' = <<>> /\ curValues' = <<>>
        /\ result' = OptionsOf(lines, HeadsOf(lines))
    BY <1>3, <1>4, <1>9 DEF Heading, Flush
  <2> QED BY <1>1, <1>2, <1>9, <2>1, KeyKept DEF TemplateInv
<1>10. CASE (Detail(l) \/ Passed(l)) /\ curKey # None
  <2>1. PICK h \in HeadsOf(lines) : UnderWay(h)
    BY <1>1, <1>2, <1>10 DEF OptionsRead
  <2>2. /\ l.kind \notin Stops /\ curKey' = curKey /\ result' = result
        /\ curComments' = IF l.kind \in Comment THEN Append(curComments, l) ELSE curComments
        /\ curValues' = IF l.kind \in {"value", "junk"} THEN Append(curValues, l) ELSE curValues
    <3>1. CASE Detail(l)
      BY <3>1 DEF Detail, Stops, Comment
    <3>2. CASE Passed(l)
      BY <1>6, <1>10, <3>2 DEF Passed, Stops, Comment
    <3> QED BY <1>10, <3>1, <3>2
  <2> QED BY <1>1, <1>2, <1>10, <2>1, <2>2, DetailKept DEF TemplateInv
<1>11. CASE Passed(l) /\ curKey = None
  <2>1. ~(l.kind = "key" /\ InSection(lines)) /\ curKey' = None /\ result' = OptionsOf(lines, HeadsOf(lines))
    BY <1>3, <1>5, <1>11 DEF Passed, Comment
  <2> QED BY <1>1, <1>2, <1>5, <1>11, <2>1, RestKept DEF TemplateInv
<1>12. Detail(l) => curKey # None
  BY DEF Detail
<1> QED BY <1>7, <1>8, <1>9, <1>10, <1>11, <1>12 DEF ReadLine

LEMMA TemplateStep == TemplateInv /\ [TemplateNext]_templateVars => TemplateInv'
<1> SUFFICES ASSUME TemplateInv, [TemplateNext]_templateVars PROVE TemplateInv'
  OBVIOUS
<1>1. ASSUME NEW l \in IF Len(lines) < Len(layout.opening)
                       THEN {layout.opening[Len(lines) + 1]} ELSE layout.lines, ReadLine(l)
      PROVE  TemplateInv'
  <2>1. layout \in Layouts /\ lines \in Seq(Text(layout))
    BY DEF TemplateInv, LinesRead
  <2>2. Len(lines) \in Nat /\ layout.opening \in Seq(Text(layout))
    BY <2>1, TemplatesAssumption
  <2>3. Len(lines) < Len(layout.opening) => layout.opening[Len(lines) + 1] \in Text(layout)
    <3> HIDE DEF Text
    <3>1. Len(layout.opening) \in Nat
      BY <2>2
    <3>2. Len(lines) < Len(layout.opening) => Len(lines) + 1 \in 1..Len(layout.opening)
      BY <2>2, <3>1
    <3> QED BY <2>2, <3>2
  <2>4. l \in Text(layout)
    BY <1>1, <2>3 DEF Text
  <2> QED BY <1>1, <2>4, LineKept
<1>2. ASSUME EndOfTemplate PROVE TemplateInv'
  <2>1. /\ parsed' = TRUE /\ curKey' = None /\ result' = Flushed /\ ~parsed
        /\ layout' = layout /\ lines' = lines /\ inGameSection' = inGameSection
    BY <1>2 DEF EndOfTemplate, Flush
  <2>2. Flushed = OptionsOf(lines, HeadsOf(lines))
    BY <2>1, FlushedIsAll DEF TemplateInv
  <2>3. LinesRead'
    BY <2>1 DEF TemplateInv, LinesRead
  <2>4. OptionsRead'
    BY <2>1, <2>2 DEF OptionsRead
  <2> QED BY <2>3, <2>4 DEF TemplateInv
<1>3. ASSUME UNCHANGED templateVars PROVE TemplateInv'
  BY <1>3 DEF templateVars, TemplateInv, LinesRead, OptionsRead, UnderWay
<1> QED BY <1>1, <1>2, <1>3 DEF TemplateNext

LEMMA TemplateStart == TemplateInit => TemplateInv
<1> SUFFICES ASSUME TemplateInit PROVE TemplateInv
  OBVIOUS
<1>1. lines = <<>> /\ layout \in Layouts /\ inGameSection = FALSE /\ curKey = None /\ result = <<>> /\ parsed = FALSE
  BY DEF TemplateInit
<1>2. LinesRead
  <2>1. lines \in Seq(Text(layout)) /\ Len(lines) = 0
    BY <1>1
  <2>2. ~InSection(lines)
    BY <2>1 DEF InSection
  <2> QED BY <1>1, <2>1, <2>2 DEF LinesRead
<1>3. HeadsOf(lines) = {}
  BY <1>1 DEF HeadsOf
<1>4. OptionsOf(lines, {}) = <<>>
  BY FS_EmptySet DEF OptionsOf
<1> QED BY <1>1, <1>2, <1>3, <1>4 DEF TemplateInv, OptionsRead

\* Parse returns the options of the game sections of the text, each made of
\* its own lines (parser.go:36-99).
THEOREM TemplatesOptionsAreTheSections == TemplateSpec => []OptionsAreTheSections
<1>1. ASSUME TemplateInv PROVE OptionsAreTheSections
  <2> SUFFICES ASSUME parsed
               PROVE  LET heads == Ascending(Heads)
                      IN  result = [n \in DOMAIN heads |->
                             BuildOption(lines[heads[n]].key,
                                         Filter(Block(heads[n]), LAMBDA l : l.kind \in Comment),
                                         Filter(Block(heads[n]), LAMBDA l : l.kind \in {"value", "junk"}))]
    BY DEF OptionsAreTheSections
  <2>1. result = OptionsOf(lines, HeadsOf(lines))
    BY <1>1 DEF TemplateInv, OptionsRead
  <2>2. DOMAIN Ascending(Heads) = 1..Cardinality(Heads)
    BY DEF Ascending
  <2> QED BY <2>1, <2>2, OfLines DEF OptionsOf, Option, Told
<1>2. TemplateInv /\ [TemplateNext]_templateVars => TemplateInv'
  BY TemplateStep
<1>3. TemplateInit => TemplateInv
  BY TemplateStart
<1> QED BY <1>1, <1>2, <1>3, PTL DEF TemplateSpec

------------------------------------------------------------------------------
\* A filter of a filter.
LEMMA ToldTwice ==
    ASSUME NEW S, NEW b \in Seq(S), NEW K, NEW J, J \subseteq K
    PROVE  Told(b, K) \in Seq(S) /\ Told(Told(b, K), J) = Told(b, J)
<1> DEFINE Upto(n) == SubSeq(b, 1, n)
           Twice(c) == Told(c, K) \in Seq(S) /\ Told(Told(c, K), J) = Told(c, J)
           D == {n \in Nat : n <= Len(b) => Twice(Upto(n))}
<1>0. Len(b) \in Nat
  OBVIOUS
<1>1. Upto(0) = <<>> /\ <<>> \in Seq(S)
  OBVIOUS
<1>2. Twice(<<>>)
  BY <1>1, ToldOfNone
<1>3. ASSUME NEW n \in Nat, n + 1 <= Len(b), Twice(Upto(n)) PROVE Twice(Upto(n + 1))
  <2> DEFINE c == Upto(n)
             l == b[n + 1]
  <2>1. n + 1 \in 1..Len(b) /\ n \in 0..Len(b)
    BY <1>0, <1>3
  <2>2. c \in Seq(S) /\ l \in S
    BY <2>1
  <2>3. Upto(n + 1) = Append(c, l)
    <3>1. Upto(n + 1) = [k \in 1..(n + 1) |-> b[k]] /\ c = [k \in 1..n |-> b[k]] /\ Len(c) = n
      BY <2>1
    <3> HIDE DEF c
    <3>2. Append(c, l) = [k \in 1..(n + 1) |-> IF k = n + 1 THEN l ELSE c[k]]
      BY <2>2, <3>1
    <3>3. \A k \in 1..(n + 1) : b[k] = IF k = n + 1 THEN l ELSE c[k]
      BY <3>1
    <3> HIDE DEF Upto
    <3> QED BY <3>1, <3>2, <3>3
  <2> HIDE DEF c, l
  <2>4. Told(Append(c, l), K) = (IF l.kind \in K THEN Append(Told(c, K), l) ELSE Told(c, K))
        /\ Told(Append(c, l), J) = IF l.kind \in J THEN Append(Told(c, J), l) ELSE Told(c, J)
    BY <2>2, ToldGrows
  <2>5. Told(c, K) \in Seq(S) /\ Told(Told(c, K), J) = Told(c, J)
    BY <1>3 DEF c
  <2>6. Told(Append(Told(c, K), l), J) =
          IF l.kind \in J THEN Append(Told(Told(c, K), J), l) ELSE Told(Told(c, K), J)
    BY <2>2, <2>5, ToldGrows
  <2>7. Append(Told(c, K), l) \in Seq(S)
    BY <2>2, <2>5
  <2>8. Twice(Append(c, l))
    <3>1. CASE l.kind \in K
      BY <2>4, <2>5, <2>6, <2>7, <3>1
    <3>2. CASE l.kind \notin K
      BY <2>4, <2>5, <3>2
    <3> QED BY <3>1, <3>2
  <2> HIDE DEF Twice
  <2> QED BY <2>3, <2>8
<1> HIDE DEF Twice
<1>4. Upto(Len(b)) = b
  BY <1>0
<1> HIDE DEF Upto
<1>5. 0 \in D
  BY <1>1, <1>2
<1>6. \A n \in Nat : n \in D => n + 1 \in D
  BY <1>0, <1>3
<1> HIDE DEF D
<1>7. Nat \subseteq D
  BY <1>5, <1>6, CountingUp
<1>8. Twice(Upto(Len(b)))
  BY <1>0, <1>7 DEF D
<1> QED BY <1>4, <1>8 DEF Twice

\* A list that is not empty has a first heaviest element.
LEMMA HeaviestExists ==
    ASSUME NEW S, NEW p \in Seq(S), p # <<>>, \A i \in DOMAIN p : p[i].weight \in Int
    PROVE  /\ FirstHeaviest(p) \in DOMAIN p
           /\ \A j \in DOMAIN p : p[j].weight <= p[FirstHeaviest(p)].weight
<1> DEFINE w(i) == p[i].weight
           Beats(i, j) == w(j) < w(i) \/ (w(j) = w(i) /\ i <= j)
           D == {n \in Nat : n + 1 <= Len(p) => \E i \in 1..(n + 1) : \A j \in 1..(n + 1) : Beats(i, j)}
<1>1. Len(p) \in Nat /\ Len(p) # 0 /\ DOMAIN p = 1..Len(p) /\ \A i \in 1..Len(p) : w(i) \in Int
  OBVIOUS
<1> HIDE DEF w
<1>2. 0 \in D
  <2>1. \A j \in 1..(0 + 1) : j = 1
    OBVIOUS
  <2> QED BY <2>1
<1>3. ASSUME NEW n \in Nat, n \in D PROVE n + 1 \in D
  <2> SUFFICES ASSUME n + 2 <= Len(p)
               PROVE  \E i \in 1..(n + 2) : \A j \in 1..(n + 2) : Beats(i, j)
    OBVIOUS
  <2>1. PICK i \in 1..(n + 1) : \A j \in 1..(n + 1) : Beats(i, j)
    BY <1>1, <1>3
  <2>2. n + 2 \in 1..Len(p) /\ i \in 1..Len(p) /\ i \in 1..(n + 2) /\ i <= n + 2 /\ n + 2 \in 1..(n + 2)
    BY <1>1
  <2>3. \A j \in 1..(n + 2) : j = n + 2 \/ (j \in 1..(n + 1) /\ j \in 1..Len(p))
    BY <1>1
  <2>4. w(i) \in Int /\ w(n + 2) \in Int
    BY <1>1, <2>2
  <2>5. CASE w(n + 2) > w(i)
    <3>1. \A j \in 1..(n + 2) : Beats(n + 2, j)
      BY <1>1, <2>1, <2>2, <2>3, <2>4, <2>5
    <3> QED BY <2>2, <3>1
  <2>6. CASE ~(w(n + 2) > w(i))
    <3>1. Beats(i, n + 2)
      BY <2>2, <2>4, <2>6
    <3>2. \A j \in 1..(n + 2) : Beats(i, j)
      <4> HIDE DEF Beats
      <4> QED BY <2>1, <2>3, <3>1
    <3> QED BY <2>2, <3>2
  <2> QED BY <2>5, <2>6
<1>4. \A n \in Nat : n \in D => n + 1 \in D
  BY <1>3
<1>5. Nat \subseteq D
  <2> HIDE DEF D
  <2> QED BY <1>2, <1>4, CountingUp
<1>6. \E i \in 1..Len(p) : \A j \in 1..Len(p) : Beats(i, j)
  <2>1. Len(p) - 1 \in D /\ (Len(p) - 1) + 1 = Len(p)
    <3> HIDE DEF D
    <3> QED BY <1>1, <1>5
  <2> HIDE DEF Beats
  <2> QED BY <1>1, <2>1
<1>7. FirstHeaviest(p) = CHOOSE i \in 1..Len(p) : \A j \in 1..Len(p) : Beats(i, j)
  BY <1>1 DEF FirstHeaviest, w
<1> DEFINE f == FirstHeaviest(p)
<1>8. f \in 1..Len(p) /\ \A j \in 1..Len(p) : Beats(f, j)
  <2> HIDE DEF Beats
  <2> QED BY <1>6, <1>7
<1> HIDE DEF f
<1>9. \A j \in 1..Len(p) : w(j) <= w(f)
  BY <1>1, <1>8
<1> QED BY <1>1, <1>8, <1>9 DEF f, w

\* The elements of a filter are those of the list that pass.
LEMMA KeptElements ==
    ASSUME NEW S, NEW s \in Seq(S), NEW I \in SUBSET DOMAIN s
    PROVE  /\ Kept(s, I) \in Seq(S)
           /\ \A n \in DOMAIN Kept(s, I) : \E i \in I : Kept(s, I)[n] = s[i]
           /\ \A i \in I : \E n \in DOMAIN Kept(s, I) : Kept(s, I)[n] = s[i]
           /\ Kept(s, I) # <<>> => 1 \in DOMAIN Kept(s, I)
           /\ I # {} => Kept(s, I) # <<>>
<1> DEFINE k == Kept(s, I)
<1>1. /\ k \in Seq(S)
      /\ \A n \in DOMAIN k : Ascending(I)[n] \in I /\ k[n] = s[Ascending(I)[n]]
      /\ \A i \in I : \E n \in DOMAIN k : Ascending(I)[n] = i /\ k[n] = s[i]
  BY KeptIsPart
<1> HIDE DEF k
<1>2. k # <<>> => 1 \in DOMAIN k
  BY <1>1
<1>3. \A n \in DOMAIN k : \E i \in I : k[n] = s[i]
  BY <1>1
<1>4. \A i \in I : \E n \in DOMAIN k : k[n] = s[i]
  BY <1>1
<1>5. I # {} => k # <<>>
  <2>1. k = <<>> => DOMAIN k = {}
    OBVIOUS
  <2> QED BY <1>4, <2>1
<1> QED BY <1>1, <1>2, <1>3, <1>4, <1>5 DEF k

\* The default of a range.
LEMMA RangeCanBeRolled ==
    ASSUME NEW S, NEW pairs \in Seq(S), \A i \in DOMAIN pairs : pairs[i].weight \in Int,
           NEW numbers,
           numbers = Kept(Concrete(pairs), {i \in DOMAIN Concrete(pairs) : Number(Concrete(pairs)[i]) # None}),
           Rolled(numbers) # {}
    PROVE  \E i \in Rolled(numbers) : RangeDefault(pairs) \in {numbers[i].int, numbers[i].equiv}
<1> DEFINE c == Concrete(pairs)
           Ic == {i \in DOMAIN pairs : ~pairs[i].random}
           In == {i \in DOMAIN c : c[i].equiv # None /\ c[i].weight > 0}
           Ii == {i \in DOMAIN c : c[i].int # None /\ c[i].weight >= 0}
           Iu == {i \in DOMAIN c : Number(c[i]) # None}
           named == Kept(c, In)
           ints == Kept(c, Ii)
<1>1. c = Kept(pairs, Ic) /\ Ic \in SUBSET DOMAIN pairs
  BY DEF Concrete, Filter
<1>2. numbers = Kept(c, Iu)
  OBVIOUS
<1>3. RangeDefault(pairs) =
        IF named # <<>> THEN named[1].equiv
        ELSE IF ints # <<>> THEN ints[FirstHeaviest(ints)].int ELSE None
  BY DEF RangeDefault, Filter
<1>4. /\ In \in SUBSET DOMAIN c /\ Ii \in SUBSET DOMAIN c /\ Iu \in SUBSET DOMAIN c
      /\ \A i \in In : i \in DOMAIN c /\ c[i].equiv # None /\ c[i].weight > 0
      /\ \A i \in Ii : i \in DOMAIN c /\ c[i].int # None /\ c[i].weight >= 0
      /\ \A i \in DOMAIN c : c[i].int # None /\ c[i].weight >= 0 => i \in Ii
      /\ \A i \in DOMAIN c : c[i].equiv # None /\ c[i].weight > 0 => i \in In
      /\ \A i \in Iu : i \in DOMAIN c /\ (c[i].int # None \/ c[i].equiv # None)
      /\ \A i \in DOMAIN c : c[i].int # None \/ c[i].equiv # None => i \in Iu
  BY DEF Number
<1> HIDE DEF c, Ic, In, Ii, Iu
<1>5. c \in Seq(S) /\ \A n \in DOMAIN c : \E i \in Ic : c[n] = pairs[i]
  BY <1>1, KeptElements
<1>6. \A n \in DOMAIN c : c[n].weight \in Int
  BY <1>1, <1>5
<1> DEFINE u == Kept(c, Iu)
<1>7. /\ \A n \in DOMAIN u : \E i \in Iu : u[n] = c[i]
      /\ \A i \in Iu : \E n \in DOMAIN u : u[n] = c[i]
  BY <1>4, <1>5, KeptElements
<1>8. numbers = u
  BY <1>2
<1> HIDE DEF u
<1>9. \A i \in Iu : c[i].weight > 0 => \E n \in Rolled(numbers) : numbers[n] = c[i]
  <2> TAKE i \in Iu
  <2>1. ASSUME c[i].weight > 0 PROVE \E n \in Rolled(u) : u[n] = c[i]
    <3>1. PICK n \in DOMAIN u : u[n] = c[i]
      BY <1>7
    <3> QED BY <2>1, <3>1 DEF Rolled
  <2> QED BY <1>8, <2>1
<1>10. PICK r \in Iu : c[r].weight > 0
  <2>1. Rolled(u) # {}
    BY <1>8
  <2>2. PICK n \in DOMAIN u : u[n].weight > 0
    BY <2>1 DEF Rolled
  <2>3. PICK i \in Iu : u[n] = c[i]
    BY <1>7
  <2> QED BY <2>2, <2>3
<1>11. CASE named # <<>>
  <2>1. PICK i \in In : named[1] = c[i]
    BY <1>4, <1>5, <1>11, KeptElements
  <2>2. i \in Iu /\ c[i].weight > 0
    BY <1>4, <2>1
  <2>3. PICK n \in Rolled(numbers) : numbers[n] = c[i]
    BY <1>9, <2>2
  <2> QED BY <1>3, <1>11, <2>1, <2>3
<1>12. CASE named = <<>>
  <2>1. In = {}
    BY <1>4, <1>5, <1>12, KeptElements
  <2>2. r \in Ii
    BY <1>4, <1>6, <1>10, <2>1
  <2> DEFINE f == FirstHeaviest(ints)
  <2>3. /\ ints \in Seq(S) /\ ints # <<>>
        /\ \A n \in DOMAIN ints : \E i \in Ii : ints[n] = c[i]
        /\ \E n \in DOMAIN ints : ints[n] = c[r]
    BY <1>4, <1>5, <2>2, KeptElements
  <2> HIDE DEF ints
  <2>4. \A n \in DOMAIN ints : ints[n].weight \in Int
    BY <1>4, <1>6, <2>3
  <2>5. f \in DOMAIN ints /\ \A j \in DOMAIN ints : ints[j].weight <= ints[f].weight
    BY <2>3, <2>4, HeaviestExists
  <2> HIDE DEF f
  <2>6. PICK i \in Ii : ints[f] = c[i]
    BY <2>3, <2>5
  <2>7. c[i].weight \in Int /\ c[r].weight \in Int /\ c[r].weight <= c[i].weight
    BY <1>4, <1>6, <2>2, <2>3, <2>5, <2>6
  <2>8. i \in Iu /\ c[i].weight > 0
    BY <1>4, <1>10, <2>6, <2>7
  <2>9. PICK n \in Rolled(numbers) : numbers[n] = c[i]
    BY <1>9, <2>8
  <2>10. RangeDefault(pairs) = ints[f].int
    BY <1>3, <1>12, <2>3 DEF f
  <2> QED BY <2>6, <2>9, <2>10
<1> QED BY <1>11, <1>12

\* The default of a toggle or a choice.
LEMMA KeyCanBeRolled ==
    ASSUME NEW S, NEW pairs \in Seq(S), \A i \in DOMAIN pairs : pairs[i].weight \in Int, NEW rangeMin,
           InferType(pairs, rangeMin).type \in {"toggle", "choice"}, Rolled(pairs) # {}
    PROVE  \E i \in Rolled(pairs) : InferType(pairs, rangeMin).default = pairs[i].key
<1> DEFINE inferred == InferType(pairs, rangeMin)
<1>0. PICK r \in DOMAIN pairs : pairs[r].weight > 0
  BY DEF Rolled
<1>1. CASE inferred.type = "toggle"
  <2>1. /\ IsToggle(pairs)
        /\ inferred.default = IF \E i \in DOMAIN pairs : pairs[i].key = "true" /\ pairs[i].weight > 0
                              THEN "true" ELSE "false"
    BY <1>1 DEF InferType
  <2>2. pairs[r].key \in {"true", "false"}
    BY <2>1 DEF IsToggle
  <2> HIDE DEF inferred
  <2>3. \E i \in DOMAIN pairs : pairs[i].weight > 0 /\ inferred.default = pairs[i].key
    BY <1>0, <2>1, <2>2
  <2> QED BY <2>3 DEF Rolled, inferred
<1>2. CASE inferred.type = "choice"
  <2>1. inferred.default = IF \E i \in DOMAIN pairs : pairs[i].weight >= 0
                           THEN pairs[FirstHeaviest(pairs)].key ELSE None
    BY <1>2 DEF InferType
  <2>2. pairs[r].weight \in Int /\ pairs[r].weight >= 0
    BY <1>0
  <2>3. inferred.default = pairs[FirstHeaviest(pairs)].key
    BY <2>1, <2>2
  <2> DEFINE f == FirstHeaviest(pairs)
  <2>4. pairs # <<>>
    BY <1>0
  <2>5. f \in DOMAIN pairs /\ pairs[r].weight <= pairs[f].weight
    BY <2>4, HeaviestExists
  <2> HIDE DEF f, inferred
  <2>6. pairs[f].weight > 0
    BY <1>0, <2>2, <2>5
  <2> QED BY <2>3, <2>5, <2>6 DEF Rolled, f, inferred
<1> QED BY <1>1, <1>2

LEMMA RangeIsRangeDefault ==
    ASSUME NEW pairs, NEW rangeMin, InferType(pairs, rangeMin).type = "range"
    PROVE  InferType(pairs, rangeMin).default = RangeDefault(pairs)
BY DEF InferType

\* A default is a value that a generation could roll, whatever the template:
\* the weights of the values are compared, and a weight of 0 loses
\* (parser.go:165-284).
THEOREM TemplatesDefaultCanBeRolled == TemplateSpec => []DefaultCanBeRolled
<1>1. ASSUME TemplateInv, parsed, NEW n \in DOMAIN result
      PROVE  LET pairs == PairsOf(Ascending(Heads)[n])
                 numbers == Filter(Concrete(pairs), LAMBDA p : Number(p) # None)
             IN  /\ (result[n].type = "range" /\ Rolled(numbers) # {}) =>
                       \E i \in Rolled(numbers) : result[n].default \in {numbers[i].int, numbers[i].equiv}
                 /\ (result[n].type \in {"toggle", "choice"} /\ Rolled(pairs) # {}) =>
                       \E i \in Rolled(pairs) : result[n].default = pairs[i].key
  <2> DEFINE h == Ascending(Heads)[n]
             S == Text(layout)
             b == BlockOf(lines, h)
             pairs == PairsOf(h)
             numbers == Filter(Concrete(pairs), LAMBDA p : Number(p) # None)
             rangeMin == Bound(Told(b, Comment), "min")
             inferred == InferType(pairs, rangeMin)
  <2>1. layout \in Layouts /\ lines \in Seq(S) /\ result = OptionsOf(lines, HeadsOf(lines))
    BY <1>1 DEF TemplateInv, LinesRead, OptionsRead
  <2>2. Heads = HeadsOf(lines) /\ Block(h) = b
    BY OfLines
  <2>3. n \in 1..Cardinality(Heads) /\ result[n] = Option(lines, h)
    BY <1>1, <2>1, <2>2 DEF OptionsOf
  <2>4. h \in 1..Len(lines) /\ h \in HeadsOf(lines)
    BY <2>1, <2>2, <2>3, HeadsAreLines, AscendingEnumerates
  <2>5. lines[h] \in S
    <3> HIDE DEF h, S
    <3> QED BY <2>1, <2>4
  <2>6. b \in Seq(S)
    <3> HIDE DEF h, S
    <3> QED BY <2>1, <2>4, <2>5, BlockGrows
  <2>7. \A c : ParseValueLines(c) = Told(c, {"value"})
    <3> TAKE c
    <3>1. {i \in DOMAIN c : c[i].kind = "value"} = {i \in DOMAIN c : c[i].kind \in {"value"}}
      OBVIOUS
    <3> QED BY <3>1 DEF ParseValueLines, Told, Filter
  <2>8. pairs = Told(b, {"value"}) /\ ParseValueLines(Told(b, {"value", "junk"})) = pairs /\ pairs \in Seq(S)
    <3>1. pairs = Told(b, {"value"})
      BY <2>2, <2>7 DEF PairsOf
    <3>2. {"value"} \subseteq {"value", "junk"}
      OBVIOUS
    <3> HIDE DEF pairs, b, S, h
    <3>3. Told(Told(b, {"value", "junk"}), {"value"}) = Told(b, {"value"})
      BY <2>6, <3>2, ToldTwice
    <3>4. Told(b, {"value"}) \in Seq(S)
      BY <2>6, ToldTwice
    <3> QED BY <2>7, <3>1, <3>3, <3>4
  <2>9. \A i \in DOMAIN pairs : pairs[i].weight \in Int
    <3> DEFINE I == {i \in DOMAIN b : b[i].kind \in {"value"}}
    <3>1. pairs = Kept(b, I) /\ I \in SUBSET DOMAIN b
      BY <2>8 DEF Told, Filter
    <3>2. \A i \in I : i \in DOMAIN b /\ b[i].kind = "value"
      OBVIOUS
    <3> HIDE DEF pairs, b, I, S
    <3>3. \A k \in DOMAIN pairs : \E i \in I : pairs[k] = b[i]
      BY <2>6, <3>1, KeptElements
    <3>4. \A i \in DOMAIN b : b[i] \in S
      BY <2>6
    <3>5. \A l \in S : l.kind = "value" => l.weight \in Int
      BY <2>1, TemplatesAssumption DEF S
    <3> QED BY <3>2, <3>3, <3>4, <3>5
  <2>10. result[n].type = inferred.type /\ result[n].default = inferred.default
    <3> HIDE DEF pairs
    <3> QED BY <2>3, <2>8 DEF Option, BuildOption
  <2> HIDE DEF S, b, pairs, rangeMin, h
  <2>11. ASSUME result[n].type = "range", Rolled(numbers) # {}
         PROVE  \E i \in Rolled(numbers) : result[n].default \in {numbers[i].int, numbers[i].equiv}
    <3>1. result[n].default = RangeDefault(pairs)
      BY <2>10, <2>11, RangeIsRangeDefault
    <3> DEFINE x == numbers
    <3>2. /\ x = Kept(Concrete(pairs), {i \in DOMAIN Concrete(pairs) : Number(Concrete(pairs)[i]) # None})
          /\ Rolled(x) # {}
      BY <2>11 DEF Filter
    <3> HIDE DEF x
    <3>3. \E i \in Rolled(x) : RangeDefault(pairs) \in {x[i].int, x[i].equiv}
      BY <2>8, <2>9, <3>2, RangeCanBeRolled
    <3> QED BY <3>1, <3>3 DEF x
  <2>12. ASSUME result[n].type \in {"toggle", "choice"}, Rolled(pairs) # {}
         PROVE  \E i \in Rolled(pairs) : result[n].default = pairs[i].key
    BY <2>8, <2>9, <2>10, <2>12, KeyCanBeRolled
  <2> QED BY <2>11, <2>12 DEF pairs, h
<1>2. TemplateInv => DefaultCanBeRolled
  BY <1>1 DEF DefaultCanBeRolled
<1>3. TemplateInv /\ [TemplateNext]_templateVars => TemplateInv'
  BY TemplateStep
<1>4. TemplateInit => TemplateInv
  BY TemplateStart
<1> QED BY <1>2, <1>3, <1>4, PTL DEF TemplateSpec

------------------------------------------------------------------------------
IsList(s) == s \in Seq({s[i] : i \in DOMAIN s})

LEMMA ListOf == ASSUME NEW S, NEW s \in Seq(S) PROVE IsList(s)
<1> DEFINE T == {s[i] : i \in DOMAIN s}
<1>1. Len(s) \in Nat /\ DOMAIN s = 1..Len(s) /\ s = [i \in 1..Len(s) |-> s[i]]
  OBVIOUS
<1>2. s \in [1..Len(s) -> T]
  BY <1>1
<1> HIDE DEF T
<1>3. s \in Seq(T)
  BY <1>1, <1>2
<1> QED BY <1>3 DEF IsList, T

\* What a filter leaves: the indexes kept, and that nothing else is.
LEMMA FilesOf ==
    ASSUME NEW s, IsList(s)
    PROVE  /\ IsList(Files(s)) /\ \A i \in DOMAIN Files(s) : ~Files(s)[i].dir
           /\ Files(Files(s)) = Files(s)
<1> DEFINE S == {s[i] : i \in DOMAIN s}
           I == {i \in DOMAIN s : ~s[i].dir}
           t == Files(s)
<1>1. t = Kept(s, I)
  BY DEF Files, Filter
<1>2. s \in Seq(S) /\ I \in SUBSET DOMAIN s
  BY DEF IsList
<1>3. \A i \in I : ~s[i].dir
  OBVIOUS
<1> HIDE DEF S, I, t
<1>4. t \in Seq(S) /\ \A n \in DOMAIN t : Ascending(I)[n] \in I /\ t[n] = s[Ascending(I)[n]]
  BY <1>1, <1>2, KeptIsPart
<1>5. \A n \in DOMAIN t : ~t[n].dir
  BY <1>3, <1>4
<1>6. {i \in DOMAIN t : ~t[i].dir} = DOMAIN t
  BY <1>5
<1>7. Files(t) = Kept(t, DOMAIN t)
  BY <1>6 DEF Files, Filter
<1>8. Files(t) = t
  BY <1>4, <1>7, KeptAll
<1> QED BY <1>4, <1>5, <1>8, ListOf DEF t

\* Filter(files, not a save), of what is in the archive or was generated.
Worn(files) == Filter(files, LAMBDA e : e.ext # "apsave")

LEMMA WornOf ==
    ASSUME NEW s, IsList(s)
    PROVE  /\ \A i \in DOMAIN Worn(s) : Worn(s)[i].ext # "apsave"
           /\ Flat(s) => Flat(Worn(s))
           /\ DOMAIN Worn(s) \subseteq Int
<1> DEFINE S == {s[i] : i \in DOMAIN s}
           I == {i \in DOMAIN s : s[i].ext # "apsave"}
           t == Worn(s)
<1>1. t = Kept(s, I)
  BY DEF Worn, Filter
<1>2. s \in Seq(S) /\ I \in SUBSET DOMAIN s
  BY DEF IsList
<1>3. \A i \in I : s[i].ext # "apsave" /\ i \in DOMAIN s
  OBVIOUS
<1> HIDE DEF S, I, t
<1>4. /\ DOMAIN t = 1..Cardinality(I) /\ Cardinality(I) \in Nat
      /\ \A n \in DOMAIN t : Ascending(I)[n] \in I /\ t[n] = s[Ascending(I)[n]]
  BY <1>1, <1>2, KeptIsPart
<1>5. \A n \in DOMAIN t : t[n].ext # "apsave"
  BY <1>3, <1>4
<1>6. I \in SUBSET Int /\ IsFiniteSet(I)
  BY <1>2, DomainIsFinite
<1>7. \A n \in DOMAIN t : Rank(I, Ascending(I)[n]) = n
  BY <1>4, <1>6, AscendingEnumerates
<1>8. ASSUME Flat(s), NEW i \in DOMAIN t, NEW j \in DOMAIN t, BaseName(t[i]) = BaseName(t[j])
      PROVE  i = j
  <2>1. Ascending(I)[i] = Ascending(I)[j]
    BY <1>3, <1>4, <1>8 DEF Flat
  <2> QED BY <1>7, <2>1
<1>9. Flat(s) => Flat(t)
  BY <1>8 DEF Flat
<1>10. DOMAIN t \subseteq Int
  BY <1>4
<1> QED BY <1>5, <1>9, <1>10 DEF t

\* The volume out holds the files, each with its data, and no save.
Whole(out, files) ==
    /\ DOMAIN out = {BaseName(files[i]) : i \in DOMAIN files}
    /\ \A i \in DOMAIN files : out[BaseName(files[i])] = files[i].data
NoSave(out) == \A n \in DOMAIN out : n[2] # "apsave"

LEMMA Unpacked ==
    ASSUME NEW zip, IsList(zip)
    PROVE  /\ NoSave(ZipToOutputTar(zip))
           /\ Flat(Files(zip)) => Whole(ZipToOutputTar(zip), Worn(Files(zip)))
<1> DEFINE files == Worn(Files(zip))
           out == ZipToOutputTar(zip)
           Last(n) == CHOOSE i \in DOMAIN files :
                        /\ BaseName(files[i]) = n
                        /\ \A j \in DOMAIN files : j > i => BaseName(files[j]) # n
<1>1. out = [n \in {BaseName(files[i]) : i \in DOMAIN files} |-> files[Last(n)].data]
  BY DEF ZipToOutputTar, Restorable, Worn
<1>2. /\ \A i \in DOMAIN files : files[i].ext # "apsave"
      /\ Flat(Files(zip)) => Flat(files)
      /\ DOMAIN files \subseteq Int
  BY FilesOf, WornOf
<1> HIDE DEF files, out
<1>3. \A n \in DOMAIN out : n[2] # "apsave"
  BY <1>1, <1>2 DEF BaseName
<1>4. ASSUME Flat(Files(zip)), NEW i \in DOMAIN files
      PROVE  out[BaseName(files[i])] = files[i].data
  <2>1. \A j \in DOMAIN files : BaseName(files[j]) = BaseName(files[i]) => j = i
    BY <1>2, <1>4 DEF Flat
  <2>2. ~(i > i) /\ \A j \in DOMAIN files : j > i => j # i
    BY <1>2
  <2>3. Last(BaseName(files[i])) = i
    BY <2>1, <2>2
  <2> HIDE DEF Last
  <2> QED BY <1>1, <2>3
<1>5. DOMAIN out = {BaseName(files[i]) : i \in DOMAIN files}
  BY <1>1
<1> QED BY <1>3, <1>4, <1>5 DEF files, out, Whole, NoSave

------------------------------------------------------------------------------
ArtifactsSpec == ArtifactsInit /\ [][ArtifactsNext]_artifactVars

\* What is kept comes from the output captured, if there is one; what is in
\* the volume comes from what is kept.
Packed == [stem |-> "archive", ext |-> "zip", data |-> BuildOutputArtifact(captured)]
Alone(file) == [n \in {BaseName(file)} |-> file.data]
ArtifactsInv ==
    /\ captured \in Seq(Entry)
    /\ (captured # <<>> /\ artifact # NotStored) => artifact = Packed
    /\ (captured = <<>> /\ artifact # NotStored) => artifact \in Import
    /\ artifact = NotStored => volume = <<>>
    /\ volume # <<>> =>
          \/ IsZip(artifact.data) /\ volume = ZipToOutputTar(artifact.data.zip)
          \/ artifact.ext \notin {"zip", "apsave"} /\ volume = Alone(artifact)

LEMMA ArtifactsStep == ArtifactsInv /\ [ArtifactsNext]_artifactVars => ArtifactsInv'
<1> SUFFICES ASSUME ArtifactsInv, [ArtifactsNext]_artifactVars PROVE ArtifactsInv'
  OBVIOUS
<1> USE DEF ArtifactsInv
<1>1. ASSUME NEW e \in Entry, Write(e) PROVE ArtifactsInv'
  <2>1. captured' \in Seq(Entry)
    BY <1>1 DEF Write
  <2>2. artifact' = NotStored /\ artifact = NotStored /\ volume' = <<>>
    BY <1>1 DEF Write
  <2> QED BY <2>1, <2>2
<1>2. ASSUME StoreOutput PROVE ArtifactsInv'
  <2>1. volume' = <<>> /\ captured' = captured /\ captured # <<>> /\ artifact' = Packed'
    BY <1>2 DEF StoreOutput, Packed
  <2> QED BY <2>1
<1>3. ASSUME NEW file \in Import, Provide(file) PROVE ArtifactsInv'
  <2>1. volume' = <<>> /\ captured' = captured /\ captured = <<>> /\ artifact' = file
    BY <1>3 DEF Provide
  <2> QED BY <2>1
<1>4. ASSUME Restore PROVE ArtifactsInv'
  <2>1. captured' = captured /\ artifact' = artifact /\ artifact # NotStored /\ Packed' = Packed
    BY <1>4 DEF Restore, Packed
  <2>2. volume' # <<>> =>
          \/ IsZip(artifact.data) /\ volume' = ZipToOutputTar(artifact.data.zip)
          \/ artifact.ext \notin {"zip", "apsave"} /\ volume' = Alone(artifact)
    BY <1>4 DEF Restore, IsZipArtifact, Alone
  <2> QED BY <2>1, <2>2
<1>5. ASSUME UNCHANGED artifactVars PROVE ArtifactsInv'
  BY <1>5 DEF artifactVars, Packed
<1> QED
  BY <1>1, <1>2, <1>3, <1>4, <1>5 DEF ArtifactsNext

\* What is stored of an output unpacks to what Generated says.
LEMMA PackedIsGenerated ==
    ASSUME captured \in Seq(Entry), IsZip(Packed.data)
    PROVE  IsList(Packed.data.zip) /\ Files(Packed.data.zip) = Generated
<1> DEFINE files == Files(captured)
<1>1. IsList(captured)
  BY ListOf
<1>2. IsList(files) /\ Files(files) = files
  BY <1>1, FilesOf
<1>3. Packed.data = BuildOutputArtifact(captured)
  BY DEF Packed
<1>4. CASE Len(files) = 1 /\ files[1].ext = "zip"
  <2>1. BuildOutputArtifact(captured) = files[1].data
    BY <1>4 DEF BuildOutputArtifact
  <2>2. Generated = Files(files[1].data.zip)
    BY <1>3, <1>4, <2>1 DEF Generated
  <2>3. files[1] \in Entry
    <3> DEFINE I == {i \in DOMAIN captured : ~captured[i].dir}
    <3>1. files = Kept(captured, I) /\ I \in SUBSET DOMAIN captured
      BY DEF Files, Filter
    <3> HIDE DEF files, I
    <3>2. files \in Seq(Entry)
      BY <3>1, KeptIsPart
    <3> QED BY <1>4, <3>2
  <2>4. IsList(files[1].data.zip)
    BY <1>3, <2>1, <2>3, ArtifactsAssumption DEF IsZip, IsList
  <2> QED BY <1>3, <2>1, <2>2, <2>4
<1>5. CASE ~(Len(files) = 1 /\ files[1].ext = "zip")
  <2>1. Packed.data = [zip |-> files] /\ Packed.data.zip = files
    BY <1>3, <1>5 DEF BuildOutputArtifact, TarToZip
  <2>2. Generated = files
    BY <1>5 DEF Generated
  <2> QED BY <1>2, <2>1, <2>2
<1> QED BY <1>4, <1>5

\* Whatever a generation wrote and whatever files a member launches from, the
\* volume of a session launched from the stored output is the output without
\* the saves (session.go:330-406).
THEOREM ArtifactsRestoredAsGenerated == ArtifactsSpec => []RestoredAsGenerated
<1>1. ArtifactsInit => ArtifactsInv
  BY DEF ArtifactsInit, ArtifactsInv
<1>2. ASSUME ArtifactsInv PROVE RestoredAsGenerated
  <2>1. SUFFICES /\ (volume # <<>> /\ captured # <<>> /\ Flat(Generated)) => Whole(volume, Worn(Generated))
                 /\ volume # <<>> => NoSave(volume)
    <3>1. volume = <<>> => DOMAIN volume = {}
      OBVIOUS
    <3> QED BY <3>1 DEF RestoredAsGenerated, Worn, Whole, NoSave
  <2>2. ASSUME volume # <<>>, captured # <<>>
        PROVE  (Flat(Generated) => Whole(volume, Worn(Generated))) /\ NoSave(volume)
    <3>1. artifact = Packed /\ Packed.ext = "zip"
      BY <1>2, <2>2 DEF ArtifactsInv, Packed
    <3>2. IsZip(Packed.data) /\ volume = ZipToOutputTar(Packed.data.zip)
      BY <1>2, <2>2, <3>1 DEF ArtifactsInv
    <3>3. IsList(Packed.data.zip) /\ Files(Packed.data.zip) = Generated
      BY <1>2, <3>2, PackedIsGenerated DEF ArtifactsInv
    <3> DEFINE zip == Packed.data.zip
    <3> HIDE DEF zip
    <3>4. volume = ZipToOutputTar(zip) /\ IsList(zip) /\ Files(zip) = Generated
      BY <3>2, <3>3 DEF zip
    <3> QED BY <3>4, Unpacked
  <2>3. ASSUME volume # <<>>, captured = <<>>
        PROVE  NoSave(volume)
    <3>1. artifact \in Import
      BY <1>2, <2>3 DEF ArtifactsInv
    <3>2. CASE IsZip(artifact.data) /\ volume = ZipToOutputTar(artifact.data.zip)
      <4>1. IsList(artifact.data.zip)
        BY <3>1, <3>2, ArtifactsAssumption DEF IsZip, IsList
      <4> QED BY <3>2, <4>1, Unpacked
    <3>3. CASE artifact.ext # "apsave" /\ volume = Alone(artifact)
      BY <3>3 DEF BaseName, Alone, NoSave
    <3> QED BY <1>2, <2>3, <3>2, <3>3 DEF ArtifactsInv
  <2> QED BY <2>2, <2>3
<1>3. ArtifactsInv /\ [ArtifactsNext]_artifactVars => ArtifactsInv'
  BY ArtifactsStep
<1> QED
  BY <1>1, <1>2, <1>3, PTL DEF ArtifactsSpec
================================================================================
