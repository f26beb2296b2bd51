---------------------------- MODULE FiniteOrders ----------------------------
(***************************************************************************)
(* Induction over numbers and finite sets, in a form whose predicate is a  *)
(* set, and what follows from it for maxima, orders and folds.             *)
(***************************************************************************)
EXTENDS Integers, Sequences, SequencesExt, FiniteSetTheorems, WellFoundedInduction, TLAPS

\* A set of numbers with 0 and every successor has them all.
LEMMA CountInduction ==
  ASSUME NEW P, 0 \in P, \A n \in Nat : n \in P => n + 1 \in P
  PROVE  Nat \subseteq P
<1> SUFFICES ASSUME Nat \ P # {} PROVE FALSE
  OBVIOUS
<1> DEFINE Less == OpToRel(<, Nat)
<1>1. \A x, y \in Nat : <<y, x>> \in Less <=> y < x
  BY DEF OpToRel
<1>2. IsWellFoundedOn(Less, Nat)
  BY NatLessThanWellFounded
<1> HIDE DEF Less
<1>3. PICK n \in Nat \ P : \A m \in Nat \ P : ~(<<m, n>> \in Less)
  BY <1>2, WFMin
<1>4. n - 1 \in Nat \ P /\ n - 1 < n
  OBVIOUS
<1>. QED BY <1>1, <1>3, <1>4

\* Of the finite sets that fail, one is smallest.
LEMMA SmallestSet ==
  ASSUME NEW S, IsFiniteSet(S), NEW P, S \notin P
  PROVE  \E T \in SUBSET S : T \notin P /\ \A U \in SUBSET T : U # T => U \in P
<1> DEFINE Less == StrictSubsetOrdering(S)
           Bad == {T \in SUBSET S : T \notin P}
<1>1. \A T, U \in SUBSET S : <<U, T>> \in Less <=> U \subseteq T /\ U # T
  BY DEF StrictSubsetOrdering
<1>2. IsWellFoundedOn(Less, SUBSET S)
  BY FS_StrictSubsetOrderingWellFounded, FS_FiniteSubsetsOfFinite
<1>3. Bad \subseteq SUBSET S /\ S \in Bad /\ \A U \in SUBSET S : U \in Bad <=> U \notin P
  OBVIOUS
<1> HIDE DEF Less, Bad
<1>4. Bad # {}
  BY <1>3
<1>5. PICK T \in Bad : \A U \in Bad : ~(<<U, T>> \in Less)
  BY <1>2, <1>3, <1>4, WFMin
<1>6. ASSUME NEW U \in SUBSET T, U # T PROVE U \in P
  BY <1>1, <1>3, <1>5, <1>6
<1>. QED BY <1>3, <1>5, <1>6

LEMMA SetInduction ==
  ASSUME NEW S, IsFiniteSet(S), NEW P, {} \in P,
         \A T \in SUBSET S : \A x \in T : T \ {x} \in P => T \in P
  PROVE  S \in P
<1> SUFFICES ASSUME S \notin P PROVE FALSE
  OBVIOUS
<1>1. PICK T \in SUBSET S : T \notin P /\ \A U \in SUBSET T : U # T => U \in P
  BY SmallestSet
<1>2. PICK x \in T : TRUE
  BY <1>1
<1>3. T \ {x} \in SUBSET T /\ T \ {x} # T
  BY <1>2
<1>. QED BY <1>1, <1>2, <1>3

----------------------------------------------------------------------------
(***************************************************************************)
(* Strict total orders, given as sets of pairs.                            *)
(***************************************************************************)
Orders(R, S) ==
  /\ \A a, b \in S : a # b => <<a, b>> \in R \/ <<b, a>> \in R
  /\ \A a, b, c \in S : <<a, b>> \in R /\ <<b, c>> \in R => <<a, c>> \in R

\* A finite set has a last element.
LEMMA LastExists ==
  ASSUME NEW S, IsFiniteSet(S), S # {}, NEW R, Orders(R, S)
  PROVE  \E m \in S : \A x \in S \ {m} : <<x, m>> \in R
<1> DEFINE P == {T \in SUBSET S : T = {} \/ \E m \in T : \A x \in T \ {m} : <<x, m>> \in R}
<1>1. {} \in P
  OBVIOUS
<1>2. ASSUME NEW T \in SUBSET S, NEW x \in T, T \ {x} \in P PROVE T \in P
  <2>1. CASE T = {x}
    BY <2>1
  <2>2. CASE T # {x}
    <3>1. PICK m \in T \ {x} : \A y \in (T \ {x}) \ {m} : <<y, m>> \in R
      BY <1>2, <2>2
    <3>2. CASE <<x, m>> \in R
      BY <3>1, <3>2
    <3>3. CASE <<m, x>> \in R
      BY <3>1, <3>3 DEF Orders
    <3>. QED BY <3>1, <3>2, <3>3 DEF Orders
  <2>. QED BY <2>1, <2>2
<1> HIDE DEF P
<1>3. S \in P
  BY <1>1, <1>2, SetInduction
<1>. QED BY <1>3 DEF P

\* Sequences of a set's elements in order, each once.
InOrderOf(s, S, R) ==
  /\ s \in [1..Cardinality(S) -> S]
  /\ \A i, j \in 1..Cardinality(S) : i # j => s[i] # s[j]
  /\ \A x \in S : \E i \in 1..Cardinality(S) : s[i] = x
  /\ \A i, j \in 1..Cardinality(S) : i < j => <<s[i], s[j]>> \in R

LEMMA OrderExists ==
  ASSUME NEW S, IsFiniteSet(S), NEW R, Orders(R, S)
  PROVE  \E s : InOrderOf(s, S, R)
<1> DEFINE P == {T \in SUBSET S : \E s : InOrderOf(s, T, R)}
<1> SUFFICES ASSUME S \notin P PROVE FALSE
  OBVIOUS
<1>1. PICK T \in SUBSET S : T \notin P /\ \A U \in SUBSET T : U # T => U \in P
  <2> HIDE DEF P
  <2>. QED BY SmallestSet
<1>2. T # {}
  <2>1. InOrderOf(<<>>, {}, R)
    BY FS_EmptySet DEF InOrderOf
  <2>. QED BY <1>1, <2>1
<1>3. IsFiniteSet(T) /\ Orders(R, T)
  BY FS_Subset DEF Orders
<1>4. PICK m \in T : \A x \in T \ {m} : <<x, m>> \in R
  BY <1>2, <1>3, LastExists
<1> DEFINE U == T \ {m}
           n == Cardinality(U)
<1>5. U \in SUBSET T /\ U # T
  BY <1>4
<1>6. PICK s : InOrderOf(s, U, R)
  BY <1>1, <1>5
<1>7. n \in Nat /\ Cardinality(T) = n + 1
  BY <1>3, <1>4, <1>5, FS_RemoveElement, FS_CardinalityType, FS_Subset
<1> DEFINE t == [i \in 1..(n + 1) |-> IF i = n + 1 THEN m ELSE s[i]]
<1>8. /\ s \in [1..n -> U] /\ \A i, j \in 1..n : i # j => s[i] # s[j]
      /\ \A x \in U : \E i \in 1..n : s[i] = x
      /\ \A i, j \in 1..n : i < j => <<s[i], s[j]>> \in R
  BY <1>6 DEF InOrderOf
<1>9. U = T \ {m} /\ \A x \in U : <<x, m>> \in R
  BY <1>4
<1> HIDE DEF n, U
<1>10. t \in [1..(n + 1) -> T]
  BY <1>7, <1>8, <1>9
<1>11. \A i, j \in 1..(n + 1) : i # j => t[i] # t[j]
  BY <1>7, <1>8, <1>9
<1>12. \A x \in T : \E i \in 1..(n + 1) : t[i] = x
  <2> SUFFICES ASSUME NEW x \in T PROVE \E i \in 1..(n + 1) : t[i] = x
    OBVIOUS
  <2>1. CASE x = m
    BY <1>7, <2>1
  <2>2. CASE x \in U
    <3>1. PICK i \in 1..n : s[i] = x
      BY <1>8, <2>2
    <3>2. i \in 1..(n + 1) /\ t[i] = x
      BY <1>7, <3>1
    <3>. QED BY <3>2
  <2>. QED BY <1>9, <2>1, <2>2
<1>13. \A i, j \in 1..(n + 1) : i < j => <<t[i], t[j]>> \in R
  BY <1>7, <1>8, <1>9
<1>14. InOrderOf(t, T, R)
  <2> HIDE DEF t
  <2>. QED BY <1>7, <1>10, <1>11, <1>12, <1>13 DEF InOrderOf
<1>. QED BY <1>1, <1>14

\* The sequences of SetToSeqs list a finite set, each element once.
LEMMA ListedOnce ==
  ASSUME NEW S, IsFiniteSet(S), NEW s \in SetToSeqs(S)
  PROVE  /\ Cardinality(S) \in Nat /\ s \in [1..Cardinality(S) -> S] /\ s \in Seq(S)
         /\ \A i, j \in 1..Cardinality(S) : i # j => s[i] # s[j]
         /\ \A x \in S : \E i \in 1..Cardinality(S) : s[i] = x
<1>1. Cardinality(S) \in Nat
  BY FS_CardinalityType
<1>2. s \in [1..Cardinality(S) -> S] /\ \A i, j \in 1..Cardinality(S) : i # j => s[i] # s[j]
  BY DEF SetToSeqs
<1>3. IsFiniteSet(1..Cardinality(S)) /\ Cardinality(1..Cardinality(S)) = Cardinality(S)
  BY <1>1, FS_Interval
<1>4. s \in Injection(1..Cardinality(S), S)
  BY <1>2 DEF Injection, IsInjective
<1>5. s \in Surjection(1..Cardinality(S), S)
  BY <1>3, <1>4, FS_Injection
<1>6. \A x \in S : \E i \in 1..Cardinality(S) : s[i] = x
  BY <1>5 DEF Surjection
<1>7. s \in Seq(S)
  BY <1>1, <1>2
<1>. QED BY <1>1, <1>2, <1>6, <1>7

----------------------------------------------------------------------------
(***************************************************************************)
(* Numbers.                                                                *)
(***************************************************************************)
LEMMA MaxOK ==
  ASSUME NEW T, IsFiniteSet(T), T # {}, T \subseteq Int
  PROVE  Max(T) \in T /\ \A x \in T : x <= Max(T)
<1> DEFINE R == {p \in Int \X Int : p[1] < p[2]}
<1>1. \A a, b \in Int : <<a, b>> \in R <=> a < b
  OBVIOUS
<1> HIDE DEF R
<1>2. Orders(R, T)
  BY <1>1 DEF Orders
<1>3. PICK m \in T : \A x \in T \ {m} : <<x, m>> \in R
  BY <1>2, LastExists
<1>4. \A x \in T : m >= x
  <2> SUFFICES ASSUME NEW x \in T PROVE m >= x
    OBVIOUS
  <2>1. x = m \/ <<x, m>> \in R
    BY <1>3
  <2>. QED BY <1>1, <2>1
<1>. QED BY <1>4 DEF Max

LEMMA MinOK ==
  ASSUME NEW a \in Int, NEW b \in Int
  PROVE  Min({a, b}) \in {a, b} /\ Min({a, b}) <= a /\ Min({a, b}) <= b
BY DEF Min

LEMMA MaxOfInitial ==
  ASSUME NEW n \in Nat
  PROVE  Max(1..(n + 1)) = n + 1 /\ (1..(n + 1)) \ {n + 1} = 1..n
<1>1. IsFiniteSet(1..(n + 1)) /\ n + 1 \in 1..(n + 1)
  BY FS_Interval
<1>2. Max(1..(n + 1)) \in 1..(n + 1) /\ n + 1 <= Max(1..(n + 1))
  BY <1>1, MaxOK
<1>. QED BY <1>2

----------------------------------------------------------------------------
(***************************************************************************)
(* Sequences that repeat nothing.                                          *)
(***************************************************************************)
LEMMA TailOfDistinct ==
  ASSUME NEW S, NEW s \in Seq(S), s # <<>>, IsInjective(s)
  PROVE  /\ Tail(s) \in Seq(S) /\ Head(s) \in S /\ IsInjective(Tail(s))
         /\ ToSet(Tail(s)) = ToSet(s) \ {Head(s)} /\ Head(s) \in ToSet(s)
<1>1. /\ Len(s) \in Nat /\ Len(s) > 0 /\ DOMAIN s = 1..Len(s) /\ Head(s) = s[1]
      /\ DOMAIN Tail(s) = 1..(Len(s) - 1) /\ Tail(s) \in Seq(S)
      /\ \A i \in 1..(Len(s) - 1) : Tail(s)[i] = s[i + 1]
  OBVIOUS
<1>2. IsInjective(Tail(s))
  BY <1>1 DEF IsInjective
<1>3. ToSet(Tail(s)) \subseteq ToSet(s) \ {Head(s)}
  BY <1>1 DEF IsInjective, ToSet
<1>4. ASSUME NEW x \in ToSet(s) \ {Head(s)} PROVE x \in ToSet(Tail(s))
  <2>1. PICK i \in 1..Len(s) : s[i] = x
    BY <1>1 DEF ToSet
  <2>2. i # 1 /\ i - 1 \in 1..(Len(s) - 1) /\ Tail(s)[i - 1] = x
    BY <1>1, <1>4, <2>1
  <2>. QED BY <1>1, <2>2 DEF ToSet
<1>5. Head(s) \in ToSet(s) /\ Head(s) \in S
  BY <1>1 DEF ToSet
<1>6. ToSet(Tail(s)) = ToSet(s) \ {Head(s)}
  BY <1>3, <1>4
<1>. QED BY <1>1, <1>2, <1>5, <1>6

LEMMA AppendToDistinct ==
  ASSUME NEW S, NEW s \in Seq(S), IsInjective(s), NEW x \in S \ ToSet(s)
  PROVE  /\ Append(s, x) \in Seq(S) /\ IsInjective(Append(s, x))
         /\ ToSet(Append(s, x)) = ToSet(s) \cup {x}
<1>1. /\ Len(s) \in Nat /\ DOMAIN s = 1..Len(s) /\ DOMAIN Append(s, x) = 1..(Len(s) + 1)
      /\ Append(s, x) \in Seq(S) /\ Append(s, x)[Len(s) + 1] = x
      /\ \A i \in 1..Len(s) : Append(s, x)[i] = s[i]
  OBVIOUS
<1>2. IsInjective(Append(s, x))
  BY <1>1 DEF IsInjective, ToSet
<1>3. ToSet(Append(s, x)) \subseteq ToSet(s) \cup {x}
  BY <1>1 DEF ToSet
<1>4. ToSet(s) \cup {x} \subseteq ToSet(Append(s, x))
  <2>1. \A i \in DOMAIN s : s[i] \in ToSet(Append(s, x))
    BY <1>1 DEF ToSet
  <2>2. x \in ToSet(Append(s, x))
    BY <1>1 DEF ToSet
  <2>. QED BY <2>1, <2>2 DEF ToSet
<1>. QED BY <1>1, <1>2, <1>3, <1>4

\* The first elements of a sequence.
LEMMA FirstOK ==
  ASSUME NEW S, NEW s \in Seq(S), NEW n \in 0..Len(s)
  PROVE  /\ SubSeq(s, 1, n) \in Seq(S) /\ Len(SubSeq(s, 1, n)) = n
         /\ DOMAIN SubSeq(s, 1, n) = 1..n
         /\ \A i \in 1..n : SubSeq(s, 1, n)[i] = s[i]
OBVIOUS

\* Numbers of the elements of a sequence that repeats nothing.
LEMMA DistinctCount ==
  ASSUME NEW S, NEW s \in Seq(S), IsInjective(s)
  PROVE  IsFiniteSet(ToSet(s)) /\ Cardinality(ToSet(s)) = Len(s)
<1>1. Len(s) \in Nat /\ DOMAIN s = 1..Len(s)
  OBVIOUS
<1>4. IsFiniteSet(1..Len(s)) /\ Cardinality(1..Len(s)) = Len(s)
  BY <1>1, FS_Interval
<1>2. s \in [1..Len(s) -> ToSet(s)]
  BY <1>1 DEF ToSet
<1>3. s \in Surjection(1..Len(s), ToSet(s)) /\ s \in Injection(1..Len(s), ToSet(s))
  BY <1>1, <1>2 DEF Surjection, Injection, IsInjective, ToSet
<1>. QED BY <1>1, <1>3, <1>4, FS_Surjection

\* A sequence followed by one of other elements.
LEMMA ConcatOK ==
  ASSUME NEW S, NEW s \in Seq(S), NEW t \in Seq(S), IsInjective(s), IsInjective(t),
         \A x \in ToSet(s) : x \notin ToSet(t)
  PROVE  /\ s \o t \in Seq(S) /\ IsInjective(s \o t)
         /\ ToSet(s \o t) = ToSet(s) \cup ToSet(t)
<1> DEFINE c == s \o t
           a == Len(s)
           b == Len(t)
<1>1. /\ a \in Nat /\ b \in Nat /\ DOMAIN s = 1..a /\ DOMAIN t = 1..b
      /\ c \in Seq(S) /\ DOMAIN c = 1..(a + b)
      /\ \A i \in 1..a : c[i] = s[i]
      /\ \A i \in 1..b : c[i + a] = t[i]
  OBVIOUS
<1>2. /\ \A i \in 1..a : s[i] \in ToSet(s)
      /\ \A i \in 1..b : t[i] \in ToSet(t)
  BY <1>1 DEF ToSet
<1> HIDE DEF c, a, b
<1>3. \A i \in 1..(a + b) : \/ i \in 1..a /\ c[i] = s[i]
                            \/ i - a \in 1..b /\ c[i] = t[i - a]
  <2> SUFFICES ASSUME NEW i \in 1..(a + b), i \notin 1..a
               PROVE  i - a \in 1..b /\ c[i] = t[i - a]
    BY <1>1
  <2>1. i - a \in 1..b /\ (i - a) + a = i
    BY <1>1
  <2>. QED BY <1>1, <2>1
<1>4. IsInjective(c)
  <2> SUFFICES ASSUME NEW i \in 1..(a + b), NEW j \in 1..(a + b), c[i] = c[j] PROVE i = j
    BY <1>1 DEF IsInjective
  <2>1. CASE i \in 1..a /\ j \in 1..a
    BY <1>1, <2>1 DEF IsInjective
  <2>2. CASE i \in 1..a /\ j \notin 1..a
    <3>1. c[i] = s[i] /\ j - a \in 1..b /\ c[j] = t[j - a]
      BY <1>1, <1>3, <2>2
    <3>2. s[i] \in ToSet(s) /\ t[j - a] \in ToSet(t)
      BY <1>2, <2>2, <3>1
    <3>. QED BY <3>1, <3>2
  <2>3. CASE i \notin 1..a /\ j \in 1..a
    <3>1. c[j] = s[j] /\ i - a \in 1..b /\ c[i] = t[i - a]
      BY <1>1, <1>3, <2>3
    <3>2. s[j] \in ToSet(s) /\ t[i - a] \in ToSet(t)
      BY <1>2, <2>3, <3>1
    <3>. QED BY <3>1, <3>2
  <2>4. CASE i \notin 1..a /\ j \notin 1..a
    <3>1. i - a \in 1..b /\ j - a \in 1..b /\ t[i - a] = t[j - a]
      BY <1>3, <2>4
    <3>2. i - a = j - a
      BY <1>1, <3>1 DEF IsInjective
    <3>. QED BY <1>1, <3>2
  <2>. QED BY <2>1, <2>2, <2>3, <2>4
<1>5. ToSet(c) \subseteq ToSet(s) \cup ToSet(t)
  <2> SUFFICES ASSUME NEW i \in 1..(a + b) PROVE c[i] \in ToSet(s) \cup ToSet(t)
    BY <1>1 DEF ToSet
  <2>. QED BY <1>2, <1>3
<1>6. ToSet(s) \subseteq ToSet(c)
  BY <1>1 DEF ToSet
<1>7. ToSet(t) \subseteq ToSet(c)
  <2> SUFFICES ASSUME NEW i \in 1..b PROVE t[i] \in ToSet(c)
    BY <1>1 DEF ToSet
  <2>1. i + a \in 1..(a + b) /\ c[i + a] = t[i]
    BY <1>1
  <2>. QED BY <1>1, <2>1 DEF ToSet
<1>8. c \in Seq(S) /\ IsInjective(c) /\ ToSet(c) = ToSet(s) \cup ToSet(t)
  BY <1>1, <1>4, <1>5, <1>6, <1>7
<1>. QED BY <1>8 DEF c
=============================================================================
