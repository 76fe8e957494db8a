----------------------------- MODULE ProofLemmas -----------------------------
(***************************************************************************)
(* What the proofs of several components need to know about counting,      *)
(* about queues, about induction and division, and about orders.           *)
(***************************************************************************)
EXTENDS Integers, Sequences, FiniteSets, SequenceTheorems, FiniteSetTheorems,
        WellFoundedInduction, TLAPS

(***************************************************************************)
(* Wait groups, limits and locks count goroutines or connections: the      *)
(* number of those at a place when one comes or goes.                      *)
(***************************************************************************)
\* One more.
LEMMA CountUp ==
    ASSUME NEW S, IsFiniteSet(S), NEW T \in SUBSET S, NEW x \in S \ T
    PROVE  /\ Cardinality(T) \in Nat /\ Cardinality(T) < Cardinality(S)
           /\ Cardinality(T \cup {x}) = Cardinality(T) + 1
           /\ Cardinality(S) \in Nat
<1>1. IsFiniteSet(T) /\ Cardinality(T) \in Nat /\ Cardinality(S) \in Nat
  BY FS_Subset, FS_CardinalityType
<1>2. Cardinality(T \cup {x}) = Cardinality(T) + 1
  BY <1>1, FS_AddElement
<1>3. T \cup {x} \in SUBSET S
  OBVIOUS
<1>4. Cardinality(T \cup {x}) <= Cardinality(S)
  BY <1>3, FS_Subset
<1> QED BY <1>1, <1>2, <1>4

\* One less.
LEMMA CountDown ==
    ASSUME NEW S, IsFiniteSet(S), NEW T \in SUBSET S, NEW x \in T
    PROVE  /\ Cardinality(T) \in Nat \ {0}
           /\ Cardinality(T \ {x}) = Cardinality(T) - 1
<1>1. IsFiniteSet(T) /\ Cardinality(T) \in Nat
  BY FS_Subset, FS_CardinalityType
<1>2. Cardinality(T \ {x}) = Cardinality(T) - 1
  BY <1>1, FS_RemoveElement
<1>3. Cardinality(T) # 0
  BY <1>1, FS_EmptySet
<1> QED BY <1>1, <1>2, <1>3

\* 1 for those that are in T, 0 for the others.
In(x, T) == IF x \in T THEN 1 ELSE 0

\* Two sets that differ at most in x.
LEMMA Recount ==
    ASSUME NEW S, IsFiniteSet(S), NEW T \in SUBSET S, NEW U \in SUBSET S, NEW x \in S,
           T \ {x} = U \ {x}
    PROVE  /\ Cardinality(T) \in Nat /\ Cardinality(U) \in Nat
           /\ Cardinality(U) + In(x, T) = Cardinality(T) + In(x, U)
           /\ In(x, T) <= Cardinality(T)
<1>1. /\ IsFiniteSet(T) /\ Cardinality(T) \in Nat /\ IsFiniteSet(U) /\ Cardinality(U) \in Nat
  BY FS_Subset, FS_CardinalityType
<1>2. CASE x \in T
  <2>1. Cardinality(T \ {x}) = Cardinality(T) - 1 /\ Cardinality(T) \in Nat \ {0}
    BY <1>2, CountDown
  <2>2. CASE x \in U
    <3>1. T = U
      BY <1>2, <2>2
    <3> QED BY <1>1, <1>2, <2>1, <3>1 DEF In
  <2>3. CASE x \notin U
    <3>1. U = T \ {x}
      BY <2>3
    <3> QED BY <1>1, <1>2, <2>1, <2>3, <3>1 DEF In
  <2> QED BY <2>2, <2>3
<1>3. CASE x \notin T
  <2>1. CASE x \in U
    <3>1. U = T \cup {x}
      BY <1>3, <2>1
    <3>2. Cardinality(T \cup {x}) = Cardinality(T) + 1
      BY <1>3, CountUp
    <3> QED BY <1>1, <1>3, <2>1, <3>1, <3>2 DEF In
  <2>2. CASE x \notin U
    <3>1. T = U
      BY <1>3, <2>2
    <3> QED BY <1>1, <1>3, <3>1 DEF In
  <2> QED BY <2>1, <2>2
<1> QED BY <1>2, <1>3

-----------------------------------------------------------------------------
(***************************************************************************)
(* Sequences of sequence numbers: who is on one, who is on it once, and    *)
(* who is ahead of whom.                                                   *)
(***************************************************************************)
On(s, q) == \E i \in 1..Len(s) : s[i] = q
Once(s) == \A i, j \in 1..Len(s) : s[i] = s[j] => i = j

\* How often q is on s.
Occ(s, q) == Cardinality({i \in 1..Len(s) : s[i] = q})

\* The calls of one caller are on s in the order it made them; f is calls.
InOrder(f, s) ==
    \A i, j \in 1..Len(s) : i < j /\ f[s[i]].by = f[s[j]].by => s[i] < s[j]

\* Append, element by element.
LEMMA SeqAppend ==
    ASSUME NEW S, NEW s \in Seq(S), NEW x \in S
    PROVE  /\ Append(s, x) \in Seq(S) /\ Len(s) \in Nat /\ Len(Append(s, x)) = Len(s) + 1
           /\ Append(s, x)[Len(s) + 1] = x
           /\ \A i \in 1..Len(s) : Append(s, x)[i] = s[i]
BY LenProperties

\* Head and Tail, element by element.
LEMMA SeqTail ==
    ASSUME NEW S, NEW s \in Seq(S), s # <<>>
    PROVE  /\ Head(s) \in S /\ Head(s) = s[1] /\ Tail(s) \in Seq(S)
           /\ Len(s) \in Nat \ {0} /\ Len(Tail(s)) = Len(s) - 1
           /\ \A i \in 1..Len(s) - 1 : Tail(s)[i] = s[i + 1]
<1>1. Len(s) \in Nat \ {0}
  BY EmptySeq
<1> QED BY <1>1, HeadTailProperties

\* A number put at the end of a sequence.
LEMMA OnAppend ==
    ASSUME NEW S, NEW s \in Seq(S), NEW x \in S
    PROVE  /\ \A q : On(Append(s, x), q) <=> On(s, q) \/ q = x
           /\ Once(s) /\ ~On(s, x) => Once(Append(s, x))
           /\ \A f : /\ InOrder(f, s)
                     /\ \A q : On(s, q) /\ f[q].by = f[x].by => q < x
                     => InOrder(f, Append(s, x))
<1>1. /\ Len(s) \in Nat /\ Len(Append(s, x)) = Len(s) + 1
      /\ Append(s, x)[Len(s) + 1] = x
      /\ \A i \in 1..Len(s) : Append(s, x)[i] = s[i]
  BY SeqAppend
<1>2. \A i \in 1..Len(s) + 1 : i = Len(s) + 1 \/ i \in 1..Len(s)
  BY <1>1
<1>3. 1..Len(s) \subseteq 1..Len(s) + 1 /\ Len(s) + 1 \in 1..Len(s) + 1
  BY <1>1
<1>4. \A q : On(Append(s, x), q) <=> On(s, q) \/ q = x
  <2>1. ASSUME NEW q, On(Append(s, x), q) PROVE On(s, q) \/ q = x
    BY <1>1, <1>2, <2>1 DEF On
  <2>2. ASSUME NEW q, On(s, q) \/ q = x PROVE On(Append(s, x), q)
    BY <1>1, <1>3, <2>2 DEF On
  <2> QED BY <2>1, <2>2
<1>5. ASSUME Once(s), ~On(s, x) PROVE Once(Append(s, x))
  BY <1>1, <1>2, <1>5 DEF Once, On
<1>6. ASSUME NEW f, InOrder(f, s), \A q : On(s, q) /\ f[q].by = f[x].by => q < x
      PROVE  InOrder(f, Append(s, x))
  <2> SUFFICES ASSUME NEW i \in 1..Len(s) + 1, NEW j \in 1..Len(s) + 1, i < j,
                      f[Append(s, x)[i]].by = f[Append(s, x)[j]].by
               PROVE  Append(s, x)[i] < Append(s, x)[j]
    BY <1>1 DEF InOrder
  <2>1. i \in 1..Len(s)
    BY <1>1
  <2>2. Append(s, x)[i] = s[i] /\ On(s, s[i])
    BY <1>1, <2>1 DEF On
  <2>3. CASE j = Len(s) + 1
    BY <1>1, <1>6, <2>2, <2>3
  <2>4. CASE j \in 1..Len(s)
    BY <1>1, <1>6, <2>1, <2>4 DEF InOrder
  <2> QED BY <1>2, <2>3, <2>4
<1> QED BY <1>4, <1>5, <1>6

\* The number at the head of a sequence is taken off it.
LEMMA OnTail ==
    ASSUME NEW S, NEW s \in Seq(S), s # <<>>
    PROVE  /\ On(s, Head(s))
           /\ \A q : On(s, q) <=> On(Tail(s), q) \/ q = Head(s)
           /\ Once(s) => Once(Tail(s)) /\ ~On(Tail(s), Head(s))
           /\ \A f : InOrder(f, s) =>
                 /\ InOrder(f, Tail(s))
                 /\ \A q : On(Tail(s), q) /\ f[q].by = f[Head(s)].by => Head(s) < q
<1>1. /\ Head(s) = s[1] /\ Len(s) \in Nat \ {0} /\ Len(Tail(s)) = Len(s) - 1
      /\ \A i \in 1..Len(s) - 1 : Tail(s)[i] = s[i + 1]
  BY SeqTail
<1>2. \A i \in 1..Len(s) - 1 : i + 1 \in 1..Len(s) /\ i + 1 # 1
  BY <1>1
<1>3. \A i \in 1..Len(s) : i = 1 \/ i - 1 \in 1..Len(s) - 1
  BY <1>1
<1>4. 1 \in 1..Len(s)
  BY <1>1
<1>5. \A q : On(s, q) <=> On(Tail(s), q) \/ q = Head(s)
  <2>1. ASSUME NEW q, On(s, q) PROVE On(Tail(s), q) \/ q = Head(s)
    <3>1. PICK i \in 1..Len(s) : s[i] = q
      BY <2>1 DEF On
    <3>2. CASE i = 1
      BY <1>1, <3>1, <3>2
    <3>3. CASE i - 1 \in 1..Len(s) - 1
      <4>1. Tail(s)[i - 1] = q
        BY <1>1, <3>1, <3>3
      <4> QED BY <1>1, <3>3, <4>1 DEF On
    <3> QED BY <1>3, <3>2, <3>3
  <2>2. ASSUME NEW q, On(Tail(s), q) \/ q = Head(s) PROVE On(s, q)
    BY <1>1, <1>2, <1>4, <2>2 DEF On
  <2> QED BY <2>1, <2>2
<1>6. ASSUME Once(s) PROVE Once(Tail(s)) /\ ~On(Tail(s), Head(s))
  <2>1. ASSUME NEW i \in 1..Len(s) - 1, NEW j \in 1..Len(s) - 1, Tail(s)[i] = Tail(s)[j]
        PROVE  i = j
    <3>1. s[i + 1] = s[j + 1] /\ i + 1 \in 1..Len(s) /\ j + 1 \in 1..Len(s)
      BY <1>1, <1>2, <2>1
    <3>2. i + 1 = j + 1
      BY <1>6, <3>1 DEF Once
    <3> QED BY <3>2
  <2>2. ASSUME NEW i \in 1..Len(s) - 1 PROVE Tail(s)[i] # Head(s)
    BY <1>1, <1>2, <1>4, <1>6 DEF Once
  <2> QED BY <1>1, <2>1, <2>2 DEF Once, On
<1>7. ASSUME NEW f, InOrder(f, s)
      PROVE  /\ InOrder(f, Tail(s))
             /\ \A q : On(Tail(s), q) /\ f[q].by = f[Head(s)].by => Head(s) < q
  <2>1. ASSUME NEW i \in 1..Len(s) - 1, NEW j \in 1..Len(s) - 1, i < j,
               f[Tail(s)[i]].by = f[Tail(s)[j]].by
        PROVE  Tail(s)[i] < Tail(s)[j]
    <3>1. i + 1 \in 1..Len(s) /\ j + 1 \in 1..Len(s) /\ i + 1 < j + 1
      BY <1>2, <2>1
    <3>2. Tail(s)[i] = s[i + 1] /\ Tail(s)[j] = s[j + 1]
      BY <1>1
    <3> QED BY <1>7, <2>1, <3>1, <3>2 DEF InOrder
  <2>2. ASSUME NEW i \in 1..Len(s) - 1, f[Tail(s)[i]].by = f[Head(s)].by
        PROVE  Head(s) < Tail(s)[i]
    <3>1. i + 1 \in 1..Len(s) /\ 1 < i + 1 /\ Tail(s)[i] = s[i + 1]
      BY <1>1, <1>2
    <3> QED BY <1>1, <1>4, <1>7, <2>2, <3>1 DEF InOrder
  <2> QED BY <1>1, <2>1, <2>2 DEF InOrder, On
<1> QED BY <1>1, <1>4, <1>5, <1>6, <1>7 DEF On

\* A queue and what was taken from it: an element put at the end, the first one
\* taken off.
LEMMA TakenAndQueued ==
    ASSUME NEW S, NEW s \in Seq(S), NEW t \in Seq(S)
    PROVE  /\ s \o t \in Seq(S)
           /\ \A x \in S : s \o Append(t, x) = Append(s \o t, x)
           /\ t # <<>> => Append(s, Head(t)) \o Tail(t) = s \o t
<1>1. s \o t \in Seq(S)
  BY ConcatProperties
<1>2. ASSUME NEW x \in S PROVE s \o Append(t, x) = Append(s \o t, x)
  <2>1. Append(t, x) = t \o <<x>> /\ Append(s \o t, x) = (s \o t) \o <<x>> /\ <<x>> \in Seq(S)
    BY <1>1, AppendIsConcat
  <2> QED BY <2>1, ConcatAssociative
<1>3. ASSUME t # <<>> PROVE Append(s, Head(t)) \o Tail(t) = s \o t
  <2> DEFINE h == Head(t)
             u == Tail(t)
  <2>1. h \in S /\ u \in Seq(S) /\ Len(t) \in Nat \ {0} /\ Len(u) = Len(t) - 1 /\ h = t[1]
        /\ \A i \in 1..Len(t) - 1 : u[i] = t[i + 1]
    BY <1>3, SeqTail
  <2> HIDE DEF h, u
  <2>2. Append(s, h) = s \o <<h>> /\ <<h>> \in Seq(S)
    BY <2>1, AppendIsConcat
  <2>3. <<h>> \o u = t
    <3>1. /\ <<h>> \o u \in Seq(S) /\ Len(<<h>> \o u) = 1 + Len(u)
          /\ \A i \in 1..1 + Len(u) : (<<h>> \o u)[i] = IF i <= 1 THEN <<h>>[i] ELSE u[i - 1]
      BY <2>1, <2>2, ConcatProperties
    <3>2. ASSUME NEW i \in 1..Len(t) PROVE (<<h>> \o u)[i] = t[i]
      <4>1. CASE i = 1
        BY <2>1, <3>1, <4>1
      <4>2. CASE i # 1
        <5>1. i \in 1..1 + Len(u) /\ ~(i <= 1) /\ i - 1 \in 1..Len(t) - 1 /\ (i - 1) + 1 = i
          BY <2>1, <4>2
        <5> QED BY <2>1, <3>1, <5>1
      <4> QED BY <4>1, <4>2
    <3>3. Len(<<h>> \o u) = Len(t)
      BY <2>1, <3>1
    <3> QED BY <3>1, <3>2, <3>3, SeqEqual
  <2>4. (s \o <<h>>) \o u = s \o (<<h>> \o u)
    BY <2>1, <2>2, ConcatAssociative
  <2> QED BY <2>2, <2>3, <2>4 DEF h, u
<1> QED BY <1>1, <1>2, <1>3

\* How often a number is on a sequence is finite.
LEMMA OccFinite ==
    ASSUME NEW S, NEW s \in Seq(S), NEW q
    PROVE  /\ Occ(s, q) \in Nat /\ IsFiniteSet({i \in 1..Len(s) : s[i] = q})
           /\ (~On(s, q) => Occ(s, q) = 0)
<1> DEFINE T == {i \in 1..Len(s) : s[i] = q}
<1>1. Len(s) \in Nat /\ IsFiniteSet(1..Len(s)) /\ T \in SUBSET (1..Len(s))
  BY FS_Interval
<1>2. IsFiniteSet(T)
  BY <1>1, FS_Subset
<1>3. Cardinality(T) \in Nat
  BY <1>2, FS_CardinalityType
<1>4. ASSUME ~On(s, q) PROVE Cardinality(T) = 0
  <2>1. T = {}
    BY <1>4 DEF On
  <2> QED BY <2>1, FS_EmptySet
<1> QED BY <1>2, <1>3, <1>4 DEF Occ

\* ... and 0 when it is not there.
LEMMA OccType ==
    ASSUME NEW S, NEW s \in Seq(S), NEW q
    PROVE  Occ(s, q) \in Nat /\ (~On(s, q) => Occ(s, q) = 0)
BY OccFinite

\* Once more for the number put at the end.
LEMMA OccAppend ==
    ASSUME NEW S, NEW s \in Seq(S), NEW x \in S, NEW q
    PROVE  Occ(Append(s, x), q) = Occ(s, q) + (IF q = x THEN 1 ELSE 0)
<1> DEFINE T == {i \in 1..Len(s) : s[i] = q}
           U == {i \in 1..Len(Append(s, x)) : Append(s, x)[i] = q}
<1>1. /\ Len(s) \in Nat /\ Len(Append(s, x)) = Len(s) + 1 /\ Append(s, x)[Len(s) + 1] = x
      /\ \A i \in 1..Len(s) : Append(s, x)[i] = s[i]
  BY SeqAppend
<1>2. IsFiniteSet(T) /\ Cardinality(T) \in Nat
  BY OccFinite DEF Occ
<1>0. Occ(s, q) = Cardinality(T) /\ Occ(Append(s, x), q) = Cardinality(U)
  BY DEF Occ
<1>3. CASE q = x
  <2>1. U = T \cup {Len(s) + 1} /\ Len(s) + 1 \notin T
    BY <1>1, <1>3
  <2>2. Cardinality(T \cup {Len(s) + 1}) = Cardinality(T) + 1
    BY <1>2, <2>1, FS_AddElement
  <2> HIDE DEF T, U
  <2> QED BY <1>0, <1>3, <2>1, <2>2
<1>4. CASE q # x
  <2>1. U = T
    BY <1>1, <1>4
  <2> HIDE DEF T, U
  <2> QED BY <1>0, <1>2, <1>4, <2>1
<1> QED BY <1>3, <1>4

\* Once less for the number taken off.
LEMMA OccTail ==
    ASSUME NEW S, NEW s \in Seq(S), s # <<>>, NEW q
    PROVE  Occ(Tail(s), q) + (IF q = Head(s) THEN 1 ELSE 0) = Occ(s, q)
<1> DEFINE T == {i \in 1..Len(s) : s[i] = q}
           R == {i \in 1..Len(Tail(s)) : Tail(s)[i] = q}
           f == [i \in T \ {1} |-> i - 1]
<1>1. /\ Head(s) = s[1] /\ Tail(s) \in Seq(S) /\ Len(s) \in Nat \ {0}
      /\ Len(Tail(s)) = Len(s) - 1
      /\ \A i \in 1..Len(s) - 1 : Tail(s)[i] = s[i + 1]
  BY SeqTail
<1>2. IsFiniteSet(T) /\ Cardinality(T) \in Nat
  BY OccFinite DEF Occ
<1>0. Occ(s, q) = Cardinality(T) /\ Occ(Tail(s), q) = Cardinality(R)
  BY DEF Occ
<1>3. IsFiniteSet(T \ {1})
  BY <1>2, FS_Subset
<1>4. ASSUME NEW i \in T \ {1} PROVE i - 1 \in R
  <2>1. i - 1 \in 1..Len(s) - 1 /\ s[i] = q /\ (i - 1) + 1 = i
    BY <1>1
  <2> QED BY <1>1, <2>1
<1>5. ASSUME NEW j \in R PROVE j + 1 \in T \ {1} /\ (j + 1) - 1 = j
  <2>1. j \in 1..Len(s) - 1
    BY <1>1
  <2> QED BY <1>1, <2>1
<1>6. f \in Injection(T \ {1}, R)
  <2>1. f \in [T \ {1} -> R]
    BY <1>4
  <2>2. \A a, b \in T \ {1} : f[a] = f[b] => a = b
    BY <1>1
  <2> HIDE DEF f, T, R
  <2> QED BY <2>1, <2>2 DEF Injection, IsInjective
<1>7. f \in Surjection(T \ {1}, R)
  <2>1. f \in [T \ {1} -> R]
    BY <1>4
  <2>2. \A j \in R : \E a \in T \ {1} : f[a] = j
    BY <1>5
  <2> HIDE DEF f, T, R
  <2> QED BY <2>1, <2>2 DEF Surjection
<1>8. Cardinality(R) = Cardinality(T \ {1})
  <2> HIDE DEF f, T, R
  <2> QED BY <1>3, <1>6, <1>7, FS_Bijection DEF Bijection, ExistsBijection
<1>9. CASE q = Head(s)
  <2>1. 1 \in T
    BY <1>1, <1>9
  <2>2. Cardinality(T \ {1}) = Cardinality(T) - 1
    BY <1>2, <2>1, FS_RemoveElement
  <2> HIDE DEF T, R
  <2>3. Cardinality(R) + 1 = Cardinality(T)
    BY <1>2, <1>8, <2>2
  <2> QED BY <1>0, <1>9, <2>3
<1>10. CASE q # Head(s)
  <2>1. T \ {1} = T
    BY <1>1, <1>10
  <2> HIDE DEF T, R
  <2>2. Cardinality(T \ {1}) = Cardinality(T)
    BY <2>1, Zenon
  <2>3. Cardinality(R) + 0 = Cardinality(T)
    BY <1>2, <1>8, <2>2
  <2> QED BY <1>0, <1>10, <2>3
<1> QED BY <1>9, <1>10

(***************************************************************************)
(* Induction over the natural numbers, and division.                       *)
(***************************************************************************)

\* A set that has 0 and with every natural number the next one has all of them:
\* how the proofs say what holds of what is defined by recursion.
LEMMA InductionSet ==
    ASSUME NEW S, 0 \in S, \A n \in Nat : n \in S => n + 1 \in S
    PROVE  Nat \subseteq S
<1> DEFINE R == {ss \in Nat \X Nat : ss[1] < ss[2]}
           T == Nat \ S
<1>1. IsWellFoundedOn(R, Nat)
  BY NatLessThanWellFounded DEF OpToRel
<1>2. SUFFICES ASSUME T # {} PROVE FALSE
  OBVIOUS
<1>3. T \subseteq Nat
  OBVIOUS
<1> HIDE DEF R, T
<1>4. PICK x \in T : \A y \in T : ~(<<y, x>> \in R)
  BY <1>1, <1>2, <1>3, WFMin
<1> USE DEF T
<1>5. x # 0 /\ x - 1 \in Nat /\ x - 1 < x /\ (x - 1) + 1 = x
  BY <1>4
<1>6. x - 1 \notin S
  BY <1>4, <1>5
  \* otherwise <<x - 1, x>> would be in R
<1> QED BY <1>4, <1>5, <1>6 DEF R

\* A number is its quotient times the divisor and the remainder.
LEMMA DivMod ==
    ASSUME NEW v \in Nat, NEW d \in Nat \ {0}
    PROVE  v \div d \in Nat /\ v % d \in 0..(d - 1) /\ v = (v \div d) * d + (v % d)
<1>1. \A n, m \in Int : m > 0 => n = m * (n \div m) + (n % m) /\ n \div m \in Int
  OBVIOUS
<1>2. v % d \in 0..(d - 1)
  OBVIOUS
<1> DEFINE q == v \div d
           r == v % d
<1>3. v \in Int /\ d \in Int /\ d > 0
  OBVIOUS
<1>4. v = d * q + r /\ q \in Int
  BY <1>1, <1>3
<1> HIDE DEF q, r
<1>5. r \in 0..(d - 1)
  BY <1>2 DEF r
<1>6. ~(q <= -1)
  <2>1. q <= -1 => d * q <= -d
    BY <1>4
  <2> DEFINE p == d * q
  <2>2. v = p + r /\ p \in Int /\ (q <= -1 => p <= -d)
    BY <1>4, <2>1
  <2> HIDE DEF p
  <2>3. ~(p <= -d)
    BY <1>5, <2>2
  <2> QED BY <2>2, <2>3
<1>7. q \in Nat
  BY <1>4, <1>6
<1>8. d * q = q * d
  BY <1>7
<1>9. q \in Nat /\ r \in 0..(d - 1) /\ v = q * d + r
  BY <1>4, <1>5, <1>7, <1>8
<1> QED BY <1>9 DEF q, r

\* There is no other such quotient and remainder.
LEMMA DivUnique ==
    ASSUME NEW d \in Nat \ {0}, NEW q \in Int, NEW r \in 0..(d - 1)
    PROVE  (q * d + r) \div d = q /\ (q * d + r) % d = r
OBVIOUS

\* Division in two steps.
LEMMA DivTwice ==
    ASSUME NEW v \in Nat, NEW a \in Nat \ {0}, NEW b \in Nat \ {0}
    PROVE  a * b \in Nat \ {0} /\ (v \div a) \div b = v \div (a * b)
<1> DEFINE q == v \div a
           r == v % a
           p == q \div b
           s == q % b
<1>1. q \in Nat /\ r \in 0..(a - 1) /\ v = q * a + r
  BY DivMod
<1> HIDE DEF q, r
<1>2. p \in Nat /\ s \in 0..(b - 1) /\ q = p * b + s
  BY <1>1, DivMod
<1> HIDE DEF p, s
<1>3. v = p * (a * b) + (s * a + r)
  BY <1>1, <1>2
<1>4. s * a + r \in 0..(a * b - 1)
  <2>1. s * a <= (b - 1) * a
    BY <1>2
  <2> QED BY <1>1, <1>2, <2>1
<1>5. a * b \in Nat \ {0}
  <2>1. \A x, y \in Nat \ {0} : x * y \in Nat \ {0}
    OBVIOUS
  <2> QED BY <2>1
<1>6. v \div (a * b) = p
  BY <1>2, <1>3, <1>4, <1>5, DivUnique
<1> QED BY <1>5, <1>6 DEF p, q

\* A set of numbers below a bound has a greatest one.
LEMMA HasGreatest ==
    ASSUME NEW m \in Nat, NEW C \in SUBSET (1..m), C # {}
    PROVE  \E c \in C : \A d \in C : d <= c
<1> DEFINE S == {k \in Nat : \A D \in SUBSET (1..k) : D # {} => \E c \in D : \A d \in D : d <= c}
<1>1. 0 \in S
  <2>1. 1..0 = {}
    OBVIOUS
  <2> QED BY <2>1
<1>2. ASSUME NEW k \in Nat, k \in S PROVE k + 1 \in S
  <2> SUFFICES ASSUME NEW D \in SUBSET (1..(k + 1)), D # {}
               PROVE  \E c \in D : \A d \in D : d <= c
    OBVIOUS
  <2>1. CASE k + 1 \in D
    BY <2>1
  <2>2. CASE k + 1 \notin D
    <3>1. D \in SUBSET (1..k)
      BY <2>2
    <3> QED BY <1>2, <3>1
  <2> QED BY <2>1, <2>2
<1> HIDE DEF S
<1>3. m \in S
  BY <1>1, <1>2, InductionSet
<1> QED BY <1>3 DEF S

\* A strict total order on a finite set numbers its elements: the number of an
\* element is how many come before it.
NumberIn(S, R) == [a \in S |-> Cardinality({b \in S : <<b, a>> \in R})]

\* So the elements of S are numbered in their order.
LEMMA OrderNumbers ==
    ASSUME NEW S, IsFiniteSet(S), NEW R,
           \A a, b \in S : a = b \/ <<a, b>> \in R \/ <<b, a>> \in R,
           \A a \in S : <<a, a>> \notin R,
           \A a, b, c \in S : <<a, b>> \in R /\ <<b, c>> \in R => <<a, c>> \in R
    PROVE  /\ Cardinality(S) \in Nat
           /\ NumberIn(S, R) \in [S -> 0..(Cardinality(S) - 1)]
           /\ \A a, b \in S : <<a, b>> \in R <=> NumberIn(S, R)[a] < NumberIn(S, R)[b]
           /\ \A a, b \in S : NumberIn(S, R)[a] = NumberIn(S, R)[b] => a = b
           /\ \A n \in 0..(Cardinality(S) - 1) : \E a \in S : NumberIn(S, R)[a] = n
<1> DEFINE N == Cardinality(S)
           Under(a) == {b \in S : <<b, a>> \in R}
           f == NumberIn(S, R)
<1>1. N \in Nat
  BY FS_CardinalityType
<1>2. f = [a \in S |-> Cardinality(Under(a))]
  BY DEF NumberIn
<1>3. ASSUME NEW a \in S
      PROVE  IsFiniteSet(Under(a)) /\ Cardinality(Under(a)) \in Nat /\ Cardinality(Under(a)) < N
  <2>1. Under(a) \in SUBSET S /\ a \notin Under(a)
    OBVIOUS
  <2> HIDE DEF Under
  <2>2. /\ IsFiniteSet(Under(a)) /\ Cardinality(Under(a)) <= N
        /\ Cardinality(Under(a)) = N => Under(a) = S
    BY <2>1, FS_Subset
  <2>3. Cardinality(Under(a)) \in Nat
    BY <2>2, FS_CardinalityType
  <2>4. Cardinality(Under(a)) # N
    BY <2>1, <2>2
  <2> HIDE DEF N
  <2> QED BY <1>1, <2>2, <2>3, <2>4
<1>4. ASSUME NEW a \in S, NEW b \in S, <<a, b>> \in R
      PROVE  Cardinality(Under(a)) < Cardinality(Under(b))
  <2>1. Under(a) \in SUBSET Under(b) /\ a \in Under(b) /\ a \notin Under(a)
    BY <1>4
  <2>2. /\ Cardinality(Under(a)) \in Nat /\ Cardinality(Under(b)) \in Nat /\ IsFiniteSet(Under(b))
    BY <1>3
  <2> HIDE DEF Under
  <2>3. /\ Cardinality(Under(a)) <= Cardinality(Under(b))
        /\ Cardinality(Under(a)) = Cardinality(Under(b)) => Under(a) = Under(b)
    BY <2>1, <2>2, FS_Subset
  <2>4. Cardinality(Under(a)) # Cardinality(Under(b))
    BY <2>1, <2>3
  <2> QED BY <2>2, <2>3, <2>4
<1> HIDE DEF N, Under, f
<1>5. \A a \in S : f[a] \in 0..(N - 1)
  <2> SUFFICES ASSUME NEW a \in S PROVE f[a] \in 0..(N - 1)
    OBVIOUS
  <2>1. f[a] = Cardinality(Under(a))
    BY <1>2
  <2>2. f[a] \in Nat /\ f[a] < N
    BY <1>3, <2>1
  <2> QED BY <1>1, <2>2
<1>6. f \in [S -> 0..(N - 1)]
  BY <1>2, <1>5
<1>7. \A a, b \in S : <<a, b>> \in R => f[a] < f[b]
  BY <1>2, <1>4
<1>8. \A a, b \in S : /\ f[a] = f[b] => a = b
                      /\ f[a] < f[b] => <<a, b>> \in R
  <2> SUFFICES ASSUME NEW a \in S, NEW b \in S
               PROVE  (f[a] = f[b] => a = b) /\ (f[a] < f[b] => <<a, b>> \in R)
    OBVIOUS
  <2>1. f[a] \in Nat /\ f[b] \in Nat
    BY <1>1, <1>5
  <2>2. <<a, b>> \in R => f[a] < f[b]
    BY <1>7
  <2>3. <<b, a>> \in R => f[b] < f[a]
    BY <1>7
  <2>4. a = b \/ <<a, b>> \in R \/ <<b, a>> \in R
    OBVIOUS
  <2> QED BY <2>1, <2>2, <2>3, <2>4
<1>9. f \in Surjection(S, 0..(N - 1))
  <2>1. f \in Injection(S, 0..(N - 1))
    BY <1>6, <1>8 DEF Injection, IsInjective
  <2>2. IsFiniteSet(0..(N - 1)) /\ Cardinality(0..(N - 1)) = N
    <3>1. /\ IsFiniteSet(0..(N - 1))
          /\ Cardinality(0..(N - 1)) = IF 0 > N - 1 THEN 0 ELSE (N - 1) - 0 + 1
      BY <1>1, FS_Interval
    <3> QED BY <1>1, <3>1
  <2> QED BY <2>1, <2>2, FS_Injection DEF N
<1>10. \A n \in 0..(N - 1) : \E a \in S : f[a] = n
  BY <1>9 DEF Surjection
<1> QED BY <1>1, <1>6, <1>7, <1>8, <1>10 DEF N, f

=============================================================================
