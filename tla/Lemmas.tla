-------------------------------- MODULE Lemmas --------------------------------
(***************************************************************************)
(* Lemmas that the proofs of several modules rest on: about sets of        *)
(* naturals and sums, for the card engines, and about queues, for the      *)
(* lobbies.                                                                *)
(***************************************************************************)
EXTENDS Queues, FiniteSets, Functions, TLAPS, FiniteSetTheorems, WellFoundedInduction

(* Induction over the natural numbers as a statement about sets: every       *)
(* non-empty set of naturals has a least element.  The proofs about the      *)
(* loops of the card engines (one step per player or card) take the least    *)
(* counterexample in place of an induction on the loop counter.              *)
LEMMA LeastNatural ==
    ASSUME NEW S \in SUBSET Nat, S # {}
    PROVE  \E n \in S : \A m \in S : n <= m
<1> DEFINE Initials == {0 .. n : n \in S}
<1>1. IsWellFoundedOn(StrictSubsetOrdering(Nat), FiniteSubsetsOf(Nat))
  BY FS_StrictSubsetOrderingWellFounded
<1>2. \A n \in Nat : IsFiniteSet(0 .. n) /\ 0 .. n \in SUBSET Nat
  BY FS_Interval
<1>3. Initials \subseteq FiniteSubsetsOf(Nat) /\ Initials # {}
  BY <1>2 DEF FiniteSubsetsOf
<1>4. PICK I \in Initials : \A J \in Initials : ~ (<<J, I>> \in StrictSubsetOrdering(Nat))
  BY <1>1, <1>3, WFMin
<1>5. PICK n \in S : I = 0 .. n
  OBVIOUS
<1>6. ASSUME NEW m \in S, m < n
      PROVE  FALSE
  <2>1. 0 .. m \in Initials
    OBVIOUS
  <2>2. n \in 0 .. n /\ n \notin 0 .. m
    BY <1>6
  <2>3. 0 .. m \subseteq 0 .. n /\ 0 .. m # 0 .. n
    BY <1>6, <2>2
  <2>4. <<0 .. m, 0 .. n>> \in StrictSubsetOrdering(Nat)
    BY <1>2, <2>3 DEF StrictSubsetOrdering
  <2> QED
    BY <1>4, <1>5, <2>1, <2>4
<1> QED
  BY <1>6
(* Induction with the set of the numbers the claim holds for.                *)
LEMMA NaturalsAreReached ==
    ASSUME NEW Good, 0 \in Good, \A k \in Nat \ {0} : k - 1 \in Good => k \in Good
    PROVE  \A k \in Nat : k \in Good
<1> SUFFICES ASSUME Nat \ Good # {}
             PROVE  FALSE
  OBVIOUS
<1>1. PICK k \in Nat \ Good : \A m \in Nat \ Good : k <= m
  BY LeastNatural
<1>2. k # 0
  BY <1>1
<1>3. k - 1 \in Nat /\ k - 1 \in Good
  BY <1>1, <1>2
<1> QED
  BY <1>1, <1>2, <1>3

(* The step of SumFunction over the part s of a domain, its sum over smaller *)
(* parts being known.                                                        *)
SumStep(fun, sum, s) ==
    IF s = {} THEN 0 ELSE fun[CHOOSE x \in s : TRUE] + sum[s \ {CHOOSE x \in s : TRUE}]

Sums(fun, parts, sum) == sum = [s \in parts |-> SumStep(fun, sum, s)]

(* The sums of the values of fun over each part of its domain.               *)
PartialSums(fun) == CHOOSE sum : Sums(fun, SUBSET DOMAIN fun, sum)

(* A part of a finite set is empty or has an element to begin with, and is    *)
(* smaller without it.                                                       *)
LEMMA SmallerPart ==
    ASSUME NEW S, IsFiniteSet(S), NEW s \in SUBSET S
    PROVE  /\ Cardinality(s) \in Nat
           /\ Cardinality(s) <= Cardinality(S)
           /\ Cardinality(s) = 0 <=> s = {}
           /\ s # {} => LET x == CHOOSE x \in s : TRUE
                        IN  /\ x \in s
                            /\ s \ {x} \in SUBSET S
                            /\ Cardinality(s \ {x}) = Cardinality(s) - 1
<1>1. IsFiniteSet(s) /\ Cardinality(s) <= Cardinality(S)
  BY FS_Subset
<1>2. s # {} => (CHOOSE x \in s : TRUE) \in s
  OBVIOUS
<1> QED
  BY <1>1, <1>2, FS_CardinalityType, FS_EmptySet, FS_RemoveElement

(* The recursion of SumFunction runs to its end on a finite domain.          *)
LEMMA SumExists ==
    ASSUME NEW S, IsFiniteSet(S), NEW fun
    PROVE  \E sum : Sums(fun, SUBSET S, sum)
<1> DEFINE Upto(k)   == {s \in SUBSET S : Cardinality(s) <= k}
           Reached(k) == \E sum : Sums(fun, Upto(k), sum)
           Known      == {k \in Nat : Reached(k)}
<1>1. ASSUME NEW k \in Nat, NEW s \in Upto(k)
      PROVE  /\ s \in Upto(k + 1)
             /\ k = 0 => s = {}
             /\ s # {} => s \ {CHOOSE x \in s : TRUE} \in Upto(k - 1)
  <2>1. s \in SUBSET S /\ Cardinality(s) <= k
    OBVIOUS
  <2> QED
    BY <2>1, SmallerPart
<1>2. Upto(Cardinality(S)) = SUBSET S
  BY SmallerPart
<1>3. Reached(0)
  <2> DEFINE sum == [s \in Upto(0) |-> 0]
  <2>1. Sums(fun, Upto(0), sum)
    BY <1>1 DEF Sums, SumStep
  <2> QED
    BY <2>1
<1>4. ASSUME NEW k \in Nat \ {0}, Reached(k - 1)
      PROVE  Reached(k)
  <2> HIDE DEF Upto
  <2>1. PICK g : Sums(fun, Upto(k - 1), g)
    BY <1>4
  <2> DEFINE h == [s \in Upto(k) |-> SumStep(fun, g, s)]
  <2>2. \A s \in Upto(k - 1) : h[s] = g[s]
    <3> TAKE s \in Upto(k - 1)
    <3>1. s \in Upto(k)
      <4>1. k - 1 \in Nat /\ (k - 1) + 1 = k
        OBVIOUS
      <4>2. s \in Upto((k - 1) + 1)
        BY <1>1, <4>1
      <4> QED
        BY <4>1, <4>2
    <3>2. g[s] = SumStep(fun, g, s)
      BY <2>1 DEF Sums
    <3> QED
      BY <3>1, <3>2
  <2>3. ASSUME NEW s \in Upto(k)
        PROVE  h[s] = SumStep(fun, h, s)
    <3>1. s # {} => s \ {CHOOSE x \in s : TRUE} \in Upto(k - 1)
      BY <1>1
    <3>2. s # {} => h[s \ {CHOOSE x \in s : TRUE}] = g[s \ {CHOOSE x \in s : TRUE}]
      BY <2>2, <3>1
    <3>3. SumStep(fun, g, s) = SumStep(fun, h, s)
      BY <3>2 DEF SumStep
    <3> QED
      BY <3>3
  <2>4. Sums(fun, Upto(k), h)
    BY <2>3 DEF Sums
  <2> QED
    BY <2>4
<1>5. \A k \in Nat : k \in Known
  <2> HIDE DEF Reached
  <2> QED
    BY <1>3, <1>4, NaturalsAreReached
<1>6. Cardinality(S) \in Nat
  BY FS_CardinalityType
<1>7. Reached(Cardinality(S))
  <2> HIDE DEF Reached
  <2> QED
    BY <1>5, <1>6
<1> HIDE DEF Upto
<1> QED
  BY <1>2, <1>7 DEF Reached

LEMMA SumIsPartialSum ==
    ASSUME NEW fun, IsFiniteSet(DOMAIN fun)
    PROVE  /\ SumFunction(fun) = PartialSums(fun)[DOMAIN fun]
           /\ \A s \in SUBSET DOMAIN fun :
                 PartialSums(fun)[s] = SumStep(fun, PartialSums(fun), s)
<1> DEFINE sum == PartialSums(fun)
<1>1. Sums(fun, SUBSET DOMAIN fun, sum)
  BY SumExists DEF PartialSums
<1>2. SumFunction(fun) = sum[DOMAIN fun]
  BY DEF SumFunction, SumFunctionOnSet, FoldFunctionOnSet, MapThenFoldSet,
         PartialSums, Sums, SumStep
<1>3. \A s \in SUBSET DOMAIN fun : sum[s] = SumStep(fun, sum, s)
  BY <1>1 DEF Sums
<1> QED
  BY <1>2, <1>3

(* Zeros add up to zero; one more at one place is one more in all.           *)
LEMMA SumOfZeros ==
    ASSUME NEW S, IsFiniteSet(S)
    PROVE  SumFunction([x \in S |-> 0]) = 0
<1> DEFINE fun == [x \in S |-> 0]
<1> DEFINE sum == PartialSums(fun)
<1>0. DOMAIN fun = S /\ \A x \in S : fun[x] = 0
  OBVIOUS
<1> HIDE DEF fun
<1>1. SumFunction(fun) = sum[S] /\ \A s \in SUBSET S : sum[s] = SumStep(fun, sum, s)
  BY <1>0, SumIsPartialSum
<1> HIDE DEF sum
<1> DEFINE Zero(k) == \A s \in SUBSET S : Cardinality(s) = k => sum[s] = 0
           Zeros   == {k \in Nat : Zero(k)}
<1>2. Zero(0)
  BY <1>1, SmallerPart DEF SumStep
<1>3. ASSUME NEW k \in Nat \ {0}, Zero(k - 1)
      PROVE  Zero(k)
  <2> TAKE s \in SUBSET S
  <2> HAVE Cardinality(s) = k
  <2> DEFINE x == CHOOSE x \in s : TRUE
  <2>1. x \in s /\ s \ {x} \in SUBSET S /\ Cardinality(s \ {x}) = k - 1 /\ s # {}
    BY SmallerPart
  <2>2. sum[s] = fun[x] + sum[s \ {x}]
    BY <1>1, <2>1 DEF SumStep
  <2>3. fun[x] = 0
    BY <1>0, <2>1
  <2>4. sum[s \ {x}] = 0
    BY <1>3, <2>1
  <2> QED
    BY <2>2, <2>3, <2>4
<1>4. \A k \in Nat : k \in Zeros
  <2> HIDE DEF Zero
  <2> QED
    BY <1>2, <1>3, NaturalsAreReached
<1>5. Cardinality(S) \in Nat
  BY FS_CardinalityType
<1>6. sum[S] = 0
  BY <1>4, <1>5
<1> QED
  BY <1>1, <1>6 DEF fun

LEMMA SumOneMore ==
    ASSUME NEW S, IsFiniteSet(S), NEW fun \in [S -> Nat],
           NEW more \in [S -> Nat], NEW w \in S, more = [fun EXCEPT ![w] = @ + 1]
    PROVE  /\ SumFunction(fun) \in Nat
           /\ SumFunction(more) = SumFunction(fun) + 1
<1>0. DOMAIN fun = S /\ DOMAIN more = S
      /\ \A x \in S : fun[x] \in Nat /\ more[x] = fun[x] + (IF w = x THEN 1 ELSE 0)
  OBVIOUS
<1> DEFINE sum     == PartialSums(fun)
           sumMore == PartialSums(more)
<1>1. SumFunction(fun) = sum[S] /\ \A s \in SUBSET S : sum[s] = SumStep(fun, sum, s)
  BY <1>0, SumIsPartialSum
<1>2. SumFunction(more) = sumMore[S] /\ \A s \in SUBSET S : sumMore[s] = SumStep(more, sumMore, s)
  BY <1>0, SumIsPartialSum
<1> HIDE DEF sum, sumMore
<1> DEFINE Right(s)  == sum[s] \in Nat /\ sumMore[s] = sum[s] + (IF w \in s THEN 1 ELSE 0)
           Raised(k) == \A s \in SUBSET S : Cardinality(s) = k => Right(s)
           Counted   == {k \in Nat : Raised(k)}
<1>3. Raised(0)
  <2> TAKE s \in SUBSET S
  <2> HAVE Cardinality(s) = 0
  <2>1. s = {}
    BY SmallerPart
  <2>2. sum[s] = 0 /\ sumMore[s] = 0
    BY <1>1, <1>2, <2>1 DEF SumStep
  <2> QED
    BY <2>1, <2>2
<1>4. ASSUME NEW k \in Nat \ {0}, Raised(k - 1)
      PROVE  Raised(k)
  <2> TAKE s \in SUBSET S
  <2> HAVE Cardinality(s) = k
  <2> DEFINE x == CHOOSE x \in s : TRUE
  <2>1. x \in s /\ s \ {x} \in SUBSET S /\ Cardinality(s \ {x}) = k - 1 /\ s # {}
    BY SmallerPart
  <2>2. sum[s] = fun[x] + sum[s \ {x}] /\ sumMore[s] = more[x] + sumMore[s \ {x}]
    BY <1>1, <1>2, <2>1 DEF SumStep
  <2>3. Right(s \ {x})
    BY <1>4, <2>1
  <2>4. x \in S /\ fun[x] \in Nat /\ more[x] = fun[x] + (IF w = x THEN 1 ELSE 0)
    BY <1>0, <2>1
  <2> HIDE DEF x
  <2>5. CASE w = x
    BY <2>1, <2>2, <2>3, <2>4, <2>5
  <2>6. CASE w # x
    BY <2>1, <2>2, <2>3, <2>4, <2>6
  <2> QED
    BY <2>5, <2>6
<1>5. \A k \in Nat : k \in Counted
  <2> HIDE DEF Raised
  <2> QED
    BY <1>3, <1>4, NaturalsAreReached
<1>6. Cardinality(S) \in Nat
  BY FS_CardinalityType
<1>7. Right(S)
  BY <1>5, <1>6
<1> QED
  BY <1>1, <1>2, <1>7

LEMMA SumRaised ==
    ASSUME NEW S, IsFiniteSet(S), NEW fun \in [S -> Nat], NEW w \in S
    PROVE  SumFunction([fun EXCEPT ![w] = @ + 1]) = SumFunction(fun) + 1
<1> DEFINE more == [fun EXCEPT ![w] = @ + 1]
<1>1. more \in [S -> Nat]
  OBVIOUS
<1> QED
  BY <1>1, SumOneMore

(* Naturals add up to a natural, also those of an empty domain.              *)
LEMMA SumIsNatural ==
    ASSUME NEW S, IsFiniteSet(S), NEW fun \in [S -> Nat]
    PROVE  SumFunction(fun) \in Nat
<1>1. CASE S = {}
  <2>1. fun = [x \in S |-> 0]
    BY <1>1
  <2> QED
    BY <2>1, SumOfZeros
<1>2. CASE S # {}
  <2>1. PICK w \in S : TRUE
    BY <1>2
  <2>2. [fun EXCEPT ![w] = @ + 1] \in [S -> Nat]
    OBVIOUS
  <2> QED
    BY <2>2, SumOneMore
<1> QED
  BY <1>1, <1>2
-----------------------------------------------------------------------------
(* What is known of two queues, one after the other, and of a tail.          *)
LEMMA Joined ==
    ASSUME NEW S, NEW a \in Seq(S), NEW b \in Seq(S)
    PROVE  /\ a \o b \in Seq(S)
           /\ Len(a) \in Nat /\ DOMAIN a = 1 .. Len(a)
           /\ Len(b) \in Nat /\ DOMAIN b = 1 .. Len(b)
           /\ DOMAIN (a \o b) = 1 .. Len(a) + Len(b)
           /\ \A i \in DOMAIN a : i \in DOMAIN (a \o b) /\ (a \o b)[i] = a[i]
           /\ \A i \in DOMAIN b : Len(a) + i \in DOMAIN (a \o b) /\ (a \o b)[Len(a) + i] = b[i]
           /\ \A i \in DOMAIN (a \o b) : i \in DOMAIN a \/ (i - Len(a) \in DOMAIN b /\ i = Len(a) + (i - Len(a)))
  OBVIOUS

LEMMA Tailed ==
    ASSUME NEW S, NEW q \in Seq(S), q # <<>>
    PROVE  /\ Len(q) \in Nat /\ DOMAIN q = 1 .. Len(q) /\ 1 \in DOMAIN q
           /\ Head(q) = q[1] /\ Head(q) \in S
           /\ Tail(q) \in Seq(S) /\ DOMAIN Tail(q) = 1 .. Len(q) - 1
           /\ \A i \in DOMAIN Tail(q) : i + 1 \in DOMAIN q /\ Tail(q)[i] = q[i + 1]
  OBVIOUS

(* How the end of a queue changes when messages are added and taken.         *)
LEMMA EndIsSent ==
    ASSUME NEW M, NEW q \in Seq(M), NEW out \in Seq(M), NEW T, NEW S, EndsIn(out, T, S)
    PROVE  EndsIn(q \o out, T, S)
<1>1. PICK k \in DOMAIN out : out[k] \in T /\ \A j \in DOMAIN out : j > k => out[j] \in S
  BY DEF EndsIn
<1>2. Len(q) + k \in DOMAIN (q \o out) /\ (q \o out)[Len(q) + k] \in T
  BY <1>1, Joined
<1>3. ASSUME NEW j \in DOMAIN (q \o out), j > Len(q) + k PROVE (q \o out)[j] \in S
  <2>1. /\ Len(q) \in Nat /\ DOMAIN q = 1 .. Len(q) /\ k \in Nat
        /\ j \in DOMAIN q \/ (j - Len(q) \in DOMAIN out /\ j = Len(q) + (j - Len(q)))
    BY Joined
  <2>2. j - Len(q) \in DOMAIN out /\ j - Len(q) > k
    BY <1>3, <2>1
  <2>3. (q \o out)[Len(q) + (j - Len(q))] = out[j - Len(q)]
    BY <2>2, Joined
  <2> QED
    BY <1>1, <2>1, <2>2, <2>3
<1> QED
  BY <1>2, <1>3 DEF EndsIn

LEMMA EndStays ==
    ASSUME NEW M, NEW q \in Seq(M), NEW out \in Seq(M), NEW T, NEW S,
           EndsIn(q, T, S), \A i \in DOMAIN out : out[i] \in S
    PROVE  EndsIn(q \o out, T, S)
<1>1. PICK k \in DOMAIN q : q[k] \in T /\ \A j \in DOMAIN q : j > k => q[j] \in S
  BY DEF EndsIn
<1>2. k \in DOMAIN (q \o out) /\ (q \o out)[k] \in T
  BY <1>1, Joined
<1>3. ASSUME NEW j \in DOMAIN (q \o out), j > k PROVE (q \o out)[j] \in S
  <2>1. CASE j \in DOMAIN q
    BY <1>1, <1>3, <2>1, Joined
  <2>2. CASE j - Len(q) \in DOMAIN out /\ j = Len(q) + (j - Len(q))
    BY <2>2, Joined
  <2> QED
    BY <2>1, <2>2, Joined
<1> QED
  BY <1>2, <1>3 DEF EndsIn

LEMMA EndIsReached ==
    ASSUME NEW M, NEW q \in Seq(M), q # <<>>, NEW T, NEW S, EndsIn(q, T, S)
    PROVE  \/ EndsIn(Tail(q), T, S)
           \/ Head(q) \in T /\ \A i \in DOMAIN Tail(q) : Tail(q)[i] \in S
<1>1. PICK k \in DOMAIN q : q[k] \in T /\ \A j \in DOMAIN q : j > k => q[j] \in S
  BY DEF EndsIn
<1>2. CASE k = 1
  BY <1>1, <1>2, Tailed
<1>3. CASE k # 1
  <2>1. k - 1 \in DOMAIN Tail(q) /\ k - 1 + 1 = k
    BY <1>3, Tailed
  <2>2. \A j \in DOMAIN Tail(q) : j > k - 1 => j + 1 \in DOMAIN q /\ j + 1 > k /\ Tail(q)[j] = q[j + 1]
    BY <2>1, Tailed
  <2>3. Tail(q)[k - 1] = q[k]
    BY <2>1, Tailed
  <2> QED
    BY <1>1, <2>1, <2>2, <2>3 DEF EndsIn
<1> QED
  BY <1>2, <1>3

LEMMA NothingEnds == \A T, S : ~EndsIn(<<>>, T, S)
  BY DEF EndsIn
=============================================================================
