----------------------------- MODULE FoldLemmas -----------------------------
(***************************************************************************)
(* Induction for data: over the naturals, over finite sets, and the folds  *)
(* of the community modules that go through a finite set one element at a  *)
(* time.  What is shown by induction is a set here, P, and the functions   *)
(* that define a fold are values: facts that can be cited.  They come from *)
(* the least counterexample.                                               *)
(***************************************************************************)
EXTENDS Integers, FiniteSets, FiniteSetTheorems, NaturalsInduction,
        WellFoundedInduction, TLAPS

\* A set of naturals has a least element.
LEMMA LeastNat ==
    ASSUME NEW T, T \subseteq Nat, T # {}
    PROVE  \E x \in T : \A y \in T : x <= y
<1> DEFINE R == OpToRel(<, Nat)
<1>1. \A a, b \in Nat : a < b => <<a, b>> \in R
  BY DEF OpToRel
<1>2. IsWellFoundedOn(R, Nat)
  BY NatLessThanWellFounded
<1> HIDE DEF R
<1>3. PICK x \in T : \A y \in T : <<y, x>> \notin R
  BY <1>2, WFMin
<1>4. \A y \in T : ~(y < x)
  BY <1>1, <1>3
<1> QED BY <1>3, <1>4

LEMMA NatSetInduction ==
    ASSUME NEW P, 0 \in P, \A n \in Nat : n \in P => n + 1 \in P
    PROVE  \A n \in Nat : n \in P
<1> SUFFICES ASSUME NEW k \in Nat, k \notin P PROVE FALSE
  OBVIOUS
<1> DEFINE T == {n \in Nat : n \notin P}
<1>1. PICK x \in T : \A y \in T : x <= y
  BY LeastNat
<1>2. x # 0 /\ x - 1 \in Nat /\ x - 1 \notin T
  BY <1>1
<1> QED BY <1>2

\* What holds of a finite set if it holds of its proper subsets holds of all.
LEMMA FiniteSetInduction ==
    ASSUME NEW S, IsFiniteSet(S), NEW P,
           \A s \in SUBSET S : (\A t \in SUBSET s : t # s => t \in P) => s \in P
    PROVE  \A s \in SUBSET S : s \in P
<1> DEFINE Bad == {s \in SUBSET S : s \notin P}
           T == {Cardinality(s) : s \in Bad}
<1> SUFFICES ASSUME Bad # {} PROVE FALSE
  OBVIOUS
<1>1. \A s \in SUBSET S : IsFiniteSet(s) /\ Cardinality(s) \in Nat
  BY FS_Subset, FS_CardinalityType
<1>2. T \subseteq Nat /\ T # {}
  BY <1>1
<1> HIDE DEF T
<1>3. PICK x \in T : \A y \in T : x <= y
  BY <1>2, LeastNat
<1>4. PICK s \in Bad : Cardinality(s) = x
  BY <1>3 DEF T
<1>5. ASSUME NEW t \in SUBSET s, t # s PROVE t \in P
  <2>1. /\ IsFiniteSet(s) /\ Cardinality(s) \in Nat /\ Cardinality(t) \in Nat
        /\ t \in SUBSET S
    BY <1>1, <1>4
  <2>2. Cardinality(t) <= Cardinality(s) /\ Cardinality(t) # Cardinality(s)
    BY <1>5, <2>1, FS_Subset
  <2>3. ~(Cardinality(s) <= Cardinality(t))
    BY <2>1, <2>2
  <2>4. Cardinality(t) \notin T
    BY <1>3, <1>4, <2>3
  <2> QED BY <2>1, <2>4 DEF T
<1> QED BY <1>4, <1>5

-----------------------------------------------------------------------------
\* f is a fold over the subsets of S: ch picks the element that is taken last,
\* and step says what it does to the value of the rest.
IsFold(f, S, base, ch, step) ==
    f = [s \in SUBSET S |-> IF s = {} THEN base
                            ELSE step[<<ch[s], f[s \ {ch[s]}]>>]]

\* A fold exists, with values in X.
LEMMA FoldExists ==
    ASSUME NEW S, IsFiniteSet(S), NEW X, NEW base \in X,
           NEW ch, \A s \in SUBSET S : s # {} => ch[s] \in s,
           NEW step \in [S \X X -> X]
    PROVE  \E f \in [SUBSET S -> X] : IsFold(f, S, base, ch, step)
<1> DEFINE Upto(n) == {s \in SUBSET S : Cardinality(s) <= n}
           Meets(f, D) == \A s \in D : f[s] = IF s = {} THEN base
                                              ELSE step[<<ch[s], f[s \ {ch[s]}]>>]
           Q == {n \in Nat : \E f \in [Upto(n) -> X] : Meets(f, Upto(n))}
<1>1. \A s \in SUBSET S : IsFiniteSet(s) /\ Cardinality(s) \in Nat
                          /\ Cardinality(s) <= Cardinality(S)
  BY FS_Subset, FS_CardinalityType
<1>2. 0 \in Q
  <2> DEFINE f == [s \in Upto(0) |-> base]
  <2>1. \A s \in Upto(0) : s = {}
    BY <1>1, FS_EmptySet
  <2>2. f \in [Upto(0) -> X] /\ Meets(f, Upto(0))
    BY <2>1
  <2> QED BY <2>2
<1>3. ASSUME NEW n \in Nat, n \in Q PROVE n + 1 \in Q
  <2>1. PICK g \in [Upto(n) -> X] : Meets(g, Upto(n))
    BY <1>3
  <2> DEFINE f == [s \in Upto(n + 1) |-> IF s = {} THEN base
                                         ELSE step[<<ch[s], g[s \ {ch[s]}]>>]]
  <2>2. ASSUME NEW s \in Upto(n + 1), s # {}
        PROVE  /\ ch[s] \in S /\ s \ {ch[s]} \in Upto(n) /\ s \ {ch[s]} \in Upto(n + 1)
    <3>1. ch[s] \in s /\ Cardinality(s \ {ch[s]}) = Cardinality(s) - 1
      BY <1>1, <2>2, FS_RemoveElement
    <3> QED BY <1>1, <3>1
  <2>3. f \in [Upto(n + 1) -> X]
    <3> SUFFICES ASSUME NEW s \in Upto(n + 1), s # {}
                 PROVE  step[<<ch[s], g[s \ {ch[s]}]>>] \in X
      OBVIOUS
    <3>1. <<ch[s], g[s \ {ch[s]}]>> \in S \X X
      BY <2>2
    <3> QED BY <3>1
  <2>4. \A s \in Upto(n) : s \in Upto(n + 1) /\ f[s] = g[s]
    BY <1>1, <2>1
  <2>5. Meets(f, Upto(n + 1))
    BY <2>2, <2>4
  <2> HIDE DEF f, Upto, Meets
  <2> QED BY <2>3, <2>5
<1> HIDE DEF Q
<1>4. \A n \in Nat : n \in Q
  BY <1>2, <1>3, NatSetInduction
<1>5. Cardinality(S) \in Nat /\ Upto(Cardinality(S)) = SUBSET S
  BY <1>1
<1>6. PICK f \in [Upto(Cardinality(S)) -> X] : Meets(f, Upto(Cardinality(S)))
  BY <1>4, <1>5 DEF Q
<1>7. IsFold(f, S, base, ch, step)
  BY <1>5, <1>6 DEF IsFold
<1> QED BY <1>5, <1>6, <1>7
=============================================================================
