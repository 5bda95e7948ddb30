-------------------------- MODULE WindowingProofs ---------------------------
(***************************************************************************)
(* The arithmetic of the windows, for any events, sizes and retention:     *)
(* every row is the sum of its events, whatever fails, restarts and is     *)
(* purged in between.                                                      *)
(*                                                                         *)
(* A row is written from differences of snapshots. What has to be shown is *)
(* that each difference adds the events between its two snapshots. So an   *)
(* invariant names, for each window in memory, the events F its snapshot   *)
(* stands for, and those held on top of them (Stands); F need not be all   *)
(* the row counts, since a window that is opened again starts from         *)
(* nothing.                                                                *)
(***************************************************************************)
EXTENDS Windowing, FoldLemmas

(***************************************************************************)
(* Sums and counts over sets of events.                                    *)
(***************************************************************************)
\* The element a fold over s takes next.
Picked(s) == CHOOSE x \in s : TRUE

IsSum(f, S) ==
    f = [s \in SUBSET S |-> IF s = {} THEN 0
                            ELSE AmountOf[Picked(s)] + f[s \ {Picked(s)}]]

\* The function that the definition of a sum is about exists.
LEMMA SumExists ==
    ASSUME NEW S \in SUBSET Events, IsFiniteSet(S)
    PROVE  \E f \in [SUBSET S -> Nat] : IsSum(f, S)
<1> DEFINE ch == [s \in SUBSET S |-> Picked(s)]
           step == [p \in S \X Nat |-> AmountOf[p[1]] + p[2]]
<1>1. \A s \in SUBSET S : s # {} => Picked(s) \in s
  BY DEF Picked
<1>2. \A s \in SUBSET S : s # {} => ch[s] \in s
  BY <1>1
<1>3. step \in [S \X Nat -> Nat]
  BY WindowingAssumption
<1>4. PICK f \in [SUBSET S -> Nat] : IsFold(f, S, 0, ch, step)
  BY <1>2, <1>3, FoldExists
<1>5. ASSUME NEW s \in SUBSET S, s # {}
      PROVE  step[<<ch[s], f[s \ {ch[s]}]>>] = AmountOf[Picked(s)] + f[s \ {Picked(s)}]
  BY <1>1, <1>5
<1>6. IsSum(f, S)
  BY <1>4, <1>5 DEF IsFold, IsSum
<1> QED BY <1>6

\* SumOver is the fold, whichever function the definition takes for it.
LEMMA SumOverIsSum ==
    ASSUME NEW S \in SUBSET Events, IsFiniteSet(S), NEW f, IsSum(f, S)
    PROVE  \A s \in SUBSET S : SumOver(s) = f[s]
<1> DEFINE P == {s \in SUBSET S : SumOver(s) = f[s]}
<1>1. ASSUME NEW s \in SUBSET S PROVE SumOver(s) = f[s]
  <2>1. IsFiniteSet(s) /\ s \in SUBSET Events
    BY FS_Subset
  <2>2. \E g : IsSum(g, s)
    BY <2>1, SumExists
  <2>3. \E g : IsSum(g, s) /\ SumOver(s) = g[s]
    BY <2>2 DEF SumOver, MapThenSumSet, MapThenFoldSet, Picked, IsSum
  <2>4. PICK g : IsSum(g, s) /\ SumOver(s) = g[s]
    BY <2>3
  <2> DEFINE Q == {t \in SUBSET s : g[t] = f[t]}
  <2>5. ASSUME NEW t \in SUBSET s, \A u \in SUBSET t : u # t => u \in Q PROVE t \in Q
    <3>1. CASE t = {}
      BY <2>4, <3>1 DEF IsSum
    <3>2. CASE t # {}
      <4>1. Picked(t) \in t
        BY <3>2 DEF Picked
      <4>2. g[t \ {Picked(t)}] = f[t \ {Picked(t)}]
        BY <2>5, <4>1
      <4> QED BY <2>4, <3>2, <4>1, <4>2 DEF IsSum
    <3> QED BY <3>1, <3>2
  <2> HIDE DEF Q
  <2>6. s \in Q
    BY <2>1, <2>5, FiniteSetInduction
  <2> QED BY <2>4, <2>6 DEF Q
<1> QED BY <1>1

LEMMA SumOverEmpty == SumOver({}) = 0
<1>1. PICK f : IsSum(f, {})
  BY SumExists, FS_EmptySet
<1>2. SumOver({}) = f[{}]
  BY <1>1, SumOverIsSum, FS_EmptySet
<1> QED BY <1>1, <1>2 DEF IsSum

LEMMA SumOverTyped ==
    ASSUME NEW S \in SUBSET Events, IsFiniteSet(S)
    PROVE  SumOver(S) \in Nat
<1>1. PICK f \in [SUBSET S -> Nat] : IsSum(f, S)
  BY SumExists
<1>2. SumOver(S) = f[S]
  BY <1>1, SumOverIsSum
<1> QED BY <1>2

\* The order in which a sum is taken does not matter.
LEMMA SumOverRemove ==
    ASSUME NEW S \in SUBSET Events, IsFiniteSet(S)
    PROVE  \A s \in SUBSET S : \A x \in s : SumOver(s) = AmountOf[x] + SumOver(s \ {x})
<1> DEFINE P == {s \in SUBSET S : \A x \in s : SumOver(s) = AmountOf[x] + SumOver(s \ {x})}
<1>1. PICK f \in [SUBSET S -> Nat] : IsSum(f, S)
  BY SumExists
<1>2. \A s \in SUBSET S : SumOver(s) = f[s] /\ f[s] \in Nat
  BY <1>1, SumOverIsSum
<1>3. ASSUME NEW s \in SUBSET S, s # {}
      PROVE  Picked(s) \in s /\ SumOver(s) = AmountOf[Picked(s)] + SumOver(s \ {Picked(s)})
  <2>1. Picked(s) \in s
    BY <1>3 DEF Picked
  <2>2. f[s] = AmountOf[Picked(s)] + f[s \ {Picked(s)}]
    BY <1>1, <1>3 DEF IsSum
  <2> QED BY <1>2, <2>1, <2>2
<1>4. ASSUME NEW s \in SUBSET S, \A t \in SUBSET s : t # s => t \in P PROVE s \in P
  <2> SUFFICES ASSUME NEW x \in s PROVE SumOver(s) = AmountOf[x] + SumOver(s \ {x})
    OBVIOUS
  <2> DEFINE p == Picked(s)
  <2>1. p \in s /\ SumOver(s) = AmountOf[p] + SumOver(s \ {p})
    BY <1>3
  <2> HIDE DEF p
  <2>2. CASE x = p
    BY <2>1, <2>2
  <2>3. CASE x # p
    <3>1. SumOver(s \ {p}) = AmountOf[x] + SumOver((s \ {p}) \ {x})
      BY <1>4, <2>1, <2>3
    <3>2. SumOver(s \ {x}) = AmountOf[p] + SumOver((s \ {x}) \ {p})
      BY <1>4, <2>1, <2>3
    <3>3. (s \ {p}) \ {x} = (s \ {x}) \ {p}
      OBVIOUS
    <3>4. /\ SumOver((s \ {x}) \ {p}) \in Nat /\ AmountOf[x] \in Nat /\ AmountOf[p] \in Nat
      BY <1>2, <2>1, WindowingAssumption
    <3>5. PICK n \in Nat : n = SumOver((s \ {x}) \ {p}) /\ n = SumOver((s \ {p}) \ {x})
      BY <3>3, <3>4
    <3>6. SumOver(s) = AmountOf[p] + (AmountOf[x] + n) /\ SumOver(s \ {x}) = AmountOf[p] + n
      BY <2>1, <3>1, <3>2, <3>5
    <3> QED BY <3>4, <3>6
  <2> QED BY <2>2, <2>3
<1> HIDE DEF P
<1>5. \A s \in SUBSET S : s \in P
  BY <1>4, FiniteSetInduction
<1> QED BY <1>5 DEF P

LEMMA SumOverAdd ==
    ASSUME NEW S \in SUBSET Events, IsFiniteSet(S), NEW e \in Events, e \notin S
    PROVE  SumOver(S \cup {e}) = SumOver(S) + AmountOf[e]
<1>1. IsFiniteSet(S \cup {e}) /\ S \cup {e} \in SUBSET Events
  BY FS_AddElement
<1>2. SumOver(S \cup {e}) = AmountOf[e] + SumOver((S \cup {e}) \ {e})
  BY <1>1, SumOverRemove
<1>3. SumOver((S \cup {e}) \ {e}) = SumOver(S)
  <2>1. (S \cup {e}) \ {e} = S
    OBVIOUS
  <2> QED BY <2>1
<1>4. SumOver(S) \in Nat /\ AmountOf[e] \in Nat
  BY SumOverTyped, WindowingAssumption
<1> QED BY <1>2, <1>3, <1>4

LEMMA SumOverUnion ==
    ASSUME NEW S \in SUBSET Events, IsFiniteSet(S), NEW T \in SUBSET Events, IsFiniteSet(T),
           S \cap T = {}
    PROVE  SumOver(S \cup T) = SumOver(S) + SumOver(T)
<1> DEFINE P == {t \in SUBSET T : SumOver(S \cup t) = SumOver(S) + SumOver(t)}
<1>1. ASSUME NEW t \in SUBSET T, \A u \in SUBSET t : u # t => u \in P PROVE t \in P
  <2> SUFFICES SumOver(S \cup t) = SumOver(S) + SumOver(t)
    OBVIOUS
  <2>1. CASE t = {}
    <3>1. SumOver(S \cup t) = SumOver(S) /\ SumOver(t) = 0 /\ SumOver(S) \in Nat
      <4>1. S \cup t = S
        BY <2>1
      <4> QED BY <2>1, <4>1, SumOverEmpty, SumOverTyped
    <3> HIDE DEF P
    <3> QED BY <3>1
  <2>2. CASE t # {}
    <3>1. PICK x \in t : TRUE
      BY <2>2
    <3> DEFINE u == t \ {x}
    <3>2. SumOver(S \cup u) = SumOver(S) + SumOver(u)
      BY <1>1, <3>1
    <3>3. IsFiniteSet(u) /\ IsFiniteSet(S \cup u) /\ u \in SUBSET Events
          /\ S \cup u \in SUBSET Events /\ x \in Events /\ x \notin S \cup u /\ x \notin u
      BY FS_Subset, FS_Union
    <3>4. SumOver((S \cup u) \cup {x}) = SumOver(S \cup u) + AmountOf[x]
      BY <3>3, SumOverAdd
    <3>5. SumOver(u \cup {x}) = SumOver(u) + AmountOf[x]
      BY <3>3, SumOverAdd
    <3>6. /\ SumOver(S \cup t) = SumOver(S \cup u) + AmountOf[x]
          /\ SumOver(t) = SumOver(u) + AmountOf[x]
      <4>1. (S \cup u) \cup {x} = S \cup t /\ u \cup {x} = t
        OBVIOUS
      <4> QED BY <3>4, <3>5, <4>1
    <3>7. SumOver(u) \in Nat /\ SumOver(S) \in Nat /\ AmountOf[x] \in Nat
      BY <3>3, SumOverTyped, WindowingAssumption
    <3> HIDE DEF u, P
    <3> QED BY <3>2, <3>6, <3>7
  <2> QED BY <2>1, <2>2
<1> HIDE DEF P
<1>2. T \in P
  BY <1>1, FiniteSetInduction
<1> QED BY <1>2 DEF P
-----------------------------------------------------------------------------
(***************************************************************************)
(* What an aggregate, a delta and a row say about a set of events, and how *)
(* that adds up.                                                           *)
(***************************************************************************)

\* The events of S that were late.
LateIn(S, L) == S \cap L

\* From the first to the last event of S.
Spans(first, last, S) ==
    IF S = {} THEN first = NoTime /\ last = NoTime
    ELSE /\ \A e \in S : first <= TimeOf[e] /\ TimeOf[e] <= last
         /\ {first, last} \subseteq {TimeOf[e] : e \in S}

\* a is the aggregate of the events of S, of which those in L were late.
Says(a, S, L) ==
    /\ a \in Aggregates
    /\ a.events = Cardinality(S)
    /\ \A t \in Types : a.orders[t] = Cardinality(OfType(S, t))
    /\ a.gross = SumOver(OfType(S, "paid"))
    /\ a.refunded = SumOver(OfType(S, "refunded"))
    /\ a.late = Cardinality(LateIn(S, L))
    /\ a.users = UsersOf(S)
    /\ Spans(a.first, a.last, S)

\* The same of a delta: how H, on top of F, changes a row.
Adds(d, F, H, L) ==
    /\ d.events = Cardinality(H)
    /\ \A t \in Types : d.orders[t] = Cardinality(OfType(H, t))
    /\ d.gross = SumOver(OfType(H, "paid"))
    /\ d.refunded = SumOver(OfType(H, "refunded"))
    /\ d.late = Cardinality(LateIn(H, L))
    /\ d.distinct = Cardinality(UsersOf(F \cup H))
    /\ d.newUsers = UsersOf(F \cup H) \ UsersOf(F)
    /\ Spans(d.first, d.last, F \cup H)

\* And of a row's columns, the distinct users left to the recount.
Totals(row, S, L) ==
    /\ row.events = Cardinality(S)
    /\ \A t \in Types : row.orders[t] = Cardinality(OfType(S, t))
    /\ row.gross = SumOver(OfType(S, "paid"))
    /\ row.refunded = SumOver(OfType(S, "refunded"))
    /\ row.net = row.gross - row.refunded
    /\ row.late = Cardinality(LateIn(S, L))
    /\ Spans(row.first, row.last, S)
-----------------------------------------------------------------------------
LEMMA TypeParts ==
    /\ \A S : \A t : OfType(S, t) \subseteq S
    /\ \A S, T : \A t : OfType(S \cup T, t) = OfType(S, t) \cup OfType(T, t)
    /\ \A S, T : S \cap T = {} => \A t : OfType(S, t) \cap OfType(T, t) = {}
    /\ \A S, T : UsersOf(S \cup T) = UsersOf(S) \cup UsersOf(T)
    /\ \A S : S \subseteq Events => UsersOf(S) \subseteq {UserOf[e] : e \in Events}
    /\ UsersOf({}) = {} /\ \A t : OfType({}, t) = {}
BY DEF OfType, UsersOf

LEMMA UsersFinite ==
    ASSUME NEW S, IsFiniteSet(S)
    PROVE  IsFiniteSet(UsersOf(S)) /\ Cardinality(UsersOf(S)) \in Nat
<1> DEFINE f == [e \in S |-> UserOf[e]]
           T == {UserOf[e] : e \in S}
<1>1. f \in Surjection(S, T)
  BY DEF Surjection
<1>2. IsFiniteSet(T)
  BY <1>1, FS_Surjection
<1> QED BY <1>2, FS_Subset, FS_CardinalityType DEF UsersOf

LEMMA CountUnion ==
    ASSUME NEW S, IsFiniteSet(S), NEW T, IsFiniteSet(T), S \cap T = {}
    PROVE  /\ IsFiniteSet(S \cup T)
           /\ Cardinality(S) \in Nat /\ Cardinality(T) \in Nat
           /\ Cardinality(S \cup T) = Cardinality(S) + Cardinality(T)
<1>1. /\ IsFiniteSet(S \cup T)
      /\ Cardinality(S \cup T) = Cardinality(S) + Cardinality(T) - Cardinality(S \cap T)
  BY FS_Union
<1>2. Cardinality(S \cap T) = 0
  BY FS_EmptySet
<1>3. Cardinality(S) \in Nat /\ Cardinality(T) \in Nat
  BY FS_CardinalityType
<1> QED BY <1>1, <1>2, <1>3

LEMMA LateParts ==
    /\ \A S, L : LateIn(S, L) \subseteq S
    /\ \A S, T, L : LateIn(S \cup T, L) = LateIn(S, L) \cup LateIn(T, L)
    /\ \A S, T, L : S \cap T = {} => LateIn(S, L) \cap LateIn(T, L) = {}
    /\ \A L : LateIn({}, L) = {}
    /\ \A e, L : LateIn({e}, L) = IF e \in L THEN {e} ELSE {}
BY DEF LateIn

LEMMA LateUnion ==
    ASSUME NEW S, IsFiniteSet(S), NEW T, IsFiniteSet(T), S \cap T = {}, NEW L
    PROVE  Cardinality(LateIn(S \cup T, L)) =
               Cardinality(LateIn(S, L)) + Cardinality(LateIn(T, L))
<1> DEFINE s == LateIn(S, L)
           t == LateIn(T, L)
<1>1. LateIn(S \cup T, L) = s \cup t /\ s \cap t = {} /\ s \subseteq S /\ t \subseteq T
  BY LateParts
<1>2. IsFiniteSet(s) /\ IsFiniteSet(t)
  BY <1>1, FS_Subset
<1> HIDE DEF s, t
<1>3. Cardinality(s \cup t) = Cardinality(s) + Cardinality(t)
  BY <1>1, <1>2, CountUnion
<1> QED BY <1>1, <1>3 DEF s, t

\* What is counted and summed over two disjoint sets.
LEMMA PartsUnion ==
    ASSUME NEW S \in SUBSET Events, IsFiniteSet(S),
           NEW T \in SUBSET Events, IsFiniteSet(T), S \cap T = {}
    PROVE  /\ Cardinality(S \cup T) = Cardinality(S) + Cardinality(T)
           /\ \A t : /\ Cardinality(OfType(S \cup T, t)) =
                            Cardinality(OfType(S, t)) + Cardinality(OfType(T, t))
                     /\ SumOver(OfType(S \cup T, t)) =
                            SumOver(OfType(S, t)) + SumOver(OfType(T, t))
<1>1. Cardinality(S \cup T) = Cardinality(S) + Cardinality(T)
  BY CountUnion
<1>3. ASSUME NEW t
      PROVE  /\ Cardinality(OfType(S \cup T, t)) =
                    Cardinality(OfType(S, t)) + Cardinality(OfType(T, t))
             /\ SumOver(OfType(S \cup T, t)) =
                    SumOver(OfType(S, t)) + SumOver(OfType(T, t))
  <2> DEFINE s == OfType(S, t)
             u == OfType(T, t)
  <2>1. s \subseteq S /\ u \subseteq T /\ s \cap u = {} /\ OfType(S \cup T, t) = s \cup u
    BY TypeParts
  <2>2. IsFiniteSet(s) /\ IsFiniteSet(u)
    BY <2>1, FS_Subset
  <2>3. s \in SUBSET Events /\ u \in SUBSET Events
    BY <2>1
  <2> HIDE DEF s, u
  <2>4. Cardinality(s \cup u) = Cardinality(s) + Cardinality(u)
    BY <2>1, <2>2, CountUnion
  <2>5. SumOver(s \cup u) = SumOver(s) + SumOver(u)
    BY <2>1, <2>2, <2>3, SumOverUnion
  <2> QED BY <2>1, <2>4, <2>5 DEF s, u
<1> QED BY <1>1, <1>3

LEMMA PartsTyped ==
    ASSUME NEW S \in SUBSET Events, IsFiniteSet(S), NEW L
    PROVE  /\ Cardinality(S) \in Nat /\ Cardinality(LateIn(S, L)) \in Nat
           /\ \A t : Cardinality(OfType(S, t)) \in Nat /\ SumOver(OfType(S, t)) \in Nat
<1>1. Cardinality(S) \in Nat /\ Cardinality(LateIn(S, L)) \in Nat
  BY FS_CardinalityType, FS_Subset, LateParts
<1>2. ASSUME NEW t
      PROVE  Cardinality(OfType(S, t)) \in Nat /\ SumOver(OfType(S, t)) \in Nat
  <2>1. OfType(S, t) \subseteq S
    BY TypeParts
  <2>2. IsFiniteSet(OfType(S, t)) /\ OfType(S, t) \in SUBSET Events
    BY <2>1, FS_Subset
  <2> QED BY <2>2, FS_CardinalityType, SumOverTyped
<1> QED BY <1>1, <1>2

\* One event on its own.
LEMMA PartsSingle ==
    ASSUME NEW e \in Events, NEW L
    PROVE  /\ Cardinality({e}) = 1
           /\ Cardinality(LateIn({e}, L)) = IF e \in L THEN 1 ELSE 0
           /\ \A t : /\ Cardinality(OfType({e}, t)) = IF TypeOf[e] = t THEN 1 ELSE 0
                     /\ SumOver(OfType({e}, t)) = IF TypeOf[e] = t THEN AmountOf[e] ELSE 0
<1>1. Cardinality({e}) = 1 /\ Cardinality({}) = 0 /\ IsFiniteSet({}) /\ IsFiniteSet({e})
  BY FS_Singleton, FS_EmptySet
<1>2. SumOver({}) = 0 /\ SumOver({e}) = AmountOf[e]
  <2>1. SumOver({} \cup {e}) = SumOver({}) + AmountOf[e]
    BY <1>1, SumOverAdd
  <2>2. {} \cup {e} = {e} /\ AmountOf[e] \in Nat
    BY WindowingAssumption
  <2> QED BY <2>1, <2>2, SumOverEmpty
<1>3. LateIn({e}, L) = IF e \in L THEN {e} ELSE {}
  BY LateParts
<1>4. \A t : OfType({e}, t) = IF TypeOf[e] = t THEN {e} ELSE {}
  BY DEF OfType
<1> QED BY <1>1, <1>2, <1>3, <1>4

LEMMA TimesFacts ==
    /\ \A e \in Events : TimeOf[e] \in Nat /\ AmountOf[e] \in Nat /\ TypeOf[e] \in Types
    /\ NoTime \notin Nat
BY WindowingAssumption DEF NoTime

LEMMA SpansUnion ==
    ASSUME NEW S \in SUBSET Events, NEW T \in SUBSET Events, T # {},
           NEW f, NEW l, NEW g, NEW m, Spans(f, l, S), Spans(g, m, T)
    PROVE  Spans(MinTime(f, g), MaxTime(l, m), S \cup T)
<1>1. S \cup T # {}
  OBVIOUS
<1>2. /\ \A e \in T : g <= TimeOf[e] /\ TimeOf[e] <= m
      /\ {g, m} \subseteq {TimeOf[e] : e \in T} /\ g \in Nat /\ m \in Nat
  BY TimesFacts DEF Spans
<1>3. CASE S = {}
  <2>1. MinTime(f, g) = g /\ MaxTime(l, m) = m /\ S \cup T = T
    BY <1>3 DEF Spans, MinTime, MaxTime
  <2> QED BY <2>1
<1>4. CASE S # {}
  <2>1. /\ \A e \in S : f <= TimeOf[e] /\ TimeOf[e] <= l
        /\ {f, l} \subseteq {TimeOf[e] : e \in S} /\ f \in Nat /\ l \in Nat
    BY <1>4, TimesFacts DEF Spans
  <2>2. MinTime(f, g) = (IF g < f THEN g ELSE f) /\ MaxTime(l, m) = IF m > l THEN m ELSE l
    BY <2>1, TimesFacts DEF MinTime, MaxTime
  <2>3. \A e \in S \cup T : MinTime(f, g) <= TimeOf[e] /\ TimeOf[e] <= MaxTime(l, m)
    BY <1>2, <2>1, <2>2, TimesFacts
  <2>4. {MinTime(f, g), MaxTime(l, m)} \subseteq {TimeOf[e] : e \in S \cup T}
    BY <1>2, <2>1, <2>2
  <2> QED BY <1>1, <2>3, <2>4 DEF Spans
<1> QED BY <1>3, <1>4

LEMMA SaysBlank == \A L : Says(Blank, {}, L)
<1> SUFFICES ASSUME NEW L PROVE Says(Blank, {}, L)
  OBVIOUS
<1>1. Blank \in Aggregates
  BY DEF Blank, Aggregates
<1>2. Cardinality({}) = 0 /\ SumOver({}) = 0 /\ LateIn({}, L) = {}
  BY LateParts, FS_EmptySet, SumOverEmpty
<1>3. Spans(NoTime, NoTime, {})
  BY DEF Spans
<1> QED BY <1>1, <1>2, <1>3, TypeParts DEF Blank, Says

LEMMA SpansTyped ==
    ASSUME NEW S \in SUBSET Events, NEW f, NEW l, Spans(f, l, S)
    PROVE  /\ f \in Nat \cup {NoTime} /\ l \in Nat \cup {NoTime}
           /\ S # {} => f \in Nat /\ l \in Nat
BY TimesFacts DEF Spans

\* Lateness counts for the events of a window only.
LEMMA SaysSame ==
    ASSUME NEW a, NEW S, NEW L, NEW M, Says(a, S, L), LateIn(S, L) = LateIn(S, M)
    PROVE  Says(a, S, M)
BY DEF Says

LEMMA SaysFromParts ==
    ASSUME NEW a, NEW S \in SUBSET Events, IsFiniteSet(S), NEW L,
           a = [events |-> a.events, orders |-> a.orders, gross |-> a.gross,
                refunded |-> a.refunded, late |-> a.late, users |-> a.users,
                first |-> a.first, last |-> a.last],
           a.events = Cardinality(S),
           a.orders = [t \in Types |-> Cardinality(OfType(S, t))],
           a.gross = SumOver(OfType(S, "paid")),
           a.refunded = SumOver(OfType(S, "refunded")),
           a.late = Cardinality(LateIn(S, L)),
           a.users = UsersOf(S),
           Spans(a.first, a.last, S)
    PROVE  Says(a, S, L)
<1>1. a.events \in Nat /\ a.gross \in Nat /\ a.refunded \in Nat /\ a.late \in Nat
      /\ a.orders \in [Types -> Nat]
  BY PartsTyped
<1>2. a.users \subseteq {UserOf[e] : e \in Events}
  BY TypeParts
<1>3. a.first \in Nat \cup {NoTime} /\ a.last \in Nat \cup {NoTime}
  BY SpansTyped
<1>4. a \in Aggregates
  BY <1>1, <1>2, <1>3 DEF Aggregates
<1> QED BY <1>4 DEF Says

LEMMA SaysApply ==
    ASSUME NEW a, NEW S \in SUBSET Events, IsFiniteSet(S), NEW L,
           NEW e \in Events, e \notin S, NEW isLate \in BOOLEAN, Says(a, S, L)
    PROVE  Says(Apply(a, e, isLate), S \cup {e}, IF isLate THEN L \cup {e} ELSE L \ {e})
<1> DEFINE b == Apply(a, e, isLate)
           T == S \cup {e}
           M == IF isLate THEN L \cup {e} ELSE L \ {e}
           paid == IF TypeOf[e] = "paid" THEN AmountOf[e] ELSE 0
           refund == IF TypeOf[e] = "refunded" THEN AmountOf[e] ELSE 0
<1>0. a \in Aggregates /\ a.orders \in [Types -> Nat]
  BY DEF Says, Aggregates
<1>1. b = [events |-> a.events + 1,
           orders |-> [a.orders EXCEPT ![TypeOf[e]] = @ + 1],
           gross |-> a.gross + paid,
           refunded |-> a.refunded + refund,
           late |-> IF isLate THEN a.late + 1 ELSE a.late,
           users |-> a.users \cup ({UserOf[e]} \ {NoUser}),
           first |-> MinTime(a.first, TimeOf[e]),
           last |-> MaxTime(a.last, TimeOf[e])]
  BY DEF Apply
<1>2. /\ IsFiniteSet({e}) /\ {e} \in SUBSET Events /\ S \cap {e} = {}
      /\ IsFiniteSet(T) /\ T \in SUBSET Events
  <2>1. IsFiniteSet({e}) /\ IsFiniteSet(S \cup {e})
    BY FS_Singleton, FS_AddElement
  <2> QED BY <2>1
<1>3. /\ Cardinality(T) = Cardinality(S) + 1
      /\ \A t : /\ Cardinality(OfType(T, t)) = Cardinality(OfType(S, t)) + Cardinality(OfType({e}, t))
                /\ SumOver(OfType(T, t)) = SumOver(OfType(S, t)) + SumOver(OfType({e}, t))
      /\ Cardinality(LateIn(T, M)) = Cardinality(LateIn(S, M)) + Cardinality(LateIn({e}, M))
  <2>1. Cardinality(T) = Cardinality(S) + Cardinality({e})
    BY <1>2, PartsUnion
  <2>2. Cardinality(LateIn(T, M)) = Cardinality(LateIn(S, M)) + Cardinality(LateIn({e}, M))
    BY <1>2, LateUnion
  <2>3. \A t : /\ Cardinality(OfType(T, t)) = Cardinality(OfType(S, t)) + Cardinality(OfType({e}, t))
               /\ SumOver(OfType(T, t)) = SumOver(OfType(S, t)) + SumOver(OfType({e}, t))
    BY <1>2, PartsUnion
  <2>4. Cardinality({e}) = 1
    BY PartsSingle
  <2> HIDE DEF T, M
  <2> QED BY <2>1, <2>2, <2>3, <2>4
<1>4. LateIn(S, M) = LateIn(S, L) /\ (e \in M <=> isLate)
  BY DEF LateIn
<1>5. b.late = Cardinality(LateIn(T, M))
  <2>1. Cardinality(LateIn({e}, M)) = IF isLate THEN 1 ELSE 0
    BY <1>4, PartsSingle
  <2>2. a.late = Cardinality(LateIn(S, M)) /\ a.late \in Nat
    BY <1>4, PartsTyped DEF Says
  <2>3. Cardinality(LateIn(T, M)) = a.late + IF isLate THEN 1 ELSE 0
    BY <1>3, <2>1, <2>2
  <2>4. b.late = IF isLate THEN a.late + 1 ELSE a.late
    BY <1>1
  <2> HIDE DEF b, T, M
  <2> QED BY <2>2, <2>3, <2>4
<1>6. b.orders = [t \in Types |-> Cardinality(OfType(T, t))]
  <2>1. b.orders = [t \in Types |-> IF t = TypeOf[e] THEN a.orders[t] + 1 ELSE a.orders[t]]
    BY <1>0, <1>1, TimesFacts
  <2>2. ASSUME NEW t \in Types
        PROVE  Cardinality(OfType(T, t)) = IF t = TypeOf[e] THEN a.orders[t] + 1 ELSE a.orders[t]
    <3>1. Cardinality(OfType({e}, t)) = IF TypeOf[e] = t THEN 1 ELSE 0
      BY PartsSingle
    <3>2. a.orders[t] = Cardinality(OfType(S, t)) /\ a.orders[t] \in Nat
      BY <1>0 DEF Says
    <3>3. Cardinality(OfType(T, t)) = a.orders[t] + IF TypeOf[e] = t THEN 1 ELSE 0
      BY <1>3, <3>1, <3>2
    <3> QED BY <3>2, <3>3
  <2> HIDE DEF b, T, M
  <2> QED BY <2>1, <2>2
<1>7. b.gross = SumOver(OfType(T, "paid")) /\ b.refunded = SumOver(OfType(T, "refunded"))
  <2>1. /\ SumOver(OfType({e}, "paid")) = paid
        /\ SumOver(OfType({e}, "refunded")) = refund
    BY PartsSingle
  <2>2. /\ a.gross = SumOver(OfType(S, "paid"))
        /\ a.refunded = SumOver(OfType(S, "refunded"))
    BY DEF Says
  <2>3. /\ SumOver(OfType(T, "paid")) = a.gross + paid
        /\ SumOver(OfType(T, "refunded")) = a.refunded + refund
    BY <1>3, <2>1, <2>2
  <2> HIDE DEF T, M, paid, refund
  <2> QED BY <1>1, <2>3
<1>8. b.users = UsersOf(T)
  <2>1. UsersOf({e}) = {UserOf[e]} \ {NoUser}
    BY DEF UsersOf
  <2>2. UsersOf(S \cup {e}) = UsersOf(S) \cup UsersOf({e})
    BY TypeParts
  <2>3. a.users = UsersOf(S)
    BY DEF Says
  <2> HIDE DEF b, T, M, paid, refund
  <2>4. b.users = a.users \cup ({UserOf[e]} \ {NoUser})
    BY <1>1
  <2> QED BY <2>1, <2>2, <2>3, <2>4 DEF T
<1>9. Spans(b.first, b.last, T)
  <2>1. Spans(TimeOf[e], TimeOf[e], {e})
    BY TimesFacts DEF Spans
  <2>2. Spans(a.first, a.last, S)
    BY DEF Says
  <2>3. Spans(MinTime(a.first, TimeOf[e]), MaxTime(a.last, TimeOf[e]), T)
    BY <1>2, <2>1, <2>2, SpansUnion
  <2> HIDE DEF T, M
  <2> QED BY <1>1, <2>3
<1>10. /\ b = [events |-> b.events, orders |-> b.orders, gross |-> b.gross,
               refunded |-> b.refunded, late |-> b.late, users |-> b.users,
               first |-> b.first, last |-> b.last]
       /\ b.events = Cardinality(T)
  <2>1. a.events = Cardinality(S)
    BY DEF Says
  <2> HIDE DEF T, M, paid, refund
  <2> QED BY <1>1, <1>3, <2>1
<1> HIDE DEF b, T, M
<1>11. Says(b, T, M)
  BY <1>2, <1>5, <1>6, <1>7, <1>8, <1>9, <1>10, SaysFromParts
<1> QED BY <1>11 DEF b, T, M

\* What window state st says, while F is snapshotted and H is not.
Stands(st, F, H, L) ==
    /\ F \cup H # {}
    /\ Says(st.flushed, F, L)
    /\ Says(st.agg, F \cup H, L)

\* The difference of two snapshots adds the events between them.
LEMMA DeltaAdds ==
    ASSUME NEW k, NEW F \in SUBSET Events, IsFiniteSet(F),
           NEW H \in SUBSET Events, IsFiniteSet(H), F \cap H = {}, NEW L,
           Stands(windows[k], F, H, L)
    PROVE  Adds(DeltaOf(k), F, H, L)
<1> DEFINE a == windows[k].agg
           f == windows[k].flushed
           d == DeltaOf(k)
<1>1. Says(f, F, L) /\ Says(a, F \cup H, L)
  BY DEF Stands
<1>2. d = [events |-> a.events - f.events,
           orders |-> [t \in Types |-> a.orders[t] - f.orders[t]],
           gross |-> a.gross - f.gross,
           refunded |-> a.refunded - f.refunded,
           late |-> a.late - f.late,
           distinct |-> Cardinality(a.users),
           newUsers |-> a.users \ f.users,
           first |-> a.first,
           last |-> a.last,
           closed |-> k \in Expired]
  BY DEF DeltaOf
<1> HIDE DEF a, f, d
<1>3. d.events = Cardinality(H) /\ d.late = Cardinality(LateIn(H, L))
  <2>1. /\ a.events = f.events + Cardinality(H) /\ f.events \in Nat
        /\ a.late = f.late + Cardinality(LateIn(H, L)) /\ f.late \in Nat
    <3>1. /\ a.events = Cardinality(F \cup H) /\ f.events = Cardinality(F)
          /\ a.late = Cardinality(LateIn(F \cup H, L)) /\ f.late = Cardinality(LateIn(F, L))
      BY <1>1 DEF Says
    <3>2. Cardinality(F) \in Nat /\ Cardinality(LateIn(F, L)) \in Nat
      BY PartsTyped
    <3>3. /\ Cardinality(F \cup H) = Cardinality(F) + Cardinality(H)
          /\ Cardinality(LateIn(F \cup H, L)) =
                 Cardinality(LateIn(F, L)) + Cardinality(LateIn(H, L))
      <4>1. Cardinality(F \cup H) = Cardinality(F) + Cardinality(H)
        BY PartsUnion
      <4>2. Cardinality(LateIn(F \cup H, L)) =
                Cardinality(LateIn(F, L)) + Cardinality(LateIn(H, L))
        BY LateUnion
      <4> QED BY <4>1, <4>2
    <3> QED BY <3>1, <3>2, <3>3
  <2>2. Cardinality(H) \in Nat /\ Cardinality(LateIn(H, L)) \in Nat
    BY PartsTyped
  <2>3. d.events = a.events - f.events /\ d.late = a.late - f.late
    BY <1>2
  <2> QED BY <2>1, <2>2, <2>3
<1>4. ASSUME NEW t \in Types PROVE d.orders[t] = Cardinality(OfType(H, t))
  <2>1. a.orders[t] = Cardinality(OfType(F \cup H, t)) /\ f.orders[t] = Cardinality(OfType(F, t))
    BY <1>1 DEF Says
  <2>2. Cardinality(OfType(F, t)) \in Nat /\ Cardinality(OfType(H, t)) \in Nat
    BY PartsTyped
  <2>3. Cardinality(OfType(F \cup H, t)) = Cardinality(OfType(F, t)) + Cardinality(OfType(H, t))
    BY PartsUnion
  <2>4. d.orders[t] = a.orders[t] - f.orders[t]
    BY <1>2
  <2> QED BY <2>1, <2>2, <2>3, <2>4
<1>5. d.gross = SumOver(OfType(H, "paid")) /\ d.refunded = SumOver(OfType(H, "refunded"))
  <2>1. /\ a.gross = SumOver(OfType(F \cup H, "paid")) /\ f.gross = SumOver(OfType(F, "paid"))
        /\ a.refunded = SumOver(OfType(F \cup H, "refunded"))
        /\ f.refunded = SumOver(OfType(F, "refunded"))
    BY <1>1 DEF Says
  <2>2. /\ SumOver(OfType(F, "paid")) \in Nat /\ SumOver(OfType(H, "paid")) \in Nat
        /\ SumOver(OfType(F, "refunded")) \in Nat /\ SumOver(OfType(H, "refunded")) \in Nat
    BY PartsTyped
  <2>3. \A t : SumOver(OfType(F \cup H, t)) = SumOver(OfType(F, t)) + SumOver(OfType(H, t))
    BY PartsUnion
  <2>4. d.gross = a.gross - f.gross /\ d.refunded = a.refunded - f.refunded
    BY <1>2
  <2>5. /\ a.gross = SumOver(OfType(F, "paid")) + SumOver(OfType(H, "paid"))
        /\ a.refunded = SumOver(OfType(F, "refunded")) + SumOver(OfType(H, "refunded"))
    BY <2>1, <2>3
  <2> QED BY <2>1, <2>2, <2>4, <2>5
<1>6. /\ d.distinct = Cardinality(UsersOf(F \cup H))
      /\ d.newUsers = UsersOf(F \cup H) \ UsersOf(F)
      /\ Spans(d.first, d.last, F \cup H)
  <2>1. a.users = UsersOf(F \cup H) /\ f.users = UsersOf(F) /\ Spans(a.first, a.last, F \cup H)
    BY <1>1 DEF Says
  <2>2. d.distinct = Cardinality(a.users) /\ d.newUsers = a.users \ f.users
        /\ d.first = a.first /\ d.last = a.last
    BY <1>2
  <2> QED BY <2>1, <2>2
<1>7. Adds(d, F, H, L)
  BY <1>3, <1>4, <1>5, <1>6 DEF Adds
<1> QED BY <1>7 DEF d

\* UPSERT_AGGREGATE, both halves: the row has the events of H after it.
LEMMA InsertTotals ==
    ASSUME NEW d, NEW H \in SUBSET Events, NEW L, Adds(d, {}, H, L)
    PROVE  Totals(Inserted(d), H, L)
<1>1. {} \cup H = H
  OBVIOUS
<1> QED BY <1>1 DEF Adds, Totals, Inserted

LEMMA UpsertTotals ==
    ASSUME NEW r, NEW d, NEW C \in SUBSET Events, IsFiniteSet(C),
           NEW H \in SUBSET Events, IsFiniteSet(H), C \cap H = {},
           NEW F \in SUBSET C, F \cup H # {}, NEW L,
           Totals(r, C, L), Adds(d, F, H, L)
    PROVE  Totals(Upserted(r, d), C \cup H, L)
<1> DEFINE u == Upserted(r, d)
<1>1. u = [events   |-> r.events + d.events,
           orders   |-> [t \in Types |-> r.orders[t] + d.orders[t]],
           gross    |-> r.gross + d.gross,
           refunded |-> r.refunded + d.refunded,
           net      |-> (r.gross + d.gross) - (r.refunded + d.refunded),
           late     |-> r.late + d.late,
           distinct |-> IF d.distinct > r.distinct THEN d.distinct ELSE r.distinct,
           first    |-> MinTime(r.first, d.first),
           last     |-> MaxTime(r.last, d.last),
           revision |-> Revised(r, d),
           closed   |-> r.closed \/ d.closed]
  BY DEF Upserted
<1> HIDE DEF u
<1>2. /\ u.events = Cardinality(C \cup H)
      /\ u.late = Cardinality(LateIn(C \cup H, L))
      /\ \A t \in Types : u.orders[t] = Cardinality(OfType(C \cup H, t))
      /\ u.gross = SumOver(OfType(C \cup H, "paid"))
      /\ u.refunded = SumOver(OfType(C \cup H, "refunded"))
  <2>1. /\ u.events = r.events + d.events /\ u.late = r.late + d.late
        /\ \A t \in Types : u.orders[t] = r.orders[t] + d.orders[t]
        /\ u.gross = r.gross + d.gross /\ u.refunded = r.refunded + d.refunded
    BY <1>1
  <2>2. /\ Cardinality(C \cup H) = Cardinality(C) + Cardinality(H)
        /\ Cardinality(LateIn(C \cup H, L)) = Cardinality(LateIn(C, L)) + Cardinality(LateIn(H, L))
        /\ \A t : /\ Cardinality(OfType(C \cup H, t)) =
                         Cardinality(OfType(C, t)) + Cardinality(OfType(H, t))
                  /\ SumOver(OfType(C \cup H, t)) = SumOver(OfType(C, t)) + SumOver(OfType(H, t))
    BY PartsUnion, LateUnion
  <2> QED BY <2>1, <2>2 DEF Totals, Adds
<1>3. u.net = u.gross - u.refunded
  BY <1>1
<1>4. Spans(u.first, u.last, C \cup H)
  <2>1. F \cup H \in SUBSET Events /\ C \cup (F \cup H) = C \cup H
    OBVIOUS
  <2>2. Spans(r.first, r.last, C) /\ Spans(d.first, d.last, F \cup H)
    BY DEF Totals, Adds
  <2>3. Spans(MinTime(r.first, d.first), MaxTime(r.last, d.last), C \cup (F \cup H))
    BY <2>1, <2>2, SpansUnion
  <2>4. u.first = MinTime(r.first, d.first) /\ u.last = MaxTime(r.last, d.last)
    BY <1>1
  <2> QED BY <2>1, <2>3, <2>4
<1>5. Totals(u, C \cup H, L)
  BY <1>2, <1>3, <1>4 DEF Totals
<1> QED BY <1>5 DEF u
-----------------------------------------------------------------------------
(***************************************************************************)
(* The invariant, and what a flush finds and writes.                       *)
(***************************************************************************)

HeldIn(k) == {e \in held : Key(e) = k}

\* Everybody who places orders, and no one.
Users == {UserOf[e] : e \in Events}

\* The rows of window k in a table M of pairs, and their users.
RowsOf(M, k) == {m \in M : m[1] = k}

MembersIn(M, k) == {u \in Users : <<k, u>> \in M}

MembersOf(k) == MembersIn(members, k)

\* What the distinct column may say of S: too little only after a purge.
DistinctIs(n, S, isPurged) ==
    /\ n \in Nat /\ n <= Cardinality(UsersOf(S))
    /\ isPurged \/ n = Cardinality(UsersOf(S))

\* WindowState.
States == [agg : Aggregates, flushed : Aggregates, dirty : BOOLEAN]

\* The types, and what each history has to do with the others.
SetsTyped ==
    /\ watermark \in Int /\ watermarkAt \in Int /\ clock \in Nat
    /\ pendIds \subseteq Events /\ IsFiniteSet(pendIds)
    /\ ledger \subseteq Events /\ IsFiniteSet(ledger)
    /\ held \subseteq pendIds /\ held \cap ledger = {}
    /\ counted \subseteq ledger
    /\ late \subseteq Events
    /\ members \subseteq Keys \X Users
    /\ purged \subseteq Keys

\* WindowManager._windows, against the events.
WindowsStand ==
    /\ DOMAIN windows \subseteq Keys
    /\ \A e \in held : Key(e) \in DOMAIN windows
    /\ \A k \in DOMAIN windows :
          /\ windows[k] \in States
          /\ windows[k].dirty <=> HeldIn(k) # {}
          /\ \E F \in SUBSET CountedIn(k) : Stands(windows[k], F, HeldIn(k), late)

\* agg_orders_minute, against the events.
RowsStand ==
    /\ DOMAIN table = {Key(e) : e \in counted}
    /\ \A k \in DOMAIN table :
          /\ Totals(table[k], CountedIn(k), late)
          /\ DistinctIs(table[k].distinct, CountedIn(k), k \in purged)
          /\ table[k].revision \in Nat \ {0}

\* window_user: the users of the events in rows, less what a purge took.
MembersStand ==
    \A k \in Keys : /\ MembersOf(k) \subseteq UsersOf(CountedIn(k))
                    /\ k \notin purged => MembersOf(k) = UsersOf(CountedIn(k))

RowInv == SetsTyped /\ WindowsStand /\ RowsStand /\ MembersStand
-----------------------------------------------------------------------------
LEMMA InFacts ==
    ASSUME SetsTyped
    PROVE  \A k : /\ CountedIn(k) \in SUBSET Events /\ IsFiniteSet(CountedIn(k))
                  /\ HeldIn(k) \in SUBSET Events /\ IsFiniteSet(HeldIn(k))
                  /\ CountedIn(k) \cap HeldIn(k) = {}
                  /\ IsFiniteSet(CountedIn(k) \cup HeldIn(k))
                  /\ CountedIn(k) \cup HeldIn(k) \in SUBSET Events
<1> TAKE k
<1>1. /\ CountedIn(k) \subseteq ledger /\ HeldIn(k) \subseteq pendIds
      /\ CountedIn(k) \cap HeldIn(k) = {}
  BY DEF SetsTyped, CountedIn, HeldIn
<1>2. IsFiniteSet(CountedIn(k)) /\ IsFiniteSet(HeldIn(k))
  BY <1>1, FS_Subset DEF SetsTyped
<1>3. IsFiniteSet(CountedIn(k) \cup HeldIn(k))
  BY <1>2, FS_Union
<1> QED BY <1>1, <1>2, <1>3 DEF SetsTyped

\* The rows of window_user of one window, counted.
LEMMA MembersCount ==
    ASSUME NEW M, M \subseteq Keys \X Users, NEW k, IsFiniteSet(MembersIn(M, k))
    PROVE  Cardinality(RowsOf(M, k)) = Cardinality(MembersIn(M, k))
<1> DEFINE T == RowsOf(M, k)
           U == MembersIn(M, k)
           f == [u \in U |-> <<k, u>>]
<1>1. \A m \in T : m = <<k, m[2]>> /\ m[2] \in Users
  BY DEF RowsOf
<1>2. f \in Bijection(U, T)
  <2>1. f \in [U -> T]
    BY DEF RowsOf, MembersIn
  <2>2. \A u, v \in U : f[u] = f[v] => u = v
    OBVIOUS
  <2>3. \A m \in T : m[2] \in U /\ f[m[2]] = m
    BY <1>1 DEF RowsOf, MembersIn
  <2> HIDE DEF f, T
  <2>4. \A m \in T : \E u \in U : f[u] = m
    BY <2>3
  <2> QED BY <2>1, <2>2, <2>4 DEF Bijection, Injection, Surjection, IsInjective
<1>3. ExistsBijection(U, T)
  BY <1>2 DEF ExistsBijection
<1> HIDE DEF T, U
<1> QED BY <1>3, FS_Bijection DEF T, U

\* What a flush finds of a window: the events in rows already, F of them known
\* to the process, and H to come.
LEMMA WindowFacts ==
    ASSUME RowInv, NEW k \in DOMAIN windows
    PROVE  \E F \in SUBSET CountedIn(k) :
             /\ Stands(windows[k], F, HeldIn(k), late)
             /\ Adds(DeltaOf(k), F, HeldIn(k), late)
             /\ F \cup HeldIn(k) # {}
<1>1. PICK F \in SUBSET CountedIn(k) : Stands(windows[k], F, HeldIn(k), late)
  BY DEF RowInv, WindowsStand
<1>2. /\ CountedIn(k) \in SUBSET Events /\ IsFiniteSet(CountedIn(k))
      /\ HeldIn(k) \in SUBSET Events /\ IsFiniteSet(HeldIn(k))
      /\ CountedIn(k) \cap HeldIn(k) = {}
  BY InFacts DEF RowInv
<1>3. F \in SUBSET Events /\ IsFiniteSet(F) /\ F \cap HeldIn(k) = {}
  BY <1>1, <1>2, FS_Subset
<1>4. Adds(DeltaOf(k), F, HeldIn(k), late)
  BY <1>1, <1>2, <1>3, DeltaAdds
<1> QED BY <1>1, <1>4 DEF Stands

LEMMA TouchedFacts ==
    ASSUME RowInv
    PROVE  /\ Touched \subseteq DOMAIN windows /\ Touched \subseteq Keys
           /\ \A e \in held : Key(e) \in Touched
           /\ \A k : k \notin Touched => HeldIn(k) = {}
<1>1. Touched \subseteq DOMAIN windows
  BY DEF Touched, Expired
<1>2. ASSUME NEW e \in held PROVE Key(e) \in Touched
  <2>1. Key(e) \in DOMAIN windows /\ HeldIn(Key(e)) # {}
    BY DEF RowInv, WindowsStand, HeldIn
  <2>2. windows[Key(e)].dirty
    BY <2>1 DEF RowInv, WindowsStand
  <2> QED BY <2>1, <2>2 DEF Touched
<1>3. \A k : k \notin Touched => HeldIn(k) = {}
  BY <1>2 DEF HeldIn
<1> QED BY <1>1, <1>2, <1>3 DEF RowInv, WindowsStand

LEMMA NewMembersTyped == ASSUME RowInv PROVE NewMembers \subseteq Keys \X Users
<1>1. ASSUME NEW j \in Touched PROVE j \in Keys /\ DeltaOf(j).newUsers \subseteq Users
  <2>1. PICK F \in SUBSET CountedIn(j) : Adds(DeltaOf(j), F, HeldIn(j), late)
    BY TouchedFacts, WindowFacts
  <2>2. DeltaOf(j).newUsers \subseteq UsersOf(F \cup HeldIn(j))
    BY <2>1 DEF Adds
  <2>3. F \cup HeldIn(j) \subseteq Events
    BY InFacts DEF RowInv
  <2>4. UsersOf(F \cup HeldIn(j)) \subseteq Users
    BY <2>3, TypeParts DEF Users
  <2> QED BY <2>2, <2>4, TouchedFacts
<1> QED BY <1>1 DEF NewMembers

\* window_user after the flush.
LEMMA FlushMembers ==
    ASSUME RowInv, NEW k \in Keys
    PROVE  LET after == MembersIn(members \cup NewMembers, k)
               S == CountedIn(k) \cup HeldIn(k)
           IN  /\ after \subseteq UsersOf(S)
               /\ k \notin purged => after = UsersOf(S)
<1> DEFINE after == MembersIn(members \cup NewMembers, k)
           S == CountedIn(k) \cup HeldIn(k)
<1>1. /\ MembersOf(k) \subseteq UsersOf(CountedIn(k))
      /\ k \notin purged => MembersOf(k) = UsersOf(CountedIn(k))
  BY DEF RowInv, MembersStand
<1>2. UsersOf(S) = UsersOf(CountedIn(k)) \cup UsersOf(HeldIn(k)) /\ UsersOf(S) \subseteq Users
  <2>1. S \subseteq Events
    BY InFacts DEF RowInv
  <2> QED BY <2>1, TypeParts DEF Users
<1>3. CASE k \notin Touched
  <2>1. \A u : <<k, u>> \notin NewMembers
    BY <1>3 DEF NewMembers
  <2>2. after = MembersOf(k)
    BY <2>1 DEF MembersOf, MembersIn
  <2>3. HeldIn(k) = {}
    BY <1>3, TouchedFacts
  <2>4. UsersOf(S) = UsersOf(CountedIn(k))
    BY <1>2, <2>3, TypeParts
  <2> HIDE DEF after, S
  <2> QED BY <1>1, <2>2, <2>4 DEF after, S
<1>4. CASE k \in Touched
  <2>1. PICK F \in SUBSET CountedIn(k) : Adds(DeltaOf(k), F, HeldIn(k), late)
    BY <1>4, TouchedFacts, WindowFacts
  <2>2. DeltaOf(k).newUsers = UsersOf(F \cup HeldIn(k)) \ UsersOf(F)
    BY <2>1 DEF Adds
  <2>3. \A u : <<k, u>> \in NewMembers <=> u \in DeltaOf(k).newUsers
    BY <1>4 DEF NewMembers
  <2>4. /\ UsersOf(F \cup HeldIn(k)) = UsersOf(F) \cup UsersOf(HeldIn(k))
        /\ UsersOf(F) \subseteq UsersOf(CountedIn(k))
    <3>1. UsersOf(F \cup HeldIn(k)) = UsersOf(F) \cup UsersOf(HeldIn(k))
      BY TypeParts
    <3> QED BY <2>1, <3>1 DEF UsersOf
  <2>5. \A u : u \in after <=> u \in Users /\ (u \in MembersOf(k) \/ u \in DeltaOf(k).newUsers)
    BY <2>3 DEF MembersOf, MembersIn
  <2> HIDE DEF after, S
  <2> QED BY <1>1, <1>2, <2>2, <2>4, <2>5 DEF after, S
<1> QED BY <1>3, <1>4

\* A row after the flush: it has all its events, and its revision has moved
\* exactly if some of the new ones were late.
LEMMA FlushRow ==
    ASSUME RowInv, NEW k \in Touched
    PROVE  LET S == CountedIn(k) \cup HeldIn(k)
               row == Written(k)
           IN  /\ S # {}
               /\ Totals(row, S, late)
               /\ DistinctIs(row.distinct, S, k \in purged)
               /\ row.revision \in Nat \ {0}
               /\ k \in DOMAIN table =>
                    row.revision = table[k].revision +
                                     IF LateIn(HeldIn(k), late) = {} THEN 0 ELSE 1
<1> DEFINE C == CountedIn(k)
           H == HeldIn(k)
           S == C \cup H
           d == DeltaOf(k)
           row == Written(k)
           half == IF k \in DOMAIN table THEN Upserted(table[k], d) ELSE Inserted(d)
<1>1. /\ C \in SUBSET Events /\ IsFiniteSet(C) /\ H \in SUBSET Events /\ IsFiniteSet(H)
      /\ C \cap H = {} /\ IsFiniteSet(S) /\ S \in SUBSET Events
  BY InFacts DEF RowInv
<1>2. PICK F \in SUBSET C : Adds(d, F, H, late) /\ F \cup H # {}
  BY TouchedFacts, WindowFacts
<1>3. k \in Keys /\ row = Recounted(half, k)
  BY TouchedFacts DEF Written
<1>4. k \in DOMAIN table <=> C # {}
  BY DEF RowInv, RowsStand, CountedIn
<1>5. /\ IsFiniteSet(UsersOf(S)) /\ Cardinality(UsersOf(S)) \in Nat
      /\ IsFiniteSet(UsersOf(C)) /\ Cardinality(UsersOf(C)) \in Nat
  BY <1>1, UsersFinite
<1>6. /\ UsersOf(S) = UsersOf(C) \cup UsersOf(H) /\ UsersOf(F) \subseteq UsersOf(C)
      /\ UsersOf(F \cup H) = UsersOf(F) \cup UsersOf(H)
  <2>1. UsersOf(S) = UsersOf(C) \cup UsersOf(H) /\ UsersOf(F \cup H) = UsersOf(F) \cup UsersOf(H)
    BY TypeParts
  <2> QED BY <2>1, <1>2 DEF UsersOf
<1>7. /\ IsFiniteSet(UsersOf(F \cup H)) /\ Cardinality(UsersOf(F \cup H)) \in Nat
      /\ Cardinality(UsersOf(F \cup H)) <= Cardinality(UsersOf(S))
  <2>1. UsersOf(F \cup H) \subseteq UsersOf(S)
    BY <1>6
  <2> QED BY <1>5, <2>1, FS_Subset, FS_CardinalityType
<1>8. Cardinality(UsersOf(C)) <= Cardinality(UsersOf(S))
  <2>1. UsersOf(C) \subseteq UsersOf(S)
    BY <1>6
  <2> QED BY <1>5, <2>1, FS_Subset
<1>9. d.distinct = Cardinality(UsersOf(F \cup H)) /\ d.newUsers = UsersOf(F \cup H) \ UsersOf(F)
      /\ d.late = Cardinality(LateIn(H, late))
  BY <1>2 DEF Adds
<1>10. (d.late > 0 <=> LateIn(H, late) # {}) /\ d.late \in Nat
  <2>1. IsFiniteSet(LateIn(H, late))
    BY <1>1, LateParts, FS_Subset
  <2> HIDE DEF H, d
  <2> QED BY <1>9, <2>1, FS_EmptySet, FS_CardinalityType
<1>11. Totals(half, S, late)
  <2>1. CASE k \in DOMAIN table
    <3>1. Totals(table[k], C, late)
      BY <2>1 DEF RowInv, RowsStand
    <3> HIDE DEF C, H, d
    <3> QED BY <1>1, <1>2, <2>1, <3>1, UpsertTotals
  <2>2. CASE k \notin DOMAIN table
    <3>1. C = {} /\ F = {} /\ S = H
      BY <1>2, <1>4, <2>2
    <3> HIDE DEF C, H, d, S
    <3> QED BY <1>1, <1>2, <2>2, <3>1, InsertTotals
  <2> QED BY <2>1, <2>2
<1>12. DistinctIs(half.distinct, S, k \in purged) \/ NewMembers # {}
  <2> SUFFICES ASSUME NewMembers = {} PROVE DistinctIs(half.distinct, S, k \in purged)
    OBVIOUS
  <2>1. d.newUsers = {}
    <3> SUFFICES ASSUME NEW u \in d.newUsers PROVE FALSE
      OBVIOUS
    <3>1. <<k, u>> \in NewMembers
      BY DEF NewMembers
    <3> QED BY <3>1
  <2>2. UsersOf(S) = UsersOf(C) /\ UsersOf(F \cup H) = UsersOf(F)
    <3> HIDE DEF C, H, d, S
    <3> QED BY <1>6, <1>9, <2>1
  <2>3. CASE k \in DOMAIN table
    <3>1. DistinctIs(table[k].distinct, C, k \in purged)
      BY <2>3 DEF RowInv, RowsStand
    <3>2. half.distinct = IF d.distinct > table[k].distinct THEN d.distinct
                          ELSE table[k].distinct
      BY <2>3 DEF Upserted
    <3> HIDE DEF C, H, d, S, half
    <3> QED BY <1>5, <1>7, <1>9, <2>2, <3>1, <3>2 DEF DistinctIs
  <2>4. CASE k \notin DOMAIN table
    <3>1. C = {} /\ F = {} /\ S = H /\ F \cup H = H
      BY <1>2, <1>4, <2>4
    <3>2. half.distinct = d.distinct
      BY <2>4 DEF Inserted
    <3> HIDE DEF C, H, d, S, half
    <3> QED BY <1>5, <1>9, <3>1, <3>2 DEF DistinctIs
  <2> QED BY <2>3, <2>4
<1>13. half.revision \in Nat \ {0}
       /\ (k \in DOMAIN table =>
             half.revision = table[k].revision + IF LateIn(H, late) = {} THEN 0 ELSE 1)
  <2>1. CASE k \in DOMAIN table
    <3>1. table[k].revision \in Nat \ {0}
      BY <2>1 DEF RowInv, RowsStand
    <3>2. half.revision = table[k].revision + IF d.late > 0 THEN 1 ELSE 0
      BY <2>1 DEF Upserted, Revised
    <3> HIDE DEF C, H, d, S, half
    <3> QED BY <1>10, <2>1, <3>1, <3>2
  <2>2. CASE k \notin DOMAIN table
    BY <2>2 DEF Inserted
  <2> QED BY <2>1, <2>2
<1>14. S # {}
  BY <1>2
<1>15. CASE NewMembers = {}
  <2>1. row = half
    BY <1>3, <1>15 DEF Recounted
  <2> HIDE DEF half, row, S
  <2> QED BY <1>11, <1>12, <1>13, <1>14, <1>15, <2>1 DEF row, S
<1>16. CASE NewMembers # {}
  <2> DEFINE n == Cardinality({m \in members \cup NewMembers : m[1] = k})
             after == MembersIn(members \cup NewMembers, k)
  <2>1. row = [half EXCEPT !.distinct = n]
    BY <1>3, <1>16 DEF Recounted
  <2>2. after \subseteq UsersOf(S) /\ (k \notin purged => after = UsersOf(S))
    BY <1>3, FlushMembers
  <2>3. /\ IsFiniteSet(after) /\ Cardinality(after) \in Nat
        /\ Cardinality(after) <= Cardinality(UsersOf(S))
    BY <1>5, <2>2, FS_Subset, FS_CardinalityType
  <2>4. members \cup NewMembers \subseteq Keys \X Users
    BY NewMembersTyped DEF RowInv, SetsTyped
  <2>5. n = Cardinality(after)
    BY <2>3, <2>4, MembersCount DEF RowsOf
  <2> HIDE DEF n, after
  <2>6. DistinctIs(n, S, k \in purged)
    BY <1>5, <2>2, <2>3, <2>5 DEF DistinctIs
  <2>7. half.distinct = half.distinct /\ Totals(row, S, late) /\ row.revision = half.revision
        /\ row.distinct = n
    <3>1. half = [half EXCEPT !.distinct = half.distinct]
      BY DEF Upserted, Inserted
    <3> QED BY <1>11, <2>1, <3>1 DEF Totals, Upserted, Inserted
  <2> HIDE DEF half, row, S
  <2> QED BY <1>13, <1>14, <2>6, <2>7 DEF row, S
<1> QED BY <1>15, <1>16
-----------------------------------------------------------------------------
(***************************************************************************)
(* One lemma per action.                                                   *)
(***************************************************************************)

LEMMA InitRowInv == Init => RowInv
<1> SUFFICES ASSUME Init PROVE RowInv
  OBVIOUS
<1>1. SetsTyped
  BY FS_EmptySet, EventTimeAssumption DEF Init, SetsTyped
<1>2. WindowsStand
  BY DEF Init, WindowsStand
<1>3. RowsStand
  BY DEF Init, RowsStand
<1>4. MembersStand
  BY DEF Init, MembersStand, MembersOf, MembersIn, CountedIn, UsersOf
<1> QED BY <1>1, <1>2, <1>3, <1>4 DEF RowInv

LEMMA TotalsSame ==
    ASSUME NEW r, NEW S, NEW L, NEW M, Totals(r, S, L), LateIn(S, L) = LateIn(S, M)
    PROVE  Totals(r, S, M)
BY DEF Totals

LEMMA StandsSame ==
    ASSUME NEW st, NEW F, NEW H, NEW L, NEW M, Stands(st, F, H, L),
           LateIn(F, L) = LateIn(F, M), LateIn(F \cup H, L) = LateIn(F \cup H, M)
    PROVE  Stands(st, F, H, M)
BY SaysSame DEF Stands

\* What a new event does to its window.
LEMMA StandsApply ==
    ASSUME NEW st \in States, NEW F \in SUBSET Events, IsFiniteSet(F),
           NEW H \in SUBSET Events, IsFiniteSet(H),
           NEW L, NEW e \in Events, e \notin F \cup H, NEW isLate \in BOOLEAN,
           Says(st.flushed, F, L), Says(st.agg, F \cup H, L)
    PROVE  LET new == [st EXCEPT !.agg = Apply(@, e, isLate), !.dirty = TRUE]
           IN  /\ new \in States /\ new.dirty
               /\ Stands(new, F, H \cup {e}, IF isLate THEN L \cup {e} ELSE L \ {e})
<1> DEFINE b == Apply(st.agg, e, isLate)
           M == IF isLate THEN L \cup {e} ELSE L \ {e}
           new == [st EXCEPT !.agg = b, !.dirty = TRUE]
<1>1. IsFiniteSet(F \cup H) /\ F \cup H \in SUBSET Events
  BY FS_Union
<1>2. Says(b, (F \cup H) \cup {e}, M)
  <2>1. PICK S \in SUBSET Events : S = F \cup H /\ IsFiniteSet(S)
    BY <1>1
  <2>2. e \notin S /\ Says(st.agg, S, L)
    BY <2>1
  <2>3. Says(Apply(st.agg, e, isLate), S \cup {e}, IF isLate THEN L \cup {e} ELSE L \ {e})
    BY <2>1, <2>2, SaysApply
  <2> QED BY <2>1, <2>3
<1>3. LateIn(F, L) = LateIn(F, M)
  BY DEF LateIn
<1>4. Says(st.flushed, F, M)
  <2> HIDE DEF M
  <2> QED BY <1>3, SaysSame
<1>5. b \in Aggregates
  BY <1>2 DEF Says
<1> HIDE DEF b, M
<1>6. new \in States /\ new.dirty /\ new.agg = b /\ new.flushed = st.flushed
  BY <1>5 DEF States
<1>7. (F \cup H) \cup {e} = F \cup (H \cup {e})
  OBVIOUS
<1> HIDE DEF new
<1>8. Stands(new, F, H \cup {e}, M)
  BY <1>2, <1>4, <1>6, <1>7 DEF Stands
<1> QED BY <1>6, <1>8 DEF new, b, M

LEMMA AddStep ==
    ASSUME RowInv, NEW e \in Events, Add(e)
    PROVE  RowInv'
<1> DEFINE outcome == Classify(TimeOf[e], watermark, clock)
           isLate == outcome = "late_accepted"
           key == Key(e)
<1>1. /\ e \notin pendIds /\ e \notin ledger /\ e \notin held /\ e \notin counted
      /\ pendIds' = pendIds \cup {e}
      /\ UNCHANGED <<storeVars, clock, counted, purged, restarted>>
  BY DEF Add, RowInv, SetsTyped
<1>2. IsFiniteSet(pendIds') /\ pendIds' \subseteq Events
  BY <1>1, FS_AddElement DEF RowInv, SetsTyped
<1>3. key \in Keys
  BY DEF Keys
<1>4. ASSUME LateIn(counted, late) = LateIn(counted, late') PROVE RowsStand' /\ MembersStand'
  <2>1. \A k : CountedIn(k)' = CountedIn(k) /\ MembersOf(k)' = MembersOf(k)
    BY <1>1 DEF CountedIn, MembersOf, storeVars
  <2>2. ASSUME NEW k PROVE LateIn(CountedIn(k), late) = LateIn(CountedIn(k), late')
    BY <1>4 DEF LateIn, CountedIn
  <2>3. ASSUME NEW k \in DOMAIN table PROVE Totals(table[k], CountedIn(k), late')
    BY <2>2, TotalsSame DEF RowInv, RowsStand
  <2>4. table' = table /\ counted' = counted /\ purged' = purged
    BY <1>1 DEF storeVars
  <2>5. RowsStand'
    BY <2>1, <2>3, <2>4 DEF RowInv, RowsStand
  <2>6. MembersStand'
    BY <2>1, <2>4 DEF RowInv, MembersStand
  <2> QED BY <2>5, <2>6
<1>5. CASE ~Accepted(outcome)
  <2>1. UNCHANGED <<windows, watermark, held, late>>
    BY <1>5 DEF Add
  <2>2. SetsTyped'
    BY <1>1, <1>2, <2>1 DEF RowInv, SetsTyped, storeVars
  <2>3. WindowsStand'
    BY <1>1, <2>1 DEF RowInv, WindowsStand, HeldIn, CountedIn
  <2>4. RowsStand' /\ MembersStand'
    BY <1>4, <2>1
  <2> QED BY <2>2, <2>3, <2>4 DEF RowInv
<1>6. CASE Accepted(outcome)
  <2> DEFINE new == [StateOf(key) EXCEPT !.agg = Apply(@, e, isLate), !.dirty = TRUE]
             M == IF isLate THEN late \cup {e} ELSE late \ {e}
  <2>1. /\ windows' = [k \in DOMAIN windows \cup {key} |-> IF k = key THEN new ELSE windows[k]]
        /\ watermark' = AdvanceWatermark(watermark, TimeOf[e])
        /\ held' = held \cup {e}
        /\ late' = M
    BY <1>6 DEF Add
  <2>2. watermark' \in Int
    BY <2>1, TimesFacts, EventTimeAssumption DEF AdvanceWatermark, RowInv, SetsTyped
  <2>3. SetsTyped'
    BY <1>1, <1>2, <2>1, <2>2 DEF RowInv, SetsTyped, storeVars
  <2>4. LateIn(counted, late) = LateIn(counted, late')
    BY <1>1, <2>1 DEF LateIn
  <2>5. RowsStand' /\ MembersStand'
    BY <1>4, <2>4
  <2>6. \A k : /\ CountedIn(k)' = CountedIn(k)
               /\ HeldIn(k)' = IF k = key THEN HeldIn(k) \cup {e} ELSE HeldIn(k)
    BY <1>1, <2>1 DEF CountedIn, HeldIn
  <2>7. \E F \in SUBSET CountedIn(key) :
           /\ new \in States /\ new.dirty
           /\ Stands(new, F, HeldIn(key) \cup {e}, late')
    <3>1. /\ CountedIn(key) \in SUBSET Events /\ IsFiniteSet(CountedIn(key))
          /\ HeldIn(key) \in SUBSET Events /\ IsFiniteSet(HeldIn(key))
          /\ e \notin CountedIn(key) \cup HeldIn(key)
      BY <1>1, InFacts DEF RowInv, CountedIn, HeldIn
    <3>2. StateOf(key) \in States
          /\ \E F \in SUBSET CountedIn(key) :
                /\ Says(StateOf(key).flushed, F, late)
                /\ Says(StateOf(key).agg, F \cup HeldIn(key), late)
      <4>1. CASE key \in DOMAIN windows
        BY <4>1 DEF StateOf, RowInv, WindowsStand, Stands
      <4>2. CASE key \notin DOMAIN windows
        <5>1. HeldIn(key) = {}
          BY <4>2 DEF HeldIn, RowInv, WindowsStand
        <5>2. StateOf(key) = [agg |-> Blank, flushed |-> Blank, dirty |-> TRUE]
          BY <4>2 DEF StateOf
        <5>3. Says(Blank, {}, late) /\ {} \cup HeldIn(key) = {}
          BY <5>1, SaysBlank
        <5>4. Blank \in Aggregates
          BY <5>3 DEF Says
        <5> QED BY <5>2, <5>3, <5>4 DEF States
      <4> QED BY <4>1, <4>2
    <3>3. PICK F \in SUBSET CountedIn(key) :
                /\ Says(StateOf(key).flushed, F, late)
                /\ Says(StateOf(key).agg, F \cup HeldIn(key), late)
      BY <3>2
    <3>4. F \in SUBSET Events /\ IsFiniteSet(F) /\ e \notin F \cup HeldIn(key)
      BY <3>1, <3>3, FS_Subset
    <3>5. isLate \in BOOLEAN
      OBVIOUS
    <3> HIDE DEF isLate, key
    <3>6. /\ new \in States /\ new.dirty
          /\ Stands(new, F, HeldIn(key) \cup {e}, M)
      BY <3>1, <3>2, <3>3, <3>4, <3>5, StandsApply
    <3> QED BY <2>1, <3>3, <3>6
  <2>8. ASSUME NEW k \in DOMAIN windows, k # key
        PROVE  \E F \in SUBSET CountedIn(k) : Stands(windows[k], F, HeldIn(k), late')
    <3>1. PICK F \in SUBSET CountedIn(k) : Stands(windows[k], F, HeldIn(k), late)
      BY DEF RowInv, WindowsStand
    <3>2. LateIn(F, late) = LateIn(F, late')
          /\ LateIn(F \cup HeldIn(k), late) = LateIn(F \cup HeldIn(k), late')
      BY <1>1, <2>1 DEF LateIn, CountedIn, HeldIn
    <3>3. Stands(windows[k], F, HeldIn(k), late')
      BY <3>1, <3>2, StandsSame
    <3> QED BY <3>3
  <2>9. WindowsStand'
    <3>1. DOMAIN windows' = DOMAIN windows \cup {key}
      BY <2>1
    <3>2. \A d \in held' : Key(d) \in DOMAIN windows'
      BY <2>1 DEF RowInv, WindowsStand
    <3>3. ASSUME NEW k \in DOMAIN windows'
          PROVE  /\ windows'[k] \in States
                 /\ windows'[k].dirty <=> HeldIn(k)' # {}
                 /\ \E F \in SUBSET CountedIn(k)' : Stands(windows'[k], F, HeldIn(k)', late')
      <4>1. CASE k = key
        <5>1. windows'[k] = new /\ HeldIn(k)' = HeldIn(key) \cup {e} /\ CountedIn(k)' = CountedIn(key)
          BY <2>1, <2>6, <4>1
        <5> HIDE DEF new
        <5> QED BY <2>7, <5>1
      <4>2. CASE k # key
        <5>1. k \in DOMAIN windows /\ windows'[k] = windows[k] /\ HeldIn(k)' = HeldIn(k)
              /\ CountedIn(k)' = CountedIn(k)
          BY <2>1, <2>6, <4>2
        <5> QED BY <2>8, <4>2, <5>1 DEF RowInv, WindowsStand
      <4> QED BY <4>1, <4>2
    <3> HIDE DEF key
    <3> QED BY <1>3, <3>1, <3>2, <3>3 DEF RowInv, WindowsStand
  <2> QED BY <2>3, <2>5, <2>9 DEF RowInv
<1> QED BY <1>5, <1>6

LEMMA FlushStep ==
    ASSUME RowInv, Flush
    PROVE  RowInv'
<1>1. /\ table' = [k \in DOMAIN table \cup Touched |-> Written(k)]
      /\ members' = members \cup NewMembers
      /\ ledger' = ledger \cup pendIds
      /\ watermarkAt' = (IF pendIds # {} THEN watermark ELSE watermarkAt)
      /\ windows' = [k \in Live |-> Snapshot(windows[k])]
      /\ pendIds' = {}
      /\ counted' = counted \cup held
      /\ held' = {}
      /\ UNCHANGED <<watermark, clock, late, purged, restarted>>
  BY DEF Flush
<1>2. \A k : CountedIn(k)' = CountedIn(k) \cup HeldIn(k) /\ HeldIn(k)' = {}
  BY <1>1 DEF CountedIn, HeldIn
<1>3. \A k : MembersOf(k)' = MembersIn(members \cup NewMembers, k)
  BY <1>1 DEF MembersOf
<1>4. members \cup NewMembers \subseteq Keys \X Users
  BY NewMembersTyped DEF RowInv, SetsTyped
<1>5. SetsTyped'
  <2>1. IsFiniteSet(ledger') /\ IsFiniteSet(pendIds')
    BY <1>1, FS_Union, FS_EmptySet DEF RowInv, SetsTyped
  <2>2. counted' \subseteq ledger'
    BY <1>1 DEF RowInv, SetsTyped
  <2>3. watermarkAt' \in Int
    BY <1>1 DEF RowInv, SetsTyped
  <2> QED BY <1>1, <1>4, <2>1, <2>2, <2>3 DEF RowInv, SetsTyped
<1>6. WindowsStand'
  <2>1. Live \subseteq DOMAIN windows
    BY DEF Live
  <2>2. ASSUME NEW k \in Live
        PROVE  /\ windows'[k] \in States
               /\ windows'[k].dirty <=> HeldIn(k)' # {}
               /\ \E F \in SUBSET CountedIn(k)' : Stands(windows'[k], F, HeldIn(k)', late')
    <3>1. PICK F \in SUBSET CountedIn(k) : Stands(windows[k], F, HeldIn(k), late)
      BY <2>1 DEF RowInv, WindowsStand
    <3> DEFINE st == windows'[k]
               G == F \cup HeldIn(k)
    <3>2. windows[k] \in States /\ st = [windows[k] EXCEPT !.flushed = windows[k].agg, !.dirty = FALSE]
      BY <1>1, <2>1 DEF RowInv, WindowsStand, Snapshot
    <3>3. st \in States /\ st.dirty = FALSE /\ st.flushed = windows[k].agg /\ st.agg = windows[k].agg
      BY <3>2 DEF States
    <3>4. G \in SUBSET CountedIn(k)' /\ G # {} /\ G \cup {} = G
      BY <1>2, <3>1 DEF Stands
    <3> HIDE DEF st
    <3>5. Stands(st, G, {}, late)
      BY <3>1, <3>3, <3>4 DEF Stands
    <3>6. HeldIn(k)' = {} /\ late' = late
      BY <1>1, <1>2
    <3> HIDE DEF G
    <3> QED BY <3>3, <3>4, <3>5, <3>6 DEF st
  <2>3. DOMAIN windows' = Live /\ held' = {}
    BY <1>1
  <2> QED BY <2>1, <2>2, <2>3 DEF RowInv, WindowsStand
<1>7. RowsStand'
  <2>1. DOMAIN table' = DOMAIN table \cup Touched
    BY <1>1
  <2>2. DOMAIN table' = {Key(e) : e \in counted'}
    <3>1. \A k \in Touched : k \in {Key(e) : e \in counted \cup held}
      <4> TAKE k \in Touched
      <4>1. CountedIn(k) \cup HeldIn(k) # {}
        BY FlushRow
      <4> QED BY <4>1 DEF CountedIn, HeldIn
    <3>2. \A e \in held : Key(e) \in Touched
      BY TouchedFacts
    <3> QED BY <1>1, <2>1, <3>1, <3>2 DEF RowInv, RowsStand
  <2>3. ASSUME NEW k \in DOMAIN table'
        PROVE  /\ Totals(table'[k], CountedIn(k)', late')
               /\ DistinctIs(table'[k].distinct, CountedIn(k)', k \in purged')
               /\ table'[k].revision \in Nat \ {0}
    <3>1. CASE k \in Touched
      <4>1. table'[k] = Written(k) /\ late' = late /\ purged' = purged
        BY <1>1, <3>1
      <4> QED BY <1>2, <3>1, <4>1, FlushRow
    <3>2. CASE k \notin Touched
      <4>1. k \in DOMAIN table /\ table'[k] = table[k] /\ late' = late /\ purged' = purged
        BY <1>1, <3>2 DEF Written
      <4>2. CountedIn(k)' = CountedIn(k)
        BY <1>2, <3>2, TouchedFacts
      <4> QED BY <4>1, <4>2 DEF RowInv, RowsStand
    <3> QED BY <3>1, <3>2
  <2> QED BY <2>2, <2>3 DEF RowsStand
<1>8. MembersStand'
  <2>1. ASSUME NEW k \in Keys
        PROVE  /\ MembersOf(k)' \subseteq UsersOf(CountedIn(k)')
               /\ k \notin purged' => MembersOf(k)' = UsersOf(CountedIn(k)')
    BY <1>1, <1>2, <1>3, FlushMembers
  <2> QED BY <2>1 DEF MembersStand
<1> QED BY <1>5, <1>6, <1>7, <1>8 DEF RowInv

LEMMA FlushFailsStep ==
    ASSUME RowInv, FlushFails
    PROVE  RowInv'
<1>1. /\ windows' = [k \in Live |-> windows[k]]
      /\ held' = {e \in held : Key(e) \in Live}
      /\ UNCHANGED <<watermark, pendIds, storeVars, clock, counted, late, purged, restarted>>
  BY DEF FlushFails
<1>2. Live \subseteq DOMAIN windows
  BY DEF Live
<1>3. /\ \A k : CountedIn(k)' = CountedIn(k) /\ MembersOf(k)' = MembersOf(k)
      /\ \A k \in Live : HeldIn(k)' = HeldIn(k)
  BY <1>1 DEF CountedIn, MembersOf, HeldIn, storeVars
<1>4. SetsTyped'
  BY <1>1 DEF RowInv, SetsTyped, storeVars
<1>5. WindowsStand'
  BY <1>1, <1>2, <1>3 DEF RowInv, WindowsStand
<1>6. RowsStand' /\ MembersStand'
  BY <1>1, <1>3 DEF RowInv, RowsStand, MembersStand, storeVars
<1> QED BY <1>4, <1>5, <1>6 DEF RowInv

LEMMA RestartStep ==
    ASSUME RowInv, Restart
    PROVE  RowInv'
<1>1. /\ watermark' = NoWatermark /\ windows' = [k \in {} |-> Blank]
      /\ pendIds' = {} /\ held' = {}
      /\ UNCHANGED <<storeVars, clock, counted, late, purged>>
  BY DEF Restart
<1>2. \A k : CountedIn(k)' = CountedIn(k) /\ MembersOf(k)' = MembersOf(k)
  BY <1>1 DEF CountedIn, MembersOf, storeVars
<1>3. SetsTyped'
  BY <1>1, EventTimeAssumption, FS_EmptySet DEF RowInv, SetsTyped, storeVars
<1>4. WindowsStand'
  BY <1>1 DEF WindowsStand
<1>5. RowsStand' /\ MembersStand'
  BY <1>1, <1>2 DEF RowInv, RowsStand, MembersStand, storeVars
<1> QED BY <1>3, <1>4, <1>5 DEF RowInv

LEMMA PurgeStep ==
    ASSUME RowInv, Purge
    PROVE  RowInv'
<1> DEFINE old == {m \in members : m[1][1] < clock - Retention}
<1>1. /\ members' = members \ old
      /\ purged' = purged \cup {m[1] : m \in old}
      /\ UNCHANGED <<procVars, table, ledger, watermarkAt, clock, held, counted, late, restarted>>
  BY DEF Purge
<1>2. \A k : CountedIn(k)' = CountedIn(k) /\ HeldIn(k)' = HeldIn(k)
  BY <1>1 DEF CountedIn, HeldIn
<1>3. SetsTyped'
  BY <1>1 DEF RowInv, SetsTyped, procVars
<1>4. WindowsStand'
  BY <1>1, <1>2 DEF RowInv, WindowsStand, procVars
<1>5. RowsStand'
  <2>1. \A k \in DOMAIN table : DistinctIs(table[k].distinct, CountedIn(k), k \in purged')
    BY <1>1 DEF RowInv, RowsStand, DistinctIs
  <2> QED BY <1>1, <1>2, <2>1 DEF RowInv, RowsStand
<1>6. MembersStand'
  <2>1. ASSUME NEW k
        PROVE  /\ MembersOf(k)' \subseteq MembersOf(k)
               /\ k \notin purged' => MembersOf(k)' = MembersOf(k)
    <3>1. \A u : <<k, u>> \in old => k \in purged'
      <4> TAKE u
      <4>1. <<k, u>>[1] = k
        OBVIOUS
      <4> QED BY <1>1, <4>1
    <3> HIDE DEF old
    <3> QED BY <1>1, <3>1 DEF MembersOf, MembersIn
  <2> QED BY <1>1, <1>2, <2>1 DEF RowInv, MembersStand
<1> QED BY <1>3, <1>4, <1>5, <1>6 DEF RowInv

\* Time passing changes no window and no row.
LEMMA ClockStep ==
    ASSUME RowInv, watermark' \in Int, clock' \in Nat, watermarkAt' = watermarkAt,
           UNCHANGED <<windows, pendIds, table, members, ledger, held, counted, late, purged>>
    PROVE  RowInv'
<1>1. \A k : CountedIn(k)' = CountedIn(k) /\ HeldIn(k)' = HeldIn(k) /\ MembersOf(k)' = MembersOf(k)
  BY DEF CountedIn, HeldIn, MembersOf
<1>2. SetsTyped'
  BY DEF RowInv, SetsTyped
<1>3. RowsStand' /\ MembersStand'
  BY <1>1 DEF RowInv, RowsStand, MembersStand
<1>4. WindowsStand'
  BY <1>1 DEF RowInv, WindowsStand
<1> QED BY <1>2, <1>3, <1>4 DEF RowInv

LEMMA RowInvStep == ASSUME RowInv, [Next]_vars PROVE RowInv'
<1>1. CASE UNCHANGED vars
  BY <1>1, ClockStep DEF vars, procVars, storeVars, RowInv, SetsTyped
<1>2. CASE AdvanceOnIdle
  <2>1. watermark' \in Int
    BY <1>2, EventTimeAssumption DEF AdvanceOnIdle, AdvanceWatermark, RowInv, SetsTyped
  <2> QED BY <1>2, <2>1, ClockStep DEF AdvanceOnIdle, storeVars, RowInv, SetsTyped
<1>3. CASE Tick
  BY <1>3, ClockStep DEF Tick, procVars, storeVars, RowInv, SetsTyped
<1> QED BY <1>1, <1>2, <1>3, AddStep, FlushStep, FlushFailsStep, RestartStep, PurgeStep DEF Next

\* The invariant of the sums holds: of windows (windowing.py:247-280), rows
\* (repository.py:51-93) and memberships (repository.py:78-82) together.
THEOREM RowInvariance == Spec => []RowInv
<1>1. RowInv /\ [Next]_vars => RowInv'
  BY RowInvStep
<1> QED BY InitRowInv, <1>1, PTL DEF Spec
-----------------------------------------------------------------------------
(***************************************************************************)
(* How far the live windows reach, and what a reader's watermark is        *)
(* behind.                                                                 *)
(***************************************************************************)

\* A live window begins no later than the last event that was accepted.
WindowsReached == \A k \in DOMAIN windows : k[1] <= watermark + AllowedLateness

\* The watermark a reader knows is behind the process, and so is what the
\* process holds without calling it late.
CheckpointIsBehind ==
    ~restarted => /\ watermarkAt <= watermark
                  /\ \A e \in held \ late : watermarkAt <= TimeOf[e]

LEMMA StartFacts ==
    ASSUME NEW t \in Nat
    PROVE  /\ WindowStartFor(t) \in Nat /\ WindowStartFor(t) <= t
           /\ t \div WindowSize \in Nat
           /\ WindowStartFor(t) = WindowSize * (t \div WindowSize)
<1> DEFINE W == WindowSize
<1>1. W \in Nat /\ W > 0
  BY EventTimeAssumption
<1>2. t = W * (t \div W) + (t % W) /\ t % W \in 0..(W - 1) /\ t \div W \in Int
  BY <1>1
<1>3. t \div W >= 0
  BY <1>1
<1> QED BY <1>1, <1>2, <1>3 DEF WindowStartFor

LEMMA KeyFacts ==
    ASSUME NEW k \in Keys
    PROVE  k = <<k[1], k[2]>> /\ k[1] \in Nat /\ \E j \in Nat : k[1] = WindowSize * j
<1>1. PICK e \in Events : k = Key(e)
  BY DEF Keys
<1>2. TimeOf[e] \in Nat
  BY TimesFacts
<1>3. k = <<WindowStartFor(TimeOf[e]), MerchantOf[e]>>
  BY <1>1 DEF Key
<1> QED BY <1>2, <1>3, StartFacts

LEMMA ReachedStep == ASSUME RowInv, WindowsReached, [Next]_vars PROVE WindowsReached'
<1>0. /\ watermark \in Int /\ AllowedLateness \in Nat /\ clock \in Nat
      /\ \A k \in DOMAIN windows : k[1] \in Nat
  BY EventTimeAssumption, KeyFacts DEF RowInv, SetsTyped, WindowsStand
<1>1. ASSUME NEW t \in Nat, watermark' = AdvanceWatermark(watermark, t)
      PROVE  watermark' \in Int /\ watermark <= watermark' /\ t <= watermark' + AllowedLateness
  BY <1>0, <1>1 DEF AdvanceWatermark
<1>2. ASSUME NEW e \in Events, Add(e) PROVE WindowsReached'
  <2>1. CASE windows' = windows /\ watermark' = watermark
    BY <2>1 DEF WindowsReached
  <2>2. CASE Accepted(Classify(TimeOf[e], watermark, clock))
    <3>1. DOMAIN windows' = DOMAIN windows \cup {Key(e)}
          /\ watermark' = AdvanceWatermark(watermark, TimeOf[e])
      BY <1>2, <2>2 DEF Add
    <3>2. TimeOf[e] \in Nat
      BY TimesFacts
    <3>3. watermark' \in Int /\ watermark <= watermark' /\ TimeOf[e] <= watermark' + AllowedLateness
      BY <1>1, <3>1, <3>2
    <3>4. Key(e)[1] = WindowStartFor(TimeOf[e])
      BY DEF Key
    <3>5. Key(e)[1] \in Nat /\ Key(e)[1] <= TimeOf[e]
      BY <3>2, <3>4, StartFacts
    <3>6. ASSUME NEW k \in DOMAIN windows' PROVE k[1] <= watermark' + AllowedLateness
      <4>1. CASE k \in DOMAIN windows
        BY <1>0, <3>3, <4>1 DEF WindowsReached
      <4>2. CASE k = Key(e)
        BY <1>0, <3>2, <3>3, <3>5, <4>2
      <4> QED BY <3>1, <4>1, <4>2
    <3> QED BY <3>6 DEF WindowsReached
  <2> QED BY <1>2, <2>1, <2>2 DEF Add
<1>3. CASE AdvanceOnIdle
  <2>1. watermark' \in Int /\ watermark <= watermark' /\ windows' = windows
    BY <1>0, <1>1, <1>3 DEF AdvanceOnIdle
  <2> QED BY <1>0, <2>1 DEF WindowsReached
<1>4. CASE Flush \/ FlushFails
  <2>1. DOMAIN windows' = Live /\ watermark' = watermark
    BY <1>4 DEF Flush, FlushFails
  <2> QED BY <2>1 DEF WindowsReached, Live
<1>5. CASE Restart
  BY <1>5 DEF Restart, WindowsReached
<1>6. CASE Purge \/ Tick \/ UNCHANGED vars
  BY <1>6 DEF Purge, Tick, vars, procVars, WindowsReached
<1> QED BY <1>2, <1>3, <1>4, <1>5, <1>6 DEF Next

LEMMA CheckpointStep == ASSUME RowInv, CheckpointIsBehind, [Next]_vars PROVE CheckpointIsBehind'
<1>0. /\ watermark \in Int /\ watermarkAt \in Int /\ AllowedLateness \in Nat /\ clock \in Nat
      /\ held \subseteq Events
  BY EventTimeAssumption DEF RowInv, SetsTyped
<1>1. ASSUME NEW t \in Nat PROVE watermark <= AdvanceWatermark(watermark, t)
                                /\ AdvanceWatermark(watermark, t) \in Int
  BY <1>0 DEF AdvanceWatermark
<1>2. ASSUME NEW e \in Events, Add(e), ~restarted' PROVE CheckpointIsBehind'
  <2>1. watermarkAt' = watermarkAt /\ restarted' = restarted
    BY <1>2 DEF Add, storeVars
  <2>2. watermarkAt <= watermark /\ \A d \in held \ late : watermarkAt <= TimeOf[d]
    BY <1>2, <2>1 DEF CheckpointIsBehind
  <2>3. CASE UNCHANGED <<watermark, held, late>>
    BY <2>1, <2>2, <2>3 DEF CheckpointIsBehind
  <2>4. CASE Accepted(Classify(TimeOf[e], watermark, clock))
    <3>1. /\ watermark' = AdvanceWatermark(watermark, TimeOf[e])
          /\ held' = held \cup {e}
          /\ late' = IF Classify(TimeOf[e], watermark, clock) = "late_accepted"
                     THEN late \cup {e} ELSE late \ {e}
      BY <1>2, <2>4 DEF Add
    <3>2. TimeOf[e] \in Nat
      BY TimesFacts
    <3>3. watermarkAt <= watermark'
      BY <1>0, <1>1, <2>2, <3>1, <3>2
    <3>4. e \notin late' => watermarkAt <= TimeOf[e]
      <4> SUFFICES ASSUME e \notin late' PROVE watermarkAt <= TimeOf[e]
        OBVIOUS
      <4>1. ~(TimeOf[e] < watermark)
        BY <2>4, <3>1 DEF Classify, Accepted
      <4> QED BY <1>0, <2>2, <3>2, <4>1
    <3>5. \A d \in held' \ late' : watermarkAt <= TimeOf[d]
      BY <2>2, <3>1, <3>4
    <3> QED BY <2>1, <3>3, <3>5 DEF CheckpointIsBehind
  <2> QED BY <1>2, <2>3, <2>4 DEF Add
<1>3. CASE AdvanceOnIdle
  <2>1. watermark' = AdvanceWatermark(watermark, clock)
        /\ UNCHANGED <<watermarkAt, held, late, restarted>>
    BY <1>3 DEF AdvanceOnIdle, storeVars
  <2>2. watermark <= watermark' /\ watermark' \in Int
    BY <1>0, <1>1, <2>1
  <2> QED BY <1>0, <2>1, <2>2 DEF CheckpointIsBehind
<1>4. CASE Flush
  BY <1>0, <1>4 DEF Flush, CheckpointIsBehind
<1>5. CASE FlushFails
  BY <1>5 DEF FlushFails, storeVars, CheckpointIsBehind
<1>6. CASE Restart
  BY <1>6 DEF Restart, CheckpointIsBehind
<1>7. CASE Purge \/ Tick \/ UNCHANGED vars
  BY <1>7 DEF Purge, Tick, vars, procVars, storeVars, CheckpointIsBehind
<1> QED BY <1>2, <1>3, <1>4, <1>5, <1>6, <1>7 DEF Next, CheckpointIsBehind

IInv == RowInv /\ WindowsReached /\ CheckpointIsBehind

\* The inductive invariant of the module: the sums, how far the live windows
\* reach, and the checkpoint (repository.py:276-285) behind the process.
THEOREM Invariance == Spec => []IInv
<1>1. Init => IInv
  <2> SUFFICES ASSUME Init PROVE WindowsReached /\ CheckpointIsBehind
    BY InitRowInv DEF IInv
  <2> QED BY EventTimeAssumption DEF Init, WindowsReached, CheckpointIsBehind
<1>2. IInv /\ [Next]_vars => IInv'
  BY RowInvStep, ReachedStep, CheckpointStep DEF IInv
<1> QED BY <1>1, <1>2, PTL DEF Spec
-----------------------------------------------------------------------------
LEMMA RowSaysFromTotals ==
    ASSUME NEW r, NEW S, S # {}, NEW p, Totals(r, S, late), DistinctIs(r.distinct, S, p)
    PROVE  RowSays(r, S, p)
BY DEF Totals, DistinctIs, RowSays, LateIn, Spans

\* Each row is what an aggregation of its events at once would give
\* (repository.py:35-93), after any number of failed flushes, restarts and
\* purges; after a purge of its members, all columns but the distinct users.
THEOREM RowsAreSums == Spec => []RowsAreTheSumOfTheirEvents
<1>1. RowInv => RowsAreTheSumOfTheirEvents
  <2> SUFFICES ASSUME RowInv, NEW k \in DOMAIN table
               PROVE  RowSays(table[k], CountedIn(k), k \in purged)
    BY DEF RowInv, RowsStand, RowsAreTheSumOfTheirEvents
  <2>1. CountedIn(k) # {}
    BY DEF RowInv, RowsStand, CountedIn
  <2> QED BY <2>1, RowSaysFromTotals DEF RowInv, RowsStand
<1> QED BY <1>1, Invariance, PTL DEF IInv

\* What has been accepted and is in no row is in the unflushed part of its
\* window, which is dirty exactly then (windowing.py:284-303).
THEOREM HeldInMemory == Spec => []HeldIsUnflushed
<1>1. RowInv => HeldIsUnflushed
  <2> SUFFICES ASSUME RowInv, NEW k \in DOMAIN windows
               PROVE  /\ windows[k].agg.events - windows[k].flushed.events = Cardinality(HeldIn(k))
                      /\ windows[k].dirty <=> HeldIn(k) # {}
    BY DEF HeldIsUnflushed, HeldIn
  <2>1. PICK F \in SUBSET CountedIn(k) : Adds(DeltaOf(k), F, HeldIn(k), late)
    BY WindowFacts
  <2>2. DeltaOf(k).events = windows[k].agg.events - windows[k].flushed.events
    BY DEF DeltaOf
  <2> QED BY <2>1, <2>2 DEF Adds, RowInv, WindowsStand
<1> QED BY <1>1, Invariance, PTL DEF IInv

\* The variables of the windows have their types, for any number of events.
THEOREM TypeCorrect == Spec => []TypeOK
<1>1. RowInv => TypeOK
  <2> SUFFICES ASSUME RowInv PROVE TypeOK
    OBVIOUS
  <2>1. \A k \in DOMAIN windows : windows[k] \in States
    BY DEF RowInv, WindowsStand
  <2>2. ASSUME NEW k \in DOMAIN table
        PROVE  /\ table[k].events \in Nat \ {0} /\ table[k].net \in Int
               /\ table[k].revision \in Nat \ {0}
    <3>1. CountedIn(k) # {}
      BY DEF RowInv, RowsStand, CountedIn
    <3>2. CountedIn(k) \in SUBSET Events /\ IsFiniteSet(CountedIn(k))
      BY InFacts DEF RowInv
    <3>3. Cardinality(CountedIn(k)) \in Nat \ {0}
      BY <3>1, <3>2, FS_EmptySet, FS_CardinalityType
    <3>4. /\ SumOver(OfType(CountedIn(k), "paid")) \in Nat
          /\ SumOver(OfType(CountedIn(k), "refunded")) \in Nat
      BY <3>2, PartsTyped
    <3>5. Totals(table[k], CountedIn(k), late) /\ table[k].revision \in Nat \ {0}
      BY DEF RowInv, RowsStand
    <3> QED BY <3>3, <3>4, <3>5 DEF Totals
  <2>3. DOMAIN table \subseteq Keys
    BY DEF RowInv, RowsStand, SetsTyped, Keys
  <2> QED BY <2>1, <2>2, <2>3 DEF RowInv, SetsTyped, WindowsStand, States, TypeOK, Users
<1> QED BY <1>1, Invariance, PTL DEF IInv

LEMMA Multiples ==
    ASSUME NEW W \in Nat \ {0}, NEW a \in Int, NEW b \in Int, W * a < W * b
    PROVE  a < b
<1> SUFFICES ASSUME b <= a PROVE FALSE
  OBVIOUS
<1>1. PICK n \in Nat : a = b + n
  <2>1. a - b \in Nat /\ a = b + (a - b)
    OBVIOUS
  <2> QED BY <2>1
<1>2. W * n \in Nat /\ W * a = W * b + W * n
  BY <1>1
<1> QED BY <1>2

\* For any window size and lateness, at most one live window per merchant more
\* than fit into the lateness (windowing.py:305-333): one per multiple of the
\* window size in an interval of that length.
THEOREM FewLiveWindows == Spec => []LiveWindowsAreFew
<1>1. IInv => LiveWindowsAreFew
  <2> DEFINE W == WindowSize
             q == (AllowedLateness + W - 1) \div W
  <2> SUFFICES ASSUME IInv, NEW m
               PROVE  Cardinality({k \in Live : k[2] = m}) <= q + 1
    BY DEF LiveWindowsAreFew
  <2> DEFINE Mine == {k \in Live : k[2] = m}
  <2>1. W \in Nat \ {0} /\ AllowedLateness \in Nat /\ watermark \in Int
    BY EventTimeAssumption DEF IInv, RowInv, SetsTyped
  <2>2. q \in Nat /\ AllowedLateness <= W * q
    <3>1. PICK n \in Nat : n = AllowedLateness + W - 1
      BY <2>1
    <3>2. n - (n % W) = W * (n \div W) /\ n \div W \in Nat
      BY StartFacts DEF WindowStartFor
    <3>0. n % W \in 0..(W - 1)
      BY <2>1
    <3>3. q = n \div W /\ W * q \in Nat
      BY <2>1, <3>1, <3>2
    <3> HIDE DEF q, W
    <3> QED BY <2>1, <3>0, <3>1, <3>2, <3>3
  <2>3. ASSUME NEW k \in Mine
        PROVE  /\ k = <<k[1], m>> /\ k[1] \in Nat
               /\ k[1] <= watermark + AllowedLateness
               /\ watermark < k[1] + W
               /\ \E j \in Nat : k[1] = W * j
    <3>1. k \in DOMAIN windows /\ k \notin Expired /\ k[2] = m /\ k \in Keys
      BY DEF Live, IInv, RowInv, WindowsStand
    <3>2. k = <<k[1], k[2]>> /\ k[1] \in Nat /\ \E j \in Nat : k[1] = W * j
      BY <3>1, KeyFacts
    <3>3. ~(k[1] + W <= watermark)
      BY <3>1 DEF Expired, IsWindowClosed
    <3>4. k[1] <= watermark + AllowedLateness
      BY <3>1 DEF IInv, WindowsReached
    <3> QED BY <2>1, <3>1, <3>2, <3>3, <3>4
  <2> HIDE DEF q, Mine, W
  <2> DEFINE J == {j \in Nat : \E k \in Mine : k[1] = W * j}
  <2>4. CASE Mine = {}
    <3>1. Cardinality(Mine) = 0
      BY <2>4, FS_EmptySet
    <3> QED BY <2>2, <3>1 DEF Mine
  <2>5. CASE Mine # {}
    <3>1. J \subseteq Nat /\ J # {}
      BY <2>3, <2>5
    <3> HIDE DEF J
    <3>2. PICK lo \in J : \A j \in J : lo <= j
      BY <3>1, LeastNat
    <3>3. ASSUME NEW j \in J PROVE j \in lo..(lo + q)
      <4>1. PICK k \in Mine, l \in Mine : k[1] = W * j /\ l[1] = W * lo
        BY <3>2 DEF J
      <4>2. j \in Nat /\ lo \in Nat /\ lo <= j
        BY <3>1, <3>2
      <4>3. W * j < W * lo + W + W * q
        <5>1. PICK x \in Nat, y \in Nat, z \in Nat : x = W * j /\ y = W * lo /\ z = W * q
          BY <2>1, <2>2, <4>2
        <5>2. x <= watermark + AllowedLateness /\ watermark < y + W /\ AllowedLateness <= z
          BY <2>2, <2>3, <4>1, <5>1
        <5>3. x < y + W + z
          BY <2>1, <5>2
        <5> QED BY <5>1, <5>3
      <4>4. W * lo + W + W * q = W * (lo + 1 + q)
        BY <2>1, <2>2, <4>2
      <4>5. j < lo + 1 + q
        BY <2>1, <2>2, <4>2, <4>3, <4>4, Multiples
      <4> QED BY <2>2, <4>2, <4>5
    <3> DEFINE f == [k \in Mine |-> CHOOSE j \in J : k[1] = W * j]
    <3>4. \A k \in Mine : f[k] \in J /\ k[1] = W * f[k]
      <4> TAKE k \in Mine
      <4>1. \E j \in J : k[1] = W * j
        BY <2>3 DEF J
      <4> QED BY <4>1
    <3>5. f \in Injection(Mine, lo..(lo + q))
      <4>1. f \in [Mine -> lo..(lo + q)]
        BY <3>3, <3>4
      <4>2. \A k, l \in Mine : f[k] = f[l] => k = l
        <5> SUFFICES ASSUME NEW k \in Mine, NEW l \in Mine, f[k] = f[l] PROVE k = l
          OBVIOUS
        <5>1. k[1] = l[1]
          BY <3>4
        <5> QED BY <2>3, <5>1
      <4> HIDE DEF f
      <4> QED BY <4>1, <4>2 DEF Injection, IsInjective
    <3> HIDE DEF f
    <3>6. lo \in Nat /\ IsFiniteSet(lo..(lo + q)) /\ Cardinality(lo..(lo + q)) = q + 1
      BY <2>2, <3>1, <3>2, FS_Interval
    <3>7. IsFiniteSet(Mine) /\ Cardinality(Mine) <= Cardinality(lo..(lo + q))
      BY <3>5, <3>6, FS_Injection
    <3> QED BY <3>6, <3>7 DEF Mine
  <2> QED BY <2>4, <2>5 DEF Mine, q, W
<1> QED BY <1>1, Invariance, PTL

\* Only a flush writes rows.
LEMMA TableSteps ==
    ASSUME [Next]_vars, counted' # counted \/ table' # table
    PROVE  Flush
<1> SUFFICES ASSUME ~Flush PROVE counted' = counted /\ table' = table
  OBVIOUS
<1>1. CASE UNCHANGED vars
  BY <1>1 DEF vars, storeVars
<1>2. ASSUME NEW e \in Events, Add(e) PROVE counted' = counted /\ table' = table
  BY <1>2 DEF Add, storeVars
<1> QED BY <1>1, <1>2 DEF Next, AdvanceOnIdle, FlushFails, Restart, Purge, Tick, storeVars

\* A row changes behind the watermark its reader knows only together with its
\* revision (repository.py:69-73), while no restart has set the watermark back.
THEOREM RestatementsShow == Spec => RestatementIsVisible
<1>1. ASSUME IInv, [Next]_vars, NEW e \in counted' \ counted, ~restarted,
             Key(e) \in DOMAIN table, TimeOf[e] < watermarkAt
      PROVE  table'[Key(e)].revision = table[Key(e)].revision + 1
  <2>1. Flush
    BY <1>1, TableSteps
  <2>2. e \in held /\ e \in Events
    BY <1>1, <2>1 DEF Flush, IInv, RowInv, SetsTyped
  <2>3. e \in late
    <3>1. TimeOf[e] \in Nat /\ watermarkAt \in Int
      BY <1>1, <2>2, TimesFacts DEF IInv, RowInv, SetsTyped
    <3>2. ~(watermarkAt <= TimeOf[e])
      BY <1>1, <3>1
    <3> QED BY <1>1, <2>2, <3>2 DEF IInv, CheckpointIsBehind
  <2>4. LateIn(HeldIn(Key(e)), late) # {}
    BY <2>2, <2>3 DEF LateIn, HeldIn
  <2>5. Key(e) \in Touched
    BY <1>1, <2>2, TouchedFacts DEF IInv
  <2>6. table'[Key(e)] = Written(Key(e))
    BY <2>1, <2>5 DEF Flush
  <2>7. Written(Key(e)).revision = table[Key(e)].revision + 1
    BY <1>1, <2>4, <2>5, FlushRow DEF IInv
  <2> QED BY <2>6, <2>7
<1>2. IInv /\ [Next]_vars =>
        [\A e \in counted' \ counted :
          /\ ~restarted
          /\ Key(e) \in DOMAIN table
          /\ TimeOf[e] < watermarkAt
          => table'[Key(e)].revision = table[Key(e)].revision + 1]_vars
  BY <1>1
<1> QED BY <1>2, Invariance, PTL DEF Spec, RestatementIsVisible

\* A revision moves only for an event that was late (repository.py:69-73):
\* filling a window is not restating it.
THEOREM RevisionsAreRestatements == Spec => FillingIsNotARestatement
<1>1. ASSUME IInv, [Next]_vars, NEW k \in DOMAIN table,
             table'[k].revision # table[k].revision
      PROVE  \E e \in counted' \ counted : Key(e) = k /\ e \in late
  <2>1. Flush
    BY <1>1, TableSteps
  <2>2. CASE k \notin Touched
    BY <1>1, <2>1, <2>2 DEF Flush, Written
  <2>3. CASE k \in Touched
    <3>1. table'[k] = Written(k) /\ counted' = counted \cup held
      BY <2>1, <2>3 DEF Flush
    <3>2. table[k].revision \in Nat
      BY <1>1 DEF IInv, RowInv, RowsStand
    <3>3. LateIn(HeldIn(k), late) # {}
      <4> SUFFICES ASSUME LateIn(HeldIn(k), late) = {} PROVE FALSE
        OBVIOUS
      <4>1. Written(k).revision = table[k].revision + 0
        BY <1>1, <2>3, FlushRow DEF IInv
      <4> QED BY <1>1, <3>1, <3>2, <4>1
    <3>4. held \cap counted = {}
      BY <1>1 DEF IInv, RowInv, SetsTyped
    <3> QED BY <3>1, <3>3, <3>4 DEF LateIn, HeldIn
  <2> QED BY <2>2, <2>3
<1>2. IInv /\ [Next]_vars =>
        [\A k \in DOMAIN table :
          table'[k].revision # table[k].revision =>
              \E e \in counted' \ counted : Key(e) = k /\ e \in late]_vars
  BY <1>1
<1> QED BY <1>2, Invariance, PTL DEF Spec, FillingIsNotARestatement
=============================================================================
