---------------------------- MODULE DedupProofs -----------------------------
(***************************************************************************)
(* The LruSet and filter_batch against their references, for any cache     *)
(* size, any batches and any history.                                      *)
(*                                                                         *)
(* Both are loops over a sequence. A loop is a fold whose rounds can be    *)
(* followed one by one (UpdateLoop, FilterRounds), and each has an         *)
(* invariant of its own: after every round the memory stands for the ids   *)
(* so far (LruStands), and the batch so far has been sorted into its four  *)
(* outcomes (Sorted).                                                      *)
(***************************************************************************)
EXTENDS Dedup, FoldLemmas, SequenceTheorems, TLAPS

(***************************************************************************)
(* Loops.                                                                  *)
(***************************************************************************)

\* The last element of 1..i, which a fold from the left takes out first.
LEMMA UptoFacts ==
    ASSUME NEW i \in Nat, i > 0
    PROVE  1..i # {} /\ Max(1..i) = i /\ (1..i) \ {i} = 1..(i - 1)
<1>1. i \in 1..i /\ \A y \in 1..i : i >= y
  OBVIOUS
<1>2. \A x \in 1..i : (\A y \in 1..i : x >= y) => x = i
  BY <1>1
<1> QED BY <1>1, <1>2 DEF Max

\* A bounded set of naturals has a greatest element.
LEMMA GreatestIn ==
    ASSUME NEW n \in Nat, NEW s \in SUBSET (1..n), s # {}
    PROVE  Max(s) \in s /\ \A y \in s : y <= Max(s)
<1> DEFINE T == {n - x : x \in s}
<1>1. T \subseteq Nat /\ T # {}
  <2>1. \A x \in s : n - x \in Nat
    OBVIOUS
  <2> QED BY <2>1
<1> HIDE DEF T
<1>2. PICK t \in T : \A u \in T : t <= u
  BY <1>1, LeastNat
<1>3. PICK x \in s : t = n - x
  BY <1>2 DEF T
<1>4. \A y \in s : x >= y
  <2> TAKE y \in s
  <2>1. n - y \in T
    BY DEF T
  <2>2. n - x <= n - y
    BY <1>2, <1>3, <2>1
  <2> QED BY <2>2
<1> QED BY <1>3, <1>4 DEF Max

\* f is a fold from the left over 1..n; step says what one round does.
IsLoop(f, n, base, step) ==
    f = [s \in SUBSET (1..n) |-> IF s = {} THEN base
                                 ELSE step[<<Max(s), f[s \ {Max(s)}]>>]]

\* It exists for any step that stays within X.
LEMMA LoopExists ==
    ASSUME NEW n \in Nat, NEW X, NEW base \in X, NEW step \in [(1..n) \X X -> X]
    PROVE  \E f \in [SUBSET (1..n) -> X] : IsLoop(f, n, base, step)
<1> DEFINE ch == [s \in SUBSET (1..n) |-> Max(s)]
<1>1. \A s \in SUBSET (1..n) : s # {} => ch[s] \in s
  BY GreatestIn
<1>2. IsFiniteSet(1..n)
  BY FS_Interval
<1> DEFINE D == 1..n
<1> HIDE DEF D, ch
<1>3. PICK f \in [SUBSET D -> X] : IsFold(f, D, base, ch, step)
  BY <1>1, <1>2, FoldExists DEF D
<1>4. \A s \in SUBSET D : ch[s] = Max(s)
  BY DEF ch, D
<1>5. f = [s \in SUBSET D |-> IF s = {} THEN base ELSE step[<<Max(s), f[s \ {Max(s)}]>>]]
  BY <1>3, <1>4 DEF IsFold
<1> QED BY <1>5 DEF D, IsLoop

-----------------------------------------------------------------------------
\* LruSet.update, id by id.
LEMMA UpdateLoop ==
    ASSUME NEW lru \in Seq(Ids), NEW ids \in Seq(Ids),
           \A l \in Seq(Ids) : \A id \in Ids : LruAdd(l, id) \in Seq(Ids)
    PROVE  \E h : /\ h[0] = lru
                  /\ \A i \in 1..Len(ids) : h[i] = LruAdd(h[i - 1], ids[i])
                  /\ LruUpdate(lru, ids) = h[Len(ids)]
<1> DEFINE n == Len(ids)
           X == Seq(Ids)
           step == [p \in (1..n) \X X |-> LruAdd(p[2], ids[p[1]])]
           IsIt(f) == f = [s \in SUBSET (1..n) |-> IF s = {} THEN lru
                                ELSE LruAdd(f[s \ {Max(s)}], ids[Max(s)])]
<1>1. n \in Nat /\ DOMAIN ids = 1..n /\ \A i \in 1..n : ids[i] \in Ids
  OBVIOUS
<1>2. step \in [(1..n) \X X -> X]
  BY <1>1
<1>3. \A i \in 1..n : \A l \in X : step[<<i, l>>] = LruAdd(l, ids[i])
  OBVIOUS
<1>4. lru \in X
  OBVIOUS
<1> HIDE DEF step, n, X
<1>5. PICK g \in [SUBSET (1..n) -> X] : IsLoop(g, n, lru, step)
  BY <1>1, <1>2, <1>4, LoopExists
<1>6. IsIt(g)
  <2>1. ASSUME NEW s \in SUBSET (1..n), s # {}
        PROVE  step[<<Max(s), g[s \ {Max(s)}]>>] = LruAdd(g[s \ {Max(s)}], ids[Max(s)])
    <3>1. Max(s) \in 1..n
      BY <1>1, <2>1, GreatestIn
    <3> QED BY <1>3, <1>5, <3>1
  <2> QED BY <1>5, <2>1 DEF IsLoop
<1>7. \E f : IsIt(f) /\ LruUpdate(lru, ids) = f[1..n]
  BY <1>1, <1>6 DEF LruUpdate, FoldLeft, MapThenFoldSet
<1>8. PICK f : IsIt(f) /\ LruUpdate(lru, ids) = f[1..n]
  BY <1>7
<1> DEFINE h == [i \in 0..n |-> f[1..i]]
<1>9. h[0] = lru /\ h[n] = LruUpdate(lru, ids)
  <2>1. 1..0 = {} /\ 0 \in 0..n /\ n \in 0..n
    BY <1>1
  <2>2. f[{}] = lru
    BY <1>8
  <2> QED BY <1>8, <2>1, <2>2
<1>10. ASSUME NEW i \in 1..n PROVE h[i] = LruAdd(h[i - 1], ids[i])
  <2>1. 1..i \in SUBSET (1..n) /\ i \in Nat /\ i > 0 /\ i \in 0..n /\ i - 1 \in 0..n
    BY <1>1
  <2>2. 1..i # {} /\ Max(1..i) = i /\ (1..i) \ {i} = 1..(i - 1)
    BY <2>1, UptoFacts
  <2>3. f[1..i] = LruAdd(f[1..(i - 1)], ids[i])
    BY <1>8, <2>1, <2>2
  <2> QED BY <2>1, <2>3
<1> HIDE DEF h
<1> QED BY <1>9, <1>10 DEF n
-----------------------------------------------------------------------------
(***************************************************************************)
(* What one addition does to the list.                                     *)
(***************************************************************************)

\* m is l with its p-th element dropped and id at the end.
Shifted(m, l, p, id) ==
    /\ m \in Seq(Ids) /\ Len(m) = Len(l)
    /\ \A j \in 1..Len(l) : m[j] = IF j < p THEN l[j]
                                  ELSE IF j < Len(l) THEN l[j + 1] ELSE id

\* OrderedDict.move_to_end.
LEMMA MovedFacts ==
    ASSUME NEW l \in Seq(Ids), NEW id \in Ids, Contains(l, id)
    PROVE  \E p \in 1..Len(l) : l[p] = id /\ Shifted(MovedToEnd(l, id), l, p, id)
<1> DEFINE p == CHOOSE i \in DOMAIN l : l[i] = id
           n == Len(l)
           s == SubSeq(l, 1, p - 1)
           t == SubSeq(l, p + 1, Len(l))
           m == MovedToEnd(l, id)
<1>1. p \in 1..n /\ l[p] = id /\ n \in Nat /\ \A j \in 1..n : l[j] \in Ids
  <2>1. \E i \in DOMAIN l : l[i] = id
    BY DEF Contains
  <2> QED BY <2>1
<1>2. m = Append(s \o t, id)
  BY DEF MovedToEnd, RemoveAt
<1> HIDE DEF p, m
<1>3. s \in Seq(Ids) /\ Len(s) = p - 1 /\ \A j \in 1..(p - 1) : s[j] = l[j]
  <2>1. \A j \in 1..(p - 1) : l[j] \in Ids
    BY <1>1
  <2> QED BY <1>1, <2>1, SubSeqProperties
<1>4. t \in Seq(Ids) /\ Len(t) = n - p /\ \A j \in 1..(n - p) : t[j] = l[p + j]
  <2>1. \A j \in (p + 1)..n : l[j] \in Ids
    BY <1>1
  <2> QED BY <1>1, <2>1, SubSeqProperties
<1> HIDE DEF s, t, n
<1>5. /\ s \o t \in Seq(Ids) /\ Len(s \o t) = n - 1
      /\ \A j \in 1..(n - 1) : (s \o t)[j] = IF j < p THEN l[j] ELSE l[j + 1]
  <2>1. s \o t \in Seq(Ids) /\ Len(s \o t) = n - 1
    <3>1. s \o t \in Seq(Ids) /\ Len(s \o t) = Len(s) + Len(t)
      BY <1>3, <1>4, ConcatProperties
    <3>2. Len(s) + Len(t) = n - 1
      BY <1>1, <1>3, <1>4
    <3> QED BY <3>1, <3>2
  <2>2. ASSUME NEW j \in 1..(n - 1) PROVE (s \o t)[j] = IF j < p THEN l[j] ELSE l[j + 1]
    <3>0. j \in Int /\ p \in Int
      BY <1>1
    <3>1. CASE j < p
      BY <1>1, <1>3, <1>4, <3>1, ConcatProperties
    <3>2. CASE j >= p
      <4>1. (s \o t)[j] = t[j - (p - 1)]
        BY <1>1, <1>3, <1>4, <3>2, ConcatProperties
      <4>2. j - (p - 1) \in 1..(n - p) /\ p + (j - (p - 1)) = j + 1
        BY <1>1, <3>2
      <4> QED BY <1>1, <1>4, <3>2, <4>1, <4>2
    <3>3. j < p \/ j >= p
      BY <3>0
    <3> QED BY <3>1, <3>2, <3>3
  <2> QED BY <2>1, <2>2
<1>6. /\ m \in Seq(Ids) /\ Len(m) = n /\ m[n] = id
      /\ \A j \in 1..(n - 1) : m[j] = (s \o t)[j]
  BY <1>1, <1>2, <1>5, AppendProperties
<1>7. Shifted(m, l, p, id)
  <2>1. m \in Seq(Ids) /\ Len(m) = Len(l)
    BY <1>6 DEF n
  <2>2. ASSUME NEW j \in 1..n
        PROVE  m[j] = IF j < p THEN l[j] ELSE IF j < n THEN l[j + 1] ELSE id
    <3>1. CASE j = n
      BY <1>1, <1>6, <3>1
    <3>2. CASE j # n
      <4>1. j \in 1..(n - 1) /\ j < n
        BY <1>1, <3>2
      <4> QED BY <1>5, <1>6, <4>1
    <3> QED BY <3>1, <3>2
  <2> QED BY <2>1, <2>2 DEF Shifted, n
<1> QED BY <1>1, <1>7 DEF n, m

\* popitem(last=False) after the assignment.
LEMMA EvictedFacts ==
    ASSUME NEW l \in Seq(Ids), NEW id \in Ids, l # <<>>
    PROVE  1 \in 1..Len(l) /\ Shifted(Append(Tail(l), id), l, 1, id)
<1> DEFINE n == Len(l)
           m == Append(Tail(l), id)
<1>1. n \in Nat /\ n > 0
  BY EmptySeq
<1>2. /\ Tail(l) \in Seq(Ids) /\ Len(Tail(l)) = n - 1
      /\ \A j \in 1..(n - 1) : Tail(l)[j] = l[j + 1]
  BY HeadTailProperties
<1>3. m \in Seq(Ids) /\ Len(m) = Len(Tail(l)) + 1 /\ m[Len(Tail(l)) + 1] = id
      /\ \A j \in 1..Len(Tail(l)) : m[j] = Tail(l)[j]
  BY <1>2, AppendProperties
<1> HIDE DEF n, m
<1>4. Len(m) = n /\ m[n] = id /\ \A j \in 1..(n - 1) : m[j] = l[j + 1]
  BY <1>1, <1>2, <1>3
<1>5. \A j \in 1..n : m[j] = IF j < 1 THEN l[j] ELSE IF j < n THEN l[j + 1] ELSE id
  BY <1>1, <1>4
<1>6. 1 \in 1..n /\ Shifted(m, l, 1, id)
  BY <1>1, <1>3, <1>4, <1>5 DEF Shifted, n
<1> QED BY <1>6 DEF n, m

\* LruSet.add: an id takes the last place, and another leaves its own unless
\* there is room.
LEMMA AddFacts ==
    ASSUME NEW l \in Seq(Ids), NEW id \in Ids
    PROVE  /\ LruAdd(l, id) \in Seq(Ids)
           /\ \/ \E p \in 1..Len(l) :
                    /\ Shifted(LruAdd(l, id), l, p, id)
                    /\ \/ l[p] = id
                       \/ p = 1 /\ ~Contains(l, id) /\ Len(l) >= CacheSize
              \/ /\ ~Contains(l, id) /\ Len(l) < CacheSize
                 /\ LruAdd(l, id) = Append(l, id)
<1>1. CASE Contains(l, id)
  <2>1. LruAdd(l, id) = MovedToEnd(l, id)
    BY <1>1 DEF LruAdd
  <2>2. PICK p \in 1..Len(l) : l[p] = id /\ Shifted(LruAdd(l, id), l, p, id)
    BY <1>1, <2>1, MovedFacts
  <2> QED BY <2>2 DEF Shifted
<1>2. CASE ~Contains(l, id) /\ Len(l) < CacheSize
  BY <1>2, AppendProperties DEF LruAdd
<1>3. CASE ~Contains(l, id) /\ ~(Len(l) < CacheSize)
  <2>1. Len(l) \in Nat /\ Len(l) >= CacheSize /\ l # <<>>
    BY <1>3, DedupMemoryAssumption
  <2>2. LruAdd(l, id) = Append(Tail(l), id)
    BY <1>3 DEF LruAdd
  <2>3. 1 \in 1..Len(l) /\ Shifted(LruAdd(l, id), l, 1, id)
    BY <2>1, <2>2, EvictedFacts
  <2> QED BY <1>3, <2>1, <2>3 DEF Shifted
<1> QED BY <1>1, <1>2, <1>3

\* LruSet.update is its rounds.
LEMMA UpdateRounds ==
    ASSUME NEW lru \in Seq(Ids), NEW ids \in Seq(Ids)
    PROVE  \E h : /\ h[0] = lru
                  /\ \A i \in 1..Len(ids) : h[i] = LruAdd(h[i - 1], ids[i])
                  /\ LruUpdate(lru, ids) = h[Len(ids)]
BY AddFacts, UpdateLoop
-----------------------------------------------------------------------------
(***************************************************************************)
(* The memory stands for the ids it was given.                             *)
(***************************************************************************)

\* The place of id's last occurrence in C.
LastIn(C, id) == CHOOSE i \in DOMAIN C :
                    /\ C[i] = id
                    /\ \A j \in DOMAIN C : C[j] = id => j <= i

\* l is the memory after the ids of C: the last added ones in the order of
\* their last additions, and as many as fit.
LruStands(l, C) ==
    /\ l \in Seq(Ids) /\ Len(l) <= CacheSize
    /\ ToSet(l) \subseteq ToSet(C)
    /\ \A i, j \in DOMAIN l : i < j => LastIn(C, l[i]) < LastIn(C, l[j])
    /\ \A x \in ToSet(C) \ ToSet(l) : \A i \in DOMAIN l : LastIn(C, x) < LastIn(C, l[i])
    /\ Len(l) = CacheSize \/ ToSet(l) = ToSet(C)

LEMMA LastFacts ==
    ASSUME NEW C \in Seq(Ids), NEW id \in ToSet(C)
    PROVE  /\ LastIn(C, id) \in DOMAIN C /\ C[LastIn(C, id)] = id
           /\ \A j \in DOMAIN C : C[j] = id => j <= LastIn(C, id)
<1> DEFINE s == {j \in 1..Len(C) : C[j] = id}
<1>1. s # {} /\ s \in SUBSET (1..Len(C)) /\ Len(C) \in Nat /\ DOMAIN C = 1..Len(C)
  BY DEF ToSet
<1>2. PICK m \in s : \A y \in s : y <= m
  <2> HIDE DEF s
  <2> QED BY <1>1, GreatestIn
<1>3. \E i \in DOMAIN C : C[i] = id /\ \A j \in DOMAIN C : C[j] = id => j <= i
  BY <1>1, <1>2
<1> QED BY <1>3 DEF LastIn

LEMMA LastIs ==
    ASSUME NEW C \in Seq(Ids), NEW i \in DOMAIN C, \A j \in DOMAIN C : C[j] = C[i] => j <= i
    PROVE  LastIn(C, C[i]) = i
<1>1. C[i] \in ToSet(C)
  BY DEF ToSet
<1>2. /\ LastIn(C, C[i]) \in DOMAIN C /\ i <= LastIn(C, C[i])
      /\ LastIn(C, C[i]) <= i
  BY <1>1, LastFacts
<1>3. DOMAIN C = 1..Len(C) /\ Len(C) \in Nat
  OBVIOUS
<1>4. LastIn(C, C[i]) \in Nat /\ i \in Nat
  BY <1>2, <1>3
<1> QED BY <1>2, <1>4

\* An id that is added becomes the last, and the others stay where they were.
LEMMA LastAppend ==
    ASSUME NEW C \in Seq(Ids), NEW id \in Ids
    PROVE  /\ Append(C, id) \in Seq(Ids)
           /\ ToSet(Append(C, id)) = ToSet(C) \cup {id}
           /\ LastIn(Append(C, id), id) = Len(C) + 1
           /\ \A y \in ToSet(C) : /\ LastIn(C, y) \in 1..Len(C)
                                  /\ y # id => LastIn(Append(C, id), y) = LastIn(C, y)
<1> DEFINE D == Append(C, id)
           n == Len(C)
<1>1. /\ D \in Seq(Ids) /\ Len(D) = n + 1 /\ D[n + 1] = id /\ \A j \in 1..n : D[j] = C[j]
  BY AppendProperties
<1>2. n \in Nat /\ DOMAIN C = 1..n
  OBVIOUS
<1> HIDE DEF D, n
<1>3. DOMAIN D = 1..(n + 1)
  BY <1>1
<1>4. ToSet(D) = ToSet(C) \cup {id}
  <2>1. ASSUME NEW y \in ToSet(D) PROVE y \in ToSet(C) \cup {id}
    <3>1. PICK j \in 1..(n + 1) : y = D[j]
      BY <1>3 DEF ToSet
    <3>2. CASE j = n + 1
      BY <1>1, <3>1, <3>2
    <3>3. CASE j # n + 1
      <4>1. j \in 1..n
        BY <1>2, <3>3
      <4> QED BY <1>1, <1>2, <3>1, <4>1 DEF ToSet
    <3> QED BY <3>2, <3>3
  <2>2. n + 1 \in DOMAIN D /\ \A j \in 1..n : j \in DOMAIN D
    BY <1>2, <1>3
  <2>3. ToSet(C) \cup {id} \subseteq ToSet(D)
    BY <1>1, <1>2, <2>2 DEF ToSet
  <2> QED BY <2>1, <2>3
<1>5. LastIn(D, id) = n + 1
  <2>1. n + 1 \in DOMAIN D /\ \A j \in DOMAIN D : j <= n + 1
    BY <1>2, <1>3
  <2> QED BY <1>1, <2>1, LastIs
<1>6. ASSUME NEW y \in ToSet(C)
      PROVE  LastIn(C, y) \in 1..n /\ (y # id => LastIn(D, y) = LastIn(C, y))
  <2>1. LastIn(C, y) \in 1..n /\ C[LastIn(C, y)] = y
        /\ \A j \in 1..n : C[j] = y => j <= LastIn(C, y)
    BY <1>2, LastFacts
  <2>2. ASSUME y # id PROVE LastIn(D, y) = LastIn(C, y)
    <3>1. PICK i \in 1..n : i = LastIn(C, y)
      BY <2>1
    <3>2. i \in DOMAIN D /\ D[i] = y
      BY <1>1, <1>2, <1>3, <2>1, <3>1
    <3>3. ASSUME NEW j \in DOMAIN D, D[j] = y PROVE j <= i
      <4>1. j # n + 1
        BY <1>1, <2>2, <3>3
      <4>2. j \in 1..n
        BY <1>2, <1>3, <4>1
      <4> QED BY <1>1, <2>1, <3>1, <3>3, <4>2
    <3> QED BY <1>1, <3>1, <3>2, <3>3, LastIs
  <2> QED BY <2>1, <2>2
<1> QED BY <1>1, <1>4, <1>5, <1>6 DEF D, n

\* An id that moves to the end, or takes the place of the oldest.
LEMMA ShiftStands ==
    ASSUME NEW C \in Seq(Ids), NEW l, NEW id \in Ids, LruStands(l, C),
           NEW m, NEW p \in 1..Len(l), Shifted(m, l, p, id),
           l[p] = id \/ (p = 1 /\ ~Contains(l, id) /\ Len(l) >= CacheSize)
    PROVE  LruStands(m, Append(C, id)) /\ ToSet(m) \subseteq ToSet(l) \cup {id}
<1> DEFINE D == Append(C, id)
           n == Len(l)
           src(j) == IF j < p THEN j ELSE j + 1
<1>1. /\ l \in Seq(Ids) /\ n \in Nat /\ DOMAIN l = 1..n /\ n <= CacheSize /\ p \in 1..n
      /\ CacheSize \in Nat /\ Len(C) \in Nat /\ (l[p] = id \/ n >= CacheSize)
  BY DedupMemoryAssumption DEF LruStands
<1>2. /\ \A i, j \in 1..n : i < j => LastIn(C, l[i]) < LastIn(C, l[j])
      /\ \A x \in ToSet(C) \ ToSet(l) : \A i \in 1..n : LastIn(C, x) < LastIn(C, l[i])
      /\ n = CacheSize \/ ToSet(l) = ToSet(C)
  BY <1>1 DEF LruStands
<1>3. /\ D \in Seq(Ids) /\ ToSet(D) = ToSet(C) \cup {id}
      /\ LastIn(D, id) = Len(C) + 1
      /\ \A y \in ToSet(C) : /\ LastIn(C, y) \in 1..Len(C)
                             /\ y # id => LastIn(D, y) = LastIn(C, y)
  BY LastAppend
<1>4. \A i \in 1..n : l[i] \in ToSet(l) /\ l[i] \in ToSet(C) /\ LastIn(C, l[i]) \in 1..Len(C)
  <2>1. \A i \in 1..n : l[i] \in ToSet(l)
    BY <1>1 DEF ToSet
  <2> QED BY <1>3, <2>1 DEF LruStands
<1>5. /\ m \in Seq(Ids) /\ Len(m) = n /\ DOMAIN m = 1..n /\ m[n] = id
      /\ \A j \in 1..(n - 1) : src(j) \in 1..n /\ src(j) # p /\ m[j] = l[src(j)]
  BY <1>1 DEF Shifted
<1>6. \A i, j \in 1..(n - 1) : i < j => src(i) < src(j)
  BY <1>1
<1>7. (p = 1 /\ l[p] # id) => \A j \in 1..(n - 1) : 1 < src(j)
  BY <1>1
<1> HIDE DEF D, n, src
<1>8. \A i \in 1..n : i # p => l[i] # id
  <2> TAKE i \in 1..n
  <2> HAVE i # p
  <2>1. CASE l[p] = id
    <3>1. i < p \/ p < i
      BY <1>1
    <3>2. LastIn(C, l[i]) # LastIn(C, l[p])
      BY <1>1, <1>2, <1>4, <3>1
    <3> QED BY <2>1, <3>2
  <2>2. CASE ~Contains(l, id)
    BY <2>2 DEF Contains, n
  <2> QED BY <2>1, <2>2
<1>9. ASSUME NEW j \in 1..(n - 1)
      PROVE  /\ m[j] # id /\ m[j] \in ToSet(C) /\ m[j] \in ToSet(l)
             /\ LastIn(D, m[j]) = LastIn(C, l[src(j)])
             /\ LastIn(D, m[j]) \in 1..Len(C)
  BY <1>3, <1>4, <1>5, <1>8
<1>10. ToSet(m) \subseteq ToSet(l) \cup {id}
  <2>1. ASSUME NEW j \in 1..n PROVE m[j] \in ToSet(l) \cup {id}
    <3>1. CASE j = n
      BY <1>5, <3>1
    <3>2. CASE j # n
      <4>1. j \in 1..(n - 1)
        BY <1>1, <3>2
      <4> QED BY <1>9, <4>1
    <3> QED BY <3>1, <3>2
  <2> QED BY <1>5, <2>1 DEF ToSet
<1>11. \A i \in 1..n : i # p => l[i] \in ToSet(m)
  <2> TAKE i \in 1..n
  <2> HAVE i # p
  <2>1. PICK j \in 1..(n - 1) : src(j) = i
    <3>1. CASE i < p
      BY <1>1, <3>1 DEF src
    <3>2. CASE p < i
      <4>1. i - 1 \in 1..(n - 1) /\ ~(i - 1 < p) /\ (i - 1) + 1 = i
        BY <1>1, <3>2
      <4> QED BY <4>1 DEF src
    <3> QED BY <1>1, <3>1, <3>2
  <2>2. j \in DOMAIN m /\ m[j] = l[i]
    BY <1>1, <1>5, <2>1
  <2> QED BY <2>2 DEF ToSet
<1>12. id \in ToSet(m)
  BY <1>1, <1>5 DEF ToSet
<1>13. ToSet(m) \subseteq ToSet(D)
  BY <1>3, <1>10 DEF LruStands
<1>14. ASSUME NEW i \in 1..n, NEW j \in 1..n, i < j
       PROVE  LastIn(D, m[i]) < LastIn(D, m[j])
  <2>1. i \in 1..(n - 1)
    BY <1>1, <1>14
  <2>2. CASE j = n
    BY <1>1, <1>3, <1>5, <1>9, <2>1, <2>2
  <2>3. CASE j # n
    <3>1. j \in 1..(n - 1)
      BY <1>1, <2>3
    <3>2. src(i) < src(j)
      BY <1>6, <1>14, <2>1, <3>1
    <3> QED BY <1>2, <1>5, <1>9, <2>1, <3>1, <3>2
  <2> QED BY <2>2, <2>3
<1>15. ASSUME NEW x \in ToSet(D) \ ToSet(m), NEW i \in 1..n
       PROVE  LastIn(D, x) < LastIn(D, m[i])
  <2>1. x # id /\ x \in ToSet(C) /\ LastIn(D, x) = LastIn(C, x) /\ LastIn(C, x) \in 1..Len(C)
    BY <1>3, <1>12
  <2>2. CASE i = n
    BY <1>1, <1>3, <1>5, <2>1, <2>2
  <2>3. CASE i # n
    <3>1. i \in 1..(n - 1)
      BY <1>1, <2>3
    <3>2. CASE x \notin ToSet(l)
      BY <1>2, <1>5, <1>9, <2>1, <3>1, <3>2
    <3>3. CASE x \in ToSet(l)
      <4>1. PICK k \in 1..n : x = l[k]
        BY <1>1, <3>3 DEF ToSet
      <4>2. k = p
        BY <1>11, <4>1
      <4>3. p = 1 /\ l[p] # id
        BY <2>1, <4>1, <4>2
      <4>4. 1 < src(i) /\ src(i) \in 1..n /\ 1 \in 1..n
        BY <1>5, <1>7, <3>1, <4>3
      <4>5. LastIn(C, l[1]) < LastIn(C, l[src(i)])
        BY <1>2, <4>4
      <4> QED BY <1>9, <2>1, <3>1, <4>1, <4>2, <4>3, <4>5
    <3> QED BY <3>2, <3>3
  <2> QED BY <2>2, <2>3
<1>16. n = CacheSize \/ ToSet(m) = ToSet(D)
  <2> SUFFICES ASSUME n # CacheSize PROVE ToSet(m) = ToSet(D)
    OBVIOUS
  <2>1. ToSet(l) = ToSet(C) /\ l[p] = id
    BY <1>1, <1>2
  <2>2. ToSet(l) \subseteq ToSet(m)
    <3>1. ASSUME NEW y \in ToSet(l) PROVE y \in ToSet(m)
      <4>1. PICK i \in 1..n : y = l[i]
        BY <1>1 DEF ToSet
      <4> QED BY <1>11, <1>12, <2>1, <4>1
    <3> QED BY <3>1
  <2> QED BY <1>3, <1>12, <1>13, <2>1, <2>2
<1>17. LruStands(m, D)
  BY <1>1, <1>5, <1>13, <1>14, <1>15, <1>16 DEF LruStands
<1> QED BY <1>10, <1>17 DEF D

\* A new id where there is room.
LEMMA AppendStands ==
    ASSUME NEW C \in Seq(Ids), NEW l, NEW id \in Ids, LruStands(l, C),
           ~Contains(l, id), Len(l) < CacheSize
    PROVE  LruStands(Append(l, id), Append(C, id)) /\ ToSet(Append(l, id)) \subseteq ToSet(l) \cup {id}
<1> DEFINE D == Append(C, id)
           m == Append(l, id)
           n == Len(l)
<1>1. /\ l \in Seq(Ids) /\ n \in Nat /\ DOMAIN l = 1..n /\ n < CacheSize
      /\ CacheSize \in Nat /\ Len(C) \in Nat
  BY DedupMemoryAssumption DEF LruStands
<1>2. /\ \A i, j \in 1..n : i < j => LastIn(C, l[i]) < LastIn(C, l[j])
      /\ ToSet(l) = ToSet(C)
  <2>1. \A i, j \in DOMAIN l : i < j => LastIn(C, l[i]) < LastIn(C, l[j])
    BY DEF LruStands
  <2>2. n = CacheSize \/ ToSet(l) = ToSet(C)
    BY DEF LruStands
  <2> HIDE DEF n
  <2> QED BY <1>1, <2>1, <2>2
<1>3. /\ D \in Seq(Ids) /\ ToSet(D) = ToSet(C) \cup {id}
      /\ LastIn(D, id) = Len(C) + 1
      /\ \A y \in ToSet(C) : /\ LastIn(C, y) \in 1..Len(C)
                             /\ y # id => LastIn(D, y) = LastIn(C, y)
  BY LastAppend
<1>4. m \in Seq(Ids) /\ ToSet(m) = ToSet(l) \cup {id}
  BY <1>1, LastAppend
<1>5. Len(m) = n + 1 /\ m[n + 1] = id /\ \A j \in 1..n : m[j] = l[j]
  BY <1>1, AppendProperties
<1> HIDE DEF D, m
<1>6. \A j \in 1..n : l[j] # id /\ l[j] \in ToSet(C)
  BY <1>1, <1>2 DEF Contains, ToSet
<1> HIDE DEF n
<1>7. \A j \in 1..n : LastIn(D, m[j]) = LastIn(C, l[j]) /\ LastIn(D, m[j]) \in 1..Len(C)
  BY <1>3, <1>5, <1>6
<1>8. ASSUME NEW i \in 1..(n + 1), NEW j \in 1..(n + 1), i < j
      PROVE  LastIn(D, m[i]) < LastIn(D, m[j])
  <2>1. i \in 1..n
    BY <1>1, <1>8
  <2>2. CASE j = n + 1
    BY <1>1, <1>3, <1>5, <1>7, <2>1, <2>2
  <2>3. CASE j # n + 1
    <3>1. j \in 1..n
      BY <1>1, <2>3
    <3> QED BY <1>2, <1>7, <1>8, <2>1, <3>1
  <2> QED BY <2>2, <2>3
<1>9. n + 1 <= CacheSize /\ DOMAIN m = 1..(n + 1)
  BY <1>1, <1>4, <1>5
<1>10. LruStands(m, D)
  BY <1>2, <1>3, <1>4, <1>5, <1>8, <1>9 DEF LruStands
<1> QED BY <1>4, <1>10 DEF D, m

\* LruSet.add keeps the order of last additions.
\* Either way the memory stands for one id more.
LEMMA AddStands ==
    ASSUME NEW C \in Seq(Ids), NEW l, NEW id \in Ids, LruStands(l, C)
    PROVE  /\ LruStands(LruAdd(l, id), Append(C, id))
           /\ ToSet(LruAdd(l, id)) \subseteq ToSet(l) \cup {id}
<1>1. l \in Seq(Ids)
  BY DEF LruStands
<1>2. CASE \E p \in 1..Len(l) :
              /\ Shifted(LruAdd(l, id), l, p, id)
              /\ l[p] = id \/ (p = 1 /\ ~Contains(l, id) /\ Len(l) >= CacheSize)
  BY <1>2, ShiftStands
<1>3. CASE ~Contains(l, id) /\ Len(l) < CacheSize /\ LruAdd(l, id) = Append(l, id)
  BY <1>3, AppendStands
<1> QED BY <1>1, <1>2, <1>3, AddFacts

LEMMA ConcatAppend ==
    ASSUME NEW C \in Seq(Ids), NEW s \in Seq(Ids), NEW x \in Ids
    PROVE  C \o Append(s, x) = Append(C \o s, x)
<1>1. <<x>> \in Seq(Ids) /\ C \o s \in Seq(Ids)
  BY ConcatProperties
<1>2. Append(s, x) = s \o <<x>> /\ Append(C \o s, x) = (C \o s) \o <<x>>
  BY <1>1, AppendIsConcat
<1>3. C \o (s \o <<x>>) = (C \o s) \o <<x>>
  BY <1>1, ConcatAssociative
<1> QED BY <1>2, <1>3

\* And so does LruSet.update, for ids committed in order.
\* And for all of them after the loop.
LEMMA UpdateStands ==
    ASSUME NEW C \in Seq(Ids), NEW l, NEW ids \in Seq(Ids), LruStands(l, C)
    PROVE  /\ LruStands(LruUpdate(l, ids), C \o ids)
           /\ ToSet(LruUpdate(l, ids)) \subseteq ToSet(l) \cup ToSet(ids)
<1> DEFINE n == Len(ids)
           pre(i) == SubSeq(ids, 1, i)
<1>1. l \in Seq(Ids) /\ n \in Nat /\ DOMAIN ids = 1..n /\ \A i \in 1..n : ids[i] \in Ids
  BY DEF LruStands
<1>2. PICK h : /\ h[0] = l
               /\ \A i \in 1..n : h[i] = LruAdd(h[i - 1], ids[i])
               /\ LruUpdate(l, ids) = h[n]
  BY <1>1, UpdateRounds
<1> DEFINE P == {i \in Nat : i <= n => /\ LruStands(h[i], C \o pre(i))
                                       /\ ToSet(h[i]) \subseteq ToSet(l) \cup ToSet(ids)}
<1>3. \A i \in 0..n : pre(i) \in Seq(Ids) /\ C \o pre(i) \in Seq(Ids)
  <2> TAKE i \in 0..n
  <2>1. pre(i) \in Seq(Ids)
    BY <1>1, SubSeqProperties
  <2> QED BY <2>1, ConcatProperties
<1>4. 0 \in P
  <2>1. pre(0) = <<>>
    BY <1>1, SubSeqEmpty
  <2>2. C \o <<>> = C
    BY ConcatEmptySeq
  <2> HIDE DEF pre
  <2> QED BY <1>2, <2>1, <2>2
<1>5. ASSUME NEW i \in Nat, i \in P PROVE i + 1 \in P
  <2> SUFFICES ASSUME i + 1 <= n
               PROVE  /\ LruStands(h[i + 1], C \o pre(i + 1))
                      /\ ToSet(h[i + 1]) \subseteq ToSet(l) \cup ToSet(ids)
    OBVIOUS
  <2>1. LruStands(h[i], C \o pre(i)) /\ ToSet(h[i]) \subseteq ToSet(l) \cup ToSet(ids)
    BY <1>1, <1>5
  <2>2. i + 1 \in 1..n /\ i \in 0..n /\ h[i + 1] = LruAdd(h[i], ids[i + 1]) /\ ids[i + 1] \in Ids
    BY <1>1, <1>2
  <2>3. pre(i + 1) = Append(pre(i), ids[i + 1])
    BY <1>1, <2>2, SubSeqRecursiveSecond
  <2>4. pre(i) \in Seq(Ids) /\ C \o pre(i) \in Seq(Ids)
    BY <1>3, <2>2
  <2> HIDE DEF pre, P
  <2>5. C \o pre(i + 1) = Append(C \o pre(i), ids[i + 1])
    <3>1. PICK s \in Seq(Ids), x \in Ids : s = pre(i) /\ x = ids[i + 1]
      BY <2>2, <2>4
    <3>2. C \o Append(s, x) = Append(C \o s, x)
      BY ConcatAppend
    <3> QED BY <2>3, <3>1, <3>2
  <2>6. /\ LruStands(h[i + 1], Append(C \o pre(i), ids[i + 1]))
        /\ ToSet(h[i + 1]) \subseteq ToSet(h[i]) \cup {ids[i + 1]}
    <3>1. PICK E \in Seq(Ids), x \in Ids : E = C \o pre(i) /\ x = ids[i + 1]
      BY <2>2, <2>4
    <3>2. LruStands(h[i], E)
      BY <2>1, <3>1
    <3>3. LruStands(LruAdd(h[i], x), Append(E, x)) /\ ToSet(LruAdd(h[i], x)) \subseteq ToSet(h[i]) \cup {x}
      BY <3>2, AddStands
    <3> QED BY <2>2, <3>1, <3>3
  <2>7. ids[i + 1] \in ToSet(ids)
    BY <1>1, <2>2 DEF ToSet
  <2> QED BY <2>1, <2>5, <2>6, <2>7
<1> HIDE DEF P
<1>6. n \in P
  BY <1>1, <1>4, <1>5, NatSetInduction
<1>7. pre(n) = ids
  BY <1>1, SubSeqFull
<1>8. LruStands(h[n], C \o pre(n)) /\ ToSet(h[n]) \subseteq ToSet(l) \cup ToSet(ids)
  BY <1>1, <1>6 DEF P
<1> HIDE DEF pre, n
<1> QED BY <1>2, <1>7, <1>8
-----------------------------------------------------------------------------
(***************************************************************************)
(* filter_batch, one event at a time.                                      *)
(***************************************************************************)

\* What filter_batch returns.
Filtered == [new : Seq(Ids), inBatch : Nat, inMemory : Nat, inLedger : Nat]

NoneYet == [new |-> <<>>, inBatch |-> 0, inMemory |-> 0, inLedger |-> 0]

LEMMA FilterStepFacts ==
    ASSUME NEW a \in Filtered, NEW id \in Ids
    PROVE  LET b == FilterStep(a, id)
           IN  /\ b \in Filtered
               /\ IF Contains(a.new, id)
                  THEN b.inBatch = a.inBatch + 1 /\ b.new = a.new
                       /\ b.inMemory = a.inMemory /\ b.inLedger = a.inLedger
                  ELSE IF Contains(items, id)
                  THEN b.inBatch = a.inBatch /\ b.new = a.new
                       /\ b.inMemory = a.inMemory + 1 /\ b.inLedger = a.inLedger
                  ELSE IF id \in ledger
                  THEN b.inBatch = a.inBatch /\ b.new = a.new
                       /\ b.inMemory = a.inMemory /\ b.inLedger = a.inLedger + 1
                  ELSE b.inBatch = a.inBatch /\ b.new = Append(a.new, id)
                       /\ b.inMemory = a.inMemory /\ b.inLedger = a.inLedger
<1>1. a.new \in Seq(Ids) /\ a.inBatch \in Nat /\ a.inMemory \in Nat /\ a.inLedger \in Nat
  BY DEF Filtered
<1>2. Append(a.new, id) \in Seq(Ids)
  BY <1>1, AppendProperties
<1>3. CASE Contains(a.new, id)
  <2>1. FilterStep(a, id) = [a EXCEPT !.inBatch = a.inBatch + 1]
    BY <1>3 DEF FilterStep
  <2> QED BY <1>1, <1>3, <2>1 DEF Filtered
<1>4. CASE ~Contains(a.new, id) /\ Contains(items, id)
  <2>1. FilterStep(a, id) = [a EXCEPT !.inMemory = a.inMemory + 1]
    BY <1>4 DEF FilterStep
  <2> QED BY <1>1, <1>4, <2>1 DEF Filtered
<1>5. CASE ~Contains(a.new, id) /\ ~Contains(items, id) /\ id \in ledger
  <2>1. FilterStep(a, id) = [a EXCEPT !.inLedger = a.inLedger + 1]
    BY <1>5 DEF FilterStep
  <2> QED BY <1>1, <1>5, <2>1 DEF Filtered
<1>6. CASE ~Contains(a.new, id) /\ ~Contains(items, id) /\ id \notin ledger
  <2>1. FilterStep(a, id) = [a EXCEPT !.new = Append(a.new, id)]
    BY <1>6 DEF FilterStep
  <2> QED BY <1>1, <1>2, <1>6, <2>1 DEF Filtered
<1> QED BY <1>3, <1>4, <1>5, <1>6

\* filter_batch, event by event.
LEMMA FilterRounds ==
    ASSUME NEW batch \in Seq(Ids)
    PROVE  \E h : /\ h[0] = NoneYet
                  /\ \A i \in 1..Len(batch) : h[i] = FilterStep(h[i - 1], batch[i])
                  /\ FilterBatch(batch) = h[Len(batch)]
<1> DEFINE n == Len(batch)
           X == Filtered
           step == [p \in (1..n) \X X |-> FilterStep(p[2], batch[p[1]])]
           IsIt(f) == f = [s \in SUBSET (1..n) |-> IF s = {} THEN NoneYet
                                ELSE FilterStep(f[s \ {Max(s)}], batch[Max(s)])]
<1>1. n \in Nat /\ DOMAIN batch = 1..n /\ \A i \in 1..n : batch[i] \in Ids
  OBVIOUS
<1>2. step \in [(1..n) \X X -> X]
  <2>1. ASSUME NEW i \in 1..n, NEW a \in X PROVE FilterStep(a, batch[i]) \in X
    BY <1>1, FilterStepFacts
  <2> HIDE DEF X
  <2> QED BY <2>1
<1>3. \A i \in 1..n : \A l \in X : step[<<i, l>>] = FilterStep(l, batch[i])
  OBVIOUS
<1>4. NoneYet \in X
  BY DEF NoneYet, Filtered
<1> HIDE DEF step, n, X
<1>5. PICK g \in [SUBSET (1..n) -> X] : IsLoop(g, n, NoneYet, step)
  BY <1>1, <1>2, <1>4, LoopExists
<1>6. IsIt(g)
  <2>1. ASSUME NEW s \in SUBSET (1..n), s # {}
        PROVE  step[<<Max(s), g[s \ {Max(s)}]>>] = FilterStep(g[s \ {Max(s)}], batch[Max(s)])
    <3>1. Max(s) \in 1..n
      BY <1>1, <2>1, GreatestIn
    <3> QED BY <1>3, <1>5, <3>1
  <2> QED BY <1>5, <2>1 DEF IsLoop
<1>7. \E f : IsIt(f) /\ FilterBatch(batch) = f[1..n]
  BY <1>1, <1>6 DEF FilterBatch, FoldLeft, MapThenFoldSet, NoneYet
<1>8. PICK f : IsIt(f) /\ FilterBatch(batch) = f[1..n]
  BY <1>7
<1> DEFINE h == [i \in 0..n |-> f[1..i]]
<1>9. h[0] = NoneYet /\ h[n] = FilterBatch(batch)
  <2>1. 1..0 = {} /\ 0 \in 0..n /\ n \in 0..n
    BY <1>1
  <2>2. f[{}] = NoneYet
    BY <1>8
  <2> QED BY <1>8, <2>1, <2>2
<1>10. ASSUME NEW i \in 1..n PROVE h[i] = FilterStep(h[i - 1], batch[i])
  <2>1. 1..i \in SUBSET (1..n) /\ i \in Nat /\ i > 0 /\ i \in 0..n /\ i - 1 \in 0..n
    BY <1>1
  <2>2. 1..i # {} /\ Max(1..i) = i /\ (1..i) \ {i} = 1..(i - 1)
    BY <2>1, UptoFacts
  <2>3. f[1..i] = FilterStep(f[1..(i - 1)], batch[i])
    BY <1>8, <2>1, <2>2
  <2> QED BY <2>1, <2>3
<1> HIDE DEF h
<1> QED BY <1>9, <1>10 DEF n
-----------------------------------------------------------------------------
\* The places of a batch that filter_batch keeps.
Kept(batch) == {i \in FirstCopies(batch) : ~Known(batch[i])}

\* The places up to i of a batch that are kept, known, or in the memory.
KeptUpto(batch, i) == {j \in Kept(batch) : j <= i}
KnownUpto(batch, i) == {j \in 1..i : Known(batch[j])}
MemoryUpto(batch, i) == {j \in 1..i : Contains(items, batch[j])}

\* What filter_batch has after i events.
Sorted(r, batch, i) ==
    /\ r \in Filtered
    /\ Len(r.new) = Cardinality(KeptUpto(batch, i))
    /\ \A k \in KeptUpto(batch, i) : r.new[Cardinality(KeptUpto(batch, k))] = batch[k]
    /\ ToSet(r.new) = {batch[k] : k \in KeptUpto(batch, i)}
    /\ r.inMemory = Cardinality(MemoryUpto(batch, i))
    /\ r.inLedger = Cardinality(KnownUpto(batch, i)) - Cardinality(MemoryUpto(batch, i))
    /\ r.inBatch = i - Cardinality(KnownUpto(batch, i)) - Cardinality(KeptUpto(batch, i))

LEMMA CountStep ==
    ASSUME NEW i \in Nat, NEW S, S \subseteq 1..i
    PROVE  /\ Cardinality(S) \in Nat
           /\ Cardinality(S \cup {i + 1}) = Cardinality(S) + 1
<1>1. IsFiniteSet(S) /\ i + 1 \notin S
  <2>1. 1 \in Int /\ i \in Int /\ i + 1 \notin 1..i
    OBVIOUS
  <2>2. IsFiniteSet(1..i)
    BY <2>1, FS_Interval
  <2> QED BY <2>1, <2>2, FS_Subset
<1> QED BY <1>1, FS_AddElement, FS_CardinalityType

\* Of the copies of an unknown id the first is kept.
LEMMA KeptFacts ==
    ASSUME NEW batch \in Seq(Ids)
    PROVE  /\ Kept(batch) \subseteq 1..Len(batch)
           /\ \A k \in Kept(batch) :
                 /\ ~Known(batch[k])
                 /\ \A j \in 1..Len(batch) : batch[j] = batch[k] => k <= j
           /\ \A k \in 1..Len(batch) :
                 ~Known(batch[k]) => \E j \in Kept(batch) : j <= k /\ batch[j] = batch[k]
<1>1. Len(batch) \in Nat /\ DOMAIN batch = 1..Len(batch)
  OBVIOUS
<1>2. ASSUME NEW k \in 1..Len(batch), ~Known(batch[k])
      PROVE  \E j \in Kept(batch) : j <= k /\ batch[j] = batch[k]
  <2> DEFINE T == {j \in 1..Len(batch) : batch[j] = batch[k]}
  <2>1. T \subseteq Nat /\ T # {}
    BY <1>1, <1>2
  <2> HIDE DEF T
  <2>2. PICK j \in T : \A y \in T : j <= y
    BY <2>1, LeastNat
  <2>3. j \in 1..Len(batch) /\ batch[j] = batch[k] /\ k \in T
    BY <1>2 DEF T
  <2>4. j \in FirstCopies(batch)
    BY <1>1, <2>2, <2>3 DEF FirstCopies, T
  <2> QED BY <1>2, <2>2, <2>3, <2>4 DEF Kept
<1> QED BY <1>1, <1>2 DEF Kept, FirstCopies

LEMMA UptoStep ==
    ASSUME NEW batch \in Seq(Ids), NEW i \in Nat, i + 1 <= Len(batch)
    PROVE  /\ KeptUpto(batch, i) \subseteq 1..i
           /\ KeptUpto(batch, i + 1) = IF i + 1 \in Kept(batch)
                                       THEN KeptUpto(batch, i) \cup {i + 1}
                                       ELSE KeptUpto(batch, i)
           /\ KnownUpto(batch, i) \subseteq 1..i
           /\ KnownUpto(batch, i + 1) = IF Known(batch[i + 1])
                                        THEN KnownUpto(batch, i) \cup {i + 1}
                                        ELSE KnownUpto(batch, i)
           /\ MemoryUpto(batch, i) \subseteq 1..i
           /\ MemoryUpto(batch, i + 1) = IF Contains(items, batch[i + 1])
                                         THEN MemoryUpto(batch, i) \cup {i + 1}
                                         ELSE MemoryUpto(batch, i)
<1>1. Kept(batch) \subseteq 1..Len(batch) /\ Len(batch) \in Nat
  BY KeptFacts
<1>2. 1..(i + 1) = (1..i) \cup {i + 1}
  OBVIOUS
<1>3. \A k \in Kept(batch) : k <= i + 1 <=> (k <= i \/ k = i + 1)
  BY <1>1
<1>4. KeptUpto(batch, i) \subseteq 1..i
  BY <1>1 DEF KeptUpto
<1>5. KeptUpto(batch, i + 1) = IF i + 1 \in Kept(batch)
                               THEN KeptUpto(batch, i) \cup {i + 1} ELSE KeptUpto(batch, i)
  BY <1>3 DEF KeptUpto
<1>6. KnownUpto(batch, i + 1) = IF Known(batch[i + 1])
                                THEN KnownUpto(batch, i) \cup {i + 1} ELSE KnownUpto(batch, i)
  <2> HIDE DEF Known
  <2> QED BY <1>2 DEF KnownUpto
<1>7. MemoryUpto(batch, i + 1) = IF Contains(items, batch[i + 1])
                                 THEN MemoryUpto(batch, i) \cup {i + 1}
                                 ELSE MemoryUpto(batch, i)
  BY <1>2 DEF MemoryUpto
<1> QED BY <1>4, <1>5, <1>6, <1>7 DEF KnownUpto, MemoryUpto

LEMMA UptoCounts ==
    ASSUME NEW batch \in Seq(Ids), NEW i \in Nat, i + 1 <= Len(batch)
    PROVE  /\ Cardinality(KeptUpto(batch, i)) \in Nat
           /\ Cardinality(KeptUpto(batch, i + 1)) =
                 IF i + 1 \in Kept(batch) THEN Cardinality(KeptUpto(batch, i)) + 1
                                          ELSE Cardinality(KeptUpto(batch, i))
           /\ Cardinality(KnownUpto(batch, i)) \in Nat
           /\ Cardinality(KnownUpto(batch, i + 1)) =
                 IF Known(batch[i + 1]) THEN Cardinality(KnownUpto(batch, i)) + 1
                                        ELSE Cardinality(KnownUpto(batch, i))
           /\ Cardinality(MemoryUpto(batch, i)) \in Nat
           /\ Cardinality(MemoryUpto(batch, i + 1)) =
                 IF Contains(items, batch[i + 1]) THEN Cardinality(MemoryUpto(batch, i)) + 1
                                                  ELSE Cardinality(MemoryUpto(batch, i))
<1>1. PICK s : s = KeptUpto(batch, i)
  OBVIOUS
<1>2. PICK t : t = KnownUpto(batch, i)
  OBVIOUS
<1>3. PICK u : u = MemoryUpto(batch, i)
  OBVIOUS
<1>4. /\ s \subseteq 1..i /\ t \subseteq 1..i /\ u \subseteq 1..i
      /\ KeptUpto(batch, i + 1) = IF i + 1 \in Kept(batch) THEN s \cup {i + 1} ELSE s
      /\ KnownUpto(batch, i + 1) = IF Known(batch[i + 1]) THEN t \cup {i + 1} ELSE t
      /\ MemoryUpto(batch, i + 1) = IF Contains(items, batch[i + 1]) THEN u \cup {i + 1} ELSE u
  BY <1>1, <1>2, <1>3, UptoStep
<1>5. Cardinality(s) \in Nat /\ Cardinality(s \cup {i + 1}) = Cardinality(s) + 1
  BY <1>4, CountStep
<1>6. Cardinality(t) \in Nat /\ Cardinality(t \cup {i + 1}) = Cardinality(t) + 1
  BY <1>4, CountStep
<1>7. Cardinality(u) \in Nat /\ Cardinality(u \cup {i + 1}) = Cardinality(u) + 1
  BY <1>4, CountStep
<1> HIDE DEF Known
<1> QED BY <1>1, <1>2, <1>3, <1>4, <1>5, <1>6, <1>7

LEMMA ContainsIsIn ==
    ASSUME NEW s \in Seq(Ids), NEW x
    PROVE  Contains(s, x) <=> x \in ToSet(s)
BY DEF Contains, ToSet

\* One event: it is a further copy, in memory, in the ledger, or new.
LEMMA SortedStep ==
    ASSUME NEW batch \in Seq(Ids), NEW i \in Nat, i + 1 <= Len(batch), NEW r, Sorted(r, batch, i)
    PROVE  Sorted(FilterStep(r, batch[i + 1]), batch, i + 1)
<1> DEFINE id == batch[i + 1]
           b == FilterStep(r, id)
           K == KeptUpto(batch, i)
           L == KeptUpto(batch, i + 1)
<1>1. /\ i + 1 \in 1..Len(batch) /\ id \in Ids /\ r \in Filtered /\ Len(batch) \in Nat
      /\ r.new \in Seq(Ids) /\ r.inBatch \in Nat /\ r.inMemory \in Nat /\ r.inLedger \in Nat
  <2>1. i + 1 \in 1..Len(batch) /\ r \in Filtered
    BY DEF Sorted
  <2>2. id \in Ids
    BY <2>1
  <2> QED BY <2>1, <2>2 DEF Filtered
<1>2. /\ K \subseteq 1..i
      /\ L = IF i + 1 \in Kept(batch) THEN K \cup {i + 1} ELSE K
  BY UptoStep
<1>3. \A k \in Kept(batch) : k \in 1..Len(batch) /\ k \in Nat
  BY KeptFacts
<1>4. K \subseteq Kept(batch) /\ \A k \in Kept(batch) : k <= i => k \in K
  BY DEF KeptUpto
<1>5. /\ Len(r.new) = Cardinality(K)
      /\ \A k \in K : r.new[Cardinality(KeptUpto(batch, k))] = batch[k]
      /\ ToSet(r.new) = {batch[k] : k \in K}
      /\ r.inMemory = Cardinality(MemoryUpto(batch, i))
      /\ r.inLedger = Cardinality(KnownUpto(batch, i)) - Cardinality(MemoryUpto(batch, i))
      /\ r.inBatch = i - Cardinality(KnownUpto(batch, i)) - Cardinality(K)
  BY DEF Sorted
<1>6. PICK mem : mem = Cardinality(MemoryUpto(batch, i))
  OBVIOUS
<1>7. PICK kno : kno = Cardinality(KnownUpto(batch, i))
  OBVIOUS
<1>8. PICK kep : kep = Cardinality(K)
  OBVIOUS
<1>9. /\ kep \in Nat /\ kno \in Nat /\ mem \in Nat
      /\ Cardinality(L) = IF i + 1 \in Kept(batch) THEN kep + 1 ELSE kep
      /\ Cardinality(KnownUpto(batch, i + 1)) = IF Known(id) THEN kno + 1 ELSE kno
      /\ Cardinality(MemoryUpto(batch, i + 1)) = IF Contains(items, id) THEN mem + 1 ELSE mem
  BY <1>6, <1>7, <1>8, UptoCounts
<1>10. Contains(r.new, id) <=> \E k \in K : batch[k] = id
  BY <1>1, <1>5, ContainsIsIn
<1>11. /\ b \in Filtered
       /\ IF Contains(r.new, id)
          THEN b.inBatch = r.inBatch + 1 /\ b.new = r.new
               /\ b.inMemory = r.inMemory /\ b.inLedger = r.inLedger
          ELSE IF Contains(items, id)
          THEN b.inBatch = r.inBatch /\ b.new = r.new
               /\ b.inMemory = r.inMemory + 1 /\ b.inLedger = r.inLedger
          ELSE IF id \in ledger
          THEN b.inBatch = r.inBatch /\ b.new = r.new
               /\ b.inMemory = r.inMemory /\ b.inLedger = r.inLedger + 1
          ELSE b.inBatch = r.inBatch /\ b.new = Append(r.new, id)
               /\ b.inMemory = r.inMemory /\ b.inLedger = r.inLedger
  BY <1>1, FilterStepFacts
<1> HIDE DEF b, K, L, id
<1> DEFINE new2 == ToSet(b.new) = {batch[k] : k \in L}
           new1 == Len(b.new) = Cardinality(L)
           new3 == \A k \in L : b.new[Cardinality(KeptUpto(batch, k))] = batch[k]
           mem2 == b.inMemory = Cardinality(MemoryUpto(batch, i + 1))
           led2 == b.inLedger = Cardinality(KnownUpto(batch, i + 1))
                                    - Cardinality(MemoryUpto(batch, i + 1))
           bat2 == b.inBatch = (i + 1) - Cardinality(KnownUpto(batch, i + 1)) - Cardinality(L)
<1>12. ASSUME i + 1 \notin Kept(batch), b.new = r.new PROVE new1 /\ new2 /\ new3
  <2>1. L = K
    BY <1>2, <1>12
  <2> QED BY <1>5, <1>12, <2>1
<1>13. ASSUME Known(id) PROVE i + 1 \notin Kept(batch) /\ ~Contains(r.new, id)
  <2>1. \A k \in Kept(batch) : batch[k] # id
    BY <1>13, KeptFacts
  <2> QED BY <1>4, <1>10, <2>1 DEF id
<1>14. ASSUME Contains(r.new, id) PROVE Sorted(b, batch, i + 1)
  <2>1. PICK k \in K : batch[k] = id
    BY <1>10, <1>14
  <2>2. ~Known(id) /\ i + 1 \notin Kept(batch)
    <3>1. i + 1 \notin Kept(batch)
      <4> SUFFICES ASSUME i + 1 \in Kept(batch) PROVE FALSE
        OBVIOUS
      <4>1. k \in 1..Len(batch) /\ i + 1 <= k
        BY <1>3, <1>4, <2>1, KeptFacts DEF id
      <4> QED BY <1>2, <4>1
    <3> QED BY <1>13, <1>14, <3>1
  <2>3. ~Contains(items, id)
    BY <2>2 DEF Known
  <2>4. new1 /\ new2 /\ new3
    BY <1>11, <1>12, <1>14, <2>2
  <2>5. mem2
    BY <1>5, <1>6, <1>9, <1>11, <1>14, <2>3
  <2>6. led2
    BY <1>5, <1>6, <1>7, <1>9, <1>11, <1>14, <2>2, <2>3
  <2>7. bat2
    <3>1. b.inBatch = (i - kno - kep) + 1
      BY <1>5, <1>7, <1>8, <1>11, <1>14
    <3> QED BY <1>9, <2>2, <3>1
  <2> QED BY <1>11, <2>4, <2>5, <2>6, <2>7 DEF Sorted, L
<1>15. ASSUME ~Contains(r.new, id), Contains(items, id)
       PROVE  Sorted(b, batch, i + 1)
  <2>1. Known(id)
    BY <1>15 DEF Known
  <2>2. new1 /\ new2 /\ new3
    BY <1>11, <1>12, <1>13, <1>15, <2>1
  <2>3. mem2
    BY <1>5, <1>6, <1>9, <1>11, <1>15
  <2>4. led2
    BY <1>5, <1>6, <1>7, <1>9, <1>11, <1>15, <2>1
  <2>5. bat2
    <3>1. b.inBatch = i - kno - kep
      BY <1>5, <1>7, <1>8, <1>11, <1>15
    <3> QED BY <1>9, <1>13, <2>1, <3>1
  <2> QED BY <1>11, <2>2, <2>3, <2>4, <2>5 DEF Sorted, L
<1>16. ASSUME ~Contains(r.new, id), ~Contains(items, id), id \in ledger
       PROVE  Sorted(b, batch, i + 1)
  <2>1. Known(id)
    BY <1>16 DEF Known
  <2>2. new1 /\ new2 /\ new3
    BY <1>11, <1>12, <1>13, <1>16, <2>1
  <2>3. mem2
    BY <1>5, <1>6, <1>9, <1>11, <1>16
  <2>4. led2
    BY <1>5, <1>6, <1>7, <1>9, <1>11, <1>16, <2>1
  <2>5. bat2
    <3>1. b.inBatch = i - kno - kep
      BY <1>5, <1>7, <1>8, <1>11, <1>16
    <3> QED BY <1>9, <1>13, <2>1, <3>1
  <2> QED BY <1>11, <2>2, <2>3, <2>4, <2>5 DEF Sorted, L
<1>17. ASSUME ~Contains(r.new, id), ~Contains(items, id), id \notin ledger
       PROVE  Sorted(b, batch, i + 1)
  <2>1. ~Known(id)
    BY <1>17 DEF Known
  <2>2. i + 1 \in Kept(batch)
    <3>1. PICK j \in Kept(batch) : j <= i + 1 /\ batch[j] = id
      BY <1>1, <2>1, KeptFacts DEF id
    <3>2. j \in Nat /\ j \notin K
      BY <1>3, <1>10, <1>17, <3>1
    <3>3. ~(j <= i)
      BY <1>4, <3>2
    <3>4. j = i + 1
      BY <3>1, <3>2, <3>3
    <3> QED BY <3>1, <3>4
  <2>3. L = K \cup {i + 1} /\ Cardinality(L) = kep + 1
    BY <1>2, <1>9, <2>2
  <2>4. b.new = Append(r.new, id)
    BY <1>11, <1>17
  <2>5. /\ Len(b.new) = kep + 1 /\ b.new[kep + 1] = id
        /\ \A j \in 1..kep : b.new[j] = r.new[j]
    <3>0. PICK q : q = r.new
      OBVIOUS
    <3>1. Len(q) = kep /\ q \in Seq(Ids)
      BY <1>1, <1>5, <1>8, <3>0
    <3>2. /\ Len(Append(q, id)) = kep + 1 /\ Append(q, id)[kep + 1] = id
          /\ \A j \in 1..kep : Append(q, id)[j] = q[j]
      BY <1>1, <3>1, AppendProperties
    <3> QED BY <2>4, <3>0, <3>2
  <2>6. new1
    BY <2>3, <2>5
  <2>7. new2
    <3>1. ToSet(b.new) = ToSet(r.new) \cup {id}
      BY <1>1, <2>4, LastAppend
    <3>2. {batch[k] : k \in L} = {batch[k] : k \in K} \cup {batch[i + 1]}
      BY <2>3
    <3> QED BY <1>5, <3>1, <3>2 DEF id
  <2>8. new3
    <3>1. ASSUME NEW k \in K PROVE Cardinality(KeptUpto(batch, k)) \in 1..kep
      <4>1. k \in Nat /\ k <= i /\ k \in KeptUpto(batch, k) /\ KeptUpto(batch, k) \in SUBSET K
        BY <1>2, <1>3, <1>4 DEF KeptUpto, K
      <4>2. IsFiniteSet(K)
        <5>1. 1 \in Int /\ i \in Int
          OBVIOUS
        <5> QED BY <5>1, <1>2, FS_Interval, FS_Subset
      <4>3. /\ IsFiniteSet(KeptUpto(batch, k))
            /\ Cardinality(KeptUpto(batch, k)) <= kep
        BY <1>8, <4>1, <4>2, FS_Subset
      <4>4. /\ Cardinality(KeptUpto(batch, k)) \in Nat
            /\ Cardinality(KeptUpto(batch, k)) # 0
        BY <4>1, <4>3, FS_CardinalityType, FS_EmptySet
      <4> QED BY <1>9, <4>3, <4>4
    <3>2. ASSUME NEW k \in K PROVE b.new[Cardinality(KeptUpto(batch, k))] = batch[k]
      BY <1>5, <2>5, <3>1
    <3>3. b.new[Cardinality(KeptUpto(batch, i + 1))] = batch[i + 1]
      BY <2>3, <2>5 DEF L, id
    <3> QED BY <2>3, <3>2, <3>3
  <2>9. mem2
    BY <1>5, <1>6, <1>9, <1>11, <1>17
  <2>10. led2
    BY <1>5, <1>6, <1>7, <1>9, <1>11, <1>17, <2>1
  <2>11. bat2
    <3>1. b.inBatch = i - kno - kep
      BY <1>5, <1>7, <1>8, <1>11, <1>17
    <3> QED BY <1>9, <2>1, <2>3, <3>1
  <2> QED BY <1>11, <2>6, <2>7, <2>8, <2>9, <2>10, <2>11 DEF Sorted, L
<1>18. Sorted(b, batch, i + 1)
  BY <1>14, <1>15, <1>16, <1>17
<1> QED BY <1>18 DEF b, id

\* The whole batch.
LEMMA FilterSorts ==
    ASSUME NEW batch \in Seq(Ids)
    PROVE  Sorted(FilterBatch(batch), batch, Len(batch))
<1>1. PICK h : /\ h[0] = NoneYet
               /\ \A i \in 1..Len(batch) : h[i] = FilterStep(h[i - 1], batch[i])
               /\ FilterBatch(batch) = h[Len(batch)]
  BY FilterRounds
<1> DEFINE P == {i \in Nat : i <= Len(batch) => Sorted(h[i], batch, i)}
<1>2. 0 \in P
  <2>1. KeptUpto(batch, 0) = {}
    <3>1. \A k \in Kept(batch) : k \in 1..Len(batch)
      BY KeptFacts
    <3>2. \A k \in Kept(batch) : ~(k <= 0)
      BY <3>1
    <3> QED BY <3>2 DEF KeptUpto
  <2>2. KnownUpto(batch, 0) = {} /\ MemoryUpto(batch, 0) = {}
    BY DEF KnownUpto, MemoryUpto
  <2>3. Cardinality({}) = 0
    BY FS_EmptySet
  <2>4. /\ NoneYet.new = <<>> /\ NoneYet.inBatch = 0 /\ NoneYet.inMemory = 0
        /\ NoneYet.inLedger = 0 /\ NoneYet \in Filtered
    BY DEF NoneYet, Filtered
  <2>5. Len(<<>>) = 0 /\ ToSet(<<>>) = {}
    BY DEF ToSet
  <2>6. Sorted(NoneYet, batch, 0)
    <3>1. ToSet(NoneYet.new) = {batch[k] : k \in KeptUpto(batch, 0)}
      BY <2>1, <2>4, <2>5
    <3>2. Len(NoneYet.new) = Cardinality(KeptUpto(batch, 0))
      BY <2>1, <2>3, <2>4, <2>5
    <3>3. \A k \in KeptUpto(batch, 0) : NoneYet.new[Cardinality(KeptUpto(batch, k))] = batch[k]
      BY <2>1
    <3>4. 0 = Cardinality(KeptUpto(batch, 0)) /\ 0 = Cardinality(KnownUpto(batch, 0))
          /\ 0 = Cardinality(MemoryUpto(batch, 0))
      BY <2>1, <2>2, <2>3
    <3> QED BY <2>4, <3>1, <3>2, <3>3, <3>4 DEF Sorted
  <2> QED BY <1>1, <2>6
<1>3. ASSUME NEW i \in Nat, i \in P PROVE i + 1 \in P
  <2> SUFFICES ASSUME i + 1 <= Len(batch) PROVE Sorted(h[i + 1], batch, i + 1)
    OBVIOUS
  <2>1. i + 1 \in 1..Len(batch) /\ (i + 1) - 1 = i /\ i <= Len(batch)
    OBVIOUS
  <2>2. h[i + 1] = FilterStep(h[i], batch[i + 1])
    BY <1>1, <2>1
  <2>3. Sorted(h[i], batch, i)
    BY <1>3, <2>1
  <2> QED BY <2>2, <2>3, SortedStep
<1>4. Len(batch) \in Nat
  OBVIOUS
<1> HIDE DEF P
<1>5. Len(batch) \in P
  BY <1>2, <1>3, <1>4, NatSetInduction
<1> QED BY <1>1, <1>4, <1>5 DEF P

LEMMA BoundedFacts ==
    ASSUME NEW S, NEW n \in Nat, NEW s
    PROVE  s \in BoundedSeq(S, n) <=> s \in Seq(S) /\ Len(s) <= n
<1>1. ASSUME s \in BoundedSeq(S, n) PROVE s \in Seq(S) /\ Len(s) <= n
  <2>1. PICK m \in 0..n : s \in [1..m -> S]
    BY <1>1 DEF BoundedSeq, SeqOf
  <2>2. m \in Nat /\ m <= n
    BY <2>1
  <2> QED BY <2>1, <2>2
<1>2. ASSUME s \in Seq(S), Len(s) <= n PROVE s \in BoundedSeq(S, n)
  <2>1. s \in [1..Len(s) -> S] /\ Len(s) \in 0..n
    BY <1>2
  <2> QED BY <2>1 DEF BoundedSeq, SeqOf
<1> QED BY <1>1, <1>2

LEMMA UptoAll ==
    ASSUME NEW batch \in Seq(Ids)
    PROVE  KeptUpto(batch, Len(batch)) = Kept(batch)
<1>1. \A k \in Kept(batch) : k <= Len(batch)
  BY KeptFacts
<1> QED BY <1>1 DEF KeptUpto

\* What is let through is known to neither tier.
LEMMA FilterFacts ==
    ASSUME NEW batch \in Seq(Ids)
    PROVE  LET new == FilterBatch(batch).new
           IN  /\ new \in Seq(Ids) /\ Len(new) <= Len(batch)
               /\ \A x \in ToSet(new) : ~Known(x)
<1>1. Sorted(FilterBatch(batch), batch, Len(batch))
  BY FilterSorts
<1>2. PICK r : r = FilterBatch(batch)
  OBVIOUS
<1>3. /\ r \in Filtered /\ Len(r.new) = Cardinality(Kept(batch))
      /\ ToSet(r.new) = {batch[k] : k \in Kept(batch)}
  BY <1>1, <1>2, UptoAll DEF Sorted
<1>4. r.new \in Seq(Ids)
  BY <1>3 DEF Filtered
<1>5. Cardinality(Kept(batch)) <= Len(batch)
  <2>1. 1 \in Int /\ Len(batch) \in Int /\ Len(batch) \in Nat
    OBVIOUS
  <2>2. IsFiniteSet(1..Len(batch)) /\ Cardinality(1..Len(batch)) = Len(batch)
    BY <2>1, FS_Interval
  <2>3. Kept(batch) \in SUBSET (1..Len(batch))
    BY KeptFacts
  <2>4. Cardinality(Kept(batch)) <= Cardinality(1..Len(batch))
    BY <2>2, <2>3, FS_Subset
  <2> QED BY <2>2, <2>4
<1>6. \A k \in Kept(batch) : ~Known(batch[k])
  BY KeptFacts
<1> QED BY <1>2, <1>3, <1>4, <1>5, <1>6

\* filter_batch keeps the first copy of every unknown id in the order of the
\* batch, and its counters account for the rest (dedup.py:84-138), for every
\* batch and whatever the two tiers hold.
THEOREM FilterKeeps == Spec => []FilterKeepsFirstUnknown
<1>1. FilterKeepsFirstUnknown
  <2> SUFFICES ASSUME NEW batch \in Batches
               PROVE  LET kept    == {i \in FirstCopies(batch) : ~Known(batch[i])}
                          result  == FilterBatch(batch)
                          inMemory == {i \in DOMAIN batch : Contains(items, batch[i])}
                          known   == {i \in DOMAIN batch : Known(batch[i])}
                      IN  /\ Len(result.new) = Cardinality(kept)
                          /\ \A i \in kept :
                                result.new[Cardinality({j \in kept : j <= i})] = batch[i]
                          /\ result.inMemory = Cardinality(inMemory)
                          /\ result.inLedger = Cardinality(known) - Cardinality(inMemory)
                          /\ result.inBatch = Len(batch) - Cardinality(known) - Cardinality(kept)
    BY DEF FilterKeepsFirstUnknown
  <2>1. batch \in Seq(Ids)
    <3>1. MaxBatch \in Nat
      BY DedupAssumption
    <3> QED BY <3>1, BoundedFacts DEF Batches
  <2>2. Sorted(FilterBatch(batch), batch, Len(batch))
    BY <2>1, FilterSorts
  <2>3. PICK r : r = FilterBatch(batch)
    OBVIOUS
  <2>4. /\ Len(r.new) = Cardinality(Kept(batch))
        /\ \A k \in Kept(batch) : r.new[Cardinality(KeptUpto(batch, k))] = batch[k]
        /\ r.inMemory = Cardinality(MemoryUpto(batch, Len(batch)))
        /\ r.inLedger = Cardinality(KnownUpto(batch, Len(batch)))
                            - Cardinality(MemoryUpto(batch, Len(batch)))
        /\ r.inBatch = Len(batch) - Cardinality(KnownUpto(batch, Len(batch)))
                            - Cardinality(Kept(batch))
    BY <2>1, <2>2, <2>3, UptoAll DEF Sorted
  <2>5. /\ {i \in FirstCopies(batch) : ~Known(batch[i])} = Kept(batch)
        /\ \A i : {j \in Kept(batch) : j <= i} = KeptUpto(batch, i)
    BY DEF Kept, KeptUpto
  <2>6. /\ {i \in DOMAIN batch : Contains(items, batch[i])} = MemoryUpto(batch, Len(batch))
        /\ {i \in DOMAIN batch : Known(batch[i])} = KnownUpto(batch, Len(batch))
    <3>1. DOMAIN batch = 1..Len(batch)
      BY <2>1
    <3> QED BY <3>1 DEF MemoryUpto, KnownUpto
  <2> QED BY <2>3, <2>4, <2>5, <2>6
<1> QED BY <1>1, PTL
-----------------------------------------------------------------------------
\* The inductive invariant: the memory stands for what has been committed to
\* it, what is pending fits under the bound of the model, and nothing of it is
\* in the ledger.
IInv ==
    /\ LruStands(items, commits)
    /\ commits \in Seq(Ids) /\ Len(commits) <= MaxCommits
    /\ pendIds \in Seq(Ids)
    /\ ledger \subseteq Ids
    /\ stopping \in BOOLEAN
    /\ ~stopping => Len(commits) + Len(pendIds) <= MaxCommits
    /\ PendingIsUnknown

\* dedup.commit.
LEMMA CommitFacts ==
    ASSUME IInv, Commit
    PROVE  /\ LruStands(items', commits')
           /\ ToSet(items') \subseteq ToSet(items) \cup ToSet(pendIds)
           /\ commits' \in Seq(Ids) /\ Len(commits') = Len(commits) + Len(pendIds)
<1>1. PICK C \in Seq(Ids) : C = commits
  BY DEF IInv
<1>2. PICK p \in Seq(Ids) : p = pendIds
  BY DEF IInv
<1>3. LruStands(items, C)
  BY <1>1 DEF IInv
<1>4. /\ LruStands(LruUpdate(items, p), C \o p)
      /\ ToSet(LruUpdate(items, p)) \subseteq ToSet(items) \cup ToSet(p)
  BY <1>3, UpdateStands
<1>5. C \o p \in Seq(Ids) /\ Len(C \o p) = Len(C) + Len(p)
  BY ConcatProperties
<1>6. items' = LruUpdate(items, p) /\ commits' = C \o p
  BY <1>1, <1>2 DEF Commit
<1> QED BY <1>1, <1>2, <1>4, <1>5, <1>6

LEMMA NothingStands == LruStands(<<>>, <<>>)
<1>1. <<>> \in Seq(Ids) /\ Len(<<>>) = 0 /\ DOMAIN <<>> = {} /\ ToSet(<<>>) = {}
  BY DEF ToSet
<1>2. 0 <= CacheSize
  BY DedupMemoryAssumption
<1> QED BY <1>1, <1>2 DEF LruStands

LEMMA ConcatToSet ==
    ASSUME NEW s \in Seq(Ids), NEW t \in Seq(Ids)
    PROVE  /\ s \o t \in Seq(Ids) /\ Len(s \o t) = Len(s) + Len(t)
           /\ ToSet(s \o t) = ToSet(s) \cup ToSet(t)
<1>1. /\ s \o t \in Seq(Ids) /\ Len(s \o t) = Len(s) + Len(t)
      /\ \A i \in 1..Len(s) : (s \o t)[i] = s[i]
      /\ \A i \in 1..Len(t) : (s \o t)[Len(s) + i] = t[i]
  <2>1. /\ s \o t \in Seq(Ids) /\ Len(s \o t) = Len(s) + Len(t)
        /\ \A i \in 1..(Len(s) + Len(t)) :
              (s \o t)[i] = IF i <= Len(s) THEN s[i] ELSE t[i - Len(s)]
    BY ConcatProperties
  <2>2. Len(s) \in Nat /\ Len(t) \in Nat
    OBVIOUS
  <2>3. ASSUME NEW i \in 1..Len(t) PROVE (s \o t)[Len(s) + i] = t[i]
    <3>1. Len(s) + i \in 1..(Len(s) + Len(t)) /\ ~(Len(s) + i <= Len(s))
          /\ (Len(s) + i) - Len(s) = i
      BY <2>2
    <3> QED BY <2>1, <3>1
  <2>4. ASSUME NEW i \in 1..Len(s) PROVE (s \o t)[i] = s[i]
    <3>1. i \in 1..(Len(s) + Len(t)) /\ i <= Len(s)
      BY <2>2
    <3> QED BY <2>1, <3>1
  <2> QED BY <2>1, <2>3, <2>4
<1>2. PICK u \in Seq(Ids) : u = s \o t
  BY <1>1
<1>3. /\ Len(s) \in Nat /\ Len(t) \in Nat /\ DOMAIN s = 1..Len(s) /\ DOMAIN t = 1..Len(t)
      /\ DOMAIN u = 1..(Len(s) + Len(t))
  BY <1>1, <1>2
<1>4. \A i \in 1..Len(s) : u[i] = s[i] /\ i \in DOMAIN u
  BY <1>1, <1>2, <1>3
<1>5. \A i \in 1..Len(t) : u[Len(s) + i] = t[i] /\ Len(s) + i \in DOMAIN u
  BY <1>1, <1>2, <1>3
<1>6. ASSUME NEW x \in ToSet(u) PROVE x \in ToSet(s) \cup ToSet(t)
  <2>1. PICK i \in DOMAIN u : x = u[i]
    BY DEF ToSet
  <2>2. CASE i <= Len(s)
    <3>1. i \in 1..Len(s)
      BY <1>3, <2>2
    <3> QED BY <1>3, <1>4, <2>1, <3>1 DEF ToSet
  <2>3. CASE i > Len(s)
    <3>1. PICK j \in 1..Len(t) : i = Len(s) + j
      <4>1. i - Len(s) \in 1..Len(t) /\ i = Len(s) + (i - Len(s))
        BY <1>3, <2>3
      <4> QED BY <4>1
    <3> QED BY <1>3, <1>5, <2>1, <3>1 DEF ToSet
  <2>4. i <= Len(s) \/ i > Len(s)
    BY <1>3
  <2> QED BY <2>2, <2>3, <2>4
<1>7. ASSUME NEW x \in ToSet(s) PROVE x \in ToSet(u)
  BY <1>3, <1>4 DEF ToSet
<1>8. ASSUME NEW x \in ToSet(t) PROVE x \in ToSet(u)
  BY <1>3, <1>5 DEF ToSet
<1> QED BY <1>1, <1>2, <1>6, <1>7, <1>8

LEMMA ProcessStep == IInv /\ Process => IInv'
<1> SUFFICES ASSUME IInv, Process PROVE IInv'
  OBVIOUS
<1>1. PICK refused \in BoundedSeq(Violating, MaxBatch),
           parsed \in BoundedSeq(Ids \ Violating, MaxBatch) :
        /\ Len(commits) + Len(pendIds) + Len(refused) + Len(parsed) <= MaxCommits
        /\ pendIds' = pendIds \o refused \o FilterBatch(parsed).new
  BY DEF Process
<1>2. MaxBatch \in Nat /\ Violating \subseteq Ids
  BY DedupAssumption
<1>3. refused \in Seq(Violating) /\ parsed \in Seq(Ids \ Violating)
  BY <1>2, BoundedFacts
<1>4. /\ refused \in Seq(Ids) /\ parsed \in Seq(Ids)
      /\ ToSet(refused) \subseteq Violating
  BY <1>2, <1>3 DEF ToSet
<1>5. PICK new : new = FilterBatch(parsed).new
  OBVIOUS
<1>6. /\ new \in Seq(Ids) /\ Len(new) <= Len(parsed)
      /\ \A x \in ToSet(new) : ~Known(x)
  BY <1>4, <1>5, FilterFacts
<1>7. pendIds \in Seq(Ids)
  BY DEF IInv
<1>8. /\ pendIds \o refused \in Seq(Ids)
      /\ Len(pendIds \o refused) = Len(pendIds) + Len(refused)
      /\ ToSet(pendIds \o refused) = ToSet(pendIds) \cup ToSet(refused)
  BY <1>4, <1>7, ConcatToSet
<1>9. /\ pendIds' \in Seq(Ids)
      /\ Len(pendIds') = (Len(pendIds) + Len(refused)) + Len(new)
      /\ ToSet(pendIds') = (ToSet(pendIds) \cup ToSet(refused)) \cup ToSet(new)
  <2>1. PICK s \in Seq(Ids) : s = pendIds \o refused
    BY <1>8
  <2>2. s \o new \in Seq(Ids) /\ Len(s \o new) = Len(s) + Len(new)
        /\ ToSet(s \o new) = ToSet(s) \cup ToSet(new)
    BY <1>6, ConcatToSet
  <2> QED BY <1>1, <1>5, <1>8, <2>1, <2>2
<1>10. UNCHANGED <<items, ledger, stopping, commits>> /\ ~stopping
  BY DEF Process
<1>11. Len(commits') + Len(pendIds') <= MaxCommits
  <2>1. /\ Len(commits) \in Nat /\ Len(pendIds) \in Nat /\ Len(refused) \in Nat
        /\ Len(parsed) \in Nat /\ Len(new) \in Nat /\ MaxCommits \in Nat
    BY <1>4, <1>6, DedupAssumption DEF IInv
  <2> QED BY <1>1, <1>6, <1>9, <1>10, <2>1
<1>12. PendingIsUnknown'
  <2>1. ToSet(new) \cap ledger = {}
    BY <1>6 DEF Known
  <2>2. ToSet(pendIds) \cap ledger \subseteq Violating
    BY <1>10 DEF IInv, PendingIsUnknown
  <2> QED BY <1>4, <1>9, <1>10, <2>1, <2>2 DEF PendingIsUnknown
<1> QED BY <1>9, <1>10, <1>11, <1>12 DEF IInv

LEMMA FlushStep == IInv /\ Flush => IInv'
<1> SUFFICES ASSUME IInv, Flush PROVE IInv'
  OBVIOUS
<1>1. /\ LruStands(items', commits')
      /\ commits' \in Seq(Ids) /\ Len(commits') = Len(commits) + Len(pendIds)
  BY CommitFacts DEF Flush
<1>2. pendIds' = <<>> /\ stopping' = stopping /\ ~stopping /\ stopping \in BOOLEAN
  BY DEF Flush, IInv
<1>3. Len(commits) + Len(pendIds) <= MaxCommits
  BY <1>2 DEF IInv
<1>4. Len(commits') \in Nat /\ Len(<<>>) = 0 /\ <<>> \in Seq(Ids) /\ ToSet(<<>>) = {}
  BY <1>1 DEF ToSet
<1>5. ledger' \subseteq Ids
  <2>1. pendIds \in Seq(Ids) /\ ledger \subseteq Ids
    BY DEF IInv
  <2>2. ToSet(pendIds) \subseteq Ids
    BY <2>1 DEF ToSet
  <2> QED BY <2>1, <2>2 DEF Flush
<1>6. Len(commits') + Len(pendIds') <= MaxCommits
  BY <1>1, <1>2, <1>3, <1>4
<1>7. PendingIsUnknown'
  BY <1>2, <1>4 DEF PendingIsUnknown
<1> QED BY <1>1, <1>2, <1>3, <1>4, <1>5, <1>6, <1>7 DEF IInv

LEMMA FlushFailsStep == IInv /\ FlushFails => IInv'
<1> SUFFICES ASSUME IInv, FlushFails PROVE IInv'
  OBVIOUS
<1>1. stopping' = TRUE /\ pendIds' = pendIds /\ ~stopping
  BY DEF FlushFails
<1>2. /\ pendIds \in Seq(Ids) /\ ledger \subseteq Ids
      /\ Len(commits) + Len(pendIds) <= MaxCommits
  BY <1>1 DEF IInv
<1>3. ToSet(pendIds) \subseteq Ids
  BY <1>2 DEF ToSet
<1>4. ledger' \subseteq Ids
  BY <1>2, <1>3 DEF FlushFails
<1>5. LruStands(items', commits') /\ commits' \in Seq(Ids) /\ Len(commits') <= MaxCommits
  <2>1. CASE UNCHANGED <<items, commits>>
    BY <2>1 DEF IInv
  <2>2. CASE Commit
    BY <1>2, <2>2, CommitFacts
  <2> QED BY <2>1, <2>2 DEF FlushFails
<1>6. PendingIsUnknown'
  BY <1>1 DEF PendingIsUnknown
<1> QED BY <1>1, <1>2, <1>4, <1>5, <1>6 DEF IInv

LEMMA RestartStep == IInv /\ Restart => IInv'
<1> SUFFICES ASSUME IInv, Restart PROVE IInv'
  OBVIOUS
<1>1. items' = <<>> /\ pendIds' = <<>> /\ stopping' = FALSE /\ commits' = <<>>
  BY DEF Restart
<1>2. Len(<<>>) = 0 /\ <<>> \in Seq(Ids) /\ ToSet(<<>>) = {} /\ MaxCommits \in Nat
  BY DedupAssumption DEF ToSet
<1>3. ledger' \subseteq Ids
  <2>1. pendIds \in Seq(Ids) /\ ledger \subseteq Ids
    BY DEF IInv
  <2>2. ToSet(pendIds) \subseteq Ids
    BY <2>1 DEF ToSet
  <2>3. ledger' = ledger \/ ledger' = ledger \cup ToSet(pendIds)
    BY DEF Restart
  <2> QED BY <2>1, <2>2, <2>3
<1>4. LruStands(items', commits')
  BY <1>1, NothingStands
<1>5. PendingIsUnknown'
  BY <1>1, <1>2 DEF PendingIsUnknown
<1>6. Len(commits') <= MaxCommits /\ Len(commits') + Len(pendIds') <= MaxCommits
  BY <1>1, <1>2
<1> QED BY <1>1, <1>2, <1>3, <1>4, <1>5, <1>6 DEF IInv

\* It holds in every reachable state (dedup.py:32-57, 140-147; service.py:192-244).
THEOREM Invariance == Spec => []IInv
<1>1. Init => IInv
  <2> SUFFICES ASSUME Init PROVE IInv
    OBVIOUS
  <2>1. Len(<<>>) = 0 /\ <<>> \in Seq(Ids) /\ ToSet(<<>>) = {} /\ MaxCommits \in Nat
    BY DedupAssumption DEF ToSet
  <2>2. items = <<>> /\ pendIds = <<>> /\ ledger = {} /\ stopping = FALSE /\ commits = <<>>
    BY DEF Init
  <2>3. LruStands(items, commits)
    BY <2>2, NothingStands
  <2>4. PendingIsUnknown
    BY <2>1, <2>2 DEF PendingIsUnknown
  <2>5. Len(commits) <= MaxCommits /\ Len(commits) + Len(pendIds) <= MaxCommits
    BY <2>1, <2>2
  <2> QED BY <2>1, <2>2, <2>3, <2>4, <2>5 DEF IInv
<1>2. IInv /\ [Next]_vars => IInv'
  <2>1. IInv /\ UNCHANGED vars => IInv'
    BY DEF IInv, vars, PendingIsUnknown
  <2> QED BY <2>1, ProcessStep, FlushStep, FlushFailsStep, RestartStep DEF Next
<1> QED BY <1>1, <1>2, PTL DEF Spec

\* What has been let through and not been flushed is not in the ledger, however
\* earlier flushes failed (service.py:203-232).
THEOREM PendingUnknown == Spec => []PendingIsUnknown
BY Invariance, PTL DEF IInv

\* No id is in the memory twice.
LEMMA StandsDistinct ==
    ASSUME NEW C \in Seq(Ids), NEW l, LruStands(l, C)
    PROVE  /\ \A i, j \in DOMAIN l : l[i] = l[j] => i = j
           /\ IsFiniteSet(ToSet(l)) /\ Cardinality(ToSet(l)) = Len(l)
<1>1. /\ l \in Seq(Ids) /\ DOMAIN l = 1..Len(l) /\ Len(l) \in Nat
      /\ \A i \in DOMAIN l : l[i] \in ToSet(C)
  <2>1. l \in Seq(Ids) /\ ToSet(l) \subseteq ToSet(C)
    BY DEF LruStands
  <2>2. \A i \in DOMAIN l : l[i] \in ToSet(l)
    BY DEF ToSet
  <2> QED BY <2>1, <2>2
<1>2. \A i \in DOMAIN l : LastIn(C, l[i]) \in Nat
  <2>1. DOMAIN C \subseteq Nat
    OBVIOUS
  <2> QED BY <1>1, <2>1, LastFacts
<1>3. ASSUME NEW i \in DOMAIN l, NEW j \in DOMAIN l, l[i] = l[j] PROVE i = j
  <2>1. i < j => LastIn(C, l[i]) < LastIn(C, l[j])
    BY DEF LruStands
  <2>2. j < i => LastIn(C, l[j]) < LastIn(C, l[i])
    BY DEF LruStands
  <2>3. PICK n \in Nat : n = LastIn(C, l[i]) /\ n = LastIn(C, l[j])
    BY <1>2, <1>3
  <2>4. ~(i < j) /\ ~(j < i)
    BY <2>1, <2>2, <2>3
  <2> QED BY <1>1, <2>4
<1>4. l \in Bijection(1..Len(l), ToSet(l))
  <2>1. l \in [1..Len(l) -> ToSet(l)]
    BY <1>1 DEF ToSet
  <2>2. l \in Injection(1..Len(l), ToSet(l))
    BY <1>1, <1>3, <2>1 DEF Injection, IsInjective
  <2>3. l \in Surjection(1..Len(l), ToSet(l))
    BY <1>1, <2>1 DEF Surjection, ToSet
  <2> QED BY <2>2, <2>3 DEF Bijection
<1>5. IsFiniteSet(1..Len(l)) /\ Cardinality(1..Len(l)) = Len(l)
  <2>1. PICK n \in Nat : n = Len(l)
    BY <1>1
  <2>2. 1 \in Int /\ n \in Int
    OBVIOUS
  <2>3. IsFiniteSet(1..n) /\ Cardinality(1..n) = IF 1 > n THEN 0 ELSE n - 1 + 1
    BY <2>2, FS_Interval
  <2>4. Cardinality(1..n) = n
    BY <2>3
  <2> QED BY <2>1, <2>3, <2>4
<1>6. ExistsBijection(1..Len(l), ToSet(l))
  BY <1>4 DEF ExistsBijection
<1>7. IsFiniteSet(ToSet(l)) /\ Cardinality(ToSet(l)) = Cardinality(1..Len(l))
  BY <1>5, <1>6, FS_Bijection
<1> QED BY <1>3, <1>5, <1>7

LEMMA ToSetFinite ==
    ASSUME NEW C \in Seq(Ids)
    PROVE  IsFiniteSet(ToSet(C))
<1>1. C \in Surjection(1..Len(C), ToSet(C))
  <2>1. DOMAIN C = 1..Len(C)
    OBVIOUS
  <2>2. C \in [1..Len(C) -> ToSet(C)]
    BY <2>1 DEF ToSet
  <2> QED BY <2>1, <2>2 DEF Surjection, ToSet
<1>2. 1 \in Int /\ Len(C) \in Int
  OBVIOUS
<1> QED BY <1>1, <1>2, FS_Interval, FS_Surjection

\* The memory is a list without repetitions, never longer than its size
\* (dedup.py:47-53).
THEOREM TypeCorrect == Spec => []TypeOK
<1>1. IInv => TypeOK
  <2> SUFFICES ASSUME IInv PROVE TypeOK
    OBVIOUS
  <2>1. CacheSize \in Nat /\ MaxCommits \in Nat
    BY DedupAssumption, DedupMemoryAssumption
  <2>2. commits \in Seq(Ids) /\ LruStands(items, commits)
    BY DEF IInv
  <2>3. \A i, j \in DOMAIN items : items[i] = items[j] => i = j
    BY <2>2, StandsDistinct
  <2>4. items \in BoundedSeq(Ids, CacheSize)
    BY <2>1, <2>2, BoundedFacts DEF LruStands
  <2>5. commits \in BoundedSeq(Ids, MaxCommits)
    BY <2>1, BoundedFacts DEF IInv
  <2> QED BY <2>3, <2>4, <2>5 DEF TypeOK, IInv
<1> QED BY <1>1, Invariance, PTL

LEMMA AfterFacts ==
    ASSUME commits \in Seq(Ids), NEW x \in ToSet(commits)
    PROVE  AddedAfter(x) = {y \in ToSet(commits) : LastIn(commits, x) < LastIn(commits, y)}
<1>1. DOMAIN commits \subseteq Nat
  OBVIOUS
<1>2. \A y \in ToSet(commits) :
         /\ LastIn(commits, y) \in DOMAIN commits /\ commits[LastIn(commits, y)] = y
         /\ LastIn(commits, y) \in Nat
         /\ \A j \in DOMAIN commits : commits[j] = y => j <= LastIn(commits, y)
  BY <1>1, LastFacts
<1>3. AddedAfter(x) = {commits[j] : j \in {j \in DOMAIN commits : j > LastIn(commits, x)}}
  BY DEF AddedAfter, LastAdded, LastIn
<1>4. ASSUME NEW j \in DOMAIN commits, j > LastIn(commits, x)
      PROVE  /\ commits[j] \in ToSet(commits)
             /\ LastIn(commits, x) < LastIn(commits, commits[j])
  <2>1. commits[j] \in ToSet(commits)
    BY DEF ToSet
  <2>2. PICK m \in Nat : m = LastIn(commits, commits[j])
    BY <1>2, <2>1
  <2>3. PICK n \in Nat : n = LastIn(commits, x)
    BY <1>2
  <2>4. j <= m /\ j \in Nat
    BY <1>1, <1>2, <2>1, <2>2
  <2> QED BY <1>4, <2>1, <2>2, <2>3, <2>4
<1>5. ASSUME NEW y \in ToSet(commits), LastIn(commits, x) < LastIn(commits, y)
      PROVE  y \in AddedAfter(x)
  <2>1. PICK j \in DOMAIN commits : j = LastIn(commits, y) /\ commits[j] = y
    BY <1>2
  <2>2. PICK n \in Nat : n = LastIn(commits, x)
    BY <1>2
  <2>3. j > n
    BY <1>1, <1>5, <2>1, <2>2
  <2> QED BY <1>3, <2>1, <2>2, <2>3
<1> QED BY <1>3, <1>4, <1>5

\* The memory holds exactly the ids that fewer than CacheSize others have been
\* added after, the oldest in front (dedup.py:32-57), after any history.
THEOREM MostRecent == Spec => []MemoryIsTheMostRecent
<1>1. IInv => MemoryIsTheMostRecent
  <2> SUFFICES ASSUME IInv PROVE MemoryIsTheMostRecent
    OBVIOUS
  <2>1. commits \in Seq(Ids) /\ LruStands(items, commits)
    BY DEF IInv
  <2>2. /\ items \in Seq(Ids) /\ Len(items) <= CacheSize /\ Len(items) \in Nat
        /\ CacheSize \in Nat
        /\ ToSet(items) \subseteq ToSet(commits)
        /\ \A x \in ToSet(commits) \ ToSet(items) : \A i \in DOMAIN items :
              LastIn(commits, x) < LastIn(commits, items[i])
        /\ Len(items) = CacheSize \/ ToSet(items) = ToSet(commits)
    BY <2>1, DedupMemoryAssumption DEF LruStands
  <2>3. IsFiniteSet(ToSet(items)) /\ Cardinality(ToSet(items)) = Len(items)
    BY <2>1, StandsDistinct
  <2>4. IsFiniteSet(ToSet(commits))
    BY <2>1, ToSetFinite
  <2>5. \A y \in ToSet(commits) : LastIn(commits, y) \in Nat
    <3>1. DOMAIN commits \subseteq Nat
      BY <2>1
    <3> QED BY <2>1, <3>1, LastFacts
  <2>6. \A y \in ToSet(items) : \E i \in DOMAIN items : y = items[i]
    BY DEF ToSet
  <2>7. ASSUME NEW x \in ToSet(items) PROVE Cardinality(AddedAfter(x)) < CacheSize
    <3>1. AddedAfter(x) = {y \in ToSet(commits) : LastIn(commits, x) < LastIn(commits, y)}
      BY <2>1, <2>2, AfterFacts
    <3>2. PICK a : a = AddedAfter(x)
      OBVIOUS
    <3>3. a \subseteq ToSet(items) \ {x}
      <4> SUFFICES ASSUME NEW y \in a PROVE y \in ToSet(items) \ {x}
        OBVIOUS
      <4>1. y \in ToSet(commits) /\ LastIn(commits, x) < LastIn(commits, y)
        BY <3>1, <3>2
      <4>2. LastIn(commits, x) \in Nat /\ LastIn(commits, y) \in Nat
        BY <2>2, <2>5, <4>1
      <4>3. y # x
        <5> SUFFICES ASSUME y = x PROVE FALSE
          OBVIOUS
        <5>1. PICK n \in Nat : n = LastIn(commits, x)
          BY <4>2
        <5>2. n < n
          BY <4>1, <5>1
        <5> QED BY <5>2
      <4>4. y \in ToSet(items)
        <5> SUFFICES ASSUME y \notin ToSet(items) PROVE FALSE
          OBVIOUS
        <5>1. LastIn(commits, y) < LastIn(commits, x)
          BY <2>2, <2>6, <4>1
        <5>2. PICK n \in Nat : n = LastIn(commits, x)
          BY <4>2
        <5>3. PICK m \in Nat : m = LastIn(commits, y)
          BY <4>2
        <5>4. m < n /\ n < m
          BY <4>1, <5>1, <5>2, <5>3
        <5> QED BY <5>4
      <4> QED BY <4>3, <4>4
    <3>4. /\ IsFiniteSet(ToSet(items) \ {x})
          /\ Cardinality(ToSet(items) \ {x}) = Len(items) - 1
      BY <2>3, FS_RemoveElement
    <3>5. IsFiniteSet(a) /\ Cardinality(a) <= Cardinality(ToSet(items) \ {x})
      BY <3>3, <3>4, FS_Subset
    <3>6. Cardinality(a) \in Nat
      BY <3>5, FS_CardinalityType
    <3> QED BY <2>2, <3>2, <3>4, <3>5, <3>6
  <2>8. ASSUME NEW x \in ToSet(commits) \ ToSet(items)
        PROVE  ~(Cardinality(AddedAfter(x)) < CacheSize)
    <3>1. AddedAfter(x) = {y \in ToSet(commits) : LastIn(commits, x) < LastIn(commits, y)}
      BY <2>1, AfterFacts
    <3>2. PICK a : a = AddedAfter(x)
      OBVIOUS
    <3>3. ToSet(items) \subseteq a
      BY <2>2, <2>6, <3>1, <3>2
    <3>4. IsFiniteSet(a)
      BY <2>4, <3>1, <3>2, FS_Subset
    <3>5. Cardinality(ToSet(items)) <= Cardinality(a) /\ Cardinality(a) \in Nat
      BY <3>3, <3>4, FS_Subset, FS_CardinalityType
    <3>6. Len(items) = CacheSize
      BY <2>2
    <3> QED BY <2>2, <2>3, <3>2, <3>5, <3>6
  <2>9. ToSet(items) = {id \in ToSet(commits) : Cardinality(AddedAfter(id)) < CacheSize}
    BY <2>2, <2>7, <2>8
  <2>10. \A i, j \in DOMAIN items :
            i < j => LastAdded(items[i]) < LastAdded(items[j])
    BY <2>1 DEF LruStands, LastIn, LastAdded
  <2> QED BY <2>9, <2>10 DEF MemoryIsTheMostRecent
<1> QED BY <1>1, Invariance, PTL

LEMMA CommitIsCacheAfter ==
    ASSUME IInv, Commit
    PROVE  ToSet(items') \in CacheAfter(ToSet(items), ToSet(pendIds))
<1>1. PICK C \in Seq(Ids) : C = commits
  BY DEF IInv
<1>2. PICK p \in Seq(Ids) : p = pendIds
  BY DEF IInv
<1>3. PICK D : D = C \o p
  OBVIOUS
<1>4. PICK l : l = items'
  OBVIOUS
<1>5. LruStands(l, D) /\ ToSet(l) \subseteq ToSet(items) \cup ToSet(p)
  <2>1. commits' = D
    BY <1>1, <1>2, <1>3 DEF Commit
  <2> QED BY <1>2, <1>4, <2>1, CommitFacts
<1>6. D \in Seq(Ids) /\ ToSet(D) = ToSet(C) \cup ToSet(p)
  BY <1>3, ConcatToSet
<1>7. ToSet(items) \subseteq ToSet(C) /\ IsFiniteSet(ToSet(items)) /\ IsFiniteSet(ToSet(p))
  <2>1. LruStands(items, C)
    BY <1>1 DEF IInv
  <2> QED BY <2>1, StandsDistinct, ToSetFinite DEF LruStands
<1>8. IsFiniteSet(ToSet(l)) /\ Cardinality(ToSet(l)) = Len(l)
  BY <1>5, <1>6, StandsDistinct
<1>9. /\ l \in Seq(Ids) /\ Len(l) <= CacheSize /\ Len(l) \in Nat /\ CacheSize \in Nat
      /\ \A x \in ToSet(D) \ ToSet(l) : \A i \in DOMAIN l : LastIn(D, x) < LastIn(D, l[i])
      /\ Len(l) = CacheSize \/ ToSet(l) = ToSet(D)
  BY <1>5, DedupMemoryAssumption DEF LruStands
<1> DEFINE all == ToSet(items) \cup ToSet(p)
<1>10. IsFiniteSet(all) /\ Cardinality(all) \in Nat /\ Cardinality(ToSet(l)) <= Cardinality(all)
  <2>1. IsFiniteSet(all)
    BY <1>7, FS_Union
  <2> QED BY <1>5, <2>1, FS_Subset, FS_CardinalityType
<1>11. Cardinality(ToSet(l)) = IF Cardinality(all) < CacheSize THEN Cardinality(all)
                                                              ELSE CacheSize
  <2>1. CASE Len(l) = CacheSize
    <3>1. ~(Cardinality(all) < CacheSize)
      BY <1>8, <1>9, <1>10, <2>1
    <3> QED BY <1>8, <2>1, <3>1
  <2>2. CASE Len(l) # CacheSize
    <3>1. ToSet(l) = all
      BY <1>5, <1>6, <1>7, <1>9, <2>2
    <3> HIDE DEF all
    <3> QED BY <1>8, <1>9, <2>2, <3>1
  <2> QED BY <2>1, <2>2
<1>12. ToSet(p) \subseteq ToSet(l) \/ ToSet(l) \subseteq ToSet(p)
  <2> SUFFICES ASSUME NEW x \in ToSet(p), x \notin ToSet(l), NEW y \in ToSet(l)
               PROVE  y \in ToSet(p)
    OBVIOUS
  <2>1. /\ Len(C) \in Nat /\ Len(p) \in Nat /\ DOMAIN p = 1..Len(p)
        /\ DOMAIN D = 1..(Len(C) + Len(p))
        /\ \A i \in 1..(Len(C) + Len(p)) :
              D[i] = IF i <= Len(C) THEN C[i] ELSE p[i - Len(C)]
    BY <1>3, ConcatProperties
  <2>2. x \in ToSet(D) /\ y \in ToSet(D)
    <3>1. ToSet(l) \subseteq ToSet(D)
      BY <1>5 DEF LruStands
    <3> QED BY <1>6, <3>1
  <2>3. PICK i \in DOMAIN l : y = l[i]
    BY DEF ToSet
  <2>4. LastIn(D, x) < LastIn(D, y)
    BY <1>9, <2>2, <2>3
  <2>5. PICK m \in DOMAIN D : m = LastIn(D, x) /\ \A j \in DOMAIN D : D[j] = x => j <= m
    BY <1>6, <2>2, LastFacts
  <2>6. PICK n \in DOMAIN D : n = LastIn(D, y) /\ D[n] = y
    BY <1>6, <2>2, LastFacts
  <2>7. PICK j \in 1..Len(p) : x = p[j]
    BY <2>1 DEF ToSet
  <2>8. Len(C) + j \in DOMAIN D /\ D[Len(C) + j] = x
    <3>1. Len(C) + j \in 1..(Len(C) + Len(p)) /\ ~(Len(C) + j <= Len(C))
          /\ (Len(C) + j) - Len(C) = j
      BY <2>1
    <3> QED BY <2>1, <2>7, <3>1
  <2>9. Len(C) + j <= m /\ m < n
    BY <2>4, <2>5, <2>6, <2>8
  <2>10. n \in 1..(Len(C) + Len(p)) /\ m \in 1..(Len(C) + Len(p))
    BY <2>1
  <2>11. ~(n <= Len(C)) /\ n - Len(C) \in 1..Len(p)
    BY <2>1, <2>9, <2>10
  <2>12. y = p[n - Len(C)]
    BY <2>1, <2>6, <2>10, <2>11
  <2> QED BY <2>1, <2>11, <2>12 DEF ToSet
<1> HIDE DEF all
<1>13. ToSet(l) \in SUBSET all
  BY <1>5 DEF all
<1> QED BY <1>2, <1>4, <1>11, <1>12, <1>13 DEF CacheAfter, all

\* What commit leaves in the memory is one of the sets that ProcessorService
\* chooses from (dedup.py:140-147): its abstraction of the list is sound.
THEOREM MemoryIsOneOfTheSets == Spec => MemoryIsCacheAfter
<1> DEFINE Step == commits' # commits /\ commits' # <<>> =>
                      ToSet(items') \in CacheAfter(ToSet(items), ToSet(pendIds))
<1>1. IInv /\ [Next]_vars => Step
  <2> SUFFICES ASSUME IInv, [Next]_vars, commits' # commits, commits' # <<>>
               PROVE  ToSet(items') \in CacheAfter(ToSet(items), ToSet(pendIds))
    OBVIOUS
  <2>1. Commit
    BY DEF Next, Process, Flush, FlushFails, Restart, vars
  <2> QED BY <2>1, CommitIsCacheAfter
<1>2. IInv /\ [Next]_vars => [Step]_vars
  BY <1>1
<1> QED BY <1>2, Invariance, PTL DEF Spec, MemoryIsCacheAfter
=============================================================================
