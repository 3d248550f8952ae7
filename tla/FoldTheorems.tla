---------------------------- MODULE FoldTheorems ----------------------------
(***************************************************************************)
(* Facts about the folds of the community modules (MapThenFoldSet, and so  *)
(* FoldLeft and MapThenSumSet).  The theorem on recursive functions has an *)
(* operator as its parameter; here the step of a fold is a table instead:  *)
(* H[x][v] is what folding x into v gives, C[s] the element of s that is   *)
(* folded in last.  Induction is the fact that a set of numbers without a  *)
(* least one is empty.                                                     *)
(***************************************************************************)
EXTENDS Integers, FiniteSets, FiniteSetTheorems, WellFoundedInduction, TLAPS

\* Induction over the natural numbers, for a set of them.
LEMMA SetInduction ==
    ASSUME NEW S, 0 \in S, \A n \in Nat : n \in S => n + 1 \in S
    PROVE  Nat \subseteq S
<1> DEFINE R == OpToRel(<, Nat)
           T == Nat \ S
<1>1. IsWellFoundedOn(R, Nat)
  BY NatLessThanWellFounded
<1>2. SUFFICES ASSUME T # {} PROVE FALSE
  OBVIOUS
<1> HIDE DEF R
<1>3. PICK n \in T : \A m \in T : <<m, n>> \notin R
  BY <1>1, <1>2, WFMin
<1>4. n \in Nat \ {0} /\ n - 1 \in Nat
  BY <1>3
<1>5. n - 1 \in T
  BY <1>3, <1>4
<1>6. <<n - 1, n>> \in R
  BY <1>4 DEF R, OpToRel
<1> QED BY <1>3, <1>5, <1>6

-----------------------------------------------------------------------------
\* C chooses an element of each set, and H stays in V.
Folds(S, V, base, C, H) ==
    /\ IsFiniteSet(S)
    /\ base \in V
    /\ \A s \in SUBSET S : s # {} => C[s] \in s
    /\ \A x \in S, v \in V : H[x][v] \in V

\* g is the table of the values that MapThenFoldSet goes through.
IsFold(g, S, V, base, C, H) ==
    /\ g = [s \in SUBSET S |-> g[s]]
    /\ g[{}] = base
    /\ \A s \in SUBSET S :
          s # {} /\ g[s \ {C[s]}] \in V => g[s] = H[C[s]][g[s \ {C[s]}]]

\* What such a table is in every case: its values are in V.
Folded(g, S, V, base, C, H) ==
    /\ g[{}] = base
    /\ \A s \in SUBSET S : g[s] \in V
    /\ \A s \in SUBSET S : s # {} => g[s] = H[C[s]][g[s \ {C[s]}]]

\* Elements may be folded in in any order.
Commutes(S, V, H) == \A x, y \in S, v \in V : H[x][H[y][v]] = H[y][H[x][v]]

AnyLast(g, S, H) == \A s \in SUBSET S : \A x \in s : g[s] = H[x][g[s \ {x}]]

\* The subsets of a finite set are finite, and smaller without an element.
LEMMA Smaller ==
    ASSUME NEW S, IsFiniteSet(S), NEW s \in SUBSET S
    PROVE  /\ IsFiniteSet(s) /\ Cardinality(s) \in Nat
           /\ Cardinality(s) <= Cardinality(S)
           /\ Cardinality(s) = 0 <=> s = {}
           /\ \A x \in s : Cardinality(s \ {x}) = Cardinality(s) - 1
<1>1. IsFiniteSet(s) /\ Cardinality(s) <= Cardinality(S)
  BY FS_Subset
<1> QED BY <1>1, FS_CardinalityType, FS_EmptySet, FS_RemoveElement

\* There is such a table, however large the set.
LEMMA FoldExists ==
    ASSUME NEW S, NEW V, NEW base, NEW C, NEW H, Folds(S, V, base, C, H)
    PROVE  \E g \in [SUBSET S -> V] : IsFold(g, S, V, base, C, H)
<1> DEFINE Step(g) == [s \in SUBSET S |->
                         IF s = {} THEN base ELSE H[C[s]][g[s \ {C[s]}]]]
           Right(g, n) == \A s \in SUBSET S : Cardinality(s) <= n => g[s] = Step(g)[s]
           N == {n \in Nat : \E g \in [SUBSET S -> V] : Right(g, n)}
<1>0. /\ IsFiniteSet(S) /\ base \in V
      /\ \A s \in SUBSET S : s # {} => C[s] \in s
      /\ \A x \in S, v \in V : H[x][v] \in V
  BY DEF Folds
<1>1. \A g \in [SUBSET S -> V] : Step(g) \in [SUBSET S -> V]
  <2> SUFFICES ASSUME NEW g \in [SUBSET S -> V], NEW s \in SUBSET S, s # {}
               PROVE  H[C[s]][g[s \ {C[s]}]] \in V
    BY <1>0
  <2>1. C[s] \in S /\ s \ {C[s]} \in SUBSET S
    BY <1>0
  <2> QED BY <1>0, <2>1
<1>2. 0 \in N
  <2>1. [s \in SUBSET S |-> base] \in [SUBSET S -> V]
    BY <1>0
  <2>2. \A s \in SUBSET S : Cardinality(s) <= 0 => s = {}
    BY <1>0, Smaller
  <2>3. Right([s \in SUBSET S |-> base], 0)
    BY <2>2
  <2> QED BY <2>1, <2>3
<1>3. ASSUME NEW n \in Nat, n \in N PROVE n + 1 \in N
  <2>1. PICK g \in [SUBSET S -> V] : Right(g, n)
    BY <1>3
  <2>2. Step(g) \in [SUBSET S -> V]
    BY <1>1
  <2>3. Right(Step(g), n + 1)
    <3> SUFFICES ASSUME NEW s \in SUBSET S, Cardinality(s) <= n + 1, s # {}
                 PROVE  H[C[s]][g[s \ {C[s]}]] = H[C[s]][Step(g)[s \ {C[s]}]]
      OBVIOUS
    <3>1. C[s] \in s /\ s \ {C[s]} \in SUBSET S
      BY <1>0
    <3>2. Cardinality(s \ {C[s]}) <= n
      BY <1>0, <3>1, Smaller
    <3> QED BY <2>1, <3>1, <3>2
  <2> HIDE DEF Step, Right
  <2> QED BY <2>2, <2>3
<1>4. Nat \subseteq N
  <2> HIDE DEF N
  <2> QED BY <1>2, <1>3, SetInduction
<1>5. PICK g \in [SUBSET S -> V] : Right(g, Cardinality(S))
  BY <1>0, <1>4, FS_CardinalityType
<1>6. \A s \in SUBSET S : g[s] = Step(g)[s]
  BY <1>0, <1>5, Smaller
<1>7. g[{}] = base
  BY <1>6
<1>8. \A s \in SUBSET S : s # {} => g[s] = H[C[s]][g[s \ {C[s]}]]
  BY <1>6
<1>9. g = [s \in SUBSET S |-> g[s]]
  OBVIOUS
<1> QED BY <1>7, <1>8, <1>9 DEF IsFold

\* Tables of two folds agree where their steps do, and have values in V.
LEMMA FoldUnique ==
    ASSUME NEW S, NEW T, S \subseteq T, NEW V, NEW base, NEW C, NEW D, NEW H, NEW J,
           Folds(S, V, base, C, H),
           \A s \in SUBSET S : s # {} => D[s] = C[s],
           \A x \in S, v \in V : J[x][v] = H[x][v],
           NEW g, NEW h, IsFold(g, S, V, base, C, H), IsFold(h, T, V, base, D, J)
    PROVE  \A s \in SUBSET S : g[s] = h[s] /\ g[s] \in V
<1> DEFINE N == {n \in Nat : \A s \in SUBSET S :
                    Cardinality(s) <= n => g[s] = h[s] /\ g[s] \in V}
<1>0. /\ IsFiniteSet(S) /\ base \in V
      /\ \A s \in SUBSET S : s # {} => C[s] \in s
      /\ \A x \in S, v \in V : H[x][v] \in V
  BY DEF Folds
<1>1. 0 \in N
  <2>1. \A s \in SUBSET S : Cardinality(s) <= 0 => s = {}
    BY <1>0, Smaller
  <2> QED BY <1>0, <2>1 DEF IsFold
<1>2. ASSUME NEW n \in Nat, n \in N PROVE n + 1 \in N
  <2>8. g[{}] = h[{}] /\ g[{}] \in V
    BY <1>0 DEF IsFold
  <2> SUFFICES ASSUME NEW s \in SUBSET S, Cardinality(s) <= n + 1
               PROVE  g[s] = h[s] /\ g[s] \in V
    OBVIOUS
  <2>9. SUFFICES ASSUME s # {} PROVE g[s] = h[s] /\ g[s] \in V
    BY <2>8
  <2>1. C[s] \in s /\ s \ {C[s]} \in SUBSET S /\ C[s] \in S /\ D[s] = C[s] /\ s \in SUBSET T
    BY <1>0, <2>9
  <2>2. Cardinality(s \ {C[s]}) <= n
    BY <1>0, <2>1, Smaller
  <2>3. g[s \ {C[s]}] = h[s \ {C[s]}] /\ g[s \ {C[s]}] \in V
    BY <1>2, <2>1, <2>2
  <2>4. g[s] = H[C[s]][g[s \ {C[s]}]]
    BY <2>3, <2>9 DEF IsFold
  <2>5. h[s] = J[C[s]][h[s \ {C[s]}]]
    BY <2>1, <2>3, <2>9 DEF IsFold
  <2>6. H[C[s]][g[s \ {C[s]}]] \in V
    BY <1>0, <2>1, <2>3
  <2>7. J[C[s]][g[s \ {C[s]}]] = H[C[s]][g[s \ {C[s]}]]
    BY <2>1, <2>3
  <2> QED BY <2>1, <2>3, <2>4, <2>5, <2>6, <2>7
<1>3. Nat \subseteq N
  <2> HIDE DEF N
  <2> QED BY <1>1, <1>2, SetInduction
<1> QED BY <1>0, <1>3, Smaller

\* The values of a fold, and how each comes from the one before.
LEMMA FoldValues ==
    ASSUME NEW S, NEW V, NEW base, NEW C, NEW H, Folds(S, V, base, C, H),
           NEW g, IsFold(g, S, V, base, C, H)
    PROVE  Folded(g, S, V, base, C, H)
<1>1. \A s \in SUBSET S : g[s] \in V
  BY FoldUnique
<1>2. ASSUME NEW s \in SUBSET S, s # {} PROVE g[s] = H[C[s]][g[s \ {C[s]}]]
  <2>1. s \ {C[s]} \in SUBSET S
    OBVIOUS
  <2> QED BY <1>1, <1>2, <2>1 DEF IsFold
<1>3. g[{}] = base
  BY DEF IsFold
<1> QED BY <1>1, <1>2, <1>3 DEF Folded

\* When elements may be folded in any order, any of them may be the last.
LEMMA FoldCommutes ==
    ASSUME NEW S, NEW V, NEW base, NEW C, NEW H, Folds(S, V, base, C, H),
           NEW g, IsFold(g, S, V, base, C, H),
           Commutes(S, V, H)
    PROVE  AnyLast(g, S, H)
<1> DEFINE N == {n \in Nat : \A s \in SUBSET S :
                    Cardinality(s) <= n => \A x \in s : g[s] = H[x][g[s \ {x}]]}
<1>0. /\ IsFiniteSet(S) /\ \A s \in SUBSET S : s # {} => C[s] \in s
  BY DEF Folds
<1>4. Folded(g, S, V, base, C, H)
  BY FoldValues
<1>1. 0 \in N
  BY <1>0, Smaller
<1>2. ASSUME NEW n \in Nat, n \in N PROVE n + 1 \in N
  <2> SUFFICES ASSUME NEW s \in SUBSET S, Cardinality(s) <= n + 1, NEW x \in s
               PROVE  g[s] = H[x][g[s \ {x}]]
    OBVIOUS
  <2> DEFINE c == C[s]
             t == s \ {c}
             u == s \ {x}
             w == s \ {c, x}
  <2>1. c \in s /\ t \in SUBSET S /\ u \in SUBSET S /\ w \in SUBSET S
    BY <1>0
  <2>2. g[s] = H[c][g[t]]
    BY <2>1, <1>4 DEF Folded
  <2>3. CASE c = x
    BY <2>2, <2>3
  <2>4. CASE c # x
    <3>1. x \in t /\ c \in u /\ t \ {x} = w /\ u \ {c} = w
      BY <2>1, <2>4
    <3>2. Cardinality(t) <= n /\ Cardinality(u) <= n
      BY <1>0, <2>1, Smaller
    <3>3. g[t] = H[x][g[w]] /\ g[u] = H[c][g[w]]
      BY <1>2, <2>1, <3>1, <3>2
    <3>4. g[w] \in V
      BY <2>1, <1>4 DEF Folded
    <3>5. H[c][H[x][g[w]]] = H[x][H[c][g[w]]]
      BY <2>1, <3>4 DEF Commutes
    <3> QED BY <2>2, <3>3, <3>5
  <2> QED BY <2>3, <2>4
<1>3. Nat \subseteq N
  <2> HIDE DEF N
  <2> QED BY <1>1, <1>2, SetInduction
<1> SUFFICES ASSUME NEW s \in SUBSET S, NEW x \in s PROVE g[s] = H[x][g[s \ {x}]]
  BY DEF AnyLast
<1>5. Cardinality(s) \in N
  BY <1>0, <1>3, Smaller
<1> QED BY <1>0, <1>5, Smaller

-----------------------------------------------------------------------------
\* A set of some of the first n numbers has a greatest one.
LEMMA GreatestExists ==
    ASSUME NEW n \in Nat, NEW s \in SUBSET (1..n), s # {}
    PROVE  \E x \in s : \A y \in s : x >= y
<1> DEFINE N == {m \in Nat : (\A y \in s : y <= m) => \E x \in s : \A y \in s : x >= y}
<1>1. 0 \in N
  <2>1. PICK y \in s : y \in 1..n
    OBVIOUS
  <2>2. ~(y <= 0)
    BY <2>1
  <2> QED BY <2>2
<1>2. ASSUME NEW m \in Nat, m \in N PROVE m + 1 \in N
  <2>1. CASE m + 1 \in s
    BY <2>1
  <2>2. CASE m + 1 \notin s
    <3>1. (\A y \in s : y <= m + 1) => \A y \in s : y <= m
      BY <2>2
    <3> QED BY <1>2, <3>1
  <2> QED BY <2>1, <2>2
<1>3. Nat \subseteq N
  <2> HIDE DEF N
  <2> QED BY <1>1, <1>2, SetInduction
<1> QED BY <1>3

\* And a least one.
LEMMA LeastExists ==
    ASSUME NEW n \in Nat, NEW I \in SUBSET (1..n), I # {}
    PROVE  \E i \in I : \A j \in I : i <= j
<1> DEFINE K == {j \in 1..n : n + 1 - j \in I}
<1>1. K \in SUBSET (1..n)
  OBVIOUS
<1>2. \A i \in I : n + 1 - i \in K
  <2> SUFFICES ASSUME NEW i \in I PROVE n + 1 - i \in K
    OBVIOUS
  <2>1. i \in 1..n /\ n + 1 - i \in 1..n /\ n + 1 - (n + 1 - i) = i
    OBVIOUS
  <2> QED BY <2>1
<1>3. PICK x \in K : \A y \in K : x >= y
  <2>1. K # {}
    BY <1>2
  <2> HIDE DEF K
  <2> QED BY <1>1, <2>1, GreatestExists
<1>4. n + 1 - x \in I /\ x \in 1..n
  OBVIOUS
<1>5. \A j \in I : n + 1 - x <= j
  <2> SUFFICES ASSUME NEW j \in I PROVE n + 1 - x <= j
    OBVIOUS
  <2>1. n + 1 - j \in K /\ j \in 1..n
    BY <1>2
  <2>2. x >= n + 1 - j
    BY <1>3, <2>1
  <2> QED BY <1>4, <2>1, <2>2
<1> QED BY <1>4, <1>5

\* Folding from left to right: the greatest index is folded in last.
LEMMA FoldInOrder ==
    ASSUME NEW n \in Nat, NEW V, NEW base, NEW C, NEW H, Folds(1..n, V, base, C, H),
           \A s \in SUBSET (1..n) : s # {} => C[s] \in s /\ \A y \in s : C[s] >= y,
           NEW g, IsFold(g, 1..n, V, base, C, H)
    PROVE  /\ g[1..0] = base
           /\ \A i \in 0..n : g[1..i] \in V
           /\ \A i \in 1..n : g[1..i] = H[i][g[1..(i - 1)]]
<1>1. 1..0 = {}
  OBVIOUS
<1>4. Folded(g, 1..n, V, base, C, H)
  BY FoldValues
<1>2. \A i \in 0..n : 1..i \in SUBSET (1..n)
  OBVIOUS
<1>3. ASSUME NEW i \in 1..n PROVE g[1..i] = H[i][g[1..(i - 1)]]
  <2>1. 1..i \in SUBSET (1..n) /\ i \in 1..i
    OBVIOUS
  <2>5. 1..i # {}
    BY <2>1
  <2>2. C[1..i] = i
    <3>1. C[1..i] \in 1..i /\ C[1..i] >= i
      BY <2>1, <2>5
    <3> QED BY <3>1
  <2>3. (1..i) \ {i} = 1..(i - 1)
    OBVIOUS
  <2>4. g[1..i] = H[C[1..i]][g[(1..i) \ {C[1..i]}]]
    BY <2>1, <2>5, <1>4 DEF Folded
  <2> QED BY <2>2, <2>3, <2>4
<1> QED BY <1>1, <1>2, <1>3, <1>4 DEF Folded

-----------------------------------------------------------------------------
\* The greatest of a set of numbers, as FoldLeft chooses it.
Greatest(s) == CHOOSE x \in s : \A y \in s : x >= y

\* H folds n indices in, one after the other.
Tabled(n, V, base, H) ==
    /\ n \in Nat /\ base \in V
    /\ \A i \in 1..n, v \in V : H[i][v] \in V

\* What FoldLeft goes through when it stays in V, and that it does.
TakesGreatest(G, n, V, base, H) ==
    /\ G = [s \in SUBSET (1..n) |-> G[s]]
    /\ G[{}] = base
    /\ \A s \in SUBSET (1..n) : s # {} =>
          LET x == Greatest(s) IN G[s \ {x}] \in V => G[s] = H[x][G[s \ {x}]]

GreatestTaken(h, n, V, base, H) ==
    /\ h = [s \in SUBSET (1..n) |-> h[s]]
    /\ h[{}] = base
    /\ \A s \in SUBSET (1..n) : h[s] \in V
    /\ \A s \in SUBSET (1..n) : s # {} =>
          LET x == Greatest(s) IN x \in s /\ h[s \ {x}] \in V /\ h[s] = H[x][h[s \ {x}]]

\* g[k] is what the first k indices amount to.
Steps(g, n, V, base, H) ==
    /\ g \in [0..n -> V]
    /\ g[0] = base
    /\ \A k \in 1..n : g[k] = H[k][g[k - 1]]

\* The greatest of the first numbers.
LEMMA GreatestLast ==
    ASSUME NEW n \in Nat, NEW s \in SUBSET (1..n), s # {}
    PROVE  Greatest(s) \in s /\ \A y \in s : Greatest(s) >= y
<1>1. \E x \in s : \A y \in s : x >= y
  BY GreatestExists
<1> QED BY <1>1 DEF Greatest

\* A table of choices makes such a fold one of those above.
LEMMA GreatestFolds ==
    ASSUME NEW n, NEW V, NEW base, NEW H, Tabled(n, V, base, H)
    PROVE  LET C == [s \in SUBSET (1..n) |-> Greatest(s)]
           IN  /\ n \in Nat /\ Folds(1..n, V, base, C, H)
               /\ \A s \in SUBSET (1..n) : s # {} => C[s] \in s /\ \A y \in s : C[s] >= y
<1> DEFINE C == [s \in SUBSET (1..n) |-> Greatest(s)]
<1>1. n \in Nat /\ base \in V /\ IsFiniteSet(1..n)
      /\ \A i \in 1..n, v \in V : H[i][v] \in V
  BY FS_Interval DEF Tabled
<1>2. \A s \in SUBSET (1..n) : s # {} => C[s] \in s /\ \A y \in s : C[s] >= y
  BY <1>1, GreatestLast
<1> HIDE DEF C
<1>3. Folds(1..n, V, base, C, H)
  BY <1>1, <1>2 DEF Folds
<1> QED BY <1>1, <1>2, <1>3 DEF C

\* There is a table that takes the greatest index last.
LEMMA GreatestTakenExists ==
    ASSUME NEW n, NEW V, NEW base, NEW H, Tabled(n, V, base, H)
    PROVE  \E h : GreatestTaken(h, n, V, base, H)
<1> DEFINE C == [s \in SUBSET (1..n) |-> Greatest(s)]
           S == 1..n
<1>1. Folds(S, V, base, C, H) /\ \A s \in SUBSET S : s # {} => C[s] \in s
  BY GreatestFolds
<1>2. \A s \in SUBSET S : C[s] = Greatest(s)
  OBVIOUS
<1> HIDE DEF C, S
<1>3. PICK h : IsFold(h, S, V, base, C, H)
  BY <1>1, FoldExists
<1>4. Folded(h, S, V, base, C, H)
  BY <1>1, <1>3, FoldValues
<1>5. h = [s \in SUBSET S |-> h[s]] /\ h[{}] = base /\ \A s \in SUBSET S : h[s] \in V
  BY <1>3, <1>4 DEF IsFold, Folded
<1>6. ASSUME NEW s \in SUBSET S, s # {}
      PROVE  /\ Greatest(s) \in s /\ h[s \ {Greatest(s)}] \in V
             /\ h[s] = H[Greatest(s)][h[s \ {Greatest(s)}]]
  <2>1. C[s] \in s /\ C[s] = Greatest(s)
    BY <1>1, <1>2, <1>6
  <2>2. h[s] = H[C[s]][h[s \ {C[s]}]]
    BY <1>4, <1>6 DEF Folded
  <2> QED BY <1>5, <2>1, <2>2
<1>7. GreatestTaken(h, n, V, base, H)
  BY <1>5, <1>6 DEF GreatestTaken, S
<1> QED BY <1>7

\* Such a table comes to the value of one index after the other.
LEMMA GreatestInOrder ==
    ASSUME NEW n, NEW V, NEW base, NEW H, Tabled(n, V, base, H),
           NEW G, TakesGreatest(G, n, V, base, H)
    PROVE  \E g : Steps(g, n, V, base, H) /\ g[n] = G[1..n]
<1> DEFINE C == [s \in SUBSET (1..n) |-> Greatest(s)]
<1>1. /\ n \in Nat /\ Folds(1..n, V, base, C, H)
      /\ \A s \in SUBSET (1..n) : s # {} => C[s] \in s /\ \A y \in s : C[s] >= y
  BY GreatestFolds
<1>2. \A s \in SUBSET (1..n) : C[s] = Greatest(s)
  OBVIOUS
<1> HIDE DEF C
<1>3. IsFold(G, 1..n, V, base, C, H)
  <2>1. ASSUME NEW s \in SUBSET (1..n), s # {}, G[s \ {C[s]}] \in V
        PROVE  G[s] = H[C[s]][G[s \ {C[s]}]]
    BY <1>2, <2>1 DEF TakesGreatest
  <2>2. G = [s \in SUBSET (1..n) |-> G[s]] /\ G[{}] = base
    BY DEF TakesGreatest
  <2> QED BY <2>1, <2>2 DEF IsFold
<1>4. /\ G[1..0] = base
      /\ \A i \in 0..n : G[1..i] \in V
      /\ \A i \in 1..n : G[1..i] = H[i][G[1..(i - 1)]]
  BY <1>1, <1>3, FoldInOrder
<1> DEFINE g == [k \in 0..n |-> G[1..k]]
<1>5. g \in [0..n -> V] /\ g[0] = base /\ g[n] = G[1..n]
  BY <1>1, <1>4
<1>6. ASSUME NEW k \in 1..n PROVE g[k] = H[k][g[k - 1]]
  <2>1. k \in 0..n /\ k - 1 \in 0..n
    BY <1>1
  <2>2. g[k] = G[1..k] /\ g[k - 1] = G[1..(k - 1)]
    BY <2>1
  <2> HIDE DEF g
  <2> QED BY <1>4, <2>2
<1> HIDE DEF g
<1>7. Steps(g, n, V, base, H)
  BY <1>5, <1>6 DEF Steps
<1> QED BY <1>5, <1>7
=============================================================================
