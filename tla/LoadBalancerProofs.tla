------------------------- MODULE LoadBalancerProofs --------------------------
(***************************************************************************)
(* The load balancer for every number of endpoints and every window size:  *)
(* the ring's indices stay inside it, the slot written is the slot         *)
(* evicted, the ring implements the sliding window of LatencyWindow, the   *)
(* running sum is the sum of that window, and the scan finds the cheapest  *)
(* endpoint, which is a direct one while there is any.                     *)
(***************************************************************************)
EXTENDS LoadBalancer, FiniteSetTheorems, WellFoundedInduction, TLAPS

\* Every set of natural numbers has a least member.
LEMMA LeastNatural ==
    ASSUME NEW T \in SUBSET Nat, T # {}
    PROVE  \E m \in T : \A k \in T : m <= k
  <1> DEFINE R == OpToRel(<, Nat)
  <1>1. IsWellFoundedOn(R, Nat)
    BY NatLessThanWellFounded
  <1>2. \A m, k \in Nat : k < m => <<k, m>> \in R
    BY DEF OpToRel
  <1> HIDE DEF R
  <1>3. PICK m \in T : \A k \in T : ~ (<<k, m>> \in R)
    BY <1>1, WFMin
  <1>4. ASSUME NEW k \in T PROVE m <= k
    <2>1. m \in Nat /\ k \in Nat /\ ~ (k < m)
      BY <1>2, <1>3
    <2> QED BY <2>1
  <1> QED BY <1>4

\* Induction over the natural numbers, as a statement about a set.
LEMMA InductionOnNat ==
    ASSUME NEW S, 0 \in S, \A n \in Nat : n \in S => n + 1 \in S
    PROVE  Nat \subseteq S
  <1> SUFFICES ASSUME Nat \ S # {} PROVE FALSE
    OBVIOUS
  <1>1. PICK m \in Nat \ S : \A k \in Nat \ S : m <= k
    BY LeastNatural
  <1>2. m - 1 \in Nat /\ (m - 1) + 1 = m
    BY <1>1
  <1>3. m - 1 \in S
    BY <1>1, <1>2
  <1> QED BY <1>2, <1>3

\* The fold behind SumFunctionOnSet, as a function of the subsets of S.
Pick(s) == CHOOSE x \in s : TRUE
Unfold(it, f, s) == IF s = {} THEN 0 ELSE f[Pick(s)] + it[s \ {Pick(s)}]
Iter(f, S) == CHOOSE it : it = [s \in SUBSET S |-> Unfold(it, f, s)]

LEMMA SumIsIter == \A f, S : SumFunctionOnSet(f, S) = Iter(f, S)[S]
  BY DEF SumFunctionOnSet, FoldFunctionOnSet, MapThenFoldSet, Iter, Unfold, Pick

\* What is left of a finite set when one member has been taken out.
LEMMA Rest ==
    ASSUME NEW S, IsFiniteSet(S), NEW s \in SUBSET S, s # {}
    PROVE  /\ Pick(s) \in s
           /\ s \ {Pick(s)} \in SUBSET S
           /\ IsFiniteSet(s) /\ Cardinality(s) \in Nat /\ Cardinality(s) > 0
           /\ Cardinality(s \ {Pick(s)}) = Cardinality(s) - 1
  <1>1. Pick(s) \in s
    BY DEF Pick
  <1>2. IsFiniteSet(s)
    BY FS_Subset
  <1>3. Cardinality(s) \in Nat /\ Cardinality(s) # 0
    BY <1>2, FS_CardinalityType, FS_EmptySet
  <1>4. Cardinality(s \ {Pick(s)}) = Cardinality(s) - 1
    BY <1>1, <1>2, FS_RemoveElement
  <1>5. Cardinality(s) > 0
    BY <1>3
  <1>6. s \ {Pick(s)} \in SUBSET S
    OBVIOUS
  <1> QED BY <1>1, <1>2, <1>3, <1>4, <1>5, <1>6

\* There is a function that satisfies the fold's recursive equation.
LEMMA IterExists ==
    ASSUME NEW S, IsFiniteSet(S), NEW f
    PROVE  \E it : it = [s \in SUBSET S |-> Unfold(it, f, s)]
  <1> DEFINE Upto(g, n) == \A s \in SUBSET S : Cardinality(s) <= n => g[s] = Unfold(g, f, s)
             Good == {n \in Nat : \E g : g = [s \in SUBSET S |-> g[s]] /\ Upto(g, n)}
  <1>0. \A s \in SUBSET S : Cardinality(s) \in Nat /\ (Cardinality(s) = 0 => s = {}) /\ Cardinality(s) <= Cardinality(S)
    BY FS_Subset, FS_EmptySet, FS_CardinalityType
  <1>1. 0 \in Good
    <2> DEFINE g == [s \in SUBSET S |-> 0]
    <2>1. \A s \in SUBSET S : Cardinality(s) <= 0 => g[s] = Unfold(g, f, s)
      BY <1>0 DEF Unfold
    <2>2. g = [s \in SUBSET S |-> g[s]]
      OBVIOUS
    <2> HIDE DEF g
    <2> QED BY <2>1, <2>2
  <1>2. ASSUME NEW n \in Nat, n \in Good PROVE n + 1 \in Good
    <2>1. PICK g : g = [s \in SUBSET S |-> g[s]] /\ Upto(g, n)
      BY <1>2
    <2> DEFINE h == [s \in SUBSET S |-> IF Cardinality(s) <= n THEN g[s] ELSE Unfold(g, f, s)]
    <2>2. ASSUME NEW s \in SUBSET S, Cardinality(s) <= n + 1 PROVE Unfold(h, f, s) = Unfold(g, f, s)
      <3>1. CASE s = {}
        BY <3>1 DEF Unfold
      <3>2. CASE s # {}
        <4>1. s \ {Pick(s)} \in SUBSET S /\ Cardinality(s \ {Pick(s)}) <= n
          BY <2>2, <3>2, Rest, <1>0
        <4>2. h[s \ {Pick(s)}] = g[s \ {Pick(s)}]
          BY <4>1
        <4> HIDE DEF h
        <4> QED BY <4>2, <3>2 DEF Unfold
      <3> QED BY <3>1, <3>2
    <2>3. ASSUME NEW s \in SUBSET S, Cardinality(s) <= n + 1 PROVE h[s] = Unfold(g, f, s)
      BY <2>1
    <2>5. h = [s \in SUBSET S |-> h[s]]
      OBVIOUS
    <2> HIDE DEF h
    <2>4. Upto(h, n + 1)
      BY <2>2, <2>3
    <2>6. n + 1 \in Nat
      OBVIOUS
    <2> QED BY <2>4, <2>5, <2>6
  <1>3. Nat \subseteq Good
    <2> HIDE DEF Good
    <2> QED BY <1>1, <1>2, InductionOnNat
  <1>4. PICK g : g = [s \in SUBSET S |-> g[s]] /\ Upto(g, Cardinality(S))
    BY <1>3, FS_CardinalityType
  <1>5. \A s \in SUBSET S : g[s] = Unfold(g, f, s)
    BY <1>0, <1>4
  <1>6. g = [s \in SUBSET S |-> Unfold(g, f, s)]
    BY <1>4, <1>5
  <1> QED BY <1>6

\* The recursion of Folds on the subsets of a finite set.
LEMMA IterUnfolds ==
    ASSUME NEW S, IsFiniteSet(S), NEW f, NEW s \in SUBSET S
    PROVE  Iter(f, S)[s] = Unfold(Iter(f, S), f, s)
  <1> DEFINE Solves(it) == it = [t \in SUBSET S |-> Unfold(it, f, t)]
  <1>1. \E it : Solves(it)
    BY IterExists, SMTT(30)
  <1>2. Solves(CHOOSE it : Solves(it))
    <2> HIDE DEF Solves
    <2> QED BY <1>1, Zenon
  <1>3. Solves(Iter(f, S))
    BY <1>2 DEF Iter
  <1> DEFINE it == Iter(f, S)
  <1> HIDE DEF it
  <1>4. it = [t \in SUBSET S |-> Unfold(it, f, t)]
    BY <1>3 DEF it
  <1>5. it[s] = Unfold(it, f, s)
    BY <1>4
  <1> QED BY <1>5 DEF it

\* Induction over the subsets of a finite set: if the good ones include every one
\* all of whose smaller subsets are good.
LEMMA InductionOnSubsets ==
    ASSUME NEW S, IsFiniteSet(S), NEW G,
           \A s \in SUBSET S : (\A t \in SUBSET S : Cardinality(t) < Cardinality(s) => t \in G) => s \in G
    PROVE  SUBSET S \subseteq G
  <1> DEFINE Good == {n \in Nat : \A s \in SUBSET S : Cardinality(s) < n => s \in G}
  <1>0. \A s \in SUBSET S : Cardinality(s) \in Nat
    BY FS_Subset, FS_CardinalityType
  <1>1. 0 \in Good
    BY <1>0
  <1>2. ASSUME NEW n \in Nat, n \in Good PROVE n + 1 \in Good
    <2>1. ASSUME NEW s \in SUBSET S, Cardinality(s) < n + 1 PROVE s \in G
      BY <1>0, <1>2, <2>1
    <2> QED BY <2>1
  <1>3. Nat \subseteq Good
    <2> HIDE DEF Good
    <2> QED BY <1>1, <1>2, InductionOnNat
  <1>4. ASSUME NEW s \in SUBSET S PROVE s \in G
    <2>1. Cardinality(s) + 1 \in Good
      BY <1>0, <1>3
    <2> QED BY <1>0, <2>1
  <1> QED BY <1>4

\* Two functions have the same values on a set.
Agree(f, g, S) == \A x \in S : f[x] = g[x]

\* The recursion looks only at the values of f on the set, and not at the set it
\* started from.
LEMMA IterSame ==
    ASSUME NEW S, IsFiniteSet(S), NEW T \in SUBSET S, NEW f, NEW g, Agree(f, g, T)
    PROVE  \A s \in SUBSET T : Iter(f, S)[s] = Iter(g, T)[s]
  <1> DEFINE it == Iter(f, S)
             jt == Iter(g, T)
             G == {s \in SUBSET T : it[s] = jt[s]}
  <1>0. IsFiniteSet(T)
    BY FS_Subset
  <1>1. ASSUME NEW s \in SUBSET T, \A t \in SUBSET T : Cardinality(t) < Cardinality(s) => t \in G PROVE s \in G
    <2>1. /\ it[s] = IF s = {} THEN 0 ELSE f[Pick(s)] + it[s \ {Pick(s)}]
          /\ jt[s] = IF s = {} THEN 0 ELSE g[Pick(s)] + jt[s \ {Pick(s)}]
      BY <1>0, IterUnfolds DEF Unfold
    <2>2. s # {} => s \ {Pick(s)} \in G /\ Pick(s) \in T
      BY <1>0, <1>1, Rest
    <2> HIDE DEF it, jt
    <2>3. it[s] = jt[s]
      BY <2>1, <2>2 DEF Agree
    <2> QED BY <2>3
  <1>2. SUBSET T \subseteq G
    <2> HIDE DEF G
    <2> QED BY <1>0, <1>1, InductionOnSubsets
  <1> QED BY <1>2

\* The fold over a subset is the sum over that subset.
LEMMA IterIsSum ==
    ASSUME NEW S, IsFiniteSet(S), NEW f, NEW s \in SUBSET S
    PROVE  Iter(f, S)[s] = SumFunctionOnSet(f, s)
  <1>1. IsFiniteSet(s)
    BY FS_Subset
  <1>2. Iter(f, S)[s] = Iter(f, s)[s]
    BY <1>1, IterSame DEF Agree
  <1> QED BY <1>2, SumIsIter

\* A sum is one of its members and the sum of the others.
LEMMA SumUnfolds ==
    ASSUME NEW S, IsFiniteSet(S), NEW f
    PROVE  SumFunctionOnSet(f, S) =
             IF S = {} THEN 0 ELSE f[Pick(S)] + SumFunctionOnSet(f, S \ {Pick(S)})
  <1>1. Iter(f, S)[S] = IF S = {} THEN 0 ELSE f[Pick(S)] + Iter(f, S)[S \ {Pick(S)}]
    BY IterUnfolds DEF Unfold
  <1> DEFINE it == Iter(f, S)
  <1>2. \A s \in SUBSET S : it[s] = SumFunctionOnSet(f, s)
    BY IterIsSum
  <1> HIDE DEF it
  <1>3. S \ {Pick(S)} \in SUBSET S /\ S \in SUBSET S
    OBVIOUS
  <1> QED BY <1>1, <1>2, <1>3 DEF it

\* Sums of integers are integers.
LEMMA SumType ==
    ASSUME NEW S, IsFiniteSet(S), NEW f, \A x \in S : f[x] \in Int
    PROVE  SumFunctionOnSet(f, S) \in Int
  <1> DEFINE G == {s \in SUBSET S : SumFunctionOnSet(f, s) \in Int}
  <1>1. ASSUME NEW s \in SUBSET S, \A t \in SUBSET S : Cardinality(t) < Cardinality(s) => t \in G PROVE s \in G
    <2>1. SumFunctionOnSet(f, s) = IF s = {} THEN 0 ELSE f[Pick(s)] + SumFunctionOnSet(f, s \ {Pick(s)})
      BY SumUnfolds, FS_Subset
    <2>2. s # {} => s \ {Pick(s)} \in G /\ Pick(s) \in S
      BY <1>1, Rest
    <2>3. SumFunctionOnSet(f, s) \in Int
      BY <2>1, <2>2
    <2> QED BY <2>3
  <1>2. SUBSET S \subseteq G
    <2> HIDE DEF G
    <2> QED BY <1>1, InductionOnSubsets
  <1> QED BY <1>2

\* The sum of nothing is 0.
LEMMA SumEmpty == \A f : SumFunctionOnSet(f, {}) = 0
  BY SumUnfolds, FS_EmptySet

\* Any member can be taken out: the order the fold chooses does not matter.
LEMMA SumTakeOut ==
    ASSUME NEW S, IsFiniteSet(S), NEW f, \A x \in S : f[x] \in Int, NEW m \in S
    PROVE  SumFunctionOnSet(f, S) = f[m] + SumFunctionOnSet(f, S \ {m})
  <1> DEFINE sum(s) == SumFunctionOnSet(f, s)
             G == {s \in SUBSET S : \A c \in s : sum(s) = f[c] + sum(s \ {c})}
  <1>0. \A s \in SUBSET S : sum(s) \in Int
    BY SumType, FS_Subset
  <1>1. ASSUME NEW s \in SUBSET S, \A t \in SUBSET S : Cardinality(t) < Cardinality(s) => t \in G PROVE s \in G
    <2> SUFFICES ASSUME NEW c \in s PROVE sum(s) = f[c] + sum(s \ {c})
      OBVIOUS
    <2> DEFINE d == Pick(s)
               rest == (s \ {c}) \ {d}
    <2>1. d \in s /\ IsFiniteSet(s) /\ Cardinality(s) \in Nat /\ Cardinality(s \ {d}) = Cardinality(s) - 1
      BY Rest
    <2>2. sum(s) = f[d] + sum(s \ {d})
      BY <2>1, SumUnfolds
    <2> HIDE DEF d
    <2>3. CASE c # d
      <3>1. Cardinality(s \ {c}) = Cardinality(s) - 1
        BY <2>1, FS_RemoveElement
      <3>2. s \ {c} \in G /\ s \ {d} \in G
        BY <1>1, <2>1, <3>1
      <3>5. (s \ {d}) \ {c} = rest
        OBVIOUS
      <3>3. sum(s \ {d}) = f[c] + sum(rest)
        BY <2>3, <3>2, <3>5
      <3>4. sum(s \ {c}) = f[d] + sum(rest)
        BY <2>1, <2>3, <3>2
      <3>6. f[c] \in Int /\ f[d] \in Int /\ sum(rest) \in Int
        BY <2>1, <1>0
      <3> HIDE DEF sum, rest, G
      <3> QED BY <2>2, <3>3, <3>4, <3>6
    <2> QED BY <2>2, <2>3
  <1>2. SUBSET S \subseteq G
    <2> HIDE DEF G
    <2> QED BY <1>1, InductionOnSubsets
  <1> QED BY <1>2

\* A sum depends on the values that are summed only.
LEMMA SumAgrees ==
    ASSUME NEW S, IsFiniteSet(S), NEW f, NEW g, Agree(f, g, S)
    PROVE  SumFunctionOnSet(f, S) = SumFunctionOnSet(g, S)
  <1>0. S \in SUBSET S
    OBVIOUS
  <1>1. \A s \in SUBSET S : Iter(f, S)[s] = Iter(g, S)[s]
    BY <1>0, IterSame
  <1> QED BY <1>1, SumIsIter

\* Replacing one value.
LEMMA SumReplaces ==
    ASSUME NEW S, IsFiniteSet(S), NEW f \in [S -> Int], NEW m \in S, NEW v \in Int
    PROVE  SumFunctionOnSet([f EXCEPT ![m] = v], S) = SumFunctionOnSet(f, S) - f[m] + v
  <1> DEFINE g == [f EXCEPT ![m] = v]
  <1>1. SumFunctionOnSet(f, S) = f[m] + SumFunctionOnSet(f, S \ {m})
    BY SumTakeOut
  <1>2. SumFunctionOnSet(g, S) = v + SumFunctionOnSet(g, S \ {m})
    <2>1. g[m] = v /\ \A x \in S : g[x] \in Int
      OBVIOUS
    <2> HIDE DEF g
    <2> QED BY <2>1, SumTakeOut
  <1>3. IsFiniteSet(S \ {m})
    BY FS_RemoveElement
  <1>4. SumFunctionOnSet(g, S \ {m}) = SumFunctionOnSet(f, S \ {m})
    <2>1. Agree(g, f, S \ {m})
      BY DEF Agree
    <2> HIDE DEF g
    <2> QED BY <1>3, <2>1, SumAgrees
  <1>5. SumFunctionOnSet(f, S \ {m}) \in Int /\ f[m] \in Int
    BY <1>3, SumType
  <1> HIDE DEF g
  <1> QED BY <1>1, <1>2, <1>4, <1>5 DEF g

\* b leads from the places of f's values one to one to all the places of g's.
Rearranges(b, f, S, g, T) ==
    /\ b \in [S -> T]
    /\ \A x, y \in S : b[x] = b[y] => x = y
    /\ \A y \in T : \E x \in S : b[x] = y
    /\ \A x \in S : f[x] = g[b[x]]

\* Summing in another arrangement.
LEMMA SumRearranged ==
    ASSUME NEW S, IsFiniteSet(S), NEW T, IsFiniteSet(T), NEW f, NEW g \in [T -> Int], NEW b,
           Rearranges(b, f, S, g, T)
    PROVE  SumFunctionOnSet(f, S) = SumFunctionOnSet(g, T)
  <1> DEFINE Image(s) == {b[x] : x \in s}
             G == {s \in SUBSET S : SumFunctionOnSet(f, s) = SumFunctionOnSet(g, Image(s))}
  <1>1. ASSUME NEW s \in SUBSET S, \A t \in SUBSET S : Cardinality(t) < Cardinality(s) => t \in G PROVE s \in G
    <2> DEFINE d == Pick(s)
    <2>1. CASE s = {}
      <3>1. Image(s) = {}
        BY <2>1
      <3> QED BY <2>1, <3>1, SumEmpty
    <2>2. CASE s # {}
      <3>1. d \in s /\ s \ {d} \in G /\ IsFiniteSet(s)
        <4> HIDE DEF G
        <4> QED BY <1>1, <2>2, Rest
      <3>2. SumFunctionOnSet(f, s) = f[d] + SumFunctionOnSet(f, s \ {d})
        BY <2>2, <3>1, SumUnfolds
      <3> HIDE DEF d
      <3>3. Image(s \ {d}) = Image(s) \ {b[d]} /\ b[d] \in Image(s) /\ Image(s) \in SUBSET T
        BY <3>1 DEF Rearranges
      <3>4. SumFunctionOnSet(g, Image(s)) = g[b[d]] + SumFunctionOnSet(g, Image(s) \ {b[d]})
        <4>1. IsFiniteSet(Image(s)) /\ \A x \in Image(s) : g[x] \in Int
          BY <3>3, FS_Subset
        <4> HIDE DEF Image
        <4> QED BY <3>3, <4>1, SumTakeOut
      <3>5. f[d] = g[b[d]]
        BY <3>1 DEF Rearranges
      <3>6. SumFunctionOnSet(f, s \ {d}) = SumFunctionOnSet(g, Image(s) \ {b[d]})
        BY <3>1, <3>3
      <3> HIDE DEF Image
      <3>7. SumFunctionOnSet(f, s) = SumFunctionOnSet(g, Image(s))
        BY <3>2, <3>4, <3>5, <3>6
      <3> QED BY <3>7
    <2> QED BY <2>1, <2>2
  <1>2. SUBSET S \subseteq G
    <2> HIDE DEF G
    <2> QED BY <1>1, InductionOnSubsets
  <1>3. Image(S) = T
    BY DEF Rearranges
  <1>4. SumFunctionOnSet(f, S) = SumFunctionOnSet(g, Image(S))
    BY <1>2
  <1> QED BY <1>3, <1>4
------------------------------------------------------------------------------
(* The ring *)

\* One step along the ring stays in it, and wraps exactly at the last slot
\* (head++; head %= HISTORY_WINDOW_SIZE).
LEMMA StepOfRing ==
    ASSUME NEW i \in Slots
    PROVE  /\ (i + 1) % HISTORY_WINDOW_SIZE \in Slots
           /\ (i + 1) % HISTORY_WINDOW_SIZE = IF i = HISTORY_WINDOW_SIZE - 1 THEN 0 ELSE i + 1
  BY WindowAssumption DEF Slots

\* The slot k places after h, without the modulus.
LEMMA OffsetInRing ==
    ASSUME NEW h \in Slots, NEW k \in 0 .. HISTORY_WINDOW_SIZE - 1
    PROVE  (h + k) % HISTORY_WINDOW_SIZE =
             IF h + k < HISTORY_WINDOW_SIZE THEN h + k ELSE h + k - HISTORY_WINDOW_SIZE
  BY WindowAssumption DEF Slots

\* Seen from the next head, the k-th slot is the (k+1)-th seen from head, and the
\* last one is head itself: the slot that is being overwritten.
LEMMA SlideOffset ==
    ASSUME NEW h \in Slots, NEW k \in 1 .. HISTORY_WINDOW_SIZE
    PROVE  LET at == (((h + 1) % HISTORY_WINDOW_SIZE) + k - 1) % HISTORY_WINDOW_SIZE IN
           /\ k = HISTORY_WINDOW_SIZE => at = h
           /\ k # HISTORY_WINDOW_SIZE => /\ at = (h + k) % HISTORY_WINDOW_SIZE
                                         /\ at \in Slots
                                         /\ at # h
  <1> DEFINE W == HISTORY_WINDOW_SIZE
             n == (h + 1) % W
  <1>1. W \in Nat /\ W > 0 /\ h \in 0 .. W - 1 /\ k \in 1..W
    BY WindowAssumption DEF Slots
  <1>2. n \in Slots /\ n = IF h = W - 1 THEN 0 ELSE h + 1
    BY StepOfRing
  <1>3. k - 1 \in 0 .. W - 1
    BY <1>1
  <1>4. (n + (k - 1)) % W = IF n + (k - 1) < W THEN n + (k - 1) ELSE n + (k - 1) - W
    BY <1>2, <1>3, OffsetInRing
  <1>5. k # W => (h + k) % W = IF h + k < W THEN h + k ELSE h + k - W
    BY <1>1, OffsetInRing
  <1>6. n \in Int /\ n + (k - 1) = n + k - 1
    BY <1>1, <1>2
  <1> HIDE DEF n
  <1>7. /\ k = W => (n + k - 1) % W = h
        /\ k # W => /\ (n + k - 1) % W = (h + k) % W
                    /\ (n + k - 1) % W \in 0 .. W - 1
                    /\ (n + k - 1) % W # h
    BY <1>1, <1>2, <1>4, <1>5, <1>6
  <1> QED BY <1>1, <1>7 DEF n, Slots
------------------------------------------------------------------------------
\* The inductive invariant: the ring's indices move together, tail right behind head.
RingInv == LBTypeOK /\ RingFull

\* init_load_balancer fills every ring and puts the tail behind the head.
LEMMA RingInvInit == LBInit => RingInv
  BY EndsAssumption, WindowAssumption, TimesAssumption
     DEF LBInit, RingInv, LBTypeOK, RingFull, Diffs, Slots

\* Giving out a task touches one counter and no ring.
LEMMA SelectKeepsRing ==
    ASSUME RingInv, NEW e \in Ends, select_endpoint_time_based(e)
    PROVE  RingInv' /\ UNCHANGED <<diff_time_history, head, tail>>
  BY DEF RingInv, LBTypeOK, RingFull, select_endpoint_time_based

\* Giving out a task leaves the rings alone.
LEMMA GiveKeepsRing == RingInv /\ Give => RingInv' /\ UNCHANGED <<diff_time_history, head, tail>>
  BY SelectKeepsRing DEF Give

\* Finishing a task keeps both indices in the ring and tail right behind head.
LEMMA FinishKeepsRing ==
    ASSUME RingInv, NEW e \in Ends, NEW d \in DiffTimes, finish_endpoint_task_time_based(e, d)
    PROVE  RingInv'
  <1>1. (tail[e] + 1) % HISTORY_WINDOW_SIZE = head[e]
    BY DEF RingInv, RingFull
  <1>2. head[e] \in Slots /\ tail[e] \in Slots
    BY DEF RingInv, LBTypeOK
  <1>3. (head[e] + 1) % HISTORY_WINDOW_SIZE \in Slots
    BY <1>2, StepOfRing
  <1>4. /\ head' = [head EXCEPT ![e] = (head[e] + 1) % HISTORY_WINDOW_SIZE]
        /\ tail' = [tail EXCEPT ![e] = head[e]]
        /\ diff_time_history' = [diff_time_history EXCEPT ![e][head[e]] = d]
    BY <1>1 DEF finish_endpoint_task_time_based
  <1>5. diff_time_history[e][head[e]] \in Int /\ d \in Int
    BY <1>2, TimesAssumption DEF RingInv, LBTypeOK, Diffs
  <1>6. remain' \in [Ends -> Int] /\ diff_time_sum' \in [Ends -> Int]
    BY <1>5 DEF RingInv, LBTypeOK, finish_endpoint_task_time_based
  <1>7. diff_time_history' \in [Ends -> [Slots -> Diffs]]
    BY <1>2, <1>4 DEF RingInv, LBTypeOK, Diffs
  <1>8. head' \in [Ends -> Slots] /\ tail' \in [Ends -> Slots]
    BY <1>2, <1>3, <1>4 DEF RingInv, LBTypeOK
  <1>9. ASSUME NEW f \in Ends PROVE (tail'[f] + 1) % HISTORY_WINDOW_SIZE = head'[f]
    <2>1. CASE f = e
      BY <1>4, <2>1 DEF RingInv, LBTypeOK
    <2>2. CASE f # e
      BY <1>4, <2>2 DEF RingInv, LBTypeOK, RingFull
    <2> QED BY <2>1, <2>2
  <1> QED BY <1>6, <1>7, <1>8, <1>9 DEF RingInv, LBTypeOK, RingFull

\* Every call of the balancer keeps the rings in order.
LEMMA RingInvStep == RingInv /\ [LBNext]_lbVars => RingInv'
  <1> SUFFICES ASSUME RingInv, [LBNext]_lbVars PROVE RingInv'
    OBVIOUS
  <1>1. CASE Give
    BY <1>1, GiveKeepsRing
  <1>2. ASSUME NEW e \in Ends, Take(e) PROVE RingInv'
    BY <1>2, FinishKeepsRing DEF Take
  <1>3. CASE UNCHANGED lbVars
    BY <1>3 DEF lbVars, RingInv, LBTypeOK, RingFull
  <1> QED BY <1>1, <1>2, <1>3 DEF LBNext

\* Whatever the number of endpoints, the window size and the order of answers,
\* the indices of finish_endpoint_task_time_based never leave the ring.
THEOREM TypeCorrect == LBSpec => []LBTypeOK
  <1>1. RingInv => LBTypeOK
    BY DEF RingInv
  <1> QED BY <1>1, RingInvInit, RingInvStep, PTL DEF LBSpec

\* ... and the slot tail moves to is always the one whose entry is evicted.
THEOREM TailBehindHead == LBSpec => []RingFull
  <1>1. RingInv => RingFull
    BY DEF RingInv
  <1> QED BY <1>1, RingInvInit, RingInvStep, PTL DEF LBSpec
------------------------------------------------------------------------------
\* A finished task slides the window of its endpoint by one and leaves the
\* windows of the others alone.
LEMMA FinishSlides ==
    ASSUME RingInv, NEW e \in Ends, NEW d \in DiffTimes, finish_endpoint_task_time_based(e, d)
    PROVE  Window!Push(e, d)
  <1> DEFINE W == HISTORY_WINDOW_SIZE
  <1>1. head[e] \in Slots /\ W \in Nat /\ W > 0 /\ Slots = 0 .. W - 1
    BY WindowAssumption DEF RingInv, LBTypeOK, Slots
  <1>2. /\ head' = [head EXCEPT ![e] = (head[e] + 1) % W]
        /\ diff_time_history' = [diff_time_history EXCEPT ![e][head[e]] = d]
    BY DEF finish_endpoint_task_time_based, RingInv, RingFull
  <1>3. ASSUME NEW f \in Ends, f # e PROVE HistoryOf(f)' = HistoryOf(f)
    BY <1>2, <1>3 DEF HistoryOf, RingInv, LBTypeOK
  <1>4. ASSUME NEW k \in 1..W
        PROVE  HistoryOf(e)'[k] = IF k = W THEN d ELSE HistoryOf(e)[k + 1]
    <2> DEFINE at == (((head[e] + 1) % W) + k - 1) % W
    <2>1. HistoryOf(e)'[k] = diff_time_history'[e][at]
      BY <1>2 DEF HistoryOf, RingInv, LBTypeOK
    <2>2. /\ k = W => at = head[e]
          /\ k # W => at = (head[e] + k) % W /\ at \in Slots /\ at # head[e]
      BY <1>1, SlideOffset
    <2>3. CASE k = W
      BY <1>1, <1>2, <2>1, <2>2, <2>3 DEF RingInv, LBTypeOK
    <2>4. CASE k # W
      <3>1. at # head[e] /\ at \in Slots /\ at = (head[e] + (k + 1) - 1) % W
        BY <1>1, <2>2, <2>4
      <3>2. diff_time_history'[e][at] = diff_time_history[e][at]
        BY <1>1, <1>2, <3>1 DEF RingInv, LBTypeOK
      <3>3. k + 1 \in 1..W
        BY <1>1, <2>4
      <3> QED BY <2>1, <2>4, <3>1, <3>2, <3>3 DEF HistoryOf
    <2> QED BY <2>3, <2>4
  <1>5. HistoryOf(e)' = [k \in 1..W |-> IF k = W THEN d ELSE HistoryOf(e)[k + 1]]
    BY <1>4 DEF HistoryOf
  <1> QED BY <1>3, <1>5 DEF Window!Push

\* A new ring is a window full of the initial response time.
LEMMA WindowInit == LBInit => Window!Init
  <1> SUFFICES ASSUME LBInit, NEW e \in Ends, NEW k \in 1..HISTORY_WINDOW_SIZE
               PROVE  diff_time_history[e][(head[e] + k - 1) % HISTORY_WINDOW_SIZE] = InitDiff
    BY DEF Window!Init, HistoryOf
  <1>1. (0 + k - 1) % HISTORY_WINDOW_SIZE \in Slots
    BY WindowAssumption DEF Slots
  <1> QED BY <1>1 DEF LBInit

\* The ring with its running indices implements the sliding window of
\* LatencyWindow: every step of the balancer slides one window or none.
THEOREM RingImplementsWindow == LBSpec => WindowRefined
  <1>1. RingInv /\ [LBNext]_lbVars => [Window!Next]_([e \in Ends |-> HistoryOf(e)])
    <2> SUFFICES ASSUME RingInv, [LBNext]_lbVars
                 PROVE  [Window!Next]_([e \in Ends |-> HistoryOf(e)])
      OBVIOUS
    <2>1. CASE Give
      BY <2>1, GiveKeepsRing DEF HistoryOf
    <2>2. ASSUME NEW e \in Ends, Take(e) PROVE Window!Next
      BY <2>2, FinishSlides DEF Take, Window!Next
    <2>3. CASE UNCHANGED lbVars
      BY <2>3 DEF lbVars, HistoryOf
    <2> QED BY <2>1, <2>2, <2>3 DEF LBNext
  <1> QED BY <1>1, WindowInit, RingInvInit, RingInvStep, PTL DEF LBSpec, WindowRefined, Window!Spec
------------------------------------------------------------------------------
(* The running sum *)

\* A window full of one value.
LEMMA SumConstant ==
    ASSUME NEW v \in Int, NEW n \in Nat
    PROVE  SumFunctionOnSet([s \in 0 .. n - 1 |-> v], 0 .. n - 1) = v * n
  <1> DEFINE all == [s \in Nat |-> v]
             G == {m \in Nat : SumFunctionOnSet(all, 0 .. m - 1) = v * m}
  <1>1. 0 \in G
    <2>1. 0 .. 0 - 1 = {} /\ v * 0 = 0
      OBVIOUS
    <2> QED BY <2>1, SumEmpty
  <1>2. ASSUME NEW m \in Nat, m \in G PROVE m + 1 \in G
    <2>1. IsFiniteSet(0 .. m) /\ m \in 0 .. m /\ \A x \in 0 .. m : all[x] \in Int
      BY FS_Interval
    <2>2. all[m] = v
      OBVIOUS
    <2>3. (0 .. m) \ {m} = 0 .. m - 1 /\ (m + 1) - 1 = m
      OBVIOUS
    <2> HIDE DEF all
    <2>4. SumFunctionOnSet(all, 0 .. m) = v + SumFunctionOnSet(all, 0 .. m - 1)
      BY <2>1, <2>2, <2>3, SumTakeOut
    <2>5. v * (m + 1) = v + v * m
      OBVIOUS
    <2>6. SumFunctionOnSet(all, 0 .. (m + 1) - 1) = v * (m + 1)
      BY <1>2, <2>3, <2>4, <2>5
    <2> QED BY <2>6
  <1>3. Nat \subseteq G
    <2> HIDE DEF G
    <2> QED BY <1>1, <1>2, InductionOnNat
  <1>4. Agree([s \in 0 .. n - 1 |-> v], all, 0 .. n - 1)
    BY DEF Agree
  <1>5. IsFiniteSet(0 .. n - 1)
    BY FS_Interval
  <1>6. SumFunctionOnSet(all, 0 .. n - 1) = v * n
    BY <1>3
  <1> HIDE DEF all
  <1> QED BY <1>4, <1>5, <1>6, SumAgrees

\* A ring has finitely many slots.
LEMMA SlotsFinite == IsFiniteSet(Slots)
  BY FS_Interval, WindowAssumption DEF Slots

\* The inductive invariant of the sum.
SumInv == RingInv /\ SumIsWindow

\* A ring is a function of its slots, and its sum the sum over them.
LEMMA SumOfRing ==
    ASSUME RingInv, NEW e \in Ends
    PROVE  /\ diff_time_history[e] \in [Slots -> Int]
           /\ SumFunction(diff_time_history[e]) = SumFunctionOnSet(diff_time_history[e], Slots)
  <1>1. diff_time_history[e] \in [Slots -> Int]
    BY TimesAssumption DEF RingInv, LBTypeOK, Diffs
  <1> QED BY <1>1 DEF SumFunction

\* The first sum is the window size times the initial response time.
LEMMA SumInvInit == LBInit => SumInv
  <1> SUFFICES ASSUME LBInit PROVE SumInv
    OBVIOUS
  <1>1. RingInv
    BY RingInvInit
  <1>2. ASSUME NEW e \in Ends PROVE diff_time_sum[e] = SumFunction(diff_time_history[e])
    <2>1. diff_time_history[e] = [s \in 0 .. HISTORY_WINDOW_SIZE - 1 |-> InitDiff]
      BY DEF LBInit, Slots
    <2>2. SumFunctionOnSet(diff_time_history[e], Slots) = InitDiff * HISTORY_WINDOW_SIZE
      BY <2>1, SumConstant, WindowAssumption, TimesAssumption DEF Slots
    <2>3. diff_time_sum[e] = InitDiff * HISTORY_WINDOW_SIZE
      BY DEF LBInit
    <2> QED BY <1>1, <2>2, <2>3, SumOfRing
  <1> QED BY <1>1, <1>2 DEF SumInv, SumIsWindow

\* The evicted entry is the one that is overwritten, so taking the one from the sum
\* and adding the other keeps it right.
LEMMA FinishKeepsSum ==
    ASSUME SumInv, NEW e \in Ends, NEW d \in DiffTimes, finish_endpoint_task_time_based(e, d)
    PROVE  SumInv'
  <1> USE DEF SumInv
  <1>1. RingInv'
    BY FinishKeepsRing
  <1> DEFINE ring == diff_time_history[e]
             h == head[e]
  <1>2. h \in Slots /\ ring \in [Slots -> Int] /\ d \in Int
    BY SumOfRing, TimesAssumption DEF RingInv, LBTypeOK
  <1>3. /\ diff_time_history' = [diff_time_history EXCEPT ![e] = [ring EXCEPT ![h] = d]]
        /\ diff_time_sum' = [diff_time_sum EXCEPT ![e] = diff_time_sum[e] - ring[h] + d]
    BY DEF finish_endpoint_task_time_based, RingInv, RingFull, LBTypeOK
  <1>4. SumFunctionOnSet([ring EXCEPT ![h] = d], Slots) = SumFunctionOnSet(ring, Slots) - ring[h] + d
    BY <1>2, SlotsFinite, SumReplaces
  <1>5. ASSUME NEW f \in Ends PROVE diff_time_sum'[f] = SumFunction(diff_time_history'[f])
    <2>1. CASE f = e
      <3>1. diff_time_history'[e] = [ring EXCEPT ![h] = d]
        BY <1>3 DEF RingInv, LBTypeOK
      <3>2. diff_time_sum'[e] = diff_time_sum[e] - ring[h] + d
        BY <1>3 DEF RingInv, LBTypeOK
      <3>3. diff_time_sum[e] = SumFunctionOnSet(ring, Slots)
        BY SumOfRing DEF SumIsWindow
      <3>4. SumFunction(diff_time_history'[e]) = SumFunctionOnSet(diff_time_history'[e], Slots)
        BY <1>2, <3>1 DEF SumFunction
      <3> HIDE DEF ring, h
      <3> QED BY <1>4, <2>1, <3>1, <3>2, <3>3, <3>4
    <2>2. CASE f # e
      <3>1. diff_time_history'[f] = diff_time_history[f] /\ diff_time_sum'[f] = diff_time_sum[f]
        BY <1>3, <2>2 DEF RingInv, LBTypeOK
      <3> QED BY <3>1 DEF SumIsWindow
    <2> QED BY <2>1, <2>2
  <1> QED BY <1>1, <1>5 DEF SumIsWindow

\* Every call of the balancer keeps the sums right.
LEMMA SumInvStep == SumInv /\ [LBNext]_lbVars => SumInv'
  <1> SUFFICES ASSUME SumInv, [LBNext]_lbVars PROVE SumInv'
    OBVIOUS
  <1>0. RingInv'
    BY RingInvStep DEF SumInv
  <1>1. CASE Give
    BY <1>0, <1>1 DEF Give, select_endpoint_time_based, SumInv, SumIsWindow
  <1>2. ASSUME NEW e \in Ends, Take(e) PROVE SumInv'
    BY <1>2, FinishKeepsSum DEF Take
  <1>3. CASE UNCHANGED lbVars
    BY <1>0, <1>3 DEF lbVars, SumInv, SumIsWindow
  <1> QED BY <1>1, <1>2, <1>3 DEF LBNext

\* The running sum is the sum of the history, however often the ring has wrapped,
\* although finish_endpoint_task_time_based only ever adjusts it.
THEOREM SumHolds == LBSpec => []SumIsWindow
  <1>1. SumInv => SumIsWindow
    BY DEF SumInv
  <1> QED BY <1>1, SumInvInit, SumInvStep, PTL DEF LBSpec
------------------------------------------------------------------------------
(* The choice of an endpoint *)

\* One look of the scan at endpoint i, when g knows what comes of the higher ones.
Look(g, i) ==
    IF i = num_of_ends - 1 THEN i
    ELSE IF estimate_cost(i) < estimate_cost(g[i + 1]) THEN i ELSE g[i + 1]

\* The scan of select_endpoint_time_based as a function of where it has come to.
Scan == CHOOSE g : g = [i \in Ends |-> Look(g, i)]

LEMMA MinIdxIsScan == min_idx = Scan[0]
  BY DEF min_idx, Scan, Look

\* There is a function that satisfies the scan's recursive equation.
LEMMA ScanExists == \E g : g = [i \in Ends |-> Look(g, i)]
  <1> DEFINE N == num_of_ends
             From(g, n) == \A i \in Ends : i >= N - 1 - n => g[i] = Look(g, i)
             Good == {n \in Nat : \E g : g = [i \in Ends |-> g[i]] /\ From(g, n)}
  <1>0. N \in Nat /\ N > 0 /\ Ends = 0 .. N - 1
    BY EndsAssumption DEF Ends
  <1>1. 0 \in Good
    <2> DEFINE g == [i \in Ends |-> i]
    <2>1. \A i \in Ends : i >= N - 1 - 0 => g[i] = Look(g, i)
      BY <1>0 DEF Look
    <2>2. g = [i \in Ends |-> g[i]]
      OBVIOUS
    <2> HIDE DEF g
    <2> QED BY <2>1, <2>2
  <1>2. ASSUME NEW n \in Nat, n \in Good PROVE n + 1 \in Good
    <2>1. PICK g : g = [i \in Ends |-> g[i]] /\ From(g, n)
      BY <1>2
    <2> DEFINE h == [i \in Ends |-> IF i >= N - 1 - n THEN g[i] ELSE Look(g, i)]
    <2>2. ASSUME NEW i \in Ends, i >= N - 1 - (n + 1) PROVE Look(h, i) = Look(g, i)
      <3>1. i # N - 1 => h[i + 1] = g[i + 1]
        BY <1>0, <2>2
      <3> HIDE DEF h
      <3> QED BY <3>1 DEF Look
    <2>3. ASSUME NEW i \in Ends PROVE h[i] = Look(g, i)
      BY <2>1
    <2>4. h = [i \in Ends |-> h[i]]
      OBVIOUS
    <2> HIDE DEF h
    <2>5. From(h, n + 1)
      BY <2>2, <2>3
    <2>6. n + 1 \in Nat
      OBVIOUS
    <2> QED BY <2>4, <2>5, <2>6
  <1>3. Nat \subseteq Good
    <2> HIDE DEF Good
    <2> QED BY <1>1, <1>2, InductionOnNat
  <1>4. PICK g : g = [i \in Ends |-> g[i]] /\ From(g, N)
    BY <1>0, <1>3
  <1>5. \A i \in Ends : g[i] = Look(g, i)
    BY <1>0, <1>4
  <1>6. g = [i \in Ends |-> Look(g, i)]
    BY <1>4, <1>5
  <1> QED BY <1>6

\* One step of the scan.
LEMMA ScanUnfolds == \A i \in Ends : Scan[i] = Look(Scan, i)
  <1> DEFINE Solves(g) == g = [i \in Ends |-> Look(g, i)]
  <1>1. \E g : Solves(g)
    BY ScanExists
  <1>2. Solves(CHOOSE g : Solves(g))
    <2> HIDE DEF Solves
    <2> QED BY <1>1, Zenon
  <1>3. Scan = [i \in Ends |-> Look(Scan, i)]
    BY <1>2 DEF Scan
  <1>4. ASSUME NEW g, g = [i \in Ends |-> Look(g, i)] PROVE \A i \in Ends : g[i] = Look(g, i)
    BY <1>4
  <1> QED BY <1>3, <1>4

\* Costs are integers, so that they can be compared.
LEMMA CostType ==
    ASSUME LBTypeOK
    PROVE  \A e \in Ends : estimate_cost(e) \in Int
  BY TimesAssumption DEF LBTypeOK, estimate_cost

\* Nobody from i on is cheaper than m, nor as cheap and behind it.
CheapestFrom(m, i) ==
    /\ m \in Ends /\ i <= m
    /\ \A f \in Ends : f >= i => /\ estimate_cost(m) <= estimate_cost(f)
                                 /\ f > m => estimate_cost(m) < estimate_cost(f)

\* The scan of select_endpoint_time_based, down from the last endpoint.
LEMMA ScanFindsCheapest ==
    ASSUME LBTypeOK
    PROVE  CheapestFrom(min_idx, 0)
  <1> DEFINE N == num_of_ends
             Good == {n \in Nat : \A i \in Ends : i >= N - 1 - n => CheapestFrom(Scan[i], i)}
  <1>0. N \in Nat /\ N > 0 /\ Ends = 0 .. N - 1
    BY EndsAssumption DEF Ends
  <1>1. 0 \in Good
    <2>1. ASSUME NEW i \in Ends, i >= N - 1 - 0 PROVE CheapestFrom(Scan[i], i)
      <3>1. i = N - 1 /\ Scan[i] = i
        BY <1>0, <2>1, ScanUnfolds DEF Look
      <3>2. \A f \in Ends : f >= i => f = i
        BY <1>0, <3>1
      <3> QED BY <1>0, <3>1, <3>2, CostType DEF CheapestFrom
    <2> QED BY <2>1
  <1>2. ASSUME NEW n \in Nat, n \in Good PROVE n + 1 \in Good
    <2>1. ASSUME NEW i \in Ends, i >= N - 1 - (n + 1) PROVE CheapestFrom(Scan[i], i)
      <3>1. CASE i >= N - 1 - n
        BY <1>2, <3>1
      <3>2. CASE i < N - 1 - n
        <4> DEFINE m == Scan[i + 1]
        <4>1. i # N - 1 /\ i + 1 \in Ends /\ i + 1 >= N - 1 - n
          BY <1>0, <2>1, <3>2
        <4>2. CheapestFrom(m, i + 1)
          BY <1>2, <4>1
        <4>3. Scan[i] = IF estimate_cost(i) < estimate_cost(m) THEN i ELSE m
          BY <4>1, ScanUnfolds DEF Look
        <4>4. \A f \in Ends : f >= i => f = i \/ f >= i + 1
          BY <1>0
        <4>5. i \in Int /\ \A f \in Ends : f \in Int /\ estimate_cost(f) \in Int
          BY <1>0, CostType
        <4> HIDE DEF m
        <4>6. CASE estimate_cost(i) < estimate_cost(m)
          <5>1. Scan[i] = i
            BY <4>3, <4>6
          <5>2. ASSUME NEW f \in Ends, f >= i
                PROVE  estimate_cost(i) <= estimate_cost(f) /\ (f > i => estimate_cost(i) < estimate_cost(f))
            <6>1. f = i \/ estimate_cost(m) <= estimate_cost(f)
              BY <4>2, <4>4, <5>2 DEF CheapestFrom
            <6>2. m \in Ends
              BY <4>2 DEF CheapestFrom
            <6> QED BY <4>5, <4>6, <6>1, <6>2
          <5> QED BY <4>5, <5>1, <5>2 DEF CheapestFrom
        <4>7. CASE ~(estimate_cost(i) < estimate_cost(m))
          <5>1. Scan[i] = m
            BY <4>3, <4>7
          <5>2. m \in Ends /\ i + 1 <= m
            BY <4>2 DEF CheapestFrom
          <5>3. ASSUME NEW f \in Ends, f >= i
                PROVE  estimate_cost(m) <= estimate_cost(f) /\ (f > m => estimate_cost(m) < estimate_cost(f))
            <6>1. CASE f = i
              BY <4>5, <4>7, <5>2, <6>1
            <6>2. CASE f >= i + 1
              BY <4>2, <6>2 DEF CheapestFrom
            <6> QED BY <4>4, <5>3, <6>1, <6>2
          <5>4. i <= m
            BY <4>5, <5>2
          <5> QED BY <5>1, <5>2, <5>3, <5>4 DEF CheapestFrom
        <4> QED BY <4>6, <4>7
      <3> QED BY <1>0, <3>1, <3>2
    <2>2. n + 1 \in Nat
      OBVIOUS
    <2> QED BY <2>1, <2>2
  <1>3. Nat \subseteq Good
    <2> HIDE DEF Good
    <2> QED BY <1>1, <1>2, InductionOnNat
  <1>4. CheapestFrom(Scan[0], 0)
    BY <1>0, <1>3
  <1> QED BY <1>4, MinIdxIsScan

\* The window, oldest entry first, has the sum of the ring.
LEMMA SumOfWindow ==
    ASSUME SumInv, NEW e \in Ends
    PROVE  SumFunction(HistoryOf(e)) = diff_time_sum[e]
  <1> DEFINE W == HISTORY_WINDOW_SIZE
             ring == diff_time_history[e]
             h == head[e]
             at == [k \in 1 .. W |-> (h + k - 1) % W]
  <1>0. W \in Nat /\ W > 0 /\ h \in Slots /\ Slots = 0 .. W - 1
    BY WindowAssumption DEF SumInv, RingInv, LBTypeOK, Slots
  <1>1. ASSUME NEW k \in 1 .. W PROVE at[k] = IF h + k - 1 < W THEN h + k - 1 ELSE h + k - 1 - W
    <2>1. k - 1 \in 0 .. W - 1 /\ h + (k - 1) = h + k - 1
      BY <1>0
    <2>2. (h + (k - 1)) % W = IF h + (k - 1) < W THEN h + (k - 1) ELSE h + (k - 1) - W
      BY <1>0, <2>1, OffsetInRing
    <2> QED BY <2>1, <2>2
  <1>2. HistoryOf(e) = [k \in 1 .. W |-> ring[at[k]]]
    BY DEF HistoryOf
  <1> HIDE DEF h
  <1>3. at \in [1 .. W -> Slots]
    BY <1>0, <1>1
  <1>4. \A x, y \in 1 .. W : at[x] = at[y] => x = y
    <2> HIDE DEF at
    <2> QED BY <1>0, <1>1
  <1>5. ASSUME NEW s \in Slots PROVE \E k \in 1 .. W : at[k] = s
    <2> DEFINE k == IF s >= h THEN s - h + 1 ELSE s - h + 1 + W
    <2>1. k \in 1 .. W
      BY <1>0
    <2>2. at[k] = s
      <3> HIDE DEF at
      <3> QED BY <1>0, <1>1, <2>1
    <2> HIDE DEF at, k
    <2> QED BY <2>1, <2>2
  <1>7. ring \in [Slots -> Int] /\ SumFunctionOnSet(ring, Slots) = diff_time_sum[e]
    BY SumOfRing DEF SumInv, SumIsWindow
  <1>8. \A k \in 1 .. W : HistoryOf(e)[k] = ring[at[k]]
    BY <1>2
  <1>9. IsFiniteSet(1 .. W)
    BY <1>0, FS_Interval
  <1>10. SumFunction(HistoryOf(e)) = SumFunctionOnSet(HistoryOf(e), 1 .. W)
    BY <1>2 DEF SumFunction
  <1>11. SumFunctionOnSet(HistoryOf(e), 1 .. W) = SumFunctionOnSet(ring, Slots)
    <2>1. Rearranges(at, HistoryOf(e), 1 .. W, ring, Slots)
      <3>1. \A x \in 1 .. W : HistoryOf(e)[x] = ring[at[x]]
        BY <1>8
      <3> HIDE DEF at, ring, W
      <3> QED BY <1>3, <1>4, <1>5, <3>1, Zenon DEF Rearranges
    <2> HIDE DEF at, ring
    <2> QED BY <1>7, <1>9, <2>1, SlotsFinite, SumRearranged
  <1> QED BY <1>7, <1>10, <1>11

\* With the right sum, estimate_cost is the policy's cost over the window.
LEMMA CostIsRefCost ==
    ASSUME SumInv, NEW e \in Ends
    PROVE  estimate_cost(e) = RefCost(e)
  <1>1. remain[e] \in Int /\ penalty_send_limit[e] \in Int /\ direct_send_limit[e] \in Int
    BY LimitsAssumption DEF SumInv, RingInv, LBTypeOK
  <1> QED BY <1>1, SumOfWindow DEF estimate_cost, RefCost

\* A task is given to the endpoint the scan finds, and no step but giving adds one.
LEMMA OnlyScanAdds ==
    ASSUME SumInv, [LBNext]_lbVars, NEW e \in Ends, remain'[e] > remain[e]
    PROVE  e = min_idx
  <1>0. remain \in [Ends -> Int]
    BY DEF SumInv, RingInv, LBTypeOK
  <1>1. CASE Give
    <2>1. PICK f \in Ends : select_endpoint_time_based(f)
      BY <1>1 DEF Give
    <2>2. f = min_idx /\ remain' = [remain EXCEPT ![f] = @ + 1]
      BY <2>1 DEF select_endpoint_time_based
    <2>3. e # f => remain'[e] = remain[e]
      BY <1>0, <2>2
    <2>4. remain[e] \in Int
      BY <1>0
    <2> QED BY <2>2, <2>3, <2>4
  <1>2. ASSUME NEW f \in Ends, Take(f) PROVE FALSE
    <2>1. remain' = [remain EXCEPT ![f] = @ - 1]
      BY <1>2 DEF Take, finish_endpoint_task_time_based
    <2>2. remain'[e] = IF e = f THEN remain[e] - 1 ELSE remain[e]
      BY <1>0, <2>1
    <2>3. remain[e] \in Int
      BY <1>0
    <2> QED BY <2>2, <2>3
  <1>3. CASE UNCHANGED lbVars
    BY <1>0, <1>3 DEF lbVars
  <1> QED BY <1>1, <1>2, <1>3 DEF LBNext

\* select_endpoint_time_based gives every task to an endpoint whose cost, read off
\* the window of its response times, no other undercuts, for every number of
\* endpoints, all limits and window sizes.
THEOREM CheapestSelected == LBSpec => SelectsCheapest
  <1> DEFINE Cheapest ==
        \A e \in Ends : remain'[e] > remain[e] =>
          \A f \in Ends : /\ RefCost(e) <= RefCost(f)
                          /\ f > e => RefCost(e) < RefCost(f)
  <1>1. SumInv /\ [LBNext]_lbVars => [Cheapest]_lbVars
    <2> SUFFICES ASSUME SumInv, [LBNext]_lbVars, NEW e \in Ends, remain'[e] > remain[e], NEW f \in Ends
                 PROVE  /\ RefCost(e) <= RefCost(f)
                        /\ f > e => RefCost(e) < RefCost(f)
      OBVIOUS
    <2>1. CheapestFrom(e, 0)
      BY OnlyScanAdds, ScanFindsCheapest DEF SumInv, RingInv
    <2>2. f >= 0
      BY EndsAssumption DEF Ends
    <2>3. estimate_cost(e) <= estimate_cost(f) /\ (f > e => estimate_cost(e) < estimate_cost(f))
      BY <2>1, <2>2 DEF CheapestFrom
    <2> QED BY <2>3, CostIsRefCost
  <1> QED BY <1>1, SumInvInit, SumInvStep, PTL DEF LBSpec, SelectsCheapest
------------------------------------------------------------------------------
\* The clock goes forward between a request and its answer.
ClockForward == INT64_MAX > 0 /\ \A d \in Diffs : d > 0

\* A sum of positive response times is positive.
LEMMA SumPositive ==
    ASSUME NEW S, IsFiniteSet(S), NEW f \in [S -> Nat], \A x \in S : f[x] > 0, NEW m \in S
    PROVE  SumFunctionOnSet(f, S) > 0
  <1> DEFINE G == {s \in SUBSET S : SumFunctionOnSet(f, s) >= 0}
  <1>1. ASSUME NEW s \in SUBSET S, \A t \in SUBSET S : Cardinality(t) < Cardinality(s) => t \in G PROVE s \in G
    <2>1. SumFunctionOnSet(f, s) = IF s = {} THEN 0 ELSE f[Pick(s)] + SumFunctionOnSet(f, s \ {Pick(s)})
      BY SumUnfolds, FS_Subset
    <2>2. s # {} => s \ {Pick(s)} \in G /\ Pick(s) \in S
      <3> HIDE DEF G
      <3> QED BY <1>1, Rest
    <2>3. SumFunctionOnSet(f, s \ {Pick(s)}) \in Int
      <3>1. s \ {Pick(s)} \in SUBSET S /\ \A x \in s \ {Pick(s)} : f[x] \in Int
        OBVIOUS
      <3> QED BY <3>1, SumType, FS_Subset
    <2>4. s # {} => f[Pick(s)] \in Nat
      BY <2>2
    <2>5. SumFunctionOnSet(f, s) >= 0
      BY <2>1, <2>2, <2>3, <2>4
    <2> QED BY <2>5
  <1>2. SUBSET S \subseteq G
    <2> HIDE DEF G
    <2> QED BY <1>1, InductionOnSubsets
  <1>3. SumFunctionOnSet(f, S) = f[m] + SumFunctionOnSet(f, S \ {m})
    BY SumTakeOut
  <1>4. SumFunctionOnSet(f, S \ {m}) >= 0 /\ SumFunctionOnSet(f, S \ {m}) \in Int
    BY <1>2, SumType, FS_Subset
  <1>5. f[m] \in Nat /\ f[m] > 0
    OBVIOUS
  <1> QED BY <1>3, <1>4, <1>5

\* With a clock that goes forward, estimate_cost's 0 is below every other cost: no
\* endpoint below its direct limit is passed over for one that has reached its own.
THEOREM DirectServedFirst == ASSUME ClockForward PROVE LBSpec => DirectFirst
  <1> DEFINE Direct ==
        \A e \in Ends : remain'[e] > remain[e] /\ remain[e] >= direct_send_limit[e] =>
          \A f \in Ends : remain[f] < penalty_send_limit[f] => remain[f] >= direct_send_limit[f]
  <1>1. SumInv /\ [LBNext]_lbVars => [Direct]_lbVars
    <2> SUFFICES ASSUME SumInv, [LBNext]_lbVars, NEW e \in Ends, remain'[e] > remain[e],
                        remain[e] >= direct_send_limit[e], NEW f \in Ends, remain[f] < penalty_send_limit[f],
                        ~(remain[f] >= direct_send_limit[f])
                 PROVE  FALSE
      OBVIOUS
    <2>1. /\ \A i \in Ends : remain[i] \in Int /\ penalty_send_limit[i] \in Int /\ direct_send_limit[i] \in Int
      BY LimitsAssumption DEF SumInv, RingInv, LBTypeOK
    <2>2. estimate_cost(f) = 0
      BY <2>1 DEF estimate_cost
    <2>3. diff_time_sum[e] > 0
      <3>1. diff_time_history[e] \in [Slots -> Nat] /\ \A s \in Slots : diff_time_history[e][s] > 0
        <4>1. diff_time_history[e] \in [Slots -> Diffs]
          BY DEF SumInv, RingInv, LBTypeOK
        <4>2. Diffs \subseteq Int /\ \A d \in Diffs : d > 0
          BY TimesAssumption DEF ClockForward, Diffs
        <4>3. Diffs \subseteq Nat
          BY <4>2
        <4> QED BY <4>1, <4>2, <4>3
      <3>2. 0 \in Slots
        BY WindowAssumption DEF Slots
      <3>3. diff_time_sum[e] = SumFunctionOnSet(diff_time_history[e], Slots)
        BY SumOfRing DEF SumInv, SumIsWindow
      <3> QED BY <3>1, <3>2, <3>3, SlotsFinite, SumPositive
    <2>4. estimate_cost(e) = INT64_MAX \/ estimate_cost(e) = diff_time_sum[e]
      BY <2>1 DEF estimate_cost
    <2>5. CheapestFrom(e, 0) /\ f >= 0
      BY OnlyScanAdds, ScanFindsCheapest, EndsAssumption DEF SumInv, RingInv, Ends
    <2>6. estimate_cost(e) <= 0
      BY <2>2, <2>5 DEF CheapestFrom
    <2>7. INT64_MAX \in Int /\ diff_time_sum[e] \in Int /\ INT64_MAX > 0
      BY TimesAssumption DEF ClockForward, SumInv, RingInv, LBTypeOK
    <2> QED BY <2>3, <2>4, <2>6, <2>7
  <1> QED BY <1>1, SumInvInit, SumInvStep, PTL DEF LBSpec, DirectFirst
==============================================================================
