-------------------------- MODULE TranslationProofs --------------------------
(***************************************************************************)
(* What a provider agent makes of one request, for every form, every width *)
(* of a register and both builds: the package is the one the pairs of the  *)
(* form make, nothing is overrun, what lay behind the form lies there      *)
(* again, and the response is framed as the request was.                   *)
(***************************************************************************)
EXTENDS Translation, FiniteSetTheorems, SequenceTheorems, WellFoundedInduction, TLAPS

(* Numbers *)

\* Every set of natural numbers has a least member.
LEMMA LeastNatural ==
    ASSUME NEW T \in SUBSET Nat, T # {}
    PROVE  \E m \in T : \A k \in T : m <= k
  <1> DEFINE R == OpToRel(<, Nat)
  <1>1. IsWellFoundedOn(R, Nat)
    BY NatLessThanWellFounded
  <1>2. \A m, k \in Nat : k < m => <<k, m>> \in R
    BY DEF OpToRel
  <1> HIDE DEF R
  <1>3. PICK m \in T : \A k \in T : ~ (<<k, m>> \in R)
    BY <1>1, WFMin
  <1>4. ASSUME NEW k \in T PROVE m <= k
    <2>1. m \in Nat /\ k \in Nat /\ ~ (k < m)
      BY <1>2, <1>3
    <2> QED BY <2>1
  <1> QED BY <1>4

\* Induction over the natural numbers, as a statement about a set.
LEMMA InductionOnNat ==
    ASSUME NEW S, 0 \in S, \A n \in Nat : n \in S => n + 1 \in S
    PROVE  Nat \subseteq S
  <1> SUFFICES ASSUME Nat \ S # {} PROVE FALSE
    OBVIOUS
  <1>1. PICK m \in Nat \ S : \A k \in Nat \ S : m <= k
    BY LeastNatural
  <1>2. m - 1 \in Nat /\ (m - 1) + 1 = m
    BY <1>1
  <1>3. m - 1 \in S
    BY <1>1, <1>2
  <1> QED BY <1>2, <1>3

\* Quotient and remainder are unique.
LEMMA QuotientUnique ==
    ASSUME NEW b \in Nat, b > 0, NEW q \in Nat, NEW r \in 0 .. b - 1
    PROVE  (b * q + r) \div b = q
  OBVIOUS

\* Division with remainder.
LEMMA DivMod ==
    ASSUME NEW b \in Nat, b > 0, NEW n \in Nat
    PROVE  n \div b \in Nat /\ n % b \in 0 .. b - 1 /\ n = b * (n \div b) + (n % b)
  <1>1. PICK q \in Nat : n = b * q + (n % b)
    OBVIOUS
  <1>2. n % b \in 0 .. b - 1
    OBVIOUS
  <1>3. (b * q + (n % b)) \div b = q
    BY <1>2, QuotientUnique
  <1> QED BY <1>1, <1>2, <1>3

\* Dividing by a product is dividing twice.
LEMMA DivTwice ==
    ASSUME NEW b \in Nat, b > 0, NEW c \in Nat, c > 0, NEW n \in Nat
    PROVE  n \div (c * b) = (n \div b) \div c
  <1> DEFINE q == n \div b
             r == n % b
             p == q \div c
             s == q % c
  <1>1. q \in Nat /\ r \in 0 .. b - 1 /\ n = b * q + r
    BY DivMod
  <1>2. p \in Nat /\ s \in 0 .. c - 1 /\ q = c * p + s
    BY <1>1, DivMod
  <1> HIDE DEF q, r, p, s
  <1>3. n = (c * b) * p + (b * s + r)
    BY <1>1, <1>2
  <1>4. b * s + r \in 0 .. (c * b) - 1
    <2>1. b * s <= b * (c - 1)
      BY <1>2
    <2>2. b * (c - 1) = c * b - b
      OBVIOUS
    <2>3. b * s >= 0 /\ b * s \in Int /\ c * b \in Int
      BY <1>2
    <2> QED BY <1>1, <2>1, <2>2, <2>3
  <1>5. c * b \in Nat /\ c * b > 0
    OBVIOUS
  <1>6. n \div (c * b) = p
    BY <1>2, <1>3, <1>4, <1>5, QuotientUnique
  <1> QED BY <1>6 DEF p, q

\* four_char_to_int reads what int_to_four_char has written, if four bytes can hold
\* it.
LEMMA FieldHolds ==
    ASSUME NEW n \in 0 .. FIELD - 1
    PROVE  four_char_to_int(int_to_four_char(n)) = n
  <1> DEFINE B == BYTE
             a == n \div B
             b == a \div B
             c == b \div B
             x == n % B
             y == a % B
             z == b % B
  <1>0. B \in Nat /\ B > 0 /\ n \in Nat /\ n < B * B * B * B
    BY SizesAssumption DEF FIELD
  <1>1. a \in Nat /\ n = B * a + x /\ x \in 0 .. B - 1
    BY <1>0, DivMod
  <1>2. b \in Nat /\ a = B * b + y /\ y \in 0 .. B - 1
    BY <1>0, <1>1, DivMod
  <1>3. c \in Nat /\ b = B * c + z /\ z \in 0 .. B - 1
    BY <1>0, <1>2, DivMod
  <1>4. n \div (B * B) = b /\ n \div (B * B * B) = c
    <2>1. B * B \in Nat /\ B * B > 0
      BY <1>0
    <2>2. n \div (B * B) = b
      BY <1>0, DivTwice
    <2>3. n \div ((B * B) * B) = (n \div B) \div (B * B)
      BY <1>0, <2>1, DivTwice
    <2>4. a \div (B * B) = (a \div B) \div B
      BY <1>0, <1>1, DivTwice
    <2> QED BY <2>2, <2>3, <2>4
  <1>5. int_to_four_char(n) = <<c % B, z, y, x>>
    BY <1>4 DEF int_to_four_char
  <1> HIDE DEF B, a, b, c, x, y, z
  <1>6. c < B
    <2> SUFFICES ASSUME c >= B PROVE FALSE
      BY <1>0, <1>3
    <2>1. B * c >= B * B /\ B * c \in Nat /\ B * B \in Nat
      BY <1>0, <1>3
    <2>2. b >= B * B
      BY <1>3, <2>1
    <2>3. B * b >= B * (B * B) /\ B * b \in Nat /\ B * (B * B) \in Nat
      BY <1>0, <1>2, <2>1, <2>2
    <2>4. a >= B * (B * B)
      BY <1>2, <2>3
    <2>5. B * a >= B * (B * (B * B)) /\ B * a \in Nat /\ B * (B * (B * B)) \in Nat
      BY <1>0, <1>1, <2>3, <2>4
    <2>6. B * (B * (B * B)) = B * B * B * B
      BY <1>0
    <2> QED BY <1>0, <1>1, <2>5, <2>6
  <1>7. c % B = c
    BY <1>0, <1>3, <1>6
  <1>8. n = c * (B * B * B) + z * (B * B) + y * B + x
    <2>1. a = B * (B * c + z) + y
      BY <1>2, <1>3
    <2>2. n = B * (B * (B * c + z) + y) + x
      BY <1>1, <2>1
    <2>3. B * (B * (B * c + z) + y) + x = c * (B * B * B) + z * (B * B) + y * B + x
      BY <1>0, <1>1, <1>2, <1>3
    <2> QED BY <2>2, <2>3
  <1> QED BY <1>5, <1>7, <1>8 DEF four_char_to_int, B
------------------------------------------------------------------------------
(* The search in blocks *)

\* The halves of a register.
LEMMA Halves ==
    \E half \in Nat : half = WIDTH \div 2 /\ WIDTH = half + half /\ half > 0
  BY SizesAssumption

\* How many of the first 1, ..., half bits are all zero is where the first one is.
LEMMA PopcntFindsFirst ==
    ASSUME NEW half \in Nat, NEW bits \in SUBSET Nat, NEW m \in bits, m < half, \A d \in bits : d >= m
    PROVE  Cardinality({n \in 1 .. half : \A d \in bits : d >= n}) = m
  <1>1. {n \in 1 .. half : \A d \in bits : d >= n} = 1 .. m
    OBVIOUS
  <1>2. m \in Nat /\ Cardinality(1 .. m) = m
    BY FS_Interval
  <1> QED BY <1>1, <1>2

\* __tzcnt_u32_using_popcnt_cmpgt returns the place of the lowest bit that is set.
LEMMA TzcntFindsFirst ==
    ASSUME NEW mask \in SUBSET (0 .. WIDTH - 1), NEW m \in mask, \A d \in mask : d >= m
    PROVE  __tzcnt_u32_using_popcnt_cmpgt(mask) = m
  <1>1. PICK half \in Nat : half = WIDTH \div 2 /\ WIDTH = half + half /\ half > 0
    BY Halves
  <1> DEFINE low == {d \in mask : d < half}
             bits == IF low # {} THEN low ELSE {d - half : d \in mask}
             count == Cardinality({n \in 1 .. half : \A d \in bits : d >= n})
  <1>2. __tzcnt_u32_using_popcnt_cmpgt(mask) = (IF low # {} THEN 0 ELSE half) + count
    BY <1>1 DEF __tzcnt_u32_using_popcnt_cmpgt
  <1>0. m \in Nat /\ m < half + half /\ \A d \in mask : d \in Nat /\ d >= m
    BY <1>1
  <1>3. CASE m < half
    <2>1. m \in low /\ bits = low
      BY <1>3
    <2>2. bits \in SUBSET Nat /\ m \in bits /\ \A d \in bits : d >= m
      BY <1>0, <2>1
    <2> HIDE DEF bits
    <2>3. count = m
      BY <1>3, <2>2, PopcntFindsFirst
    <2> QED BY <1>0, <1>2, <2>1, <2>3
  <1>4. CASE m >= half
    <2>0. ASSUME NEW d \in mask PROVE ~ (d < half)
      BY <1>0, <1>4
    <2>1. low = {}
      BY <2>0
    <2>2. bits = {d - half : d \in mask}
      BY <2>1
    <2>3. ASSUME NEW d \in mask PROVE d - half \in Nat /\ d - half >= m - half
      BY <1>0, <1>4
    <2>4. bits \in SUBSET Nat /\ m - half \in bits /\ m - half < half /\ \A d \in bits : d >= m - half
      BY <1>0, <2>2, <2>3
    <2> HIDE DEF bits
    <2>5. count = m - half
      BY <2>4, PopcntFindsFirst
    <2> QED BY <1>0, <1>2, <2>1, <2>5
  <1> QED BY <1>0, <1>3, <1>4

\* A block is at least a byte and at most a register.
LEMMA BlockSize == Block \in Nat /\ 1 <= Block /\ Block <= WIDTH
  BY SizesAssumption DEF Block

\* A look at the block at n takes the search for ch to t, if the first ch is there.
LEMMA AdvanceHits ==
    ASSUME build \in Builds, NEW ch, NEW n \in Nat, NEW t \in Nat, n <= t, t < n + Block,
           str[t] = ch, \A x \in n .. t - 1 : str[x] # ch
    PROVE  advance(n, ch) = t - n
  <1> DEFINE mask == {d \in 0 .. Block - 1 : str[n + d] = ch}
  <1>0. Block \in Nat /\ Block <= WIDTH /\ WIDTH \in Nat
    BY BlockSize, SizesAssumption
  <1>1. t - n \in mask
    <2>1. t - n \in 0 .. Block - 1 /\ n + (t - n) = t
      BY <1>0
    <2> QED BY <2>1
  <1>2. ASSUME NEW d \in mask PROVE d >= t - n
    <2> SUFFICES ASSUME d < t - n PROVE FALSE
      BY <1>0
    <2>1. n + d \in n .. t - 1
      BY <1>0
    <2> QED BY <2>1
  <1>3. CASE build = "serial"
    <2>1. Block = 1 /\ t - n = 0
      BY <1>3 DEF Block
    <2> QED BY <1>1, <1>3, <2>1 DEF advance
  <1>4. CASE build = "sse4"
    <2>1. mask \in SUBSET (0 .. WIDTH - 1)
      BY <1>4 DEF Block
    <2>2. mask # {}
      BY <1>1
    <2> HIDE DEF mask
    <2>3. __tzcnt_u32_using_popcnt_cmpgt(mask) = t - n
      BY <2>1, <1>1, <1>2, TzcntFindsFirst
    <2>4. advance(n, ch) = __tzcnt_u32_using_popcnt_cmpgt(mask)
      BY <1>4, <2>2 DEF advance, mask
    <2> QED BY <2>3, <2>4
  <1> QED BY <1>3, <1>4, SizesAssumption

\* It takes it a block on if there is no ch.
LEMMA AdvanceMisses ==
    ASSUME NEW ch, NEW n \in Nat, \A x \in n .. n + Block - 1 : str[x] # ch
    PROVE  advance(n, ch) = Block
  <1>1. \A d \in 0 .. Block - 1 : n + d \in n .. n + Block - 1
    BY BlockSize
  <1>2. {d \in 0 .. Block - 1 : str[n + d] = ch} = {}
    BY <1>1
  <1> QED BY <1>2 DEF advance

\* Together: the search for a ch that stands at t, with none before it from n on,
\* comes to it or goes on behind the block.
LEMMA AdvanceTo ==
    ASSUME build \in Builds, NEW ch, NEW n \in Nat, NEW t \in Nat, n <= t,
           str[t] = ch, \A x \in n .. t - 1 : str[x] # ch
    PROVE  n + advance(n, ch) = IF t < n + Block THEN t ELSE n + Block
  <1>0. Block \in Nat /\ 1 <= Block
    BY BlockSize
  <1>1. CASE t < n + Block
    BY <1>1, AdvanceHits
  <1>2. CASE ~(t < n + Block)
    <2>1. \A x \in n .. n + Block - 1 : x \in n .. t - 1
      BY <1>0, <1>2
    <2>2. advance(n, ch) = Block
      BY <2>1, AdvanceMisses
    <2> QED BY <1>0, <1>2, <2>2
  <1> QED BY <1>1, <1>2
------------------------------------------------------------------------------
(* Sequences put together *)

\* The front of a concatenation is its first part.
LEMMA ConcatFront ==
    ASSUME NEW S, NEW s \in Seq(S), NEW t \in Seq(S)
    PROVE  /\ s \o t \in Seq(S)
           /\ Len(s \o t) = Len(s) + Len(t) /\ Len(s) \in Nat /\ Len(t) \in Nat
           /\ \A x \in 1 .. Len(s) : (s \o t)[x] = s[x]
           /\ \A x \in 1 .. Len(t) : (s \o t)[Len(s) + x] = t[x]
  <1>1. Len(s) \in Nat /\ Len(t) \in Nat
    BY LenProperties
  <1>2. s \o t \in Seq(S) /\ Len(s \o t) = Len(s) + Len(t)
    BY ConcatProperties
  <1>3. \A y \in 1 .. Len(s) + Len(t) : (s \o t)[y] = IF y <= Len(s) THEN s[y] ELSE t[y - Len(s)]
    BY ConcatProperties
  <1>4. ASSUME NEW x \in 1 .. Len(s) PROVE (s \o t)[x] = s[x]
    <2>1. x \in 1 .. Len(s) + Len(t) /\ x <= Len(s)
      BY <1>1
    <2> QED BY <1>3, <2>1
  <1>5. ASSUME NEW x \in 1 .. Len(t) PROVE (s \o t)[Len(s) + x] = t[x]
    <2>1. Len(s) + x \in 1 .. Len(s) + Len(t) /\ ~ (Len(s) + x <= Len(s)) /\ Len(s) + x - Len(s) = x
      BY <1>1
    <2> QED BY <1>3, <2>1
  <1> QED BY <1>1, <1>2, <1>4, <1>5
------------------------------------------------------------------------------
(* Where the pieces of a form are *)

\* One step of FlattenSeq's recursion, and the function it is the last value of.
Join(fl, seqs, y) == IF y = 1 THEN seqs[y] ELSE fl[y - 1] \o seqs[y]
Joined(seqs) == CHOOSE fl : fl = [y \in 1 .. Len(seqs) |-> Join(fl, seqs, y)]

\* A form is what the recursion makes of its pieces.
LEMMA FlattenIsJoined == \A seqs : Len(seqs) # 0 => FlattenSeq(seqs) = Joined(seqs)[Len(seqs)]
  BY DEF FlattenSeq, Joined, Join

\* There is a function that satisfies FlattenSeq's recursive equation.
LEMMA JoinedExists ==
    ASSUME NEW seqs, NEW len0 \in Nat
    PROVE  \E fl : fl = [y \in 1 .. len0 |-> Join(fl, seqs, y)]
  <1> DEFINE Good == {m \in Nat : \E g : \A y \in 1 .. m : g[y] = Join(g, seqs, y)}
  <1>1. 0 \in Good
    OBVIOUS
  <1>2. ASSUME NEW m \in Nat, m \in Good PROVE m + 1 \in Good
    <2>1. PICK g : \A y \in 1 .. m : g[y] = Join(g, seqs, y)
      BY <1>2
    <2> DEFINE h == [y \in 1 .. m + 1 |-> IF y \in 1 .. m THEN g[y] ELSE Join(g, seqs, y)]
    <2>2. \A y \in 1 .. m : h[y] = g[y]
      OBVIOUS
    <2>3. h[m + 1] = Join(g, seqs, m + 1)
      OBVIOUS
    <2> HIDE DEF h
    <2>4. \A y \in 1 .. m + 1 : y # 1 => y - 1 \in 1 .. m
      OBVIOUS
    <2>5. \A y \in 1 .. m + 1 : Join(h, seqs, y) = Join(g, seqs, y)
      BY <2>2, <2>4 DEF Join
    <2>6. ASSUME NEW y \in 1 .. m + 1 PROVE h[y] = Join(h, seqs, y)
      <3>1. CASE y \in 1 .. m
        BY <2>1, <2>2, <2>5, <3>1
      <3>2. CASE y = m + 1
        BY <2>3, <2>5, <3>2
      <3> QED BY <3>1, <3>2
    <2> QED BY <2>6
  <1>3. Nat \subseteq Good
    <2> HIDE DEF Good
    <2> QED BY <1>1, <1>2, InductionOnNat
  <1>4. PICK g : \A y \in 1 .. len0 : g[y] = Join(g, seqs, y)
    BY <1>3
  <1> DEFINE h == [y \in 1 .. len0 |-> g[y]]
  <1>5. \A y \in 1 .. len0 : h[y] = g[y]
    OBVIOUS
  <1> HIDE DEF h
  <1>6. \A y \in 1 .. len0 : y # 1 => y - 1 \in 1 .. len0
    OBVIOUS
  <1>7. \A y \in 1 .. len0 : Join(h, seqs, y) = g[y]
    BY <1>4, <1>5, <1>6 DEF Join
  <1>8. h = [y \in 1 .. len0 |-> Join(h, seqs, y)]
    BY <1>7 DEF h
  <1> QED BY <1>8

\* FlattenSeq's recursion, unfolded.
LEMMA JoinedUnfolds ==
    ASSUME NEW seqs, Len(seqs) \in Nat, NEW y \in 1 .. Len(seqs)
    PROVE  Joined(seqs)[y] = IF y = 1 THEN seqs[1] ELSE Joined(seqs)[y - 1] \o seqs[y]
  <1> DEFINE J == Joined(seqs)
  <1>1. \E fl : fl = [k \in 1 .. Len(seqs) |-> Join(fl, seqs, k)]
    BY JoinedExists
  <1>2. J = [k \in 1 .. Len(seqs) |-> Join(J, seqs, k)]
    BY <1>1 DEF Joined
  <1> HIDE DEF J
  <1>3. J[y] = Join(J, seqs, y)
    BY <1>2
  <1> QED BY <1>3 DEF J, Join

\* The m-th of some sequences has the ones before it as its beginnings.
Grown(J, m) ==
    /\ J[m] \in Seq(Nat)
    /\ \A p \in 1 .. m : /\ Len(J[p]) \in Nat
                         /\ Len(J[p]) <= Len(J[m])
                         /\ \A x \in 1 .. Len(J[p]) : J[m][x] = J[p][x]

\* What is joined are sequences, and each is the beginning of the next.
LEMMA JoinedGrows ==
    ASSUME NEW seqs \in Seq(Seq(Nat)), NEW m \in 1 .. Len(seqs)
    PROVE  Grown(Joined(seqs), m)
  <1> DEFINE J == Joined(seqs)
             L == Len(seqs)
             Good == {n \in Nat : n \in 1 .. L => Grown(J, n)}
  <1>0. L \in Nat /\ \A y \in 1 .. L : seqs[y] \in Seq(Nat)
    BY LenProperties, ElementOfSeq
  <1>1. \A y \in 1 .. L : J[y] = IF y = 1 THEN seqs[1] ELSE J[y - 1] \o seqs[y]
    BY <1>0, JoinedUnfolds
  <1> HIDE DEF J, L
  <1>2. 0 \in Good
    OBVIOUS
  <1>3. ASSUME NEW n \in Nat, n \in Good, n + 1 \in 1 .. L PROVE Grown(J, n + 1)
    <2>1. CASE n = 0
      <3>1. J[1] = seqs[1] /\ 1 \in 1 .. L
        BY <1>0, <1>1, <1>3, <2>1
      <3>2. J[1] \in Seq(Nat)
        BY <1>0, <3>1
      <3>3. Len(J[1]) \in Nat
        BY <3>2, LenProperties
      <3>4. n + 1 = 1 /\ 1 .. 1 = {1}
        BY <2>1
      <3> QED BY <3>2, <3>3, <3>4 DEF Grown
    <2>2. CASE n > 0
      <3>1. n \in 1 .. L /\ Grown(J, n)
        BY <1>0, <1>3, <2>2
      <3>0. n + 1 # 1 /\ (n + 1) - 1 = n
        BY <2>2
      <3>2. J[n + 1] = J[n] \o seqs[n + 1]
        BY <1>1, <1>3, <3>0
      <3>3. J[n] \in Seq(Nat) /\ seqs[n + 1] \in Seq(Nat)
        BY <1>0, <1>3, <3>1 DEF Grown
      <3>4. /\ J[n + 1] \in Seq(Nat)
            /\ Len(J[n + 1]) = Len(J[n]) + Len(seqs[n + 1])
            /\ \A x \in 1 .. Len(J[n]) : J[n + 1][x] = J[n][x]
        <4> DEFINE s == J[n]
                   t == seqs[n + 1]
        <4>1. s \in Seq(Nat) /\ t \in Seq(Nat)
          BY <3>3
        <4> HIDE DEF s, t
        <4>2. /\ s \o t \in Seq(Nat)
              /\ Len(s \o t) = Len(s) + Len(t)
              /\ \A x \in 1 .. Len(s) : (s \o t)[x] = s[x]
          BY <4>1, ConcatFront
        <4> QED BY <3>2, <4>2 DEF s, t
      <3>5. Len(J[n]) \in Nat /\ Len(seqs[n + 1]) \in Nat /\ Len(J[n + 1]) \in Nat
        BY <3>3, <3>4, LenProperties
      <3>6. ASSUME NEW p \in 1 .. n + 1
            PROVE  /\ Len(J[p]) \in Nat /\ Len(J[p]) <= Len(J[n + 1])
                   /\ \A x \in 1 .. Len(J[p]) : J[n + 1][x] = J[p][x]
        <4>1. CASE p = n + 1
          BY <3>5, <4>1
        <4>2. CASE p \in 1 .. n
          <5>1. Len(J[p]) \in Nat /\ Len(J[p]) <= Len(J[n]) /\ \A x \in 1 .. Len(J[p]) : J[n][x] = J[p][x]
            BY <3>1, <4>2 DEF Grown
          <5>2. \A x \in 1 .. Len(J[p]) : x \in 1 .. Len(J[n])
            BY <3>5, <5>1
          <5>3. ASSUME NEW x \in 1 .. Len(J[p]) PROVE J[n + 1][x] = J[p][x]
            <6>1. x \in 1 .. Len(J[n])
              BY <5>2
            <6>2. J[n + 1][x] = J[n][x]
              BY <3>4, <6>1
            <6>3. J[n][x] = J[p][x]
              BY <5>1
            <6> QED BY <6>2, <6>3
          <5>4. Len(J[p]) <= Len(J[n + 1])
            <6>1. \A a, b, c, d \in Nat : a <= b /\ d = b + c => a <= d
              OBVIOUS
            <6>2. Len(J[n + 1]) = Len(J[n]) + Len(seqs[n + 1])
              BY <3>4
            <6> QED BY <3>5, <5>1, <6>1, <6>2, ZenonT(30)
          <5> QED BY <5>1, <5>3, <5>4
        <4> QED BY <4>1, <4>2
      <3> QED BY <3>4, <3>6 DEF Grown
    <2> QED BY <2>1, <2>2
  <1>4. Nat \subseteq Good
    <2>1. \A n \in Nat : n \in Good => n + 1 \in Good
      BY <1>3
    <2> HIDE DEF Good
    <2> QED BY <1>2, <2>1, InductionOnNat
  <1>5. m \in Good
    BY <1>0, <1>4 DEF L
  <1> QED BY <1>5 DEF J, L

\* A function of 1 .. n is a sequence.
LEMMA TupleIsSeq ==
    ASSUME NEW S, NEW n \in Nat, NEW s \in [1 .. n -> S]
    PROVE  s \in Seq(S) /\ Len(s) = n
  OBVIOUS

\* What FormsAssumption says of one pair of a form.
LEMMA PairTypes ==
    ASSUME NEW f \in Forms
    PROVE  /\ Len(f) \in Nat /\ Len(f) > 0
           /\ \A p \in 1 .. Len(f) :
                /\ f[p].key \in Seq(Nat) /\ f[p].val \in Seq(Nat) /\ f[p].sent \in Seq(Nat)
                /\ Len(f[p].key) \in Nat /\ Len(f[p].val) \in Nat /\ Len(f[p].sent) \in Nat
  <1>1. f \in Seq(FormPairs) /\ Len(f) > 0
    BY FormsAssumption
  <1>2. Len(f) \in Nat
    BY <1>1, LenProperties
  <1>3. ASSUME NEW p \in 1 .. Len(f)
        PROVE  f[p].key \in Seq(Nat) /\ f[p].val \in Seq(Nat) /\ f[p].sent \in Seq(Nat)
    <2>1. f[p] \in FormPairs
      BY <1>1, ElementOfSeq
    <2> QED BY <2>1 DEF FormPairs
  <1>4. ASSUME NEW p \in 1 .. Len(f)
        PROVE  Len(f[p].key) \in Nat /\ Len(f[p].val) \in Nat /\ Len(f[p].sent) \in Nat
    BY <1>3, LenProperties
  <1> QED BY <1>1, <1>2, <1>3, <1>4

\* The bytes of four sequences put together.
LEMMA FourParts ==
    ASSUME NEW a \in Seq(Nat), NEW k \in Seq(Nat), NEW e \in Seq(Nat), NEW s \in Seq(Nat), NEW d, d = a \o k \o e \o s
    PROVE  /\ d \in Seq(Nat) /\ Len(d) = Len(a) + Len(k) + Len(e) + Len(s)
           /\ \A x \in 1 .. Len(a) : d[x] = a[x]
           /\ \A x \in 1 .. Len(k) : d[Len(a) + x] = k[x]
           /\ \A x \in 1 .. Len(e) : d[Len(a) + Len(k) + x] = e[x]
           /\ \A x \in 1 .. Len(s) : d[Len(a) + Len(k) + Len(e) + x] = s[x]
  <1> DEFINE b == a \o k
             c == b \o e
  <1>0. Len(a) \in Nat /\ Len(k) \in Nat /\ Len(e) \in Nat /\ Len(s) \in Nat
    BY LenProperties
  <1>1. /\ b \in Seq(Nat) /\ Len(b) = Len(a) + Len(k)
        /\ \A x \in 1 .. Len(a) : b[x] = a[x]
        /\ \A x \in 1 .. Len(k) : b[Len(a) + x] = k[x]
    BY ConcatFront
  <1>b. b \in Seq(Nat)
    BY <1>1
  <1> HIDE DEF b
  <1>2. /\ c \in Seq(Nat) /\ Len(c) = Len(b) + Len(e)
        /\ \A x \in 1 .. Len(b) : c[x] = b[x]
        /\ \A x \in 1 .. Len(e) : c[Len(b) + x] = e[x]
    BY <1>b, ConcatFront
  <1>c. c \in Seq(Nat)
    BY <1>2
  <1> HIDE DEF c
  <1>3. d = c \o s
    BY DEF b, c
  <1>4. /\ d \in Seq(Nat) /\ Len(d) = Len(c) + Len(s)
        /\ \A x \in 1 .. Len(c) : d[x] = c[x]
        /\ \A x \in 1 .. Len(s) : d[Len(c) + x] = s[x]
    BY <1>c, <1>3, ConcatFront
  <1>5. Len(d) = Len(a) + Len(k) + Len(e) + Len(s) /\ Len(c) = Len(a) + Len(k) + Len(e)
    BY <1>0, <1>1, <1>2, <1>4
  <1>6. ASSUME NEW x \in 1 .. Len(b) PROVE d[x] = b[x]
    <2>1. x \in 1 .. Len(c)
      BY <1>0, <1>1, <1>2
    <2>2. d[x] = c[x] /\ c[x] = b[x]
      BY <1>2, <1>4, <2>1
    <2> QED BY <2>2
  <1>7. ASSUME NEW x \in 1 .. Len(a) PROVE d[x] = a[x]
    <2>1. x \in 1 .. Len(b)
      BY <1>0, <1>1
    <2> QED BY <1>1, <1>6, <2>1
  <1>8. ASSUME NEW x \in 1 .. Len(k) PROVE d[Len(a) + x] = k[x]
    <2>1. Len(a) + x \in 1 .. Len(b)
      BY <1>0, <1>1
    <2> QED BY <1>1, <1>6, <2>1
  <1>9. ASSUME NEW x \in 1 .. Len(e) PROVE d[Len(a) + Len(k) + x] = e[x]
    <2>1. Len(b) + x \in 1 .. Len(c) /\ Len(b) + x = Len(a) + Len(k) + x
      BY <1>0, <1>1, <1>2
    <2> QED BY <1>2, <1>4, <2>1
  <1>10. ASSUME NEW x \in 1 .. Len(s) PROVE d[Len(a) + Len(k) + Len(e) + x] = s[x]
    BY <1>4, <1>5
  <1> QED BY <1>4, <1>5, <1>7, <1>8, <1>9, <1>10

\* The bytes of a piece with key k and value s, by where they stand behind its
\* separator, if it has one.
PieceOf(d, lead, k, s) ==
    /\ Len(d) = lead + Len(k) + 1 + Len(s)
    /\ lead = 1 => d[1] = AMP
    /\ \A x \in 1 .. Len(k) : d[lead + x] = k[x]
    /\ d[lead + Len(k) + 1] = EQ
    /\ \A x \in 1 .. Len(s) : d[lead + Len(k) + 1 + x] = s[x]

\* The bytes of a piece are those of its key, EQ and those of its value.
LEMMA PieceBytes ==
    ASSUME NEW f \in Forms, NEW p \in 1 .. Len(f), NEW lead, lead = IF p = 1 THEN 0 ELSE 1
    PROVE  Piece(f, p) \in Seq(Nat) /\ PieceOf(Piece(f, p), lead, f[p].key, f[p].sent)
  <1> DEFINE k == f[p].key
             s == f[p].sent
             a == IF p = 1 THEN <<>> ELSE <<AMP>>
             e == <<EQ>>
             d == Piece(f, p)
  <1>1. k \in Seq(Nat) /\ s \in Seq(Nat)
    BY PairTypes
  <1>2. a \in Seq(Nat) /\ Len(a) = lead /\ lead \in Nat /\ (lead = 1 => a[1] = AMP)
    BY DEF AMP
  <1>3. e \in Seq(Nat) /\ Len(e) = 1 /\ e[1] = EQ
    BY DEF EQ
  <1>4. d = a \o k \o e \o s
    BY DEF Piece
  <1> HIDE DEF k, s, a, e, d
  <1>5. /\ d \in Seq(Nat) /\ Len(d) = Len(a) + Len(k) + Len(e) + Len(s)
        /\ \A x \in 1 .. Len(a) : d[x] = a[x]
        /\ \A x \in 1 .. Len(k) : d[Len(a) + x] = k[x]
        /\ \A x \in 1 .. Len(e) : d[Len(a) + Len(k) + x] = e[x]
        /\ \A x \in 1 .. Len(s) : d[Len(a) + Len(k) + Len(e) + x] = s[x]
    <2>1. a \in Seq(Nat) /\ k \in Seq(Nat) /\ e \in Seq(Nat) /\ s \in Seq(Nat)
      BY <1>1, <1>2, <1>3
    <2> QED BY <2>1, <1>4, FourParts, SMTT(30)
  <1>6. 1 \in 1 .. 1
    OBVIOUS
  <1>7. /\ d \in Seq(Nat) /\ Len(d) = lead + Len(k) + 1 + Len(s)
        /\ lead = 1 => d[1] = AMP
        /\ \A x \in 1 .. Len(k) : d[lead + x] = k[x]
        /\ d[lead + Len(k) + 1] = EQ
        /\ \A x \in 1 .. Len(s) : d[lead + Len(k) + 1 + x] = s[x]
    BY <1>2, <1>3, <1>5, <1>6
  <1>8. d \in Seq(Nat) /\ PieceOf(d, lead, k, s)
    BY <1>7 DEF PieceOf
  <1> QED BY <1>8 DEF k, s, d

\* Where the pairs of a form stand: at[p] is the place of the separator before the
\* p-th, at[p + 1] that of the one behind it, or the end of the form.
IsLayout(f, at) ==
    /\ at \in [1 .. Len(f) + 1 -> Int]
    /\ at[1] = -1
    /\ at[Len(f) + 1] = Len(Flat(f))
    /\ \A p \in 1 .. Len(f) :
         /\ at[p + 1] = at[p] + Len(f[p].key) + Len(f[p].sent) + 2
         /\ p # 1 => Flat(f)[at[p] + 1] = AMP
         /\ \A x \in 1 .. Len(f[p].key) : Flat(f)[at[p] + x + 1] = f[p].key[x]
         /\ Flat(f)[at[p] + Len(f[p].key) + 2] = EQ
         /\ \A x \in 1 .. Len(f[p].sent) : Flat(f)[at[p] + Len(f[p].key) + 1 + x + 1] = f[p].sent[x]

\* Every form has such a layout.
LEMMA FormLayout ==
    ASSUME NEW f \in Forms
    PROVE  Flat(f) \in Seq(Nat) /\ \E at : IsLayout(f, at)
  <1> DEFINE L == Len(f)
             seqs == [p \in 1 .. L |-> Piece(f, p)]
             J == Joined(seqs)
             all == Flat(f)
  <1>1. L \in Nat /\ L > 0
    BY PairTypes
  <1>2. seqs \in Seq(Seq(Nat)) /\ Len(seqs) = L
    <2>1. \A p \in 1 .. L : Piece(f, p) \in Seq(Nat)
      BY PieceBytes
    <2>2. seqs \in [1 .. L -> Seq(Nat)]
      BY <2>1
    <2> HIDE DEF seqs
    <2> QED BY <1>1, <2>2, TupleIsSeq
  <1>3. \A p \in 1 .. L : seqs[p] = Piece(f, p)
    OBVIOUS
  <1>4. all = J[L]
    <2>1. all = FlattenSeq(seqs)
      BY DEF Flat
    <2> HIDE DEF seqs
    <2> QED BY <1>1, <1>2, <2>1, FlattenIsJoined
  <1> HIDE DEF seqs
  <1>5. \A p \in 1 .. L : J[p] = IF p = 1 THEN seqs[1] ELSE J[p - 1] \o seqs[p]
    BY <1>1, <1>2, JoinedUnfolds
  <1>6. \A m \in 1 .. L : Grown(J, m)
    BY <1>2, JoinedGrows
  <1> HIDE DEF J, all
  <1>7. L \in 1 .. L
    BY <1>1
  <1>8. all \in Seq(Nat)
    BY <1>4, <1>6, <1>7 DEF Grown
  <1>9. ASSUME NEW p \in 1 .. L PROVE J[p] \in Seq(Nat) /\ Len(J[p]) \in Nat
    <2>1. J[p] \in Seq(Nat)
      BY <1>6 DEF Grown
    <2> QED BY <2>1, LenProperties
  <1> DEFINE at == [p \in 1 .. L + 1 |-> IF p = 1 THEN -1 ELSE Len(J[p - 1])]
  <1>10. at[1] = -1 /\ at[L + 1] = Len(all) /\ \A p \in 1 .. L : at[p + 1] = Len(J[p])
    BY <1>1, <1>4
  <1>11. at \in [1 .. L + 1 -> Int]
    <2>1. ASSUME NEW p \in 1 .. L + 1, p # 1 PROVE p - 1 \in 1 .. L
      BY <1>1, <2>1
    <2> QED BY <1>9, <2>1
  <1> HIDE DEF at
  <1>12. ASSUME NEW p \in 1 .. L
         PROVE  /\ at[p + 1] = at[p] + Len(f[p].key) + Len(f[p].sent) + 2
                /\ p # 1 => all[at[p] + 1] = AMP
                /\ \A x \in 1 .. Len(f[p].key) : all[at[p] + x + 1] = f[p].key[x]
                /\ all[at[p] + Len(f[p].key) + 2] = EQ
                /\ \A x \in 1 .. Len(f[p].sent) : all[at[p] + Len(f[p].key) + 1 + x + 1] = f[p].sent[x]
    <2>0. PICK lead : lead = IF p = 1 THEN 0 ELSE 1
      OBVIOUS
    <2> DEFINE P == Piece(f, p)
               k == f[p].key
               s == f[p].sent
               base == at[p] + 1 - lead
    <2>1. P \in Seq(Nat) /\ PieceOf(P, lead, k, s)
      BY <2>0, PieceBytes
    <2>2. Len(k) \in Nat /\ Len(s) \in Nat /\ lead \in Nat /\ (p # 1 => lead = 1)
      BY <2>0, PairTypes
    <2>3. at[p] \in Int /\ at[p + 1] = Len(J[p])
      BY <1>1, <1>10, <1>11
    <2>4. seqs[p] = P
      BY <1>3
    <2>p. P \in Seq(Nat)
      BY <2>1
    <2> HIDE DEF P, k, s
    <2>5. /\ Len(J[p]) = base + Len(P)
          /\ base \in Nat
          /\ \A x \in 1 .. Len(P) : J[p][base + x] = P[x]
      <3>1. CASE p = 1
        <4>1. J[p] = P /\ base = 0
          BY <1>5, <1>10, <2>0, <2>4, <3>1
        <4>2. Len(P) \in Nat
          BY <2>p, LenProperties
        <4> HIDE DEF base
        <4> QED BY <4>1, <4>2
      <3>2. CASE p # 1
        <4>1. p - 1 \in 1 .. L /\ (p - 1) + 1 = p
          BY <1>1, <3>2
        <4>2. at[p] = Len(J[p - 1])
          BY <1>10, <4>1
        <4> DEFINE q == J[p - 1]
        <4>3. q \in Seq(Nat) /\ Len(q) \in Nat
          BY <1>9, <4>1
        <4>4. J[p] = q \o P
          BY <1>5, <2>4, <3>2
        <4>5. base = Len(q)
          BY <2>0, <2>3, <3>2, <4>2, <4>3
        <4>q. q \in Seq(Nat)
          BY <4>3
        <4> HIDE DEF q, base
        <4>6. /\ Len(q \o P) = Len(q) + Len(P)
              /\ \A x \in 1 .. Len(P) : (q \o P)[Len(q) + x] = P[x]
          BY <4>q, <2>p, ConcatFront
        <4> QED BY <4>3, <4>4, <4>5, <4>6
      <3> QED BY <3>1, <3>2
    <2>6. p \in 1 .. L /\ \A x \in 1 .. Len(J[p]) : all[x] = J[p][x]
      BY <1>4, <1>6, <1>7 DEF Grown
    <2>7. Len(P) \in Nat /\ Len(J[p]) \in Nat
      BY <1>9, <2>p, LenProperties
    <2>8. ASSUME NEW x \in 1 .. Len(P) PROVE all[base + x] = P[x]
      <3>1. base + x \in 1 .. Len(J[p])
        <4> HIDE DEF base
        <4> QED BY <2>5, <2>7
      <3>2. all[base + x] = J[p][base + x]
        BY <2>6, <3>1
      <3> QED BY <2>5, <3>2
    <2>b. PICK a \in Nat, b \in Nat, c \in Nat, d \in Int : a = Len(k) /\ b = Len(s) /\ c = Len(P) /\ d = at[p]
      BY <2>2, <2>3, <2>7
    <2>c. PICK e \in Nat : e = base
      BY <2>5
    <2>d. c = lead + a + 1 + b /\ e = d + 1 - lead /\ lead \in Nat
      BY <2>1, <2>2, <2>b, <2>c DEF PieceOf
    <2>e. at[p + 1] = e + c
      BY <2>3, <2>5, <2>b, <2>c
    <2>f. \A x \in 1 .. c : all[e + x] = P[x]
      BY <2>8, <2>b, <2>c
    <2>g. /\ lead = 1 => P[1] = AMP
          /\ \A x \in 1 .. a : P[lead + x] = k[x]
          /\ P[lead + a + 1] = EQ
          /\ \A x \in 1 .. b : P[lead + a + 1 + x] = s[x]
      BY <2>1, <2>b DEF PieceOf
    <2> HIDE DEF base
    <2>9. e + c = d + a + b + 2
      BY <2>d
    <2>10. ASSUME p # 1 PROVE all[d + 1] = AMP
      <3>1. lead = 1 /\ 1 \in 1 .. c /\ e + 1 = d + 1
        BY <2>2, <2>d, <2>10
      <3> QED BY <2>f, <2>g, <3>1
    <2>11. ASSUME NEW x \in 1 .. a PROVE all[d + x + 1] = k[x]
      <3>1. lead + x \in 1 .. c /\ e + (lead + x) = d + x + 1
        BY <2>d
      <3>2. all[e + (lead + x)] = P[lead + x]
        BY <2>f, <3>1
      <3> QED BY <2>g, <3>1, <3>2
    <2>12. all[d + a + 2] = EQ
      <3>1. lead + a + 1 \in 1 .. c /\ e + (lead + a + 1) = d + a + 2
        BY <2>d
      <3>2. all[e + (lead + a + 1)] = P[lead + a + 1]
        BY <2>f, <3>1
      <3> QED BY <2>g, <3>1, <3>2
    <2>13. ASSUME NEW x \in 1 .. b PROVE all[d + a + 1 + x + 1] = s[x]
      <3>1. lead + a + 1 + x \in 1 .. c /\ e + (lead + a + 1 + x) = d + a + 1 + x + 1
        BY <2>d
      <3>2. all[e + (lead + a + 1 + x)] = P[lead + a + 1 + x]
        BY <2>f, <3>1
      <3> QED BY <2>g, <3>1, <3>2
    <2> QED BY <2>b, <2>e, <2>9, <2>10, <2>11, <2>12, <2>13 DEF k, s
  <1>13. IsLayout(f, at)
    BY <1>10, <1>11, <1>12 DEF IsLayout, all
  <1> QED BY <1>8, <1>13 DEF all

\* The layout of a form, and where its EQs are.
At(f) == CHOOSE at : IsLayout(f, at)
EqAt(f, p) == At(f)[p] + Len(f[p].key) + 1

\* The places of a form's separators: they grow, and lie inside it.
LEMMA LayoutOrder ==
    ASSUME NEW f \in Forms
    PROVE  /\ Len(Flat(f)) \in Nat /\ IsLayout(f, At(f))
           /\ \A p \in 1 .. Len(f) + 1 : At(f)[p] \in Int /\ -1 <= At(f)[p] /\ At(f)[p] <= Len(Flat(f))
           /\ \A p \in 1 .. Len(f) :
                /\ EqAt(f, p) \in Nat
                /\ At(f)[p + 1] = EqAt(f, p) + Len(f[p].sent) + 1
           /\ \A p, q \in 1 .. Len(f) + 1 : p < q => At(f)[p] + 2 <= At(f)[q]
  <1> DEFINE at == At(f)
             N == Len(Flat(f))
             L == Len(f)
  <1>1. IsLayout(f, at)
    BY FormLayout DEF At
  <1>2. Flat(f) \in Seq(Nat)
    BY FormLayout
  <1>3. N \in Nat
    BY <1>2, LenProperties
  <1>4. L \in Nat /\ L > 0
    BY PairTypes
  <1> HIDE DEF at, N, L
  <1>5. at[1] = -1 /\ at[L + 1] = N /\ \A p \in 1 .. L + 1 : at[p] \in Int
    BY <1>1 DEF IsLayout, N, L
  <1>6. ASSUME NEW p \in 1 .. L PROVE at[p + 1] = at[p] + Len(f[p].key) + Len(f[p].sent) + 2
    BY <1>1, <1>6 DEF IsLayout, L
  <1>7. ASSUME NEW p \in 1 .. L
        PROVE at[p] + 2 <= at[p + 1] /\ EqAt(f, p) \in Int /\ EqAt(f, p) > at[p] /\ at[p + 1] = EqAt(f, p) + Len(f[p].sent) + 1
    <2>1. PICK a \in Nat, b \in Nat : a = Len(f[p].key) /\ b = Len(f[p].sent)
      BY PairTypes DEF L
    <2>2. at[p] \in Int
      BY <1>4, <1>5
    <2>3. at[p + 1] = at[p] + a + b + 2
      BY <1>6, <2>1
    <2>4. EqAt(f, p) = at[p] + a + 1
      BY <2>1 DEF EqAt, at
    <2>5. PICK c \in Int, d \in Int, e \in Int : c = at[p] /\ d = at[p + 1] /\ e = EqAt(f, p)
      <3>1. \A c \in Int : c + a + b + 2 \in Int /\ c + a + 1 \in Int
        OBVIOUS
      <3>2. at[p] + a + b + 2 \in Int /\ at[p] + a + 1 \in Int
        BY <2>2, <3>1
      <3>3. at[p + 1] \in Int /\ EqAt(f, p) \in Int
        BY <2>3, <2>4, <3>2, Zenon
      <3> QED BY <2>2, <3>3, Zenon
    <2>6. d = c + a + b + 2 /\ e = c + a + 1
      BY <2>3, <2>4, <2>5
    <2>7. c + 2 <= d /\ e > c /\ d = e + b + 1
      BY <2>6
    <2> QED BY <2>1, <2>5, <2>7
  <1> DEFINE Good == {q \in Nat : q \in 1 .. L + 1 => \A p \in 1 .. L + 1 : p < q => at[p] + 2 <= at[q]}
  <1>8. 0 \in Good
    OBVIOUS
  <1>9. ASSUME NEW q \in Nat, q \in Good, q + 1 \in 1 .. L + 1, NEW p \in 1 .. L + 1, p < q + 1
        PROVE  at[p] + 2 <= at[q + 1]
    <2>1. q \in 1 .. L
      BY <1>4, <1>9
    <2>2. at[q] + 2 <= at[q + 1] /\ at[q] \in Int /\ at[q + 1] \in Int /\ at[p] \in Int
      BY <1>4, <1>5, <1>7, <2>1
    <2>3. CASE p = q
      BY <2>2, <2>3
    <2>4. CASE p # q
      <3>1. p < q /\ q \in 1 .. L + 1
        BY <1>4, <1>9, <2>1, <2>4
      <3>2. at[p] + 2 <= at[q]
        BY <1>9, <3>1
      <3> QED BY <2>2, <3>2
    <2> QED BY <2>3, <2>4
  <1>10. \A q \in Nat : q \in Good => q + 1 \in Good
    BY <1>9
  <1>11. Nat \subseteq Good
    <2> HIDE DEF Good
    <2> QED BY <1>8, <1>10, InductionOnNat
  <1>12. ASSUME NEW p \in 1 .. L + 1, NEW q \in 1 .. L + 1, p < q PROVE at[p] + 2 <= at[q]
    <2>1. q \in Good
      BY <1>4, <1>11
    <2> QED BY <1>12, <2>1
  <1>13. ASSUME NEW p \in 1 .. L + 1 PROVE -1 <= at[p] /\ at[p] <= N
    <2>1. 1 \in 1 .. L + 1 /\ L + 1 \in 1 .. L + 1 /\ at[p] \in Int
      BY <1>4, <1>5
    <2>2. p # 1 => at[1] + 2 <= at[p]
      BY <1>12, <2>1
    <2>3. p # L + 1 => at[p] + 2 <= at[L + 1]
      BY <1>4, <1>12, <2>1
    <2> QED BY <1>3, <1>5, <2>1, <2>2, <2>3
  <1>14. ASSUME NEW p \in 1 .. L PROVE EqAt(f, p) \in Nat
    <2>1. p \in 1 .. L + 1
      BY <1>4
    <2> QED BY <1>7, <1>13, <2>1, <1>5
  <1> QED BY <1>1, <1>3, <1>5, <1>7, <1>12, <1>13, <1>14 DEF at, N, L

\* The form is at the front of a piece of memory.
Shows(m, f) == \A x \in 0 .. Len(Flat(f)) - 1 : m[x] = Flat(f)[x + 1]

\* What memory that shows a form holds, pair by pair.
LEMMA ShowsPairs ==
    ASSUME NEW f \in Forms, NEW m, Shows(m, f), NEW p \in 1 .. Len(f)
    PROVE  /\ p # 1 => m[At(f)[p]] = AMP
           /\ \A x \in 1 .. Len(f[p].key) : m[At(f)[p] + x] = f[p].key[x]
           /\ m[EqAt(f, p)] = EQ
           /\ \A x \in 1 .. Len(f[p].sent) : m[EqAt(f, p) + x] = f[p].sent[x]
  <1> DEFINE at == At(f)
             F == Flat(f)
  <1>1. PICK N \in Nat : N = Len(F)
    BY LayoutOrder
  <1>2. PICK a \in Nat, b \in Nat : a = Len(f[p].key) /\ b = Len(f[p].sent)
    BY PairTypes
  <1>3. PICK d \in Int, e \in Nat : d = at[p] /\ e = EqAt(f, p)
    BY LayoutOrder, PairTypes
  <1>4. e = d + a + 1
    BY <1>2, <1>3 DEF EqAt
  <1>5. -1 <= d /\ e + b + 1 <= N
    <2>1. p \in 1 .. Len(f) + 1 /\ p + 1 \in 1 .. Len(f) + 1
      BY PairTypes
    <2>2. -1 <= at[p] /\ at[p + 1] <= Len(F) /\ at[p + 1] = EqAt(f, p) + Len(f[p].sent) + 1
      BY <2>1, LayoutOrder
    <2> QED BY <1>1, <1>2, <1>3, <2>2
  <1>6. /\ p # 1 => F[d + 1] = AMP
        /\ \A x \in 1 .. a : F[d + x + 1] = f[p].key[x]
        /\ F[d + a + 2] = EQ
        /\ \A x \in 1 .. b : F[d + a + 1 + x + 1] = f[p].sent[x]
    <2>1. IsLayout(f, at)
      BY LayoutOrder
    <2> HIDE DEF at, F
    <2> QED BY <2>1, <1>2, <1>3 DEF IsLayout, F
  <1>7. \A x \in 0 .. N - 1 : m[x] = F[x + 1]
    BY <1>1 DEF Shows
  <1>8. p # 1 => d >= 0
    <2>1. p # 1 => 1 \in 1 .. Len(f) + 1 /\ p \in 1 .. Len(f) + 1 /\ 1 < p
      BY PairTypes
    <2>2. p # 1 => at[1] + 2 <= at[p]
      BY <2>1, LayoutOrder
    <2>3. at[1] = -1
      BY LayoutOrder DEF IsLayout
    <2> HIDE DEF at
    <2> QED BY <1>3, <2>2, <2>3
  <1> HIDE DEF at, F
  <1>9. ASSUME p # 1 PROVE m[d] = AMP
    <2>1. d \in 0 .. N - 1
      BY <1>4, <1>5, <1>8, <1>9
    <2> QED BY <1>6, <1>7, <1>9, <2>1
  <1>10. ASSUME NEW x \in 1 .. a PROVE m[d + x] = f[p].key[x]
    <2>1. d + x \in 0 .. N - 1
      BY <1>4, <1>5
    <2> QED BY <1>6, <1>7, <2>1
  <1>11. m[e] = EQ
    <2>1. e \in 0 .. N - 1 /\ e + 1 = d + a + 2
      BY <1>4, <1>5
    <2> QED BY <1>6, <1>7, <2>1
  <1>12. ASSUME NEW x \in 1 .. b PROVE m[e + x] = f[p].sent[x]
    <2>1. e + x \in 0 .. N - 1 /\ (e + x) + 1 = d + a + 1 + x + 1
      BY <1>4, <1>5
    <2> QED BY <1>6, <1>7, <2>1
  <1> QED BY <1>2, <1>3, <1>9, <1>10, <1>11, <1>12 DEF at

\* raw_buf1 shows the form that arrived.
LEMMA MemoryShows ==
    ASSUME NEW f \in Forms, NEW rest \in Behind
    PROVE  Memory(f, rest) \in [0 .. Len(Flat(f)) + WIDTH - 1 -> Nat] /\ Shows(Memory(f, rest), f)
  <1> DEFINE F == Flat(f)
             all == F \o rest
  <1>1. F \in Seq(Nat)
    BY FormLayout
  <1>2. rest \in Seq(Nat) /\ Len(rest) = WIDTH
    <2>1. rest \in [1 .. WIDTH -> Nat] /\ WIDTH \in Nat
      BY SizesAssumption
    <2> QED BY <2>1, TupleIsSeq
  <1>3. PICK N \in Nat : N = Len(F)
    BY <1>1, LenProperties
  <1>4. WIDTH \in Nat
    BY SizesAssumption
  <1>r. rest \in Seq(Nat)
    BY <1>2
  <1>5. /\ all \in Seq(Nat)
        /\ Len(all) = Len(F) + Len(rest)
        /\ \A x \in 1 .. Len(F) : all[x] = F[x]
    BY <1>1, <1>r, ConcatFront
  <1>6. Memory(f, rest) = [n \in 0 .. Len(all) - 1 |-> all[n + 1]]
    BY DEF Memory
  <1>a. all \in Seq(Nat)
    BY <1>5
  <1> HIDE DEF F, all
  <1>7. Len(all) = N + WIDTH /\ \A x \in 1 .. N : all[x] = F[x]
    BY <1>2, <1>3, <1>5
  <1>8. ASSUME NEW n \in 0 .. N + WIDTH - 1 PROVE all[n + 1] \in Nat
    <2>1. n + 1 \in 1 .. Len(all)
      BY <1>4, <1>7
    <2> QED BY <1>a, <2>1, ElementOfSeq
  <1>b. Memory(f, rest) = [n \in 0 .. N + WIDTH - 1 |-> all[n + 1]]
    <2>0. PICK a \in Nat : a = Len(all) /\ a = N + WIDTH
      BY <1>4, <1>7
    <2>1. Len(all) - 1 = N + WIDTH - 1
      BY <1>4, <2>0
    <2> QED BY <1>6, <2>1
  <1>9. Memory(f, rest) \in [0 .. N + WIDTH - 1 -> Nat]
    BY <1>b, <1>8
  <1>10. ASSUME NEW x \in 0 .. N - 1 PROVE Memory(f, rest)[x] = F[x + 1]
    <2>1. x \in 0 .. N + WIDTH - 1 /\ x + 1 \in 1 .. N
      BY <1>4
    <2>2. Memory(f, rest)[x] = all[x + 1]
      BY <1>b, <2>1
    <2> QED BY <1>7, <2>1, <2>2
  <1> QED BY <1>3, <1>9, <1>10 DEF Shows, F

\* Between a separator and the EQ behind it there is no other EQ ...
LEMMA NoEqBefore ==
    ASSUME NEW f \in Forms, NEW m, Shows(m, f), NEW p \in 1 .. Len(f),
           NEW x \in Nat, At(f)[p] <= x, x < EqAt(f, p)
    PROVE  m[x] # EQ
  <1>1. PICK a \in Nat : a = Len(f[p].key)
    BY PairTypes
  <1>2. p \in 1 .. Len(f) + 1
    BY PairTypes
  <1>3. PICK d \in Int, e \in Nat : d = At(f)[p] /\ e = EqAt(f, p)
    BY <1>2, LayoutOrder
  <1>4. e = d + a + 1
    BY <1>1, <1>3 DEF EqAt
  <1>5. CASE x = d
    <2>1. p # 1
      BY <1>3, <1>5, LayoutOrder DEF IsLayout
    <2>2. m[x] = AMP
      BY <1>3, <1>5, <2>1, ShowsPairs
    <2> QED BY <2>2 DEF AMP, EQ
  <1>6. CASE x # d
    <2>1. x - d \in 1 .. a /\ d + (x - d) = x
      BY <1>3, <1>4, <1>6, SMTT(30)
    <2>2. \A y \in 1 .. a : m[d + y] = f[p].key[y]
      BY <1>1, <1>3, ShowsPairs, SMTT(30)
    <2>3. \A y \in 1 .. a : f[p].key[y] # EQ
      BY <1>1, FormsAssumption
    <2> QED BY <2>1, <2>2, <2>3
  <1> QED BY <1>5, <1>6

\* ... and between an EQ and the end of its value no AMP.
LEMMA NoAmpBefore ==
    ASSUME NEW f \in Forms, NEW m, Shows(m, f), NEW p \in 1 .. Len(f),
           NEW x \in Nat, EqAt(f, p) <= x, x < At(f)[p + 1]
    PROVE  m[x] # AMP
  <1>1. PICK b \in Nat : b = Len(f[p].sent)
    BY PairTypes
  <1>2. p + 1 \in 1 .. Len(f) + 1
    BY PairTypes
  <1>3. PICK d \in Int, e \in Nat : d = At(f)[p + 1] /\ e = EqAt(f, p)
    BY <1>2, LayoutOrder
  <1>4. d = e + b + 1
    BY <1>1, <1>3, LayoutOrder
  <1>5. CASE x = e
    <2>1. m[x] = EQ
      BY <1>3, <1>5, ShowsPairs
    <2> QED BY <2>1 DEF AMP, EQ
  <1>6. CASE x # e
    <2>1. x - e \in 1 .. b /\ e + (x - e) = x
      BY <1>3, <1>4, <1>6
    <2>2. \A y \in 1 .. b : m[e + y] = f[p].sent[y]
      BY <1>1, <1>3, ShowsPairs
    <2>3. \A y \in 1 .. b : f[p].sent[y] # AMP
      BY <1>1, FormsAssumption
    <2> QED BY <2>1, <2>2, <2>3
  <1> QED BY <1>5, <1>6
------------------------------------------------------------------------------
(* The input, and the memory it lies in *)

\* The frame at the front of raw_buf1.
InputInv ==
    /\ build \in Builds /\ form \in Forms /\ behind \in Behind
    /\ frame.length = int_to_four_char(Len(Flat(form)))

\* The length field is read as the length of the form.
LEMMA LengthRead == InputInv => len = Len(Flat(form)) /\ len \in Nat
  <1> SUFFICES ASSUME InputInv PROVE len = Len(Flat(form)) /\ len \in Nat
    OBVIOUS
  <1>1. form \in Forms
    BY DEF InputInv
  <1>2. PICK N \in Nat : N = Len(Flat(form))
    BY <1>1, LayoutOrder
  <1>3. 2 * N + LITERALS < FIELD
    BY <1>1, <1>2, FormsAssumption
  <1>4. LITERALS = 12
    BY KeysAssumption DEF LITERALS
  <1>5. FIELD \in Nat
    BY SizesAssumption DEF FIELD
  <1>6. N \in 0 .. FIELD - 1
    BY <1>3, <1>4, <1>5
  <1>7. four_char_to_int(int_to_four_char(N)) = N
    BY <1>6, FieldHolds
  <1> QED BY <1>2, <1>7 DEF InputInv, len

\* raw_buf1 as it was, and with the bytes behind the form cleared.
Text == Memory(form, behind)
Wiped == [n \in DOMAIN Text |-> IF n >= len THEN 0 ELSE Text[n]]

\* While the form is split the SSE build has cleared the bytes behind it and put
\* them aside; at all other times they are in place.
StrInv ==
    /\ Splitting => /\ str = IF build = "serial" THEN Text ELSE Wiped
                    /\ build = "sse4" => restore_buf = [d \in 0 .. WIDTH - 1 |-> Text[len + d]]
    /\ ~Splitting /\ pc # "wild" => str = Text

\* Cleared or not, the form itself can be read.
LEMMA StrShows ==
    ASSUME InputInv, StrInv, pc # "wild"
    PROVE  /\ Shows(str, form)
           /\ Splitting /\ build = "sse4" => \A x \in len .. len + WIDTH - 1 : str[x] = 0
  <1>1. Text \in [0 .. len + WIDTH - 1 -> Nat] /\ Shows(Text, form) /\ len \in Nat /\ len = Len(Flat(form))
    BY MemoryShows, LengthRead DEF InputInv, Text
  <1>2. WIDTH \in Nat
    BY SizesAssumption
  <1>3. CASE str = Text
    <2>1. build = "serial" \/ ~Splitting \/ Wiped = Text
      BY <1>3, SizesAssumption DEF StrInv, InputInv
    <2>2. ASSUME Wiped = Text PROVE \A x \in len .. len + WIDTH - 1 : str[x] = 0
      BY <1>1, <1>2, <1>3, <2>2 DEF Wiped
    <2> QED BY <1>1, <1>3, <2>1, <2>2
  <1>4. CASE str = Wiped
    <2>1. \A x \in 0 .. len - 1 : str[x] = Text[x]
      BY <1>1, <1>2, <1>4 DEF Wiped
    <2>2. \A x \in len .. len + WIDTH - 1 : str[x] = 0
      BY <1>1, <1>2, <1>4 DEF Wiped
    <2> QED BY <1>1, <2>1, <2>2 DEF Shows
  <1> QED BY <1>3, <1>4 DEF StrInv

\* Restoring puts them back.
LEMMA RestoredIsText ==
    ASSUME InputInv, StrInv, Splitting
    PROVE  restored = Text
  <1>1. Text \in [0 .. len + WIDTH - 1 -> Nat] /\ len \in Nat
    BY MemoryShows, LengthRead DEF InputInv, Text
  <1>2. WIDTH \in Nat
    BY SizesAssumption
  <1>3. CASE build = "serial"
    BY <1>3 DEF StrInv, restored
  <1>4. CASE build = "sse4"
    <2> DEFINE D == 0 .. len + WIDTH - 1
    <2>1. str = [n \in D |-> IF n >= len THEN 0 ELSE Text[n]]
      BY <1>1, <1>4 DEF StrInv, Wiped
    <2>2. restore_buf = [d \in 0 .. WIDTH - 1 |-> Text[len + d]]
      BY <1>4 DEF StrInv
    <2>3. restored = [n \in D |-> IF n >= len THEN restore_buf[n - len] ELSE str[n]]
      BY <1>4, <2>1 DEF restored
    <2>4. ASSUME NEW n \in D PROVE restored[n] = Text[n]
      <3>1. CASE n >= len
        <4>1. n - len \in 0 .. WIDTH - 1 /\ len + (n - len) = n
          BY <1>1, <1>2, <3>1
        <4> QED BY <2>2, <2>3, <3>1, <4>1
      <3>2. CASE ~(n >= len)
        BY <2>1, <2>3, <3>2
      <3> QED BY <3>1, <3>2
    <2>5. Text = [n \in D |-> Text[n]]
      BY <1>1
    <2>6. restored = [n \in D |-> restored[n]]
      BY <2>3
    <2> QED BY <2>4, <2>5, <2>6
  <1> QED BY <1>3, <1>4, SizesAssumption DEF InputInv
------------------------------------------------------------------------------
(* simd_split_efficient *)

\* The separators of a pair stand in order, those of the last one end with the form.
LEMMA PairPlaces ==
    ASSUME InputInv, NEW p \in 1 .. Len(form)
    PROVE  /\ Len(form) \in Nat /\ p \in Nat /\ p <= Len(form) /\ 1 <= p
           /\ At(form)[p] \in Int /\ At(form)[p + 1] \in Nat /\ EqAt(form, p) \in Nat /\ len \in Nat
           /\ -1 <= At(form)[p] /\ At(form)[p] < EqAt(form, p) /\ EqAt(form, p) < At(form)[p + 1]
           /\ EqAt(form, p) < len /\ At(form)[p + 1] <= len
           /\ p < Len(form) => At(form)[p + 1] < len
           /\ p = Len(form) => At(form)[p + 1] = len
           /\ p = 1 => At(form)[p] = -1
  <1> DEFINE at == At(form)
             L == Len(form)
  <1>1. form \in Forms /\ len = Len(Flat(form)) /\ len \in Nat
    BY LengthRead DEF InputInv
  <1>2. L \in Nat /\ L > 0 /\ Len(form[p].key) \in Nat /\ Len(form[p].sent) \in Nat
    BY <1>1, PairTypes
  <1>3. /\ p \in 1 .. L + 1 /\ p + 1 \in 1 .. L + 1 /\ L + 1 \in 1 .. L + 1
        /\ p \in Nat /\ p <= L /\ 1 <= p
    BY <1>2
  <1>4. at[p] \in Int /\ -1 <= at[p] /\ at[p + 1] \in Int /\ at[L + 1] \in Int
    BY <1>1, <1>3, LayoutOrder
  <1>5. EqAt(form, p) \in Nat /\ at[p + 1] = EqAt(form, p) + Len(form[p].sent) + 1
    BY <1>1, LayoutOrder
  <1>6. EqAt(form, p) = at[p] + Len(form[p].key) + 1
    BY DEF EqAt
  <1>7. at[1] = -1 /\ at[L + 1] = len
    BY <1>1, LayoutOrder DEF IsLayout
  <1>8. p + 1 < L + 1 => at[p + 1] + 2 <= at[L + 1]
    BY <1>1, <1>3, LayoutOrder
  <1> HIDE DEF at, L
  <1>9. at[p] < EqAt(form, p) /\ EqAt(form, p) < at[p + 1] /\ at[p + 1] \in Nat
    <2>1. PICK a \in Nat, b \in Nat, c \in Int, d \in Nat :
            a = Len(form[p].key) /\ b = Len(form[p].sent) /\ c = at[p] /\ d = EqAt(form, p)
      BY <1>2, <1>4, <1>5
    <2>2. d = c + a + 1 /\ at[p + 1] = d + b + 1
      BY <1>5, <1>6, <2>1
    <2>3. c < d /\ d < d + b + 1 /\ d + b + 1 \in Nat
      BY <2>2
    <2> QED BY <2>1, <2>2, <2>3
  <1>10. p < L => at[p + 1] < len
    BY <1>2, <1>3, <1>4, <1>7, <1>8
  <1>11. EqAt(form, p) < len /\ at[p + 1] <= len
    <2>1. PICK a \in Nat, b \in Nat, c \in Nat : a = EqAt(form, p) /\ b = at[p + 1] /\ c = len
      BY <1>1, <1>5, <1>9
    <2>2. b <= c
      BY <1>1, <1>3, <2>1, LayoutOrder DEF at, L
    <2>3. a < b
      BY <1>9, <2>1
    <2>4. a < c
      BY <2>2, <2>3
    <2> QED BY <2>1, <2>2, <2>4
  <1> QED BY <1>1, <1>2, <1>3, <1>4, <1>5, <1>7, <1>9, <1>10, <1>11 DEF at, L

\* The offsets found so far are the places of the separators, in order.
OffsetsRight ==
    /\ off \in Seq(Int)
    /\ \A p \in 1 .. Len(form) + 1 : 2 * p - 1 <= Len(off) => off[2 * p - 1] = At(form)[p]
    /\ \A p \in 1 .. Len(form) : 2 * p <= Len(off) => off[2 * p] = EqAt(form, p)

\* The search is for the EQ of the p-th pair, or for the end of its value.
SeekingEq(p) ==
    /\ p \in 1 .. Len(form) /\ Len(off) = 2 * p - 1
    /\ i \in Nat /\ At(form)[p] <= i /\ i <= EqAt(form, p)
SeekingAmp(p) ==
    /\ p \in 1 .. Len(form) /\ Len(off) = 2 * p
    /\ i \in Nat /\ EqAt(form, p) <= i /\ i <= At(form)[p + 1] /\ i < len

AfterSplit == pc \in {"field", "value", "path", "at Dubbo", "result", "done"}

SplitInv ==
    /\ pc \in {"split", "eq", "amp", "wild"} \/ AfterSplit
    /\ pc = "eq" => OffsetsRight /\ \E p \in 1 .. Len(form) : SeekingEq(p)
    /\ pc = "amp" => OffsetsRight /\ \E p \in 1 .. Len(form) : SeekingAmp(p)
    /\ AfterSplit => OffsetsRight /\ Len(off) = 2 * Len(form) + 1 /\ RoomForPairs
    /\ pc = "wild" => ~RoomForPairs

\* One more offset, the right one.
LEMMA OffsetAppended ==
    ASSUME OffsetsRight, NEW p \in 1 .. Len(form), Len(form) \in Nat, form' = form, NEW n \in Int,
           off' = Append(off, n),
           \/ Len(off) = 2 * p - 1 /\ n = EqAt(form, p)
           \/ Len(off) = 2 * p /\ n = At(form)[p + 1]
    PROVE  OffsetsRight' /\ Len(off') = Len(off) + 1
  <1>1. off \in Seq(Int)
    BY DEF OffsetsRight
  <1>2. PICK m \in Nat : m = Len(off)
    BY <1>1, LenProperties
  <1>3. /\ off' \in Seq(Int) /\ Len(off') = m + 1 /\ off'[m + 1] = n
        /\ \A x \in 1 .. m : off'[x] = off[x]
    BY <1>1, <1>2, AppendProperties
  <1>4. At(form)' = At(form) /\ \A q : EqAt(form, q)' = EqAt(form, q)
    BY DEF At, EqAt, IsLayout
  <1>5. ASSUME NEW q \in 1 .. Len(form) + 1, 2 * q - 1 <= m + 1 PROVE off'[2 * q - 1] = At(form)[q]
    <2>1. CASE 2 * q - 1 <= m
      <3>1. 2 * q - 1 \in 1 .. m
        BY <2>1
      <3>2. off[2 * q - 1] = At(form)[q]
        BY <1>2, <2>1 DEF OffsetsRight
      <3> QED BY <1>3, <3>1, <3>2
    <2>2. CASE ~(2 * q - 1 <= m)
      <3>1. 2 * q - 1 = m + 1
        BY <1>5, <2>2
      <3>2. m = 2 * p /\ n = At(form)[p + 1] /\ q = p + 1
        BY <1>2, <3>1
      <3> QED BY <1>3, <3>1, <3>2
    <2> QED BY <2>1, <2>2
  <1>6. ASSUME NEW q \in 1 .. Len(form), 2 * q <= m + 1 PROVE off'[2 * q] = EqAt(form, q)
    <2>1. CASE 2 * q <= m
      <3>1. 2 * q \in 1 .. m
        BY <2>1
      <3>2. off[2 * q] = EqAt(form, q)
        BY <1>2, <2>1 DEF OffsetsRight
      <3> QED BY <1>3, <3>1, <3>2
    <2>2. CASE ~(2 * q <= m)
      <3>1. 2 * q = m + 1
        BY <1>6, <2>2
      <3>2. m = 2 * p - 1 /\ n = EqAt(form, p) /\ q = p
        BY <1>2, <3>1
      <3> QED BY <1>3, <3>1, <3>2
    <2> QED BY <2>1, <2>2
  <1> QED BY <1>2, <1>3, <1>4, <1>5, <1>6 DEF OffsetsRight

\* The array is full only if the form has too many pairs.
LEMMA OffsetsFull ==
    ASSUME Len(form) \in Nat, NEW m \in Nat, m <= 2 * Len(form), ~(m < OFFSETS)
    PROVE  ~RoomForPairs
  <1>1. OFFSETS \in Nat /\ OFFSETS > 0
    BY SizesAssumption
  <1>2. PICK a \in Nat : a = OFFSETS - 1
    BY <1>1
  <1>3. a \div 2 \in Nat /\ 2 * (a \div 2) <= a
    OBVIOUS
  <1>4. PICK h \in Nat : h = a \div 2 /\ 2 * h <= a
    BY <1>3
  <1>5. PICK L \in Nat : L = Len(form)
    OBVIOUS
  <1>6. ~(L <= h)
    BY <1>1, <1>2, <1>4, <1>5
  <1> QED BY <1>2, <1>4, <1>5, <1>6 DEF RoomForPairs

\* The last offset has a place only if there are not too many.
LEMMA OffsetsFit ==
    ASSUME Len(form) \in Nat, 2 * Len(form) < OFFSETS
    PROVE  RoomForPairs
  <1>0. OFFSETS \in Nat /\ OFFSETS > 0
    BY SizesAssumption
  <1>4. PICK L \in Nat : L = Len(form)
    OBVIOUS
  <1>5. PICK a \in Nat : a = OFFSETS - 1
    BY <1>0
  <1>1. a = OFFSETS - 1 /\ L = Len(form) /\ 2 * L <= a
    <2>1. 2 * L < OFFSETS
      BY <1>4
    <2> QED BY <2>1, <1>0, <1>4, <1>5
  <1>2. PICK h \in Nat : h = a \div 2 /\ a < 2 * h + 2
    OBVIOUS
  <1>3. L <= h
    BY <1>1, <1>2
  <1> QED BY <1>1, <1>2, <1>3 DEF RoomForPairs

\* The bytes behind the form are cleared, and the search begins before its first pair.
LEMMA SplitBegins ==
    ASSUME InputInv, StrInv, SplitInv, split_begin
    PROVE  InputInv' /\ StrInv' /\ SplitInv'
  <1> USE DEF split_begin, inputVars
  <1>1. InputInv'
    BY DEF InputInv
  <1>2. str = Text /\ len' = len /\ Text' = Text
    BY DEF StrInv, Splitting, len, Text
  <1>3. StrInv'
    <2>1. pc' = "eq" /\ build' = build
      BY DEF StrInv
    <2>2. str' = IF build = "serial" THEN Text ELSE Wiped
      BY <1>2 DEF Wiped
    <2>3. build = "sse4" => restore_buf' = [d \in 0 .. WIDTH - 1 |-> Text[len + d]]
      BY <1>2
    <2>4. Wiped' = Wiped
      BY <1>2 DEF Wiped
    <2> QED BY <1>2, <2>1, <2>2, <2>3, <2>4 DEF StrInv, Splitting
  <1>4. 1 \in 1 .. Len(form)
    <2>1. Len(form) \in Nat /\ Len(form) > 0
      BY PairTypes DEF InputInv
    <2> QED BY <2>1
  <1>5. At(form)[1] = -1 /\ EqAt(form, 1) \in Nat
    BY <1>4, PairPlaces
  <1>6. off' \in Seq(Int) /\ Len(off') = 1 /\ off'[1] = -1 /\ form' = form
    BY DEF SplitInv
  <1>7. OffsetsRight'
    <2>1. ASSUME NEW p \in 1 .. Len(form) + 1, 2 * p - 1 <= 1 PROVE off'[2 * p - 1] = At(form)[p]
      <3>1. p = 1 /\ 2 * p - 1 = 1
        BY <2>1
      <3> QED BY <1>5, <1>6, <3>1
    <2>2. \A p \in 1 .. Len(form) : ~(2 * p <= 1)
      OBVIOUS
    <2> QED BY <1>6, <2>1, <2>2 DEF OffsetsRight
  <1>8. SeekingEq(1)'
    <2>1. i' = 0 /\ 0 <= EqAt(form, 1) /\ -1 <= 0
      BY <1>5
    <2> QED BY <1>4, <1>5, <1>6, <2>1 DEF SeekingEq
  <1>9. pc' = "eq"
    OBVIOUS
  <1> QED BY <1>1, <1>3, <1>4, <1>6, <1>7, <1>8, <1>9 DEF SplitInv, AfterSplit

\* The EQ of the p-th pair is found, or looked for in the next block.
LEMMA SplitSeeksEq ==
    ASSUME InputInv, StrInv, SplitInv, split_eq
    PROVE  InputInv' /\ StrInv' /\ SplitInv'
  <1> USE DEF split_eq, inputVars
  <1>0. pc = "eq" /\ form' = form /\ len' = len /\ str' = str
    BY DEF len
  <1>1. InputInv'
    BY DEF InputInv
  <1>2. PICK p \in 1 .. Len(form) : SeekingEq(p)
    BY <1>0 DEF SplitInv
  <1>3. OffsetsRight
    BY <1>0 DEF SplitInv
  <1>4. PICK e \in Nat : e = EqAt(form, p)
    BY PairPlaces
  <1>5. i \in Nat /\ i <= e /\ At(form)[p] <= i /\ Len(off) = 2 * p - 1
    BY <1>2, <1>4 DEF SeekingEq
  <1>6. Shows(str, form)
    BY <1>0, StrShows
  <1>7. str[e] = EQ
    BY <1>4, <1>6, ShowsPairs DEF InputInv
  <1>8. ASSUME NEW x \in i .. e - 1 PROVE str[x] # EQ
    <2>1. x \in Nat /\ i <= x /\ x < e
      BY <1>4, <1>5
    <2>2. At(form)[p] \in Int
      BY PairPlaces
    <2>3. At(form)[p] <= x
      BY <1>5, <2>1, <2>2
    <2> QED BY <1>4, <1>6, <2>1, <2>3, NoEqBefore DEF InputInv
  <1>9. i' = IF e < i + Block THEN e ELSE i + Block
    <2>1. build \in Builds
      BY DEF InputInv
    <2>2. i + advance(i, EQ) = IF e < i + Block THEN e ELSE i + Block
      BY <1>5, <1>7, <1>8, <2>1, AdvanceTo
    <2> QED BY <2>2
  <1>10. Block \in Nat /\ 1 <= Block
    BY BlockSize
  <1>11. Len(form) \in Nat /\ p \in Nat /\ p <= Len(form) /\ 1 <= p
    BY PairPlaces
  <1>12. CASE e < i + Block
    <2>1. i' = e /\ PutOffset(e, "amp")
      BY <1>9, <1>12
    <2>2. CASE Len(off) < OFFSETS
      <3>1. off' = Append(off, e) /\ pc' = "amp"
        BY <2>1, <2>2 DEF PutOffset
      <3>2. OffsetsRight' /\ Len(off') = Len(off) + 1
        BY <1>0, <1>3, <1>4, <1>5, <1>11, <3>1, OffsetAppended
      <3>3. Len(off') = 2 * p
        BY <1>5, <1>11, <3>2
      <3>4. e <= At(form)[p + 1] /\ e < len
        <4>1. PICK a \in Nat : a = At(form)[p + 1]
          BY PairPlaces
        <4>2. e < a /\ e < len
          BY <1>4, <4>1, PairPlaces
        <4> QED BY <4>1, <4>2
      <3>5. SeekingAmp(p)'
        BY <1>0, <1>4, <2>1, <3>3, <3>4 DEF SeekingAmp
      <3>6. SplitInv'
        BY <1>0, <3>1, <3>2, <3>5 DEF SplitInv, AfterSplit
      <3>7. StrInv'
        BY <1>0, <3>1 DEF StrInv, Splitting, Text, Wiped, len
      <3> QED BY <1>1, <3>6, <3>7
    <2>3. CASE ~(Len(off) < OFFSETS)
      <3>1. pc' = "wild"
        BY <2>1, <2>3 DEF PutOffset
      <3>2. ~RoomForPairs
        <4>1. PICK m \in Nat : m = Len(off)
          BY <1>3, LenProperties DEF OffsetsRight
        <4>2. m <= 2 * Len(form)
          BY <1>5, <1>11, <4>1
        <4> QED BY <1>11, <2>3, <4>1, <4>2, OffsetsFull
      <3>3. SplitInv'
        BY <1>0, <3>1, <3>2 DEF SplitInv, AfterSplit, RoomForPairs
      <3>4. StrInv'
        BY <3>1 DEF StrInv, Splitting
      <3> QED BY <1>1, <3>3, <3>4
    <2> QED BY <2>2, <2>3
  <1>13. CASE ~(e < i + Block)
    <2>1. i' = i + Block
      BY <1>9, <1>13
    <2>2. ~(i' < i + Block)
      BY <1>5, <1>10, <2>1
    <2>3. pc' = "eq" /\ off' = off
      BY <1>0, <2>2
    <2>4. i' \in Nat /\ i' <= e /\ At(form)[p] <= i'
      <3>1. At(form)[p] \in Int
        BY PairPlaces
      <3> QED BY <1>5, <1>10, <1>13, <2>1, <3>1
    <2>5. SeekingEq(p)'
      BY <1>0, <1>4, <1>5, <2>3, <2>4 DEF SeekingEq
    <2>6. OffsetsRight'
      BY <1>0, <1>3, <2>3 DEF OffsetsRight
    <2>7. SplitInv'
      BY <1>0, <2>3, <2>5, <2>6 DEF SplitInv, AfterSplit
    <2>8. StrInv'
      BY <1>0, <2>3 DEF StrInv, Splitting, Text, Wiped, len
    <2> QED BY <1>1, <2>7, <2>8
  <1> QED BY <1>12, <1>13

\* The block at i has no AMP when the rest of the last value, and the cleared bytes
\* behind it, are all it holds.
LEMMA NoAmpAtEnd ==
    ASSUME InputInv, StrInv, Splitting, SeekingAmp(Len(form)), NEW x \in i .. i + Block - 1
    PROVE  str[x] # AMP
  <1>1. Len(form) \in 1 .. Len(form) /\ i \in Nat /\ EqAt(form, Len(form)) <= i /\ i < len
    BY DEF SeekingAmp
  <1>2. len \in Nat /\ At(form)[Len(form) + 1] = len /\ EqAt(form, Len(form)) \in Nat
    BY <1>1, PairPlaces
  <1>3. PICK n \in Nat : n = len
    BY <1>2
  <1>4. Block \in Nat /\ 1 <= Block /\ Block <= WIDTH /\ WIDTH \in Nat
    BY BlockSize, SizesAssumption
  <1>5. pc # "wild"
    BY DEF Splitting
  <1>6. x \in Nat /\ i <= x /\ x < i + Block
    BY <1>1, <1>4
  <1>7. CASE x < n
    <2>1. EqAt(form, Len(form)) <= x
      BY <1>1, <1>2, <1>6
    <2>2. Shows(str, form)
      BY <1>5, StrShows
    <2> QED BY <1>1, <1>2, <1>3, <1>6, <1>7, <2>1, <2>2, NoAmpBefore DEF InputInv
  <1>8. CASE ~(x < n)
    <2>1. Block # 1
      BY <1>1, <1>3, <1>6, <1>8
    <2>2. build = "sse4"
      BY <2>1, SizesAssumption DEF Block, InputInv
    <2>3. x \in n .. n + WIDTH - 1
      BY <1>1, <1>3, <1>4, <1>6, <1>8
    <2>4. str[x] = 0
      BY <1>3, <1>5, <2>2, <2>3, StrShows
    <2> QED BY <2>4 DEF AMP
  <1> QED BY <1>7, <1>8

\* Where the search for an AMP comes to from the block at i: to the end of the
\* value, or a block on.
LEMMA AmpSearch ==
    ASSUME InputInv, StrInv, pc = "amp", NEW p \in 1 .. Len(form), SeekingAmp(p), NEW t \in Nat, t = At(form)[p + 1],
           NEW to, to = i + advance(i, AMP)
    PROVE  /\ to \in Nat
           /\ p < Len(form) => t < len /\ to = IF t < i + Block THEN t ELSE i + Block
           /\ p = Len(form) => t = len /\ to = i + Block
  <1>1. i \in Nat /\ EqAt(form, p) <= i /\ i <= t /\ i < len
    BY DEF SeekingAmp
  <1>2. Shows(str, form) /\ Splitting
    BY StrShows DEF Splitting
  <1>3. Block \in Nat /\ 1 <= Block
    BY BlockSize
  <1>4. EqAt(form, p) \in Nat /\ Len(form) \in Nat /\ p \in Nat /\ p <= Len(form)
    BY PairPlaces
  <1>5. CASE p < Len(form)
    <2>1. t < len
      BY <1>5, PairPlaces
    <2>2. p + 1 \in 1 .. Len(form) /\ p + 1 # 1
      BY <1>4, <1>5
    <2>3. str[t] = AMP
      BY <1>2, <2>2, ShowsPairs DEF InputInv
    <2>4. ASSUME NEW x \in i .. t - 1 PROVE str[x] # AMP
      <3>1. x \in Nat /\ EqAt(form, p) <= x /\ x < t
        BY <1>1, <1>4
      <3> QED BY <1>2, <3>1, NoAmpBefore DEF InputInv
    <2>5. build \in Builds
      BY DEF InputInv
    <2>6. to = IF t < i + Block THEN t ELSE i + Block
      BY <1>1, <2>3, <2>4, <2>5, AdvanceTo
    <2> QED BY <1>1, <1>3, <1>4, <1>5, <2>1, <2>6
  <1>6. CASE p = Len(form)
    <2>1. \A x \in i .. i + Block - 1 : str[x] # AMP
      BY <1>2, <1>6, NoAmpAtEnd
    <2>2. to = i + Block
      BY <1>1, <2>1, AdvanceMisses
    <2>3. t = len
      BY <1>6, PairPlaces
    <2> QED BY <1>1, <1>3, <1>4, <1>6, <2>2, <2>3
  <1> QED BY <1>4, <1>5, <1>6

\* The end of the p-th value is found, or looked for in the next block.
LEMMA SplitSeeksAmp ==
    ASSUME InputInv, StrInv, SplitInv, split_amp
    PROVE  InputInv' /\ StrInv' /\ SplitInv'
  <1> DEFINE to == i + advance(i, AMP)
  <1>0. /\ pc = "amp" /\ form' = form /\ len' = len /\ i' = to /\ Splitting
        /\ build' = build /\ behind' = behind /\ frame' = frame /\ restore_buf' = restore_buf
    BY DEF split_amp, inputVars, len, Splitting
  <1>1. InputInv'
    BY <1>0 DEF InputInv
  <1>2. PICK p \in 1 .. Len(form) : SeekingAmp(p)
    BY <1>0 DEF SplitInv
  <1>3. OffsetsRight
    BY <1>0 DEF SplitInv
  <1>4. PICK t \in Nat : t = At(form)[p + 1]
    BY PairPlaces
  <1>5. i \in Nat /\ EqAt(form, p) <= i /\ i <= t /\ i < len /\ Len(off) = 2 * p
    BY <1>2, <1>4 DEF SeekingAmp
  <1>6. Block \in Nat /\ 1 <= Block
    BY BlockSize
  <1>7. /\ Len(form) \in Nat /\ p \in Nat /\ p <= Len(form) /\ 1 <= p
        /\ EqAt(form, p) \in Nat /\ len \in Nat
    BY PairPlaces
  <1>8. /\ to \in Nat
        /\ p < Len(form) => t < len /\ to = IF t < i + Block THEN t ELSE i + Block
        /\ p = Len(form) => t = len /\ to = i + Block
    BY <1>0, <1>2, <1>4, AmpSearch
  <1>9. /\ IF to < i + Block \/ to >= len
           THEN PutOffset(IF to < len THEN to ELSE len, IF to >= len THEN "field" ELSE "eq")
           ELSE UNCHANGED <<pc, off>>
        /\ str' = IF to >= len THEN restored ELSE str
    BY DEF split_amp
  <1> HIDE DEF to
  <1>10. PICK n \in Nat : n = len
    BY <1>7
  <1>11. restored = Text
    BY <1>0, RestoredIsText
  <1>12. Text' = Text /\ Wiped' = Wiped
    BY <1>0 DEF Text, Wiped
  <1>13. CASE to < i + Block \/ to >= n
    <2>1. (to < n => p < Len(form) /\ to = t) /\ (to >= n => p = Len(form) /\ t = n)
      BY <1>5, <1>6, <1>7, <1>8, <1>10, <1>13
    <2>2. PutOffset(t, IF to >= n THEN "field" ELSE "eq")
      BY <1>8, <1>9, <1>10, <1>13, <2>1
    <2>3. CASE Len(off) < OFFSETS
      <3>1. off' = Append(off, t) /\ pc' = IF to >= n THEN "field" ELSE "eq"
        BY <2>2, <2>3 DEF PutOffset
      <3>2. OffsetsRight' /\ Len(off') = Len(off) + 1
        BY <1>0, <1>3, <1>4, <1>5, <1>7, <3>1, OffsetAppended
      <3>3. Len(off') = 2 * p + 1
        BY <1>5, <3>2
      <3>4. CASE to >= n
        <4>1. pc' = "field" /\ str' = Text /\ p = Len(form)
          BY <1>9, <1>10, <1>11, <2>1, <3>1, <3>4
        <4>4. RoomForPairs
          BY <1>5, <1>7, <2>3, <4>1, OffsetsFit
        <4>2. SplitInv'
          BY <1>0, <3>2, <3>3, <4>1, <4>4 DEF SplitInv, AfterSplit, RoomForPairs
        <4>3. StrInv'
          BY <1>12, <4>1 DEF StrInv, Splitting
        <4> QED BY <1>1, <4>2, <4>3
      <3>5. CASE ~(to >= n)
        <4>1. pc' = "eq" /\ str' = str /\ p < Len(form) /\ i' = t
          BY <1>0, <1>8, <1>9, <1>10, <2>1, <3>1, <3>5
        <4>2. p + 1 \in 1 .. Len(form) /\ Len(off') = 2 * (p + 1) - 1
          BY <1>7, <3>3, <4>1
        <4>3. t <= EqAt(form, p + 1)
          <5>1. PICK e \in Nat : e = EqAt(form, p + 1)
            BY <4>2, PairPlaces
          <5>2. t < e
            BY <1>4, <4>2, <5>1, PairPlaces
          <5> QED BY <5>1, <5>2
        <4>4. SeekingEq(p + 1)'
          BY <1>0, <1>4, <4>1, <4>2, <4>3 DEF SeekingEq
        <4>5. SplitInv'
          BY <1>0, <3>2, <4>1, <4>2, <4>4 DEF SplitInv, AfterSplit
        <4>6. StrInv'
          BY <1>0, <1>12, <4>1 DEF StrInv, Splitting
        <4> QED BY <1>1, <4>5, <4>6
      <3> QED BY <3>4, <3>5
    <2>4. CASE ~(Len(off) < OFFSETS)
      <3>1. pc' = "wild"
        BY <2>2, <2>4 DEF PutOffset
      <3>2. ~RoomForPairs
        <4>1. 2 * p \in Nat /\ 2 * p <= 2 * Len(form)
          BY <1>7
        <4> QED BY <1>5, <1>7, <2>4, <4>1, OffsetsFull
      <3>3. SplitInv'
        BY <1>0, <3>1, <3>2 DEF SplitInv, AfterSplit, RoomForPairs
      <3>4. StrInv'
        BY <3>1 DEF StrInv, Splitting
      <3> QED BY <1>1, <3>3, <3>4
    <2> QED BY <2>3, <2>4
  <1>14. CASE ~(to < i + Block \/ to >= n)
    <2>1. pc' = "amp" /\ off' = off /\ str' = str /\ to = i + Block /\ to < n
      BY <1>0, <1>5, <1>6, <1>8, <1>9, <1>10, <1>14
    <2>2. EqAt(form, p) <= to /\ to <= t
      BY <1>5, <1>6, <1>7, <1>8, <1>10, <2>1
    <2>3. SeekingAmp(p)'
      BY <1>0, <1>4, <1>5, <1>8, <1>10, <2>1, <2>2 DEF SeekingAmp
    <2>4. OffsetsRight'
      BY <1>0, <1>3, <2>1 DEF OffsetsRight
    <2>5. SplitInv'
      BY <1>0, <2>1, <2>3, <2>4 DEF SplitInv, AfterSplit
    <2>6. StrInv'
      BY <1>0, <1>12, <2>1 DEF StrInv, Splitting
    <2> QED BY <1>1, <2>5, <2>6
  <1> QED BY <1>13, <1>14

\* What the steps behind the split leave alone.
LEMMA SplitKept ==
    ASSUME InputInv, StrInv, SplitInv, AfterSplit, AfterSplit', UNCHANGED <<inputVars, str, splitVars>>
    PROVE  InputInv' /\ StrInv' /\ SplitInv'
  <1>1. /\ build' = build /\ form' = form /\ frame' = frame /\ behind' = behind /\ str' = str
        /\ off' = off
    BY DEF inputVars, splitVars
  <1>2. InputInv' /\ len' = len /\ Text' = Text
    BY <1>1 DEF InputInv, len, Text
  <1>3. ~Splitting /\ pc # "wild" /\ ~Splitting' /\ pc' # "wild" /\ pc' # "eq" /\ pc' # "amp"
    BY DEF AfterSplit, Splitting
  <1>4. StrInv'
    BY <1>1, <1>2, <1>3 DEF StrInv
  <1>5. OffsetsRight' /\ Len(off') = 2 * Len(form') + 1 /\ RoomForPairs'
    BY <1>1 DEF SplitInv, OffsetsRight, RoomForPairs
  <1>6. SplitInv'
    BY <1>3, <1>5 DEF SplitInv
  <1> QED BY <1>2, <1>4, <1>6

\* Once the form is split, the offsets give back its pairs.
LEMMA PairsFound ==
    ASSUME InputInv, StrInv, SplitInv, AfterSplit
    PROVE  /\ Shows(str, form)
           /\ Pairs = 1 .. Len(form)
           /\ \A p \in 1 .. Len(form) :
                /\ Key(p) = form[p].key
                /\ val_off_beg(p) = EqAt(form, p) + 1
                /\ val_off_end(p) = EqAt(form, p) + Len(form[p].sent) + 1
           /\ \A k : FirstMatch(k) = FirstPair(k)
  <1> DEFINE L == Len(form)
  <1>1. OffsetsRight /\ Len(off) = 2 * L + 1
    BY DEF SplitInv
  <1>2. form \in Forms
    BY DEF InputInv
  <1>3. L \in Nat
    BY <1>2, PairTypes
  <1>4. Shows(str, form)
    BY StrShows DEF AfterSplit
  <1>5. Pairs = 1 .. L
    <2>1. PICK n \in Nat : n = L
      BY <1>3
    <2>2. (2 * n + 1) \div 2 = n
      OBVIOUS
    <2> QED BY <1>1, <2>1, <2>2 DEF Pairs
  <1>6. ASSUME NEW p \in 1 .. L
        PROVE  /\ Key(p) = form[p].key
               /\ val_off_beg(p) = EqAt(form, p) + 1
               /\ val_off_end(p) = EqAt(form, p) + Len(form[p].sent) + 1
    <2>1. p \in 1 .. L + 1 /\ p + 1 \in 1 .. L + 1 /\ 2 * p - 1 <= Len(off) /\ 2 * p <= Len(off)
          /\ 2 * (p + 1) - 1 <= Len(off) /\ 2 * (p + 1) - 1 = 2 * p + 1
      BY <1>1, <1>3
    <2>2. off[2 * p - 1] = At(form)[p] /\ off[2 * p] = EqAt(form, p) /\ off[2 * p + 1] = At(form)[p + 1]
      <3>1. \A q \in 1 .. L + 1 : 2 * q - 1 <= Len(off) => off[2 * q - 1] = At(form)[q]
        BY <1>1 DEF OffsetsRight
      <3>2. off[2 * p - 1] = At(form)[p]
        BY <2>1, <3>1
      <3>3. off[2 * (p + 1) - 1] = At(form)[p + 1]
        BY <2>1, <3>1
      <3>4. off[2 * p] = EqAt(form, p)
        BY <1>1, <2>1 DEF OffsetsRight
      <3> QED BY <2>1, <3>2, <3>3, <3>4
    <2>3. At(form)[p + 1] = EqAt(form, p) + Len(form[p].sent) + 1
      BY <1>2, LayoutOrder
    <2>4. PICK a \in Nat, d \in Int : a = Len(form[p].key) /\ d = At(form)[p]
      BY <1>2, <2>1, PairTypes, LayoutOrder
    <2>5. EqAt(form, p) = d + a + 1
      BY <2>4 DEF EqAt
    <2>6. Key(p) = [n \in 1 .. (d + a + 1) - (d + 1) |-> str[d + 1 + n - 1]]
      BY <2>2, <2>4, <2>5 DEF Key, Bytes
    <2>7. (d + a + 1) - (d + 1) = a
      OBVIOUS
    <2>8. ASSUME NEW n \in 1 .. a PROVE str[d + 1 + n - 1] = form[p].key[n]
      <3>1. d + 1 + n - 1 = d + n
        OBVIOUS
      <3>2. str[d + n] = form[p].key[n]
        BY <1>2, <1>4, <2>4, ShowsPairs
      <3> QED BY <3>1, <3>2
    <2>9. Key(p) = [n \in 1 .. a |-> form[p].key[n]]
      BY <2>6, <2>7, <2>8
    <2>10. form[p].key = [n \in 1 .. a |-> form[p].key[n]]
      <3>1. form[p].key \in Seq(Nat)
        BY <1>2, PairTypes
      <3> QED BY <2>4, <3>1, LenProperties
    <2> QED BY <2>2, <2>3, <2>9, <2>10 DEF val_off_beg, val_off_end
  <1>7. ASSUME NEW k PROVE FirstMatch(k) = FirstPair(k)
    <2>1. \A p \in 1 .. L : Matches(p, k) <=> form[p].key = k
      BY <1>6 DEF Matches
    <2>2. \A p \in 1 .. L : \A q \in 1 .. p - 1 : q \in 1 .. L
      BY <1>3
    <2> QED BY <1>5, <2>1, <2>2 DEF FirstMatch, FirstPair
  <1> QED BY <1>4, <1>5, <1>6, <1>7
------------------------------------------------------------------------------
(* Escapes *)

\* Every byte of a value takes at least one byte of the form.
LEMMA EscapedGrows ==
    ASSUME NEW v \in Seq(Nat), NEW s \in Seq(Nat),
           NEW from \in [1 .. Len(v) + 1 -> 1 .. Len(s) + 1], IsEscaped(v, s, from),
           NEW k \in 1 .. Len(v)
    PROVE  from[k] \in Nat /\ from[k + 1] \in Nat /\ from[k] < from[k + 1] /\ from[k + 1] <= Len(s) + 1
  <1>1. PICK a \in Nat, b \in Nat : a = Len(v) /\ b = Len(s)
    BY LenProperties
  <1>2. k \in 1 .. a + 1 /\ k + 1 \in 1 .. a + 1
    BY <1>1
  <1>3. from[k] \in 1 .. b + 1 /\ from[k + 1] \in 1 .. b + 1
    BY <1>1, <1>2
  <1>4. from[k + 1] = from[k] + 1 \/ from[k + 1] = from[k] + 3
    BY DEF IsEscaped
  <1> QED BY <1>1, <1>3, <1>4

\* So a value is no longer than what the client sent.
LEMMA EscapedLonger ==
    ASSUME NEW v \in Seq(Nat), NEW s \in Seq(Nat),
           NEW from \in [1 .. Len(v) + 1 -> 1 .. Len(s) + 1], IsEscaped(v, s, from)
    PROVE  Len(v) <= Len(s)
  <1>1. PICK a \in Nat, b \in Nat : a = Len(v) /\ b = Len(s)
    BY LenProperties
  <1> DEFINE Good == {m \in Nat : m \in 1 .. a + 1 => m <= from[m]}
  <1>2. 0 \in Good
    OBVIOUS
  <1>3. ASSUME NEW m \in Nat, m \in Good PROVE m + 1 \in Good
    <2>1. CASE m + 1 = 1
      <3>1. from[1] = 1
        BY DEF IsEscaped
      <3> QED BY <2>1, <3>1
    <2>2. CASE m \in 1 .. a
      <3>1. from[m] \in Nat /\ from[m + 1] \in Nat /\ from[m] < from[m + 1]
        BY <1>1, <2>2, EscapedGrows
      <3>2. m <= from[m]
        BY <1>3, <2>2
      <3> QED BY <3>1, <3>2
    <2>3. CASE m + 1 # 1 /\ m \notin 1 .. a
      BY <2>3
    <2> QED BY <2>1, <2>2, <2>3
  <1>4. Nat \subseteq Good
    <2> HIDE DEF Good
    <2> QED BY <1>2, <1>3, InductionOnNat
  <1>5. a + 1 <= from[a + 1]
    BY <1>4
  <1>6. from[a + 1] = b + 1
    BY <1>1 DEF IsEscaped
  <1> QED BY <1>1, <1>5, <1>6

\* n bytes from the c-th of s on: free of escapes, and the same as those of v from
\* the k-th on.
NoEscape(s, c, n) == \A x \in 0 .. n - 1 : s[c + x] # PERCENT
SameBytes(v, k, s, c, n) == \A x \in 0 .. n - 1 : v[k + x] = s[c + x]

\* Bytes without a PERCENT among them stand for themselves.
LEMMA PlainRun ==
    ASSUME NEW v \in Seq(Nat), NEW s \in Seq(Nat),
           NEW from \in [1 .. Len(v) + 1 -> 1 .. Len(s) + 1], IsEscaped(v, s, from),
           NEW k \in 1 .. Len(v) + 1, NEW n \in Nat, from[k] + n <= Len(s) + 1,
           NoEscape(s, from[k], n)
    PROVE  k + n \in 1 .. Len(v) + 1 /\ from[k + n] = from[k] + n /\ SameBytes(v, k, s, from[k], n)
  <1>1. PICK a \in Nat, b \in Nat : a = Len(v) /\ b = Len(s)
    BY LenProperties
  <1>2. k \in Nat /\ k >= 1 /\ k <= a + 1
    BY <1>1
  <1>3. PICK c \in Nat : c = from[k] /\ c >= 1 /\ c + n <= b + 1
    <2>1. from[k] \in 1 .. b + 1
      BY <1>1
    <2>2. PICK d \in 1 .. b + 1 : d = from[k]
      BY <2>1
    <2>3. d \in Nat /\ d >= 1 /\ d + n <= b + 1
      BY <1>1, <2>2
    <2> QED BY <2>2, <2>3
  <1> DEFINE Run(m) == /\ k + m <= a + 1 /\ from[k + m] = c + m
                       /\ \A x \in 0 .. m - 1 : v[k + x] = s[c + x]
             Good == {m \in Nat : m <= n => Run(m)}
  <1>4. 0 \in Good
    BY <1>2, <1>3
  <1> HIDE DEF Run
  <1>5. ASSUME NEW m \in Nat, m \in Good PROVE m + 1 \in Good
    <2> SUFFICES ASSUME m + 1 <= n PROVE Run(m + 1)
      OBVIOUS
    <2>0. m <= n
      OBVIOUS
    <2>1. k + m <= a + 1 /\ from[k + m] = c + m /\ \A x \in 0 .. m - 1 : v[k + x] = s[c + x]
      BY <1>5, <2>0 DEF Run
    <2>a. k + m <= a + 1 /\ from[k + m] = c + m
      BY <2>1
    <2> HIDE DEF Good
    <2>2. k + m # a + 1
      <3>1. from[a + 1] = b + 1
        BY <1>1 DEF IsEscaped
      <3> SUFFICES ASSUME k + m = a + 1 PROVE FALSE
        OBVIOUS
      <3>2. c + m = b + 1
        BY <2>a, <3>1
      <3> QED BY <1>3, <3>2
    <2>3. k + m \in 1 .. a
      <3>1. PICK d \in Nat : d = k + m /\ d >= 1
        BY <1>2
      <3> QED BY <2>a, <2>2, <3>1
    <2>4. s[c + m] # PERCENT
      <3>1. m \in 0 .. n - 1
        BY <1>5
      <3> QED BY <1>3, <3>1 DEF NoEscape
    <2>5. v[k + m] = s[c + m] /\ from[(k + m) + 1] = (c + m) + 1
      BY <1>1, <2>1, <2>3, <2>4 DEF IsEscaped
    <2>6. (k + m) + 1 = k + (m + 1) /\ (c + m) + 1 = c + (m + 1) /\ k + (m + 1) <= a + 1
      BY <1>2, <2>3
    <2>7. ASSUME NEW x \in 0 .. (m + 1) - 1 PROVE v[k + x] = s[c + x]
      <3>1. x = m \/ x \in 0 .. m - 1
        OBVIOUS
      <3> QED BY <2>1, <2>5, <3>1
    <2> QED BY <2>5, <2>6, <2>7 DEF Run
  <1>7. n \in Good
    <2> HIDE DEF Good
    <2> QED BY <1>4, <1>5, InductionOnNat
  <1>8. k + n <= a + 1 /\ from[k + n] = c + n /\ \A x \in 0 .. n - 1 : v[k + x] = s[c + x]
    BY <1>7 DEF Run
  <1> QED BY <1>1, <1>2, <1>3, <1>8 DEF SameBytes

\* The pairs of a form are escaped so.
LEMMA PairEscaped ==
    ASSUME NEW f \in Forms, NEW p \in 1 .. Len(f)
    PROVE  \E from \in [1 .. Len(f[p].val) + 1 -> 1 .. Len(f[p].sent) + 1] : IsEscaped(f[p].val, f[p].sent, from)
  <1>1. f[p] \in UNION {{g[q] : q \in 1 .. Len(g)} : g \in Forms}
    OBVIOUS
  <1> QED BY <1>1, EscapesAssumption
------------------------------------------------------------------------------
(* The parts of the package *)

\* A part between two marks, put behind what is there.
LEMMA MarksAround ==
    ASSUME NEW s \in Seq(Int), NEW v \in Seq(Int), NEW a \in Int, NEW b \in Int
    PROVE  /\ Append((s \o <<a>>) \o v, b) = s \o ((<<a>> \o v) \o <<b>>)
           /\ ((s \o <<a>>) \o v) \o <<b>> = s \o ((<<a>> \o v) \o <<b>>)
           /\ (<<a>> \o v) \o <<b>> \in Seq(Int)
           /\ Len((<<a>> \o v) \o <<b>>) = Len(v) + 2
           /\ \A x \in 1 .. Len(v) : ((<<a>> \o v) \o <<b>>)[x + 1] = v[x]
  <1> DEFINE A == <<a>>
             B == <<b>>
  <1>1. A \in Seq(Int) /\ B \in Seq(Int) /\ Len(A) = 1 /\ Len(B) = 1
    OBVIOUS
  <1>2. Len(v) \in Nat
    BY LenProperties
  <1> HIDE DEF A, B
  <1>3. A \o v \in Seq(Int) /\ Len(A \o v) = Len(A) + Len(v) /\ s \o A \in Seq(Int)
    BY <1>1, ConcatProperties
  <1>4. (A \o v) \o B \in Seq(Int) /\ Len((A \o v) \o B) = Len(A \o v) + Len(B) /\ (s \o A) \o v \in Seq(Int)
    BY <1>1, <1>3, ConcatProperties
  <1>a. A \in Seq(Int)
    BY <1>1
  <1>b. B \in Seq(Int)
    BY <1>1
  <1>c. A \o v \in Seq(Int)
    BY <1>3
  <1>5. (s \o A) \o v = s \o (A \o v)
    BY <1>a, ConcatAssociative
  <1>6. (s \o (A \o v)) \o B = s \o ((A \o v) \o B)
    <2>1. PICK w \in Seq(Int) : w = A \o v
      BY <1>c
    <2>2. (s \o w) \o B = s \o (w \o B)
      BY <1>b, ConcatAssociative, SMTT(30)
    <2> QED BY <2>1, <2>2
  <1>7. ((s \o A) \o v) \o B = s \o ((A \o v) \o B)
    BY <1>5, <1>6
  <1>8. Append((s \o A) \o v, b) = ((s \o A) \o v) \o B
    BY <1>4, AppendIsConcat DEF B
  <1>9. ASSUME NEW x \in 1 .. Len(v) PROVE ((A \o v) \o B)[x + 1] = v[x]
    <2>0. \A y \in 1 .. Len(v) : (A \o v)[Len(A) + y] = v[y]
      BY <1>a, ConcatFront
    <2>1. (A \o v)[Len(A) + x] = v[x]
      BY <2>0, Zenon
    <2>2. PICK n \in Nat : n = Len(v)
      BY <1>2
    <2>3. x + 1 \in 1 .. Len(A \o v)
      BY <1>1, <1>3, <2>2
    <2>4. ((A \o v) \o B)[x + 1] = (A \o v)[x + 1]
      BY <1>1, <1>3, <2>3, ConcatFront
    <2>5. Len(A) + x = x + 1
      BY <1>1
    <2> QED BY <2>1, <2>4, <2>5
  <1>10. Len((A \o v) \o B) = Len(v) + 2
    BY <1>1, <1>2, <1>3, <1>4
  <1> QED BY <1>4, <1>7, <1>8, <1>9, <1>10 DEF A, B

\* There is only one first pair with a key.
LEMMA FieldOf ==
    ASSUME form \in Forms, NEW k, NEW p \in FirstPair(k)
    PROVE  /\ p \in 1 .. Len(form) /\ form[p].key = k
           /\ FirstPair(k) = {p}
           /\ Field(k) = <<QUOTE>> \o form[p].val \o <<QUOTE_NL>>
  <1>1. p \in 1 .. Len(form) /\ form[p].key = k /\ \A q \in 1 .. p - 1 : form[q].key # k
    BY DEF FirstPair
  <1>2. Len(form) \in Nat
    BY PairTypes
  <1>3. ASSUME NEW q \in FirstPair(k) PROVE q = p
    <2>1. q \in 1 .. Len(form) /\ form[q].key = k /\ \A r \in 1 .. q - 1 : form[r].key # k
      BY DEF FirstPair
    <2>2. ~(q < p) /\ ~(p < q)
      BY <1>1, <1>2, <2>1
    <2> QED BY <1>1, <1>2, <2>1, <2>2
  <1>4. FirstPair(k) = {p}
    BY <1>3
  <1>5. (CHOOSE q \in FirstPair(k) : TRUE) = p
    BY <1>4
  <1> QED BY <1>1, <1>4, <1>5 DEF Field

\* A field is a sequence of numbers.
LEMMA FieldType ==
    ASSUME form \in Forms, NEW k
    PROVE  /\ Field(k) \in Seq(Int)
           /\ FirstPair(k) = {} => Field(k) = <<>> /\ Len(Field(k)) = 0
           /\ \A p \in FirstPair(k) : /\ form[p].val \in Seq(Int)
                                      /\ Len(Field(k)) = Len(form[p].val) + 2
  <1>1. CASE FirstPair(k) = {}
    BY <1>1, EmptySeq DEF Field
  <1>2. CASE FirstPair(k) # {}
    <2>1. PICK p \in FirstPair(k) : TRUE
      BY <1>2
    <2>2. p \in 1 .. Len(form) /\ FirstPair(k) = {p} /\ Field(k) = <<QUOTE>> \o form[p].val \o <<QUOTE_NL>>
      BY FieldOf
    <2>3. form[p].val \in Seq(Nat)
      BY <2>2, PairTypes
    <2>4. form[p].val \in Seq(Int)
      BY <2>3, SeqMonotonic
    <2>5. QUOTE \in Int /\ QUOTE_NL \in Int /\ <<>> \in Seq(Int)
      BY DEF QUOTE, QUOTE_NL
    <2>6. Field(k) \in Seq(Int) /\ Len(Field(k)) = Len(form[p].val) + 2
      BY <2>2, <2>4, <2>5, MarksAround
    <2> QED BY <2>2, <2>4, <2>6
  <1> QED BY <1>1, <1>2

\* What stands in the package before the n-th field.
Begun(n) ==
    CASE n = 1 -> <<VERSION>>
      [] n = 2 -> <<VERSION>> \o Field(post_keys[1]) \o <<NULLS>>
      [] n = 3 -> <<VERSION>> \o Field(post_keys[1]) \o <<NULLS>> \o Field(post_keys[2])
      [] n = 4 -> <<VERSION>> \o Field(post_keys[1]) \o <<NULLS>> \o Field(post_keys[2]) \o Field(post_keys[3])
      [] n = 5 -> <<VERSION>> \o Field(post_keys[1]) \o <<NULLS>> \o Field(post_keys[2]) \o Field(post_keys[3])
                  \o Field(post_keys[4])

\* It grows by a field, and by "null" behind the first.
LEMMA BegunGrows ==
    ASSUME form \in Forms
    PROVE  /\ \A n \in 1 .. 5 : Begun(n) \in Seq(Int)
           /\ Begun(1) = <<VERSION>>
           /\ Append(Begun(1) \o Field(post_keys[1]), NULLS) = Begun(2)
           /\ \A n \in 2 .. 4 : Begun(n) \o Field(post_keys[n]) = Begun(n + 1)
           /\ Begun(5) \o PathField = Package
  <1> DEFINE A == <<VERSION>>
             N == <<NULLS>>
             F(n) == Field(post_keys[n])
  <1>1. A \in Seq(Int) /\ N \in Seq(Int) /\ NULLS \in Int
    BY DEF VERSION, NULLS
  <1>2. \A n : F(n) \in Seq(Int)
    BY FieldType
  <1>3. /\ Begun(1) = A
        /\ Begun(2) = A \o F(1) \o N
        /\ Begun(3) = A \o F(1) \o N \o F(2)
        /\ Begun(4) = A \o F(1) \o N \o F(2) \o F(3)
        /\ Begun(5) = A \o F(1) \o N \o F(2) \o F(3) \o F(4)
    <2>1. Begun(1) = A
      BY DEF Begun
    <2>2. Begun(2) = A \o F(1) \o N
      BY DEF Begun
    <2>3. Begun(3) = A \o F(1) \o N \o F(2)
      BY DEF Begun
    <2>4. Begun(4) = A \o F(1) \o N \o F(2) \o F(3)
      BY DEF Begun
    <2>5. Begun(5) = A \o F(1) \o N \o F(2) \o F(3) \o F(4)
      BY DEF Begun
    <2> QED BY <2>1, <2>2, <2>3, <2>4, <2>5
  <1>4. Package = A \o F(1) \o N \o F(2) \o F(3) \o F(4) \o PathField
    BY DEF Package
  <1> HIDE DEF A, N, F
  <1>5. A \o F(1) \in Seq(Int)
    BY <1>1, <1>2, ConcatProperties
  <1>6. Begun(2) \in Seq(Int)
    BY <1>1, <1>3, <1>5, ConcatProperties
  <1>7. Begun(3) = Begun(2) \o F(2) /\ Begun(4) = Begun(3) \o F(3) /\ Begun(5) = Begun(4) \o F(4)
    BY <1>3
  <1>8. Begun(3) \in Seq(Int)
    BY <1>2, <1>6, <1>7, ConcatProperties
  <1>9. Begun(4) \in Seq(Int)
    BY <1>2, <1>7, <1>8, ConcatProperties
  <1>10. Begun(5) \in Seq(Int)
    BY <1>2, <1>7, <1>9, ConcatProperties, ZenonT(30)
  <1>11. Append(A \o F(1), NULLS) = A \o F(1) \o N
    BY <1>1, <1>5, AppendIsConcat DEF N
  <1>12. Begun(5) \o PathField = Package
    BY <1>3, <1>4
  <1>13. \A n \in 1 .. 5 : n = 1 \/ n = 2 \/ n = 3 \/ n = 4 \/ n = 5
    OBVIOUS
  <1>14. \A n \in 2 .. 4 : n = 2 \/ n = 3 \/ n = 4
    OBVIOUS
  <1>15. ASSUME NEW n \in 1 .. 5 PROVE Begun(n) \in Seq(Int)
    BY <1>1, <1>3, <1>6, <1>8, <1>9, <1>10, <1>13
  <1>16. ASSUME NEW n \in 2 .. 4 PROVE Begun(n) \o F(n) = Begun(n + 1)
    <2>1. CASE n = 2
      BY <1>7, <2>1
    <2>2. CASE n = 3
      BY <1>7, <2>2
    <2>3. CASE n = 4
      BY <1>7, <2>3
    <2> QED BY <1>14, <2>1, <2>2, <2>3
  <1> QED BY <1>3, <1>11, <1>12, <1>15, <1>16 DEF A, F
------------------------------------------------------------------------------
(* serialize_str *)

\* Concatenation of sequences of numbers is associative.
LEMMA ConcatThree == \A s, t, u \in Seq(Int) : (s \o t) \o u = s \o (t \o u)
  BY ConcatAssociative, SMTT(30)

\* The first bytes of a value.
LEMMA FrontType ==
    ASSUME NEW v \in Seq(Nat), NEW n \in 0 .. Len(v)
    PROVE  SubSeq(v, 1, n) \in Seq(Int) /\ Len(SubSeq(v, 1, n)) = n
  <1>1. PICK a \in Nat : a = Len(v)
    BY LenProperties
  <1>2. n \in Int /\ 1 \in Int /\ n >= 0 /\ n <= a
    BY <1>1
  <1>3. ASSUME NEW x \in 1 .. n PROVE v[x] \in Int
    <2>1. x \in 1 .. Len(v)
      BY <1>1, <1>2
    <2>2. v[x] \in Nat
      BY <2>1, ElementOfSeq
    <2> QED BY <2>2
  <1>4. SubSeq(v, 1, n) \in Seq(Int) /\ Len(SubSeq(v, 1, n)) = IF 1 <= n THEN n - 1 + 1 ELSE 0
    BY <1>2, <1>3, SubSeqProperties
  <1> QED BY <1>2, <1>4

\* Bytes of the value behind its first ones make more of its first ones.
LEMMA FrontExtended ==
    ASSUME NEW v \in Seq(Nat), NEW k \in Nat, NEW n \in Nat, k >= 1, k + n <= Len(v) + 1,
           NEW front \in Seq(Int)
    PROVE  (front \o SubSeq(v, 1, k - 1)) \o [x \in 1 .. n |-> v[k + x - 1]] = front \o SubSeq(v, 1, k + n - 1)
  <1>1. PICK a \in Nat : a = Len(v)
    BY LenProperties
  <1>2. PICK h \in Nat : h = k + n - 1
    OBVIOUS
  <1>3. h <= a /\ k <= h + 1
    BY <1>1, <1>2
  <1> DEFINE mid == SubSeq(v, k, h)
  <1>4. mid \in Seq(Nat) /\ Len(mid) = n /\ \A x \in 1 .. n : mid[x] = v[k + x - 1]
    <2>1. ASSUME NEW x \in k .. h PROVE v[x] \in Nat
      <3>1. x \in 1 .. Len(v)
        BY <1>1, <1>3
      <3> QED BY <3>1, ElementOfSeq
    <2>2. k \in Int /\ h \in Int
      OBVIOUS
    <2>3. /\ mid \in Seq(Nat) /\ Len(mid) = IF k <= h THEN h - k + 1 ELSE 0
          /\ \A x \in 1 .. h - k + 1 : mid[x] = v[k + x - 1]
      BY <2>1, <2>2, SubSeqProperties
    <2>4. h - k + 1 = n /\ (k <= h <=> n # 0)
      BY <1>2
    <2> QED BY <2>3, <2>4
  <1>5. SubSeq(v, 1, k - 1) \o mid = SubSeq(v, 1, h)
    <2>1. 1 \in 1 .. Len(v) + 1 /\ k - 1 \in 1 - 1 .. Len(v) /\ h \in k - 1 .. Len(v) /\ (k - 1) + 1 = k
      BY <1>1, <1>3
    <2>2. SubSeq(v, 1, k - 1) \o SubSeq(v, (k - 1) + 1, h) = SubSeq(v, 1, h)
      BY <2>1, ConcatAdjacentSubSeq
    <2> QED BY <2>1, <2>2
  <1> HIDE DEF mid
  <1>6. mid = [x \in 1 .. n |-> v[k + x - 1]]
    <2>1. mid = [x \in 1 .. n |-> mid[x]]
      BY <1>4, LenProperties
    <2> QED BY <1>4, <2>1
  <1>7. PICK w \in Seq(Int) : w = SubSeq(v, 1, k - 1)
    <2>1. k - 1 \in 0 .. Len(v)
      BY <1>1, <1>3
    <2> QED BY <2>1, FrontType
  <1>8. mid \in Seq(Int)
    BY <1>4, SeqMonotonic
  <1>9. (front \o w) \o mid = front \o (w \o mid)
    BY <1>8, ConcatThree, Zenon
  <1> QED BY <1>2, <1>5, <1>6, <1>7, <1>9

\* A value, what was sent for it, where that stands, and a stretch without escapes.
EscapeMap(v, s, from) ==
    /\ v \in Seq(Nat) /\ s \in Seq(Nat)
    /\ from \in [1 .. Len(v) + 1 -> 1 .. Len(s) + 1] /\ IsEscaped(v, s, from)
SentAt(s, e) == \A y \in 1 .. Len(s) : str[e + y] = s[y]
NoPercent(beg, end) == \A x \in beg .. end - 1 : str[x] # PERCENT
Stretch(v, s, from, k, n) == k \in 1 .. Len(v) + 1 /\ n \in Nat /\ from[k] + n <= Len(s) + 1

\* The n bytes at beg carry the value on from its k-th byte.
CarryOn(v, k, beg, n) ==
    \A front \in Seq(Int) :
        (front \o SubSeq(v, 1, k - 1)) \o Bytes(beg, beg + n) = front \o SubSeq(v, 1, k + n - 1)

\* Copying what the search has passed over copies bytes of the value.
LEMMA PlainCopied ==
    ASSUME NEW v, NEW s, NEW from, EscapeMap(v, s, from), NEW e \in Nat, SentAt(s, e),
           NEW k, NEW n, Stretch(v, s, from, k, n),
           NEW beg \in Nat, beg = e + from[k], NoPercent(beg, beg + n)
    PROVE  /\ k + n \in 1 .. Len(v) + 1 /\ from[k + n] = from[k] + n
           /\ CarryOn(v, k, beg, n)
  <1>1. v \in Seq(Nat) /\ s \in Seq(Nat) /\ from \in [1 .. Len(v) + 1 -> 1 .. Len(s) + 1] /\ IsEscaped(v, s, from)
    BY DEF EscapeMap
  <1>2. PICK a \in Nat, b \in Nat : a = Len(v) /\ b = Len(s)
    BY <1>1, LenProperties
  <1>3. k \in 1 .. Len(v) + 1 /\ n \in Nat /\ from[k] + n <= Len(s) + 1
    BY DEF Stretch
  <1>4. from[k] \in 1 .. b + 1
    BY <1>1, <1>2, <1>3
  <1>5. PICK c \in Nat : c = from[k] /\ c >= 1
    BY <1>2, <1>4
  <1>6. n \in Nat /\ c + n <= b + 1 /\ beg = e + c
    BY <1>2, <1>3, <1>5
  <1>7. k \in Nat /\ k >= 1 /\ k <= a + 1
    BY <1>2, <1>3
  <1>8. ASSUME NEW x \in 0 .. n - 1 PROVE str[beg + x] = s[c + x] /\ s[c + x] # PERCENT
    <2>1. c + x \in 1 .. b
      BY <1>5, <1>6
    <2>2. e + (c + x) = beg + x
      BY <1>6
    <2>3. beg + x \in beg .. (beg + n) - 1
      BY <1>6
    <2>4. str[e + (c + x)] = s[c + x]
      BY <1>2, <2>1 DEF SentAt
    <2>5. str[beg + x] # PERCENT
      BY <2>3 DEF NoPercent
    <2> QED BY <2>2, <2>4, <2>5
  <1>9. NoEscape(s, from[k], n)
    BY <1>5, <1>8 DEF NoEscape
  <1>a. k + n \in 1 .. Len(v) + 1 /\ from[k + n] = from[k] + n /\ SameBytes(v, k, s, from[k], n)
    BY <1>1, <1>3, <1>9, PlainRun
  <1> DEFINE got == Bytes(beg, beg + n)
             mid == [x \in 1 .. n |-> v[k + x - 1]]
  <1>10. got = [x \in 1 .. n |-> str[beg + x - 1]]
    <2>1. (beg + n) - beg = n
      BY <1>6
    <2> QED BY <2>1 DEF Bytes
  <1>11. ASSUME NEW x \in 1 .. n PROVE str[beg + x - 1] = v[k + x - 1]
    <2>1. x - 1 \in 0 .. n - 1 /\ beg + (x - 1) = beg + x - 1 /\ k + (x - 1) = k + x - 1
      BY <1>6, <1>7
    <2>2. str[beg + (x - 1)] = s[c + (x - 1)]
      BY <1>8, <2>1
    <2>3. v[k + (x - 1)] = s[c + (x - 1)]
      BY <1>5, <1>a, <2>1 DEF SameBytes
    <2> QED BY <2>1, <2>2, <2>3
  <1>12. got = mid
    BY <1>10, <1>11
  <1>13. k + n <= Len(v) + 1
    BY <1>2, <1>6, <1>7, <1>a
  <1>14. v \in Seq(Nat)
    BY <1>1
  <1> HIDE DEF got
  <1>15. ASSUME NEW front \in Seq(Int)
         PROVE  (front \o SubSeq(v, 1, k - 1)) \o mid = front \o SubSeq(v, 1, k + n - 1)
    BY <1>6, <1>7, <1>13, <1>14, FrontExtended, ZenonT(30)
  <1> QED BY <1>12, <1>15, <1>a DEF got, CarryOn

\* One byte more.
LEMMA ElementAppended ==
    ASSUME NEW front \in Seq(Int), NEW w, w \in Seq(Int), NEW z \in Nat
    PROVE  Append(front \o w, z) = front \o (w \o <<z>>)
  <1>0. <<z>> \in Seq(Int)
    OBVIOUS
  <1>1. PICK y \in Seq(Int) : y = <<z>>
    BY <1>0, Zenon
  <1>2. front \o w \in Seq(Int)
    BY ConcatProperties
  <1>3. z \in Int
    OBVIOUS
  <1>4. Append(front \o w, z) = (front \o w) \o y
    BY <1>1, <1>2, <1>3, AppendIsConcat
  <1>5. (front \o w) \o y = front \o (w \o y)
    BY ConcatThree, Zenon
  <1> QED BY <1>1, <1>4, <1>5

\* The number an escape at a place stands for.
DecodedAt(at) == hex2int(str[at + 1]) * 16 + hex2int(str[at + 2])

\* It is the k-th byte of the value.
CarryOnBy(v, k, at) ==
    \A front \in Seq(Int) :
        Append(front \o SubSeq(v, 1, k - 1), DecodedAt(at)) = front \o SubSeq(v, 1, k)

\* Decoding an escape yields the next byte of the value.
LEMMA EscapeDecoded ==
    ASSUME NEW v, NEW s, NEW from, EscapeMap(v, s, from), NEW e \in Nat, SentAt(s, e),
           NEW k \in 1 .. Len(v) + 1, from[k] # Len(s) + 1,
           NEW at \in Nat, at = e + from[k], str[at] = PERCENT
    PROVE  /\ k + 1 \in 1 .. Len(v) + 1 /\ from[k + 1] = from[k] + 3
           /\ CarryOnBy(v, k, at)
  <1>1. v \in Seq(Nat) /\ s \in Seq(Nat) /\ from \in [1 .. Len(v) + 1 -> 1 .. Len(s) + 1] /\ IsEscaped(v, s, from)
    BY DEF EscapeMap
  <1>2. PICK a \in Nat, b \in Nat : a = Len(v) /\ b = Len(s)
    BY <1>1, LenProperties
  <1>3. k # a + 1
    BY <1>1, <1>2 DEF IsEscaped
  <1>4. k \in 1 .. a /\ k \in Nat /\ k >= 1 /\ k <= a
    BY <1>2, <1>3
  <1>5. from[k] \in 1 .. b + 1 /\ from[k] # b + 1
    BY <1>1, <1>2
  <1>6. PICK c \in Nat : c = from[k] /\ c \in 1 .. b
    BY <1>5
  <1>7. s[c] = PERCENT
    BY <1>2, <1>6 DEF SentAt
  <1>8. from[k + 1] = c + 3 /\ v[k] = hex2int(s[c + 1]) * 16 + hex2int(s[c + 2])
    BY <1>1, <1>2, <1>4, <1>6, <1>7 DEF IsEscaped
  <1>9. c + 3 <= b + 1
    <2>1. k + 1 \in 1 .. Len(v) + 1
      BY <1>2, <1>4
    <2>2. from[k + 1] \in 1 .. b + 1
      BY <1>1, <1>2, <2>1
    <2> QED BY <1>6, <1>8, <2>2
  <1>10. c + 1 \in 1 .. b /\ c + 2 \in 1 .. b
    BY <1>6, <1>9, SMTT(30)
  <1>11. at = e + c
    BY <1>6
  <1>12. e + (c + 1) = at + 1 /\ e + (c + 2) = at + 2
    BY <1>6, <1>11
  <1>13. str[e + (c + 1)] = s[c + 1] /\ str[e + (c + 2)] = s[c + 2]
    BY <1>2, <1>10 DEF SentAt
  <1>14. v[k] = DecodedAt(at)
    BY <1>8, <1>12, <1>13 DEF DecodedAt
  <1>15. PICK z \in Nat : z = v[k]
    BY <1>1, <1>2, <1>4, ElementOfSeq
  <1>16. SubSeq(v, 1, k) = SubSeq(v, 1, k - 1) \o <<v[k]>>
    <2>1. 1 \in 1 .. Len(v) /\ k \in 1 .. Len(v)
      BY <1>2, <1>4
    <2> QED BY <1>1, <2>1, SubSeqRecursiveSecond
  <1>17. k - 1 \in 0 .. Len(v)
    BY <1>2, <1>4
  <1>18. PICK w \in Seq(Int) : w = SubSeq(v, 1, k - 1)
    BY <1>1, <1>17, FrontType
  <1>19. ASSUME NEW front \in Seq(Int)
         PROVE  Append(front \o SubSeq(v, 1, k - 1), z) = front \o SubSeq(v, 1, k)
    <2>1. Append(front \o w, z) = front \o (w \o <<z>>)
      BY ElementAppended
    <2> QED BY <1>15, <1>16, <1>18, <2>1, Zenon
  <1>20. k + 1 \in 1 .. Len(v) + 1
    BY <1>2, <1>4
  <1> QED BY <1>6, <1>8, <1>14, <1>15, <1>19, <1>20 DEF CarryOnBy

\* A look at the block at n takes the search for ch to the first ch in it, or over it.
LEMMA SearchStops ==
    ASSUME build \in Builds, NEW ch, NEW n \in Nat
    PROVE  \E to \in Nat : /\ to = n + advance(n, ch) /\ n <= to /\ to <= n + Block
                           /\ \A x \in n .. to - 1 : str[x] # ch
                           /\ to < n + Block => str[to] = ch
  <1>1. Block \in Nat /\ 1 <= Block
    BY BlockSize
  <1> DEFINE Hits == {x \in n .. n + Block - 1 : str[x] = ch}
  <1>2. CASE Hits = {}
    <2>1. \A x \in n .. n + Block - 1 : str[x] # ch
      BY <1>2
    <2>2. advance(n, ch) = Block
      BY <2>1, AdvanceMisses
    <2>3. PICK to \in Nat : to = n + Block
      BY <1>1
    <2>4. ASSUME NEW x \in n .. to - 1 PROVE str[x] # ch
      <3>1. x \in n .. n + Block - 1
        BY <1>1, <2>3
      <3> QED BY <2>1, <3>1
    <2>5. ~(to < n + Block) /\ n <= to /\ to <= n + Block
      BY <1>1, <2>3
    <2> QED BY <2>2, <2>3, <2>4, <2>5
  <1>3. CASE Hits # {}
    <2>1. Hits \in SUBSET Nat
      BY <1>1
    <2>2. PICK to \in Hits : \A x \in Hits : to <= x
      BY <1>3, <2>1, LeastNatural
    <2>3. to \in Nat /\ n <= to /\ to < n + Block /\ str[to] = ch
      BY <1>1, <2>2
    <2>4. ASSUME NEW x \in n .. to - 1 PROVE str[x] # ch
      <3>1. x \in n .. n + Block - 1 /\ ~(to <= x)
        BY <1>1, <2>3
      <3> QED BY <2>2, <3>1
    <2>5. advance(n, ch) = to - n
      BY <2>3, <2>4, AdvanceHits
    <2>6. to = n + advance(n, ch) /\ to <= n + Block
      BY <1>1, <2>3, <2>5
    <2> QED BY <2>3, <2>4, <2>6
  <1> QED BY <1>2, <1>3

\* The value of the pair is decoded up to its k-th byte; from last_seek to seek there
\* is no escape.
Decoding(from, k) ==
    /\ EscapeMap(form[pair].val, form[pair].sent, from)
    /\ k \in 1 .. Len(form[pair].val) + 1
    /\ last_seek = EqAt(form, pair) + from[k]
    /\ seek \in Nat /\ last_seek <= seek
    /\ last_seek = seek \/ seek < EqAt(form, pair) + Len(form[pair].sent) + 1
    /\ NoPercent(last_seek, seek)
    /\ res = (Begun(j) \o <<QUOTE>>) \o SubSeq(form[pair].val, 1, k - 1)

BodyInv ==
    /\ pc \in {"split", "eq", "amp"} => j = 1
    /\ ~AfterSplit => res = <<>> \/ res = <<VERSION>>
    /\ pc \in {"field", "value"} => j \in 1 .. 4
    /\ pc = "field" => res = Begun(j)
    /\ pc = "value" => pair \in FirstPair(post_keys[j]) /\ \E from, k : Decoding(from, k)
    /\ pc = "path" => res = Begun(5)
    /\ Packed => res = Package

\* The names used in a step of the value's loop.
LEMMA DecodingFacts ==
    ASSUME InputInv, StrInv, SplitInv, BodyInv, pc = "value"
    PROVE  /\ pair \in 1 .. Len(form) /\ j \in 1 .. 4 /\ form \in Forms
           /\ pair \in FirstPair(post_keys[j])
           /\ EqAt(form, pair) \in Nat /\ Len(form[pair].sent) \in Nat
           /\ val_off_end(pair) = EqAt(form, pair) + Len(form[pair].sent) + 1
           /\ SentAt(form[pair].sent, EqAt(form, pair))
           /\ Begun(j) \o <<QUOTE>> \in Seq(Int)
  <1>1. j \in 1 .. 4 /\ pair \in FirstPair(post_keys[j])
    BY DEF BodyInv
  <1>2. form \in Forms
    BY DEF InputInv
  <1>3. pair \in 1 .. Len(form)
    BY <1>1 DEF FirstPair
  <1>4. AfterSplit
    BY DEF AfterSplit
  <1>5. Shows(str, form) /\ val_off_end(pair) = EqAt(form, pair) + Len(form[pair].sent) + 1
    BY <1>3, <1>4, PairsFound
  <1>6. SentAt(form[pair].sent, EqAt(form, pair))
    BY <1>2, <1>3, <1>5, ShowsPairs DEF SentAt
  <1>7. EqAt(form, pair) \in Nat /\ Len(form[pair].sent) \in Nat
    BY <1>2, <1>3, LayoutOrder, PairTypes
  <1>8. Begun(j) \in Seq(Int)
    <2>1. j \in 1 .. 5
      BY <1>1
    <2> QED BY <1>2, <2>1, BegunGrows
  <1>9. <<QUOTE>> \in Seq(Int)
    BY DEF QUOTE
  <1>10. Begun(j) \o <<QUOTE>> \in Seq(Int)
    BY <1>8, <1>9, ConcatProperties
  <1> QED BY <1>1, <1>2, <1>3, <1>5, <1>6, <1>7, <1>10

\* What the fields of a package depend on.
LEMMA BegunKept ==
    ASSUME form' = form
    PROVE  /\ \A k : FirstPair(k)' = FirstPair(k) /\ Field(k)' = Field(k)
           /\ \A n : Begun(n)' = Begun(n)
           /\ PathField' = PathField /\ Package' = Package
  BY DEF FirstPair, Field, Begun, PathField, Package

\* What the loop has reached after a step of it.
Reached(from, k, beg, end) ==
    /\ k \in 1 .. Len(form[pair].val) + 1
    /\ beg = EqAt(form, pair) + from[k]
    /\ end \in Nat /\ beg <= end
    /\ beg = end \/ end < EqAt(form, pair) + Len(form[pair].sent) + 1
    /\ NoPercent(beg, end)

\* A step that reaches something reaches a state of the loop.
LEMMA DecodingStep ==
    ASSUME NEW from, NEW k, EscapeMap(form[pair].val, form[pair].sent, from),
           UNCHANGED <<form, str, pair, j>>, Reached(from, k, last_seek', seek'),
           res' = (Begun(j) \o <<QUOTE>>) \o SubSeq(form[pair].val, 1, k - 1)
    PROVE  Decoding(from, k)'
  <1>1. Begun(j)' = Begun(j)
    BY BegunKept
  <1>2. NoPercent(last_seek, seek)' = NoPercent(last_seek', seek')
    BY DEF NoPercent
  <1> QED BY <1>1, <1>2 DEF Reached, Decoding, EscapeMap

\* Two stretches without an escape are one.
LEMMA NoPercentJoined ==
    ASSUME NEW a \in Nat, NEW b \in Nat, NEW c \in Nat, NoPercent(a, b), NoPercent(b, c)
    PROVE  NoPercent(a, c)
  <1> SUFFICES ASSUME NEW x \in a .. c - 1 PROVE str[x] # PERCENT
    BY DEF NoPercent
  <1>1. x \in a .. b - 1 \/ x \in b .. c - 1
    OBVIOUS
  <1> QED BY <1>1 DEF NoPercent

\* The first part of one is one.
LEMMA NoPercentShorter ==
    ASSUME NEW a \in Nat, NEW b \in Nat, NEW c \in Nat, NoPercent(a, c), b <= c
    PROVE  NoPercent(a, b)
  <1>1. \A x \in a .. b - 1 : x \in a .. c - 1
    OBVIOUS
  <1> QED BY <1>1 DEF NoPercent

\* One block of the search for an escape, and what is copied and decoded after it.
LEMMA ValueStep ==
    ASSUME InputInv, StrInv, SplitInv, BodyInv, serialize_str_value
    PROVE  \E from, k : Decoding(from, k)'
  <1> DEFINE v == form[pair].val
             s == form[pair].sent
             front == Begun(j) \o <<QUOTE>>
             E == val_off_end(pair)
  <1>0. pc = "value" /\ seek < E /\ UNCHANGED <<form, str, pair, j>>
    BY DEF serialize_str_value, inputVars
  <1>1. /\ EqAt(form, pair) \in Nat /\ Len(s) \in Nat
        /\ E = EqAt(form, pair) + Len(s) + 1 /\ SentAt(s, EqAt(form, pair)) /\ front \in Seq(Int)
    BY <1>0, DecodingFacts
  <1>2. PICK from, k : Decoding(from, k)
    BY <1>0 DEF BodyInv
  <1>3. PICK e \in Nat, b \in Nat : e = EqAt(form, pair) /\ b = Len(s)
    BY <1>1
  <1>4. E = e + b + 1 /\ SentAt(s, e)
    BY <1>1, <1>3
  <1>a. SentAt(s, e)
    BY <1>4
  <1>b. front \in Seq(Int)
    BY <1>1
  <1>5. EscapeMap(v, s, from)
    BY <1>2 DEF Decoding
  <1>6. k \in 1 .. Len(v) + 1 /\ last_seek = e + from[k]
    BY <1>2, <1>3 DEF Decoding
  <1>7. PICK c \in Nat : c = from[k] /\ c >= 1 /\ c <= b + 1
    <2>1. from[k] \in 1 .. b + 1
      BY <1>3, <1>5, <1>6 DEF EscapeMap
    <2>2. PICK d \in 1 .. b + 1 : d = from[k]
      BY <2>1
    <2>3. d \in Nat /\ d >= 1 /\ d <= b + 1
      OBVIOUS
    <2> QED BY <2>2, <2>3
  <1>8. PICK beg \in Nat : beg = last_seek /\ beg = e + c
    BY <1>6, <1>7
  <1>9. seek \in Nat /\ beg <= seek /\ NoPercent(beg, seek) /\ res = front \o SubSeq(v, 1, k - 1)
    BY <1>2, <1>8 DEF Decoding
  <1>10. PICK to \in Nat : /\ to = seek + advance(seek, PERCENT) /\ seek <= to /\ to <= seek + Block
                           /\ \A x \in seek .. to - 1 : str[x] # PERCENT
                           /\ to < seek + Block => str[to] = PERCENT
    <2>1. build \in Builds
      BY DEF InputInv
    <2> QED BY <1>9, <2>1, SearchStops
  <1>11. NoPercent(beg, to)
    <2>1. NoPercent(seek, to)
      BY <1>10 DEF NoPercent
    <2> QED BY <1>9, <2>1, NoPercentJoined
  <1> DEFINE at == IF to > E THEN E ELSE to
             plain == res \o Bytes(last_seek, at)
  <1>12. IF to = seek + Block /\ to < E
         THEN seek' = to /\ UNCHANGED <<last_seek, res>>
         ELSE IF at # E
         THEN /\ res' = Append(plain, DecodedAt(at))
              /\ seek' = at + 3 /\ last_seek' = at + 3
         ELSE res' = plain /\ seek' = at /\ last_seek' = at
    BY <1>10 DEF serialize_str_value, clamped, DecodedAt
  <1>13. Block \in Nat /\ 1 <= Block /\ E \in Nat
    BY <1>4, BlockSize
  <1> HIDE DEF v, s, front, E, at
  <1>14. CASE to = seek + Block /\ to < E
    <2>1. seek' = to /\ last_seek' = beg /\ res' = res
      BY <1>8, <1>12, <1>14
    <2>2. beg <= to
      BY <1>9, <1>10
    <2>3. Reached(from, k, last_seek', seek')
      BY <1>3, <1>4, <1>6, <1>8, <1>11, <1>14, <2>1, <2>2 DEF Reached, v, s
    <2>4. Decoding(from, k)'
      BY <1>0, <1>5, <1>9, <2>1, <2>3, DecodingStep DEF v, s, front
    <2> QED BY <2>4
  <1>15. CASE ~(to = seek + Block /\ to < E)
    <2>1. at \in Nat /\ at <= E /\ beg <= at /\ at <= to /\ (at # E => at = to /\ to < seek + Block)
      <3>1. to \in Nat /\ seek <= to /\ to <= seek + Block /\ seek \in Nat /\ beg <= seek /\ seek < E
        BY <1>0, <1>9, <1>10
      <3>2. CASE to > E
        BY <1>13, <3>1, <3>2 DEF at
      <3>3. CASE ~(to > E)
        BY <1>13, <1>15, <3>1, <3>3 DEF at
      <3> QED BY <3>2, <3>3
    <2>2. PICK n \in Nat : n = at - beg /\ beg + n = at
      BY <2>1
    <2>3. c + n <= b + 1
      BY <1>4, <1>8, <2>1, <2>2
    <2>4. Stretch(v, s, from, k, n)
      BY <1>3, <1>6, <1>7, <2>3 DEF Stretch
    <2>5. NoPercent(beg, beg + n)
      BY <1>11, <2>1, <2>2, NoPercentShorter
    <2>6. beg = e + from[k]
      BY <1>7, <1>8
    <2>7. /\ k + n \in 1 .. Len(v) + 1 /\ from[k + n] = from[k] + n
          /\ CarryOn(v, k, beg, n)
      BY <1>a, <1>5, <2>4, <2>5, <2>6, PlainCopied
    <2>8. plain = front \o SubSeq(v, 1, k + n - 1)
      BY <1>b, <1>8, <1>9, <2>2, <2>7 DEF CarryOn
    <2>9. PICK h \in 1 .. Len(v) + 1 : h = k + n
      BY <2>7
    <2> HIDE DEF plain
    <2>10. from[h] = c + n /\ at = e + from[h] /\ plain = front \o SubSeq(v, 1, h - 1)
      <3>0. k \in Int
        BY <1>6
      <3>a. h - 1 = k + n - 1
        BY <2>9, <3>0
      <3>b. plain = front \o SubSeq(v, 1, h - 1)
        BY <2>8, <3>a
      <3>1. from[h] = c + n /\ plain = front \o SubSeq(v, 1, h - 1)
        BY <1>7, <2>7, <2>9, <3>b
      <3>2. at = e + (c + n)
        BY <1>8, <2>2
      <3> QED BY <3>1, <3>2
    <2>a. at = e + from[h]
      BY <2>10
    <2>11. CASE at # E
      <3>1. res' = Append(plain, DecodedAt(at)) /\ seek' = at + 3 /\ last_seek' = at + 3
        BY <1>12, <1>15, <2>11
      <3>2. str[at] = PERCENT
        BY <1>10, <2>1, <2>11
      <3>3. from[h] # Len(s) + 1
        BY <1>3, <1>4, <2>1, <2>10, <2>11, <2>2, <1>8
      <3>4. /\ h + 1 \in 1 .. Len(v) + 1 /\ from[h + 1] = from[h] + 3
            /\ CarryOnBy(v, h, at)
        BY <1>a, <1>5, <2>1, <2>a, <3>2, <3>3, EscapeDecoded
      <3>5. Append(front \o SubSeq(v, 1, h - 1), DecodedAt(at)) = front \o SubSeq(v, 1, h)
        BY <1>b, <3>4 DEF CarryOnBy
      <3>6. h \in Nat /\ (h + 1) - 1 = h
        BY <2>9, <1>5, LenProperties DEF EscapeMap
      <3>7. res' = front \o SubSeq(v, 1, (h + 1) - 1)
        BY <2>10, <3>1, <3>5, <3>6
      <3>8. at + 3 = e + from[h + 1]
        BY <1>8, <2>2, <2>10, <3>4
      <3>9. NoPercent(at + 3, at + 3)
        BY <2>1 DEF NoPercent
      <3>10. Reached(from, h + 1, last_seek', seek')
        BY <1>3, <2>1, <3>1, <3>4, <3>8, <3>9 DEF Reached, v
      <3>11. Decoding(from, h + 1)'
        BY <1>0, <1>5, <3>7, <3>10, DecodingStep DEF v, s, front
      <3> QED BY <3>11
    <2>12. CASE at = E
      <3>1. res' = plain /\ seek' = at /\ last_seek' = at
        BY <1>12, <1>15, <2>12
      <3>2. NoPercent(at, at)
        BY <2>1 DEF NoPercent
      <3>3. Reached(from, h, last_seek', seek')
        BY <1>3, <2>1, <2>9, <2>10, <3>1, <3>2 DEF Reached, v
      <3>4. Decoding(from, h)'
        BY <1>0, <1>5, <2>10, <3>1, <3>3, DecodingStep DEF v, s, front
      <3> QED BY <3>4
    <2> QED BY <2>11, <2>12
  <1> QED BY <1>14, <1>15

\* After a field comes the next one, or the path.
LEMMA NextFieldRight ==
    ASSUME form \in Forms, j \in 1 .. 4, NEW body, body = Begun(j) \o Field(post_keys[j]), NextField(body)
    PROVE  /\ pc' \in {"field", "path"}
           /\ pc' = "field" => j' \in 1 .. 4 /\ res' = Begun(j')
           /\ pc' = "path" => res' = Begun(5)
  <1>1. j' = j + 1 /\ res' = (IF j = 1 THEN Append(body, NULLS) ELSE body) /\ pc' = (IF j = 4 THEN "path" ELSE "field")
    BY KeysAssumption DEF NextField
  <1>2. res' = Begun(j + 1)
    <2>1. CASE j = 1
      <3>1. j + 1 = 2 /\ res' = Append(body, NULLS)
        BY <1>1, <2>1
      <3>2. body = Begun(1) \o Field(post_keys[1])
        BY <2>1
      <3>3. Append(Begun(1) \o Field(post_keys[1]), NULLS) = Begun(2)
        BY BegunGrows
      <3> QED BY <3>1, <3>2, <3>3
    <2>2. CASE j # 1
      <3>1. j \in 2 .. 4
        BY <2>2
      <3> QED BY <1>1, <2>2, <3>1, BegunGrows
    <2> QED BY <2>1, <2>2
  <1>3. CASE j = 4
    BY <1>1, <1>2, <1>3
  <1>4. CASE j # 4
    <2>1. j + 1 \in 1 .. 4
      BY <1>4
    <2> QED BY <1>1, <1>2, <1>4, <2>1
  <1> QED BY <1>3, <1>4

\* A key the form does not have leaves nothing in the package.
LEMMA MissingStep ==
    ASSUME InputInv, StrInv, SplitInv, BodyInv, serialize_str_missing
    PROVE  BodyInv' /\ AfterSplit /\ AfterSplit'
  <1>1. pc = "field" /\ FirstMatch(post_keys[j]) = {} /\ NextField(res) /\ form' = form
    BY DEF serialize_str_missing, inputVars
  <1>2. form \in Forms /\ AfterSplit /\ j \in 1 .. 4 /\ res = Begun(j)
    BY <1>1 DEF InputInv, AfterSplit, BodyInv
  <1>3. FirstPair(post_keys[j]) = {}
    BY <1>1, <1>2, PairsFound
  <1>4. Field(post_keys[j]) = <<>>
    BY <1>3 DEF Field
  <1>5. Begun(j) \o <<>> = Begun(j)
    <2>1. j \in 1 .. 5
      BY <1>2
    <2>2. Begun(j) \in Seq(Int)
      BY <1>2, <2>1, BegunGrows
    <2> QED BY <2>2, ConcatEmptySeq
  <1>6. /\ pc' \in {"field", "path"}
        /\ pc' = "field" => j' \in 1 .. 4 /\ res' = Begun(j')
        /\ pc' = "path" => res' = Begun(5)
    BY <1>1, <1>2, <1>4, <1>5, NextFieldRight
  <1>7. \A n : Begun(n)' = Begun(n)
    BY <1>1, BegunKept
  <1>8. AfterSplit' /\ ~Packed' /\ pc' # "value" /\ pc' \notin {"split", "eq", "amp"}
    BY <1>6 DEF AfterSplit, Packed
  <1>9. (pc' = "field" => res' = Begun(j)') /\ (pc' = "path" => res' = Begun(5)')
    BY <1>6, <1>7
  <1> QED BY <1>2, <1>6, <1>8, <1>9 DEF BodyInv

\* The first pair with the key looked for has its value decoded.
LEMMA FoundStep ==
    ASSUME InputInv, StrInv, SplitInv, BodyInv, serialize_str_found
    PROVE  BodyInv' /\ AfterSplit /\ AfterSplit'
  <1>1. /\ pc = "field" /\ pc' = "value" /\ form' = form /\ str' = str /\ j' = j /\ res' = Append(res, QUOTE)
        /\ \E p \in FirstMatch(post_keys[j]) : pair' = p /\ seek' = val_off_beg(p) /\ last_seek' = val_off_beg(p)
    BY DEF serialize_str_found, inputVars
  <1>2. form \in Forms /\ AfterSplit /\ j \in 1 .. 4 /\ res = Begun(j)
    BY <1>1 DEF InputInv, AfterSplit, BodyInv
  <1>3. PICK p \in FirstPair(post_keys[j]) : pair' = p /\ seek' = val_off_beg(p) /\ last_seek' = val_off_beg(p)
    BY <1>1, <1>2, PairsFound
  <1>4. p \in 1 .. Len(form)
    BY DEF FirstPair
  <1>5. val_off_beg(p) = EqAt(form, p) + 1
    BY <1>2, <1>4, PairsFound
  <1>6. EqAt(form, p) \in Nat
    BY <1>2, <1>4, LayoutOrder
  <1> DEFINE v == form[p].val
             s == form[p].sent
  <1>7. PICK from \in [1 .. Len(v) + 1 -> 1 .. Len(s) + 1] : IsEscaped(v, s, from)
    BY <1>2, <1>4, PairEscaped
  <1>8. v \in Seq(Nat) /\ s \in Seq(Nat) /\ Len(v) \in Nat
    BY <1>2, <1>4, PairTypes
  <1>9. EscapeMap(v, s, from) /\ from[1] = 1
    BY <1>7, <1>8 DEF EscapeMap, IsEscaped
  <1>10. res' = (Begun(j) \o <<QUOTE>>) \o SubSeq(v, 1, 1 - 1)
    <2>1. j \in 1 .. 5
      BY <1>2
    <2>2. Begun(j) \in Seq(Int)
      BY <1>2, <2>1, BegunGrows
    <2>3. QUOTE \in Int
      BY DEF QUOTE
    <2>4. Append(Begun(j), QUOTE) = Begun(j) \o <<QUOTE>> /\ Append(Begun(j), QUOTE) \in Seq(Int)
      BY <2>2, <2>3, AppendIsConcat, AppendProperties
    <2>5. (Begun(j) \o <<QUOTE>>) \o <<>> = Begun(j) \o <<QUOTE>>
      BY <2>4, ConcatEmptySeq
    <2>6. SubSeq(v, 1, 1 - 1) = <<>>
      BY SubSeqEmpty
    <2> QED BY <1>1, <1>2, <2>4, <2>5, <2>6
  <1> HIDE DEF v, s
  <1>11. Decoding(from, 1)'
    <2>1. last_seek' = EqAt(form, p) + from[1] /\ seek' \in Nat /\ last_seek' = seek' /\ last_seek' <= seek'
      BY <1>3, <1>5, <1>6, <1>9
    <2>2. NoPercent(last_seek, seek)'
      <3>1. PICK n \in Nat : n = last_seek' /\ n = seek'
        BY <2>1
      <3>2. \A x \in n .. n - 1 : FALSE
        OBVIOUS
      <3> QED BY <3>1, <3>2 DEF NoPercent
    <2>3. Begun(j)' = Begun(j)
      BY <1>1, BegunKept
    <2>4. 1 \in 1 .. Len(v) + 1
      BY <1>8
    <2> QED BY <1>1, <1>3, <1>9, <1>10, <2>1, <2>2, <2>3, <2>4 DEF Decoding, EscapeMap, v, s
  <1>12. FirstPair(post_keys[j])' = FirstPair(post_keys[j])
    BY <1>1 DEF FirstPair
  <1>13. AfterSplit' /\ ~Packed' /\ pc' \notin {"split", "eq", "amp"} /\ pc' # "field" /\ pc' # "path"
    BY <1>1 DEF AfterSplit, Packed
  <1> QED BY <1>1, <1>2, <1>3, <1>11, <1>12, <1>13 DEF BodyInv

\* A value decoded to its end completes the field.
LEMMA EndStep ==
    ASSUME InputInv, StrInv, SplitInv, BodyInv, serialize_str_end
    PROVE  BodyInv' /\ AfterSplit /\ AfterSplit'
  <1> DEFINE v == form[pair].val
             s == form[pair].sent
  <1>1. pc = "value" /\ seek >= val_off_end(pair) /\ NextField(Append(res, QUOTE_NL)) /\ form' = form
    BY DEF serialize_str_end, inputVars
  <1>2. /\ pair \in 1 .. Len(form) /\ j \in 1 .. 4 /\ form \in Forms /\ pair \in FirstPair(post_keys[j])
        /\ EqAt(form, pair) \in Nat /\ Len(s) \in Nat
        /\ val_off_end(pair) = EqAt(form, pair) + Len(s) + 1
    BY <1>1, DecodingFacts
  <1>3. PICK from, k : Decoding(from, k)
    BY <1>1 DEF BodyInv
  <1>4. PICK e \in Nat, b \in Nat : e = EqAt(form, pair) /\ b = Len(s)
    BY <1>2
  <1>5. /\ EscapeMap(v, s, from) /\ k \in 1 .. Len(v) + 1 /\ last_seek = e + from[k] /\ seek \in Nat
        /\ (last_seek = seek \/ seek < e + b + 1) /\ res = (Begun(j) \o <<QUOTE>>) \o SubSeq(v, 1, k - 1)
    BY <1>3, <1>4 DEF Decoding
  <1>6. /\ v \in Seq(Nat) /\ s \in Seq(Nat) /\ from \in [1 .. Len(v) + 1 -> 1 .. Len(s) + 1] /\ IsEscaped(v, s, from)
    BY <1>5 DEF EscapeMap
  <1>7. PICK a \in Nat : a = Len(v)
    BY <1>6, LenProperties
  <1>8. k = a + 1
    <2> SUFFICES ASSUME k # a + 1 PROVE FALSE
      OBVIOUS
    <2>1. k \in 1 .. Len(v)
      BY <1>5, <1>7, SMTT(30)
    <2>2. from[k] \in Nat /\ from[k + 1] \in Nat /\ from[k] < from[k + 1] /\ from[k + 1] <= b + 1
      BY <1>4, <1>6, <2>1, EscapedGrows
    <2>3. PICK c \in Nat : c = from[k] /\ c < b + 1
      BY <2>2
    <2>4. seek >= e + b + 1
      BY <1>1, <1>2, <1>4
    <2>5. e + c = seek
      BY <1>5, <2>3, <2>4
    <2> QED BY <2>3, <2>4, <2>5
  <1>9. SubSeq(v, 1, k - 1) = v
    <2>1. k - 1 = Len(v)
      BY <1>7, <1>8
    <2> QED BY <1>6, <2>1, SubSeqFull
  <1>10. v \in Seq(Int)
    BY <1>6, SeqMonotonic
  <1>11. Append((Begun(j) \o <<QUOTE>>) \o v, QUOTE_NL) = Begun(j) \o ((<<QUOTE>> \o v) \o <<QUOTE_NL>>)
    <2>1. j \in 1 .. 5
      BY <1>2
    <2>2. Begun(j) \in Seq(Int)
      BY <1>2, <2>1, BegunGrows
    <2>3. QUOTE \in Int /\ QUOTE_NL \in Int
      BY DEF QUOTE, QUOTE_NL
    <2> HIDE DEF v
    <2> QED BY <1>10, <2>2, <2>3, MarksAround
  <1>12. Field(post_keys[j]) = <<QUOTE>> \o v \o <<QUOTE_NL>>
    BY <1>2, FieldOf
  <1>13. Append(res, QUOTE_NL) = Begun(j) \o Field(post_keys[j])
    BY <1>5, <1>9, <1>11, <1>12
  <1>14. /\ pc' \in {"field", "path"}
         /\ pc' = "field" => j' \in 1 .. 4 /\ res' = Begun(j')
         /\ pc' = "path" => res' = Begun(5)
    BY <1>1, <1>2, <1>13, NextFieldRight
  <1>15. AfterSplit' /\ ~Packed' /\ pc' # "value" /\ pc' \notin {"split", "eq", "amp"} /\ AfterSplit
    BY <1>1, <1>14 DEF AfterSplit, Packed
  <1>17. \A n : Begun(n)' = Begun(n)
    BY <1>1, BegunKept
  <1>16. (pc' = "field" => res' = Begun(j)') /\ (pc' = "path" => res' = Begun(5)')
    BY <1>14, <1>17
  <1> QED BY <1>14, <1>15, <1>16 DEF BodyInv
------------------------------------------------------------------------------
(* How long a package can be *)

\* What a pair has sent, counted if it is one of the first q - 1; 0 is no pair.
Taken(g, q) == IF g \in 1 .. q - 1 THEN Len(form[g].sent) ELSE 0

\* One pair more.
LEMMA TakenStep ==
    ASSUME form \in Forms, NEW g \in 0 .. Len(form), NEW q \in 1 .. Len(form)
    PROVE  /\ Taken(g, q) \in Nat /\ Taken(g, q + 1) \in Nat
           /\ g # q => Taken(g, q + 1) = Taken(g, q)
           /\ g = q => Taken(g, q) = 0 /\ Taken(g, q + 1) = Len(form[q].sent)
  <1>1. Len(form) \in Nat
    BY PairTypes
  <1>2. \A p \in 1 .. Len(form) : Len(form[p].sent) \in Nat
    BY PairTypes
  <1>3. g \in 1 .. q - 1 => g \in 1 .. Len(form)
    BY <1>1
  <1>4. g \in 1 .. (q + 1) - 1 <=> g \in 1 .. q - 1 \/ g = q
    BY <1>1
  <1>5. ~(q \in 1 .. q - 1)
    BY <1>1
  <1> QED BY <1>2, <1>3, <1>4, <1>5 DEF Taken

\* Four different pairs have sent no more than the form holds.
LEMMA FourValues ==
    ASSUME InputInv,
           NEW g1 \in 0 .. Len(form), NEW g2 \in 0 .. Len(form), NEW g3 \in 0 .. Len(form), NEW g4 \in 0 .. Len(form),
           g1 # 0 => g1 # g2 /\ g1 # g3 /\ g1 # g4,
           g2 # 0 => g2 # g3 /\ g2 # g4,
           g3 # 0 => g3 # g4
    PROVE  LET q == Len(form) + 1 IN Taken(g1, q) + Taken(g2, q) + Taken(g3, q) + Taken(g4, q) <= len
  <1> DEFINE L == Len(form)
             at == At(form)
             Fits(q) == Taken(g1, q) + Taken(g2, q) + Taken(g3, q) + Taken(g4, q) <= at[q] + 2 - q
             Good == {q \in Nat : q \in 1 .. L + 1 => Fits(q)}
  <1>1. form \in Forms /\ L \in Nat
    BY PairTypes DEF InputInv
  <1>2. Fits(1)
    <2>1. \A g : Taken(g, 1) = 0
      BY DEF Taken
    <2>2. at[1] = -1
      BY <1>1, LayoutOrder DEF IsLayout
    <2> HIDE DEF at
    <2> QED BY <2>1, <2>2
  <1> HIDE DEF Fits
  <1>3. ASSUME NEW q \in Nat, q \in Good PROVE q + 1 \in Good
    <2> SUFFICES ASSUME q + 1 \in 1 .. L + 1 PROVE Fits(q + 1)
      OBVIOUS
    <2>1. CASE q = 0
      BY <1>2, <2>1
    <2>2. CASE q # 0
      <3>1. q \in 1 .. L /\ q \in 1 .. L + 1
        BY <1>1, <2>2
      <3>2. Fits(q)
        BY <1>3, <3>1
      <3>3. PICK a \in Nat, b \in Nat, d \in Int :
              a = Len(form[q].key) /\ b = Len(form[q].sent) /\ d = at[q]
        BY <1>1, <3>1, PairTypes, LayoutOrder
      <3>4. at[q + 1] = d + a + b + 2
        <4>1. at[q + 1] = EqAt(form, q) + b + 1
          BY <1>1, <3>1, <3>3, LayoutOrder
        <4>2. EqAt(form, q) = d + a + 1
          BY <3>3 DEF EqAt
        <4> HIDE DEF at
        <4> QED BY <4>1, <4>2
      <3> HIDE DEF at, L
      <3>5. PICK t1 \in Nat, u1 \in Nat : /\ t1 = Taken(g1, q) /\ u1 = Taken(g1, q + 1)
                                          /\ (g1 # q => u1 = t1) /\ (g1 = q => t1 = 0 /\ u1 = b)
        BY <1>1, <3>1, <3>3, TakenStep DEF L
      <3>6. PICK t2 \in Nat, u2 \in Nat : /\ t2 = Taken(g2, q) /\ u2 = Taken(g2, q + 1)
                                          /\ (g2 # q => u2 = t2) /\ (g2 = q => t2 = 0 /\ u2 = b)
        BY <1>1, <3>1, <3>3, TakenStep DEF L
      <3>7. PICK t3 \in Nat, u3 \in Nat : /\ t3 = Taken(g3, q) /\ u3 = Taken(g3, q + 1)
                                          /\ (g3 # q => u3 = t3) /\ (g3 = q => t3 = 0 /\ u3 = b)
        BY <1>1, <3>1, <3>3, TakenStep DEF L
      <3>8. PICK t4 \in Nat, u4 \in Nat : /\ t4 = Taken(g4, q) /\ u4 = Taken(g4, q + 1)
                                          /\ (g4 # q => u4 = t4) /\ (g4 = q => t4 = 0 /\ u4 = b)
        BY <1>1, <3>1, <3>3, TakenStep DEF L
      <3>9. t1 + t2 + t3 + t4 <= d + 2 - q
        BY <3>2, <3>3, <3>5, <3>6, <3>7, <3>8 DEF Fits
      <3>10. u1 + u2 + u3 + u4 <= t1 + t2 + t3 + t4 + b
        <4>1. CASE g1 = q
          <5>1. g2 # q /\ g3 # q /\ g4 # q
            BY <2>2, <4>1
          <5>2. t1 = 0 /\ u1 = b /\ u2 = t2 /\ u3 = t3 /\ u4 = t4
            BY <3>5, <3>6, <3>7, <3>8, <4>1, <5>1
          <5> QED BY <5>2
        <4>2. CASE g2 = q
          <5>1. g1 # q /\ g3 # q /\ g4 # q
            BY <2>2, <4>2
          <5>2. u1 = t1 /\ t2 = 0 /\ u2 = b /\ u3 = t3 /\ u4 = t4
            BY <3>5, <3>6, <3>7, <3>8, <4>2, <5>1
          <5> QED BY <5>2
        <4>3. CASE g3 = q
          <5>1. g1 # q /\ g2 # q /\ g4 # q
            BY <2>2, <4>3
          <5>2. u1 = t1 /\ u2 = t2 /\ t3 = 0 /\ u3 = b /\ u4 = t4
            BY <3>5, <3>6, <3>7, <3>8, <4>3, <5>1
          <5> QED BY <5>2
        <4>4. CASE g4 = q
          <5>1. g1 # q /\ g2 # q /\ g3 # q
            BY <2>2, <4>4
          <5>2. u1 = t1 /\ u2 = t2 /\ u3 = t3 /\ t4 = 0 /\ u4 = b
            BY <3>5, <3>6, <3>7, <3>8, <4>4, <5>1
          <5> QED BY <5>2
        <4>5. CASE g1 # q /\ g2 # q /\ g3 # q /\ g4 # q
          <5>1. u1 = t1 /\ u2 = t2 /\ u3 = t3 /\ u4 = t4
            BY <3>5, <3>6, <3>7, <3>8, <4>5
          <5> QED BY <5>1
        <4> QED BY <4>1, <4>2, <4>3, <4>4, <4>5
      <3>11. u1 + u2 + u3 + u4 <= (d + a + b + 2) + 2 - (q + 1)
        BY <3>9, <3>10
      <3> QED BY <3>4, <3>5, <3>6, <3>7, <3>8, <3>11 DEF Fits
    <2> QED BY <2>1, <2>2
  <1>4. 0 \in Good
    OBVIOUS
  <1>5. L + 1 \in Good
    <2> HIDE DEF Good
    <2>1. L + 1 \in Nat
      BY <1>1
    <2> QED BY <1>3, <1>4, <2>1, InductionOnNat
  <1>6. Fits(L + 1)
    BY <1>1, <1>5
  <1>7. at[L + 1] = len
    <2>1. len = Len(Flat(form))
      BY LengthRead
    <2> QED BY <1>1, <2>1, LayoutOrder DEF IsLayout
  <1> DEFINE total == Taken(g1, L + 1) + Taken(g2, L + 1) + Taken(g3, L + 1) + Taken(g4, L + 1)
  <1>8. total <= len + 2 - (L + 1)
    BY <1>6, <1>7 DEF Fits
  <1>9. total \in Int
    <2>1. L \in 1 .. Len(form)
      BY <1>1, PairTypes
    <2>2. \A g \in 0 .. Len(form) : Taken(g, L + 1) \in Nat
      BY <1>1, <2>1, TakenStep
    <2> HIDE DEF L
    <2>3. PICK a \in Nat, b \in Nat, c \in Nat, d \in Nat :
            a = Taken(g1, L + 1) /\ b = Taken(g2, L + 1) /\ c = Taken(g3, L + 1) /\ d = Taken(g4, L + 1)
      BY <2>2
    <2> QED BY <2>3
  <1>10. L >= 1 /\ len \in Nat
    BY <1>1, PairTypes, LengthRead
  <1> HIDE DEF total
  <1>11. total <= len
    BY <1>1, <1>8, <1>9, <1>10
  <1> QED BY <1>11 DEF total

\* The pair the n-th key is found in, 0 if it is in none.
Found(n) == IF FirstPair(post_keys[n]) = {} THEN 0 ELSE CHOOSE p \in FirstPair(post_keys[n]) : TRUE

\* A field is as long as its pair's value and two marks, and a pair has one key.
LEMMA FoundPair ==
    ASSUME InputInv, NEW n \in 1 .. 4
    PROVE  /\ Found(n) \in 0 .. Len(form) /\ Len(Field(post_keys[n])) \in Nat
           /\ Taken(Found(n), Len(form) + 1) \in Nat
           /\ Len(Field(post_keys[n])) <= Taken(Found(n), Len(form) + 1) + 2
           /\ \A m \in 1 .. 4 : m # n /\ Found(n) # 0 => Found(n) # Found(m)
  <1> DEFINE k == post_keys[n]
             q == Len(form) + 1
  <1>1. form \in Forms /\ Len(form) \in Nat
    BY PairTypes DEF InputInv
  <1>2. CASE FirstPair(k) = {}
    <2>1. Found(n) = 0 /\ Len(Field(k)) = 0
      BY <1>1, <1>2, FieldType DEF Found
    <2>2. Taken(0, q) = 0
      BY <1>1 DEF Taken
    <2> QED BY <1>1, <2>1, <2>2
  <1>3. CASE FirstPair(k) # {}
    <2>1. PICK p \in FirstPair(k) : p = Found(n)
      BY <1>3 DEF Found
    <2>2. p \in 1 .. Len(form) /\ form[p].key = k
      BY <1>1, FieldOf
    <2>3. PICK a \in Nat, b \in Nat : a = Len(form[p].val) /\ b = Len(form[p].sent)
      BY <1>1, <2>2, PairTypes
    <2>4. a <= b
      <3>1. PICK from \in [1 .. Len(form[p].val) + 1 -> 1 .. Len(form[p].sent) + 1] : IsEscaped(form[p].val, form[p].sent, from)
        BY <1>1, <2>2, PairEscaped
      <3>2. form[p].val \in Seq(Nat) /\ form[p].sent \in Seq(Nat)
        BY <1>1, <2>2, PairTypes
      <3> QED BY <2>3, <3>1, <3>2, EscapedLonger
    <2>5. Len(Field(k)) = a + 2
      BY <1>1, <2>3, FieldType
    <2>6. p \in 1 .. q - 1
      BY <1>1, <2>2
    <2>7. Taken(p, q) = b
      BY <2>3, <2>6 DEF Taken
    <2>8. ASSUME NEW m \in 1 .. 4, m # n, Found(m) = p PROVE FALSE
      <3>1. FirstPair(post_keys[m]) # {}
        BY <1>1, <2>2, <2>8 DEF Found
      <3>2. p \in FirstPair(post_keys[m])
        BY <2>8, <3>1 DEF Found
      <3>3. form[p].key = post_keys[m]
        BY <1>1, <3>2, FieldOf
      <3> QED BY <2>2, <2>8, <3>3, KeysAssumption
    <2>9. p \in 0 .. Len(form)
      BY <1>1, <2>2
    <2>10. Len(Field(k)) \in Nat /\ Len(Field(k)) <= Taken(p, q) + 2 /\ Taken(p, q) \in Nat
      BY <2>4, <2>5, <2>7
    <2> QED BY <2>1, <2>8, <2>9, <2>10
  <1> QED BY <1>2, <1>3

\* The four fields together are no longer than the form and their marks.
LEMMA FieldLengths ==
    ASSUME InputInv
    PROVE  \E f1, f2, f3, f4 \in Nat :
             /\ f1 = Len(Field(post_keys[1])) /\ f2 = Len(Field(post_keys[2]))
             /\ f3 = Len(Field(post_keys[3])) /\ f4 = Len(Field(post_keys[4]))
             /\ f1 + f2 + f3 + f4 <= len + 8
  <1> DEFINE q == Len(form) + 1
             T(n) == Taken(Found(n), q)
  <1>1. 1 \in 1 .. 4 /\ 2 \in 1 .. 4 /\ 3 \in 1 .. 4 /\ 4 \in 1 .. 4
    OBVIOUS
  <1>2. \A n \in 1 .. 4 : /\ Found(n) \in 0 .. Len(form) /\ Len(Field(post_keys[n])) \in Nat
                          /\ T(n) \in Nat /\ Len(Field(post_keys[n])) <= T(n) + 2
    BY FoundPair
  <1>3. \A n, m \in 1 .. 4 : m # n /\ Found(n) # 0 => Found(n) # Found(m)
    BY FoundPair
  <1>4. T(1) + T(2) + T(3) + T(4) <= len
    <2>1. Found(1) \in 0 .. Len(form) /\ Found(2) \in 0 .. Len(form) /\ Found(3) \in 0 .. Len(form) /\ Found(4) \in 0 .. Len(form)
      BY <1>1, <1>2
    <2>2. Found(1) # 0 => Found(1) # Found(2) /\ Found(1) # Found(3) /\ Found(1) # Found(4)
      BY <1>1, <1>3
    <2>3. Found(2) # 0 => Found(2) # Found(3) /\ Found(2) # Found(4)
      BY <1>1, <1>3
    <2>4. Found(3) # 0 => Found(3) # Found(4)
      BY <1>1, <1>3
    <2> QED BY <2>1, <2>2, <2>3, <2>4, FourValues
  <1> HIDE DEF T, q
  <1>5. PICK f1 \in Nat, t1 \in Nat : f1 = Len(Field(post_keys[1])) /\ t1 = T(1) /\ f1 <= t1 + 2
    BY <1>1, <1>2
  <1>6. PICK f2 \in Nat, t2 \in Nat : f2 = Len(Field(post_keys[2])) /\ t2 = T(2) /\ f2 <= t2 + 2
    BY <1>1, <1>2
  <1>7. PICK f3 \in Nat, t3 \in Nat : f3 = Len(Field(post_keys[3])) /\ t3 = T(3) /\ f3 <= t3 + 2
    BY <1>1, <1>2
  <1>8. PICK f4 \in Nat, t4 \in Nat : f4 = Len(Field(post_keys[4])) /\ t4 = T(4) /\ f4 <= t4 + 2
    BY <1>1, <1>2
  <1>9. len \in Nat
    BY LengthRead
  <1>10. t1 + t2 + t3 + t4 <= len
    BY <1>4, <1>5, <1>6, <1>7, <1>8
  <1>11. f1 + f2 + f3 + f4 <= len + 8
    <2>1. f1 <= t1 + 2 /\ f2 <= t2 + 2 /\ f3 <= t3 + 2 /\ f4 <= t4 + 2
      BY <1>5, <1>6, <1>7, <1>8
    <2>2. PICK z \in Nat : z = len
      BY <1>9
    <2>3. t1 + t2 + t3 + t4 <= z
      BY <1>10, <2>2
    <2>4. f1 + f2 + f3 + f4 <= z + 8
      BY <2>1, <2>3
    <2> QED BY <2>2, <2>4
  <1> QED BY <1>5, <1>6, <1>7, <1>8, <1>11

\* The path is the interface once more, between two marks of its own.
LEMMA PathRight ==
    ASSUME form \in Forms
    PROVE  /\ PathField \in Seq(Int) /\ Len(PathField) = Len(Field(post_keys[1]))
           /\ FirstPair(post_keys[1]) = {} => PathField = <<>>
           /\ \A p \in FirstPair(post_keys[1]) : PathField = <<PATH>> \o form[p].val \o <<END>>
  <1> DEFINE k == post_keys[1]
             f == Field(k)
  <1>1. CASE FirstPair(k) = {}
    <2>1. f = <<>> /\ Len(f) = 0
      BY <1>1, FieldType
    <2>2. PathField = <<>>
      BY <2>1 DEF PathField
    <2> QED BY <1>1, <2>1, <2>2, EmptySeq
  <1>2. CASE FirstPair(k) # {}
    <2>1. PICK p \in FirstPair(k) : FirstPair(k) = {p}
      BY <1>2, FieldOf
    <2> DEFINE v == form[p].val
    <2>2. v \in Seq(Int) /\ f = (<<QUOTE>> \o v) \o <<QUOTE_NL>>
      BY <2>1, FieldOf, FieldType
    <2>3. PICK a \in Nat : a = Len(v)
      BY <2>2, LenProperties
    <2>4. QUOTE \in Int /\ QUOTE_NL \in Int /\ PATH \in Int /\ END \in Int /\ <<>> \in Seq(Int)
      BY DEF QUOTE, QUOTE_NL, PATH, END
    <2> HIDE DEF v, f
    <2>5. f \in Seq(Int) /\ Len(f) = a + 2 /\ \A x \in 1 .. a : f[x + 1] = v[x]
      BY <2>2, <2>3, <2>4, MarksAround
    <2>6. SubSeq(f, 2, Len(f) - 1) = v
      <3>1. PICK h \in Nat : h = Len(f) - 1 /\ h = a + 1
        BY <2>5
      <3>2. ASSUME NEW x \in 2 .. h PROVE f[x] \in Int
        <4>1. x \in 1 .. Len(f)
          BY <2>5, <3>1
        <4> QED BY <2>5, <4>1, ElementOfSeq
      <3>3. h \in Int /\ 2 \in Int
        OBVIOUS
      <3> DEFINE w == SubSeq(f, 2, h)
      <3>4. /\ w \in Seq(Int) /\ Len(w) = IF 2 <= h THEN h - 2 + 1 ELSE 0
            /\ \A x \in 1 .. h - 2 + 1 : w[x] = f[2 + x - 1]
        BY <3>2, <3>3, SubSeqProperties
      <3>a. h - 2 + 1 = a /\ (2 <= h <=> a # 0)
        BY <3>1
      <3> HIDE DEF w
      <3>5. Len(w) = a
        BY <3>4, <3>a
      <3>6. ASSUME NEW x \in 1 .. a PROVE w[x] = v[x]
        <4>1. 2 + x - 1 = x + 1
          OBVIOUS
        <4>2. w[x] = f[2 + x - 1]
          BY <3>4, <3>a
        <4> QED BY <2>5, <4>1, <4>2
      <3>7. w = v
        <4>1. w \in Seq(Int) /\ v \in Seq(Int)
          BY <2>2, <3>4
        <4> QED BY <2>3, <3>5, <3>6, <4>1, SeqEqual
      <3> QED BY <3>1, <3>7 DEF w
    <2>7. f # <<>>
      BY <2>3, <2>5, EmptySeq
    <2>8. PathField = (<<PATH>> \o v) \o <<END>>
      BY <2>6, <2>7 DEF PathField, f
    <2>9. PathField \in Seq(Int) /\ Len(PathField) = a + 2
      BY <2>2, <2>3, <2>4, <2>8, MarksAround
    <2> QED BY <1>2, <2>1, <2>5, <2>8, <2>9 DEF v, f
  <1> QED BY <1>1, <1>2

\* The lengths of the beginnings of a package, and of the package.
LEMMA PackageLengths ==
    ASSUME form \in Forms
    PROVE  LET f1 == Len(Field(post_keys[1]))
               f2 == Len(Field(post_keys[2]))
               f3 == Len(Field(post_keys[3]))
               f4 == Len(Field(post_keys[4]))
           IN /\ Len(Begun(1)) = 1 /\ Len(Begun(2)) = 2 + f1 /\ Len(Begun(3)) = 2 + f1 + f2
              /\ Len(Begun(4)) = 2 + f1 + f2 + f3 /\ Len(Begun(5)) = 2 + f1 + f2 + f3 + f4
              /\ Len(Package) = 2 + f1 + f2 + f3 + f4 + f1
  <1>0. PICK f1 \in Nat, f2 \in Nat, f3 \in Nat, f4 \in Nat :
          /\ f1 = Len(Field(post_keys[1])) /\ f2 = Len(Field(post_keys[2]))
          /\ f3 = Len(Field(post_keys[3])) /\ f4 = Len(Field(post_keys[4]))
    <2>1. \A n : Len(Field(post_keys[n])) \in Nat
      BY FieldType, LenProperties
    <2> QED BY <2>1
  <1>1. \A n \in 1 .. 5 : Begun(n) \in Seq(Int)
    BY BegunGrows
  <1>2. \A n : Field(post_keys[n]) \in Seq(Int)
    BY FieldType
  <1>3. Len(Begun(1)) = 1
    BY BegunGrows
  <1>4. Len(Begun(2)) = 2 + f1
    <2>1. Begun(1) \in Seq(Int) /\ Field(post_keys[1]) \in Seq(Int)
      BY <1>1, <1>2
    <2>2. Begun(1) \o Field(post_keys[1]) \in Seq(Int) /\ Len(Begun(1) \o Field(post_keys[1])) = 1 + f1
      BY <1>0, <1>3, <2>1, ConcatProperties, ZenonT(30)
    <2>3. NULLS \in Int
      BY DEF NULLS
    <2>4. Len(Append(Begun(1) \o Field(post_keys[1]), NULLS)) = Len(Begun(1) \o Field(post_keys[1])) + 1
      BY <2>2, <2>3, AppendProperties
    <2>5. Begun(2) = Append(Begun(1) \o Field(post_keys[1]), NULLS)
      BY BegunGrows
    <2> QED BY <2>2, <2>4, <2>5
  <1>5. ASSUME NEW n \in 2 .. 4 PROVE Len(Begun(n + 1)) = Len(Begun(n)) + Len(Field(post_keys[n]))
    <2>1. n \in 1 .. 5
      OBVIOUS
    <2>2. Begun(n) \in Seq(Int) /\ Field(post_keys[n]) \in Seq(Int)
      BY <1>1, <1>2, <2>1
    <2>3. Begun(n + 1) = Begun(n) \o Field(post_keys[n])
      BY BegunGrows
    <2> QED BY <2>2, <2>3, ConcatProperties
  <1>6. Len(Begun(3)) = 2 + f1 + f2
    <2>1. Len(Begun(2 + 1)) = Len(Begun(2)) + f2
      BY <1>0, <1>5
    <2> QED BY <1>4, <2>1
  <1>7. Len(Begun(4)) = 2 + f1 + f2 + f3
    <2>1. Len(Begun(3 + 1)) = Len(Begun(3)) + f3
      BY <1>0, <1>5
    <2> QED BY <1>6, <2>1
  <1>8. Len(Begun(5)) = 2 + f1 + f2 + f3 + f4
    <2>1. Len(Begun(4 + 1)) = Len(Begun(4)) + f4
      BY <1>0, <1>5
    <2> QED BY <1>7, <2>1
  <1>9. Len(Package) = 2 + f1 + f2 + f3 + f4 + f1
    <2>1. PathField \in Seq(Int) /\ Len(PathField) = f1
      BY <1>0, PathRight
    <2>2. Package = Begun(5) \o PathField
      BY BegunGrows
    <2>3. Begun(5) \in Seq(Int)
      BY <1>1
    <2>4. Len(Package) = Len(Begun(5)) + Len(PathField)
      BY <2>1, <2>2, <2>3, ConcatProperties
    <2> QED BY <1>8, <2>1, <2>4
  <1> QED BY <1>0, <1>3, <1>4, <1>6, <1>7, <1>8, <1>9
------------------------------------------------------------------------------
(* generate_header, and the way back *)

\* The length of the package fits its field.
LEMMA PackageFits == InputInv => Len(Package) \in 0 .. FIELD - 1
  <1> SUFFICES ASSUME InputInv PROVE Len(Package) \in 0 .. FIELD - 1
    OBVIOUS
  <1>1. form \in Forms
    BY DEF InputInv
  <1>2. PICK f1 \in Nat, f2 \in Nat, f3 \in Nat, f4 \in Nat :
          /\ f1 = Len(Field(post_keys[1])) /\ f2 = Len(Field(post_keys[2]))
          /\ f3 = Len(Field(post_keys[3])) /\ f4 = Len(Field(post_keys[4]))
          /\ f1 + f2 + f3 + f4 <= len + 8
    BY FieldLengths
  <1>3. Len(Package) = 2 + f1 + f2 + f3 + f4 + f1
    BY <1>1, <1>2, PackageLengths
  <1>4. PICK n \in Nat : n = len /\ n = Len(Flat(form))
    BY LengthRead
  <1>5. 2 * n + LITERALS < FIELD /\ FIELD \in Nat /\ LITERALS = 12
    BY <1>1, <1>4, FormsAssumption, SizesAssumption, KeysAssumption DEF LITERALS, FIELD
  <1>6. f1 <= n + 2
    <2>1. PICK t \in Nat : f1 <= t + 2 /\ t <= n
      <3>1. 1 \in 1 .. 4
        OBVIOUS
      <3>2. PICK t \in Nat : t = Taken(Found(1), Len(form) + 1) /\ f1 <= t + 2 /\ Found(1) \in 0 .. Len(form)
        BY <1>2, <3>1, FoundPair
      <3>3. 0 \in 0 .. Len(form)
        BY <1>1, PairTypes
      <3>4. Taken(Found(1), Len(form) + 1) + Taken(0, Len(form) + 1) + Taken(0, Len(form) + 1)
            + Taken(0, Len(form) + 1) <= len
        BY <3>2, <3>3, FourValues
      <3>5. Taken(0, Len(form) + 1) = 0
        <4>1. Len(form) \in Nat
          BY <1>1, PairTypes
        <4> QED BY <4>1 DEF Taken
      <3>6. t <= n
        BY <1>4, <3>2, <3>4, <3>5
      <3> QED BY <3>2, <3>6
    <2> QED BY <2>1
  <1>7. f1 + f2 + f3 + f4 <= n + 8
    BY <1>2, <1>4
  <1>8. PICK F \in Nat : F = FIELD /\ 2 * n + 12 < F
    BY <1>5
  <1>9. 2 + f1 + f2 + f3 + f4 + f1 \in 0 .. F - 1
    BY <1>6, <1>7, <1>8
  <1> QED BY <1>3, <1>8, <1>9

\* What serialize_path_dict appends is the package's last part.
LEMMA PathSerialized ==
    ASSUME InputInv, StrInv, SplitInv, AfterSplit, res = Begun(5)
    PROVE  serialize_path_dict = Package
  <1> DEFINE k == post_keys[1]
  <1>1. form \in Forms
    BY DEF InputInv
  <1>2. FirstMatch(k) = FirstPair(k)
    BY PairsFound
  <1>3. Begun(5) \in Seq(Int) /\ Package = Begun(5) \o PathField
    <2>1. \A n \in 1 .. 5 : Begun(n) \in Seq(Int)
      BY <1>1, BegunGrows
    <2>2. Begun(5) \in Seq(Int)
      <3>1. 5 \in 1 .. 5
        OBVIOUS
      <3> QED BY <2>1, <3>1
    <2>3. Package = Begun(5) \o PathField
      BY <1>1, BegunGrows
    <2> QED BY <2>2, <2>3
  <1>4. CASE FirstPair(k) = {}
    <2>1. serialize_path_dict = res
      BY <1>2, <1>4 DEF serialize_path_dict
    <2>2. PathField = <<>>
      BY <1>1, <1>4, PathRight
    <2>3. Begun(5) \o <<>> = Begun(5)
      BY <1>3, ConcatEmptySeq
    <2> QED BY <1>3, <2>1, <2>2, <2>3
  <1>5. CASE FirstPair(k) # {}
    <2>1. PICK p \in FirstPair(k) : FirstPair(k) = {p}
      BY <1>1, <1>5, FieldOf
    <2>2. p \in 1 .. Len(form) /\ form[p].key = k
      BY <1>1, FieldOf
    <2>3. serialize_path_dict = res \o <<PATH>> \o Bytes(val_off_beg(p), val_off_end(p)) \o <<END>>
      <3>1. (CHOOSE q \in FirstPair(k) : TRUE) = p
        BY <2>1
      <3> QED BY <1>2, <2>1, <3>1 DEF serialize_path_dict
    <2>4. form[p].sent = form[p].val
      BY <1>1, <2>2, FormsAssumption
    <2>5. PICK e \in Nat, b \in Nat : e = EqAt(form, p) /\ b = Len(form[p].sent)
      BY <1>1, <2>2, LayoutOrder, PairTypes
    <2>6. val_off_beg(p) = e + 1 /\ val_off_end(p) = e + b + 1 /\ Shows(str, form)
      BY <2>2, <2>5, PairsFound
    <2>7. Bytes(e + 1, e + b + 1) = form[p].sent
      <3>1. (e + b + 1) - (e + 1) = b
        OBVIOUS
      <3>2. ASSUME NEW n \in 1 .. b PROVE str[e + 1 + n - 1] = form[p].sent[n]
        <4>1. e + 1 + n - 1 = e + n
          OBVIOUS
        <4>2. str[e + n] = form[p].sent[n]
          BY <1>1, <2>2, <2>5, <2>6, ShowsPairs
        <4> QED BY <4>1, <4>2
      <3>3. Bytes(e + 1, e + b + 1) = [n \in 1 .. b |-> form[p].sent[n]]
        BY <3>1, <3>2 DEF Bytes
      <3>4. form[p].sent \in Seq(Nat)
        BY <1>1, <2>2, PairTypes
      <3>5. form[p].sent = [n \in 1 .. b |-> form[p].sent[n]]
        BY <2>5, <3>4, LenProperties
      <3> QED BY <3>3, <3>5
    <2>8. PathField = (<<PATH>> \o form[p].val) \o <<END>>
      BY <1>1, PathRight
    <2>9. form[p].val \in Seq(Int) /\ PATH \in Int /\ END \in Int
      BY <1>1, FieldType DEF PATH, END
    <2>10. ((Begun(5) \o <<PATH>>) \o form[p].val) \o <<END>> = Begun(5) \o ((<<PATH>> \o form[p].val) \o <<END>>)
      BY <1>3, <2>9, MarksAround
    <2> QED BY <1>3, <2>3, <2>4, <2>6, <2>7, <2>8, <2>10
  <1> QED BY <1>4, <1>5

\* The headers of the package, of Dubbo's answer and of the response.
OutInv ==
    /\ Packed => header = [length |-> int_to_four_char(Len(Package)), id |-> frame.id]
    /\ pc \in {"result", "done"} =>
         \E n \in HashLengths : result = [length |-> int_to_four_char(n + 3), id |-> frame.id, hash |-> n]
    /\ pc = "done" =>
         response = [length |-> int_to_four_char(response_template_len + result.hash), id |-> frame.id,
                     content_length |-> int_to_string(result.hash), hash |-> result.hash]

\* The path, the header, and the package is on its way.
LEMMA HeaderStep ==
    ASSUME InputInv, StrInv, SplitInv, BodyInv, generate_header
    PROVE  BodyInv' /\ OutInv' /\ AfterSplit /\ AfterSplit'
  <1>1. /\ pc = "path" /\ pc' = "at Dubbo" /\ res' = serialize_path_dict /\ form' = form /\ frame' = frame
        /\ header' = [length |-> int_to_four_char(Len(serialize_path_dict)), id |-> frame.id]
    BY DEF generate_header, inputVars
  <1>2. AfterSplit /\ AfterSplit' /\ Packed' /\ pc' \notin {"split", "eq", "amp", "field", "value", "path", "result", "done"}
    BY <1>1 DEF AfterSplit, Packed
  <1>3. serialize_path_dict = Package
    BY <1>1, <1>2, PathSerialized DEF BodyInv
  <1>4. Package' = Package
    BY <1>1, BegunKept
  <1>5. BodyInv'
    BY <1>1, <1>2, <1>3, <1>4 DEF BodyInv
  <1>6. OutInv'
    BY <1>1, <1>2, <1>3, <1>4 DEF OutInv
  <1> QED BY <1>2, <1>5, <1>6

\* Dubbo answers the package it got.
LEMMA AnswerStep ==
    ASSUME InputInv, BodyInv, OutInv, NEW n \in HashLengths, dubbo_answers(n)
    PROVE  BodyInv' /\ OutInv' /\ AfterSplit /\ AfterSplit'
  <1>1. /\ pc = "at Dubbo" /\ pc' = "result" /\ res' = res /\ form' = form /\ frame' = frame /\ header' = header
        /\ result' = [length |-> int_to_four_char(n + 3), id |-> header.id, hash |-> n]
    BY DEF dubbo_answers, inputVars
  <1>2. /\ AfterSplit /\ AfterSplit' /\ Packed /\ Packed'
        /\ pc' \notin {"split", "eq", "amp", "field", "value", "path", "done"}
    BY <1>1 DEF AfterSplit, Packed
  <1>3. Package' = Package
    BY <1>1, BegunKept
  <1>4. BodyInv'
    BY <1>1, <1>2, <1>3 DEF BodyInv
  <1>5. header.id = frame.id
    BY <1>2 DEF OutInv
  <1>6. OutInv'
    BY <1>1, <1>2, <1>3, <1>5 DEF OutInv
  <1> QED BY <1>2, <1>4, <1>6

\* A result's length, its type and line ends included, fits its field, and so does
\* that of the response made of it.
LEMMA HashFits ==
    ASSUME NEW n \in HashLengths
    PROVE  n \in Nat /\ n + 3 \in 0 .. FIELD - 1 /\ response_template_len + n \in 0 .. FIELD - 1
  <1>1. n \in Nat /\ 39 + n < FIELD
    BY HashAssumption DEF response_template_len
  <1>2. FIELD \in Nat
    BY SizesAssumption DEF FIELD
  <1>3. n + 3 \in 0 .. FIELD - 1 /\ 39 + n \in 0 .. FIELD - 1
    BY <1>1, <1>2
  <1> QED BY <1>1, <1>3 DEF response_template_len

\* Its hash is passed on in a response of the right length.
LEMMA ResultStep ==
    ASSUME InputInv, BodyInv, OutInv, p_on_read_results
    PROVE  BodyInv' /\ OutInv' /\ AfterSplit /\ AfterSplit'
  <1> DEFINE hash_length == four_char_to_int(result.length) - 3
  <1>1. /\ pc = "result" /\ pc' = "done" /\ res' = res /\ form' = form /\ frame' = frame /\ header' = header
        /\ result' = result
        /\ response' = [length |-> int_to_four_char(response_template_len + hash_length), id |-> result.id,
                        content_length |-> int_to_string(hash_length), hash |-> hash_length]
    BY DEF p_on_read_results, inputVars
  <1>2. /\ AfterSplit /\ AfterSplit' /\ Packed /\ Packed'
        /\ pc' \notin {"split", "eq", "amp", "field", "value", "path"}
    BY <1>1 DEF AfterSplit, Packed
  <1>3. Package' = Package
    BY <1>1, BegunKept
  <1>4. BodyInv'
    BY <1>1, <1>2, <1>3 DEF BodyInv
  <1>5. PICK n \in HashLengths : result = [length |-> int_to_four_char(n + 3), id |-> frame.id, hash |-> n]
    BY <1>1 DEF OutInv
  <1>6. n \in Nat /\ four_char_to_int(int_to_four_char(n + 3)) = n + 3
    BY HashFits, FieldHolds
  <1>7. hash_length = n /\ result.hash = n /\ result.id = frame.id
    BY <1>5, <1>6
  <1> HIDE DEF hash_length
  <1>8. OutInv'
    BY <1>1, <1>2, <1>3, <1>5, <1>7 DEF OutInv
  <1> QED BY <1>2, <1>4, <1>8

\* While the form is split the package is empty; it begins with the version.
LEMMA SplitBody ==
    ASSUME BodyInv, OutInv, split_begin \/ split_eq \/ split_amp
    PROVE  BodyInv' /\ OutInv'
  <1>1. pc \in {"split", "eq", "amp"} /\ j = 1 /\ j' = j /\ (res = <<>> \/ res = <<VERSION>>)
    BY DEF BodyInv, AfterSplit, split_begin, split_eq, split_amp, fieldVars
  <1>2. /\ pc' \in {"eq", "amp", "wild", "field"}
        /\ pc' = "field" => res' = <<VERSION>>
        /\ res' = res \/ res' = <<VERSION>>
    <2>1. CASE split_begin
      BY <1>1, <2>1 DEF split_begin
    <2>2. CASE split_eq
      BY <1>1, <2>2 DEF split_eq, PutOffset
    <2>3. CASE split_amp
      BY <1>1, <2>3 DEF split_amp, PutOffset
    <2> QED BY <2>1, <2>2, <2>3
  <1>3. ~Packed' /\ pc' \notin {"value", "path", "result", "done"}
    BY <1>2 DEF Packed
  <1>4. Begun(1)' = <<VERSION>>
    BY DEF Begun
  <1>5. pc' = "field" => res' = Begun(j)'
    BY <1>1, <1>2, <1>4
  <1>6. pc' \in {"field", "value"} => j' \in 1 .. 4
    BY <1>1
  <1>7. BodyInv'
    BY <1>1, <1>2, <1>3, <1>5, <1>6 DEF BodyInv
  <1>8. OutInv'
    BY <1>3 DEF OutInv
  <1> QED BY <1>7, <1>8
\* A block of a value.
LEMMA ValueBody ==
    ASSUME InputInv, StrInv, SplitInv, BodyInv, serialize_str_value
    PROVE  BodyInv' /\ AfterSplit /\ AfterSplit'
  <1>1. pc = "value" /\ pc' = "value" /\ form' = form /\ j' = j /\ pair' = pair
    BY DEF serialize_str_value, inputVars
  <1>2. /\ AfterSplit /\ AfterSplit' /\ ~Packed'
        /\ pc' \notin {"split", "eq", "amp", "field", "path"}
    BY <1>1 DEF AfterSplit, Packed
  <1>3. j \in 1 .. 4 /\ pair \in FirstPair(post_keys[j])
    BY <1>1 DEF BodyInv
  <1>4. pair' \in FirstPair(post_keys[j])'
    <2>1. FirstPair(post_keys[j])' = FirstPair(post_keys[j])
      BY <1>1 DEF FirstPair
    <2> QED BY <1>1, <1>3, <2>1
  <1>5. \E from, k : Decoding(from, k)'
    BY ValueStep
  <1>6. BodyInv'
    BY <1>1, <1>2, <1>3, <1>4, <1>5 DEF BodyInv
  <1> QED BY <1>2, <1>6

\* Nothing is sent before the package is whole.
LEMMA NothingSent ==
    ASSUME serialize_str_missing \/ serialize_str_found \/ serialize_str_value \/ serialize_str_end
    PROVE  OutInv'
  <1>1. pc' \in {"field", "value", "path"}
    <2>1. CASE serialize_str_missing
      BY <2>1 DEF serialize_str_missing, NextField
    <2>2. CASE serialize_str_found
      BY <2>2 DEF serialize_str_found
    <2>3. CASE serialize_str_value
      BY <2>3 DEF serialize_str_value
    <2>4. CASE serialize_str_end
      BY <2>4 DEF serialize_str_end, NextField
    <2> QED BY <2>1, <2>2, <2>3, <2>4
  <1>2. ~Packed' /\ pc' \notin {"result", "done"}
    BY <1>1 DEF Packed
  <1> QED BY <1>2 DEF OutInv
------------------------------------------------------------------------------
(* The invariant *)

TInv == InputInv /\ StrInv /\ SplitInv /\ BodyInv /\ OutInv

\* A frame as it comes from the consumer agent.
LEMMA InvBegins == Init => TInv
  <1> SUFFICES ASSUME Init PROVE TInv
    OBVIOUS
  <1>1. /\ pc = "split" /\ res = <<>> /\ j = 1 /\ str = Text
    BY DEF Init, Text
  <1>2. InputInv
    <2>1. PICK id \in Ids : frame = [length |-> int_to_four_char(Len(Flat(form))), id |-> id]
      BY DEF Init
    <2>2. frame.length = int_to_four_char(Len(Flat(form)))
      BY <2>1
    <2> QED BY <2>2 DEF Init, InputInv
  <1>3. StrInv
    BY <1>1 DEF StrInv, Splitting
  <1>4. SplitInv
    BY <1>1 DEF SplitInv, AfterSplit
  <1>5. BodyInv
    BY <1>1 DEF BodyInv, AfterSplit, Packed
  <1>6. OutInv
    BY <1>1 DEF OutInv, Packed
  <1> QED BY <1>2, <1>3, <1>4, <1>5, <1>6 DEF TInv

\* A step that changes nothing.
LEMMA InvStutters == TInv /\ UNCHANGED vars => TInv'
  <1> SUFFICES ASSUME TInv, UNCHANGED vars PROVE TInv'
    OBVIOUS
  <1>1. /\ build' = build /\ form' = form /\ frame' = frame /\ behind' = behind /\ str' = str /\ restore_buf' = restore_buf
        /\ pc' = pc /\ off' = off /\ i' = i
    BY DEF vars, inputVars, splitVars
  <1>2. /\ j' = j /\ pair' = pair /\ last_seek' = last_seek /\ seek' = seek /\ res' = res
        /\ header' = header /\ result' = result /\ response' = response
    BY DEF vars, fieldVars, outVars
  <1>3. AfterSplit' = AfterSplit /\ Packed' = Packed /\ Splitting' = Splitting /\ len' = len /\ Text' = Text
    BY <1>1 DEF AfterSplit, Packed, Splitting, len, Text
  <1>4. InputInv'
    BY <1>1 DEF TInv, InputInv
  <1>5. StrInv'
    BY <1>1, <1>3 DEF TInv, StrInv, Wiped
  <1>6. SplitInv'
    BY <1>1, <1>3 DEF TInv, SplitInv, OffsetsRight, SeekingEq, SeekingAmp, RoomForPairs
  <1>7. BodyInv'
    <2>1. \A n : Begun(n)' = Begun(n)
      BY <1>1, BegunKept
    <2>2. FirstPair(post_keys[j])' = FirstPair(post_keys[j]) /\ Package' = Package
      BY <1>1, <1>2 DEF FirstPair, Package, Field, PathField
    <2>3. Begun(j)' = Begun(j) /\ Begun(5)' = Begun(5)
      BY <1>2, <2>1
    <2>4. (\E from, k : Decoding(from, k))' <=> \E from, k : Decoding(from, k)
      BY <1>1, <1>2, <2>3 DEF Decoding, NoPercent
    <2> QED BY <1>1, <1>2, <1>3, <2>2, <2>3, <2>4 DEF TInv, BodyInv
  <1>8. OutInv'
    <2>1. Package' = Package
      BY <1>1, BegunKept
    <2> QED BY <1>1, <1>2, <1>3, <2>1 DEF TInv, OutInv
  <1> QED BY <1>4, <1>5, <1>6, <1>7, <1>8 DEF TInv

\* Every step of the translation, and Dubbo's answer.
LEMMA InvKept == TInv /\ [Next]_vars => TInv'
  <1> SUFFICES ASSUME TInv, [Next]_vars PROVE TInv'
    OBVIOUS
  <1> USE DEF TInv
  <1>1. CASE split_begin
    BY <1>1, SplitBegins, SplitBody
  <1>2. CASE split_eq
    BY <1>2, SplitSeeksEq, SplitBody
  <1>3. CASE split_amp
    BY <1>3, SplitSeeksAmp, SplitBody
  <1>4. CASE serialize_str_missing
    <2>1. BodyInv' /\ AfterSplit /\ AfterSplit' /\ OutInv'
      BY <1>4, MissingStep, NothingSent
    <2>2. UNCHANGED <<inputVars, str, splitVars>>
      BY <1>4 DEF serialize_str_missing
    <2> QED BY <2>1, <2>2, SplitKept
  <1>5. CASE serialize_str_found
    <2>1. BodyInv' /\ AfterSplit /\ AfterSplit' /\ OutInv'
      BY <1>5, FoundStep, NothingSent
    <2>2. UNCHANGED <<inputVars, str, splitVars>>
      BY <1>5 DEF serialize_str_found
    <2> QED BY <2>1, <2>2, SplitKept
  <1>6. CASE serialize_str_value
    <2>1. BodyInv' /\ AfterSplit /\ AfterSplit' /\ OutInv'
      BY <1>6, ValueBody, NothingSent
    <2>2. UNCHANGED <<inputVars, str, splitVars>>
      BY <1>6 DEF serialize_str_value
    <2> QED BY <2>1, <2>2, SplitKept
  <1>7. CASE serialize_str_end
    <2>1. BodyInv' /\ AfterSplit /\ AfterSplit' /\ OutInv'
      BY <1>7, EndStep, NothingSent
    <2>2. UNCHANGED <<inputVars, str, splitVars>>
      BY <1>7 DEF serialize_str_end
    <2> QED BY <2>1, <2>2, SplitKept
  <1>8. CASE generate_header
    <2>1. BodyInv' /\ AfterSplit /\ AfterSplit' /\ OutInv'
      BY <1>8, HeaderStep
    <2>2. UNCHANGED <<inputVars, str, splitVars>>
      BY <1>8 DEF generate_header
    <2> QED BY <2>1, <2>2, SplitKept
  <1>9. CASE p_on_read_results
    <2>1. BodyInv' /\ AfterSplit /\ AfterSplit' /\ OutInv'
      BY <1>9, ResultStep
    <2>2. UNCHANGED <<inputVars, str, splitVars>>
      BY <1>9 DEF p_on_read_results
    <2> QED BY <2>1, <2>2, SplitKept
  <1>10. ASSUME NEW n \in HashLengths, dubbo_answers(n) PROVE TInv'
    <2>1. BodyInv' /\ AfterSplit /\ AfterSplit' /\ OutInv'
      BY <1>10, AnswerStep
    <2>2. UNCHANGED <<inputVars, str, splitVars>>
      BY <1>10 DEF dubbo_answers
    <2> QED BY <2>1, <2>2, SplitKept
  <1>11. CASE UNCHANGED vars
    BY <1>11, InvStutters
  <1> QED BY <1>1, <1>2, <1>3, <1>4, <1>5, <1>6, <1>7, <1>8, <1>9, <1>10, <1>11 DEF Next, Step

\* In every reachable state the memory shows the form (while it is split, the bytes
\* behind it cleared), the offsets found are those of its pairs, the body is the
\* package as far as it has been written, and the headers fit what they head.
THEOREM TranslationInvariant == Spec => []TInv
  <1> QED BY InvBegins, InvKept, PTL DEF Spec
\* No part of a package is longer than the whole may be.
LEMMA ResBounded ==
    ASSUME TInv
    PROVE  /\ Len(res) \in Nat /\ LITERALS = 12 /\ len \in Nat /\ Len(PathField) \in Nat
           /\ Len(res) <= LITERALS + len + Len(PathField)
  <1>1. InputInv /\ SplitInv /\ BodyInv /\ form \in Forms
    BY DEF TInv, InputInv
  <1>2. PICK f1, f2, f3, f4 \in Nat :
          /\ f1 = Len(Field(post_keys[1])) /\ f2 = Len(Field(post_keys[2]))
          /\ f3 = Len(Field(post_keys[3])) /\ f4 = Len(Field(post_keys[4]))
          /\ f1 + f2 + f3 + f4 <= len + 8
    BY <1>1, FieldLengths
  <1>3. PICK n \in Nat : n = len
    BY <1>1, LengthRead
  <1>4. LITERALS = 12 /\ Len(PathField) = f1
    <2>1. Len(PathField) = f1
      BY <1>1, <1>2, PathRight
    <2>2. LITERALS = 12
      <3>1. Len(post_keys) = 4
        BY KeysAssumption
      <3> QED BY <3>1 DEF LITERALS
    <2> QED BY <2>1, <2>2
  <1>5. /\ Len(Begun(1)) = 1 /\ Len(Begun(2)) = 2 + f1 /\ Len(Begun(3)) = 2 + f1 + f2
        /\ Len(Begun(4)) = 2 + f1 + f2 + f3 /\ Len(Begun(5)) = 2 + f1 + f2 + f3 + f4
        /\ Len(Package) = 2 + f1 + f2 + f3 + f4 + f1
    BY <1>1, <1>2, PackageLengths
  <1>6. f1 + f2 + f3 + f4 <= n + 8
    BY <1>2, <1>3
  <1>7. SUFFICES Len(res) \in Nat /\ Len(res) <= 12 + n + f1
    BY <1>3, <1>4
  <1>8. CASE ~AfterSplit
    <2>1. res = <<>> \/ res = <<VERSION>>
      BY <1>1, <1>8 DEF BodyInv
    <2>2. Len(<<>>) = 0 /\ Len(<<VERSION>>) = 1
      OBVIOUS
    <2>3. Len(res) = 0 \/ Len(res) = 1
      BY <2>1, <2>2
    <2>4. \A l : l = 0 \/ l = 1 => l \in Nat /\ l <= 12 + n + f1
      OBVIOUS
    <2> QED BY <2>3, <2>4, Zenon
  <1>9. CASE pc = "field"
    <2>1. j \in 1 .. 4 /\ res = Begun(j)
      BY <1>1, <1>9 DEF BodyInv
    <2>2. j = 1 \/ j = 2 \/ j = 3 \/ j = 4
      BY <2>1
    <2>3. \/ Len(res) = 1 \/ Len(res) = 2 + f1 \/ Len(res) = 2 + f1 + f2 \/ Len(res) = 2 + f1 + f2 + f3
      <3>1. CASE j = 1
        BY <1>5, <2>1, <3>1
      <3>2. CASE j = 2
        BY <1>5, <2>1, <3>2
      <3>3. CASE j = 3
        BY <1>5, <2>1, <3>3
      <3>4. CASE j = 4
        BY <1>5, <2>1, <3>4
      <3> QED BY <2>2, <3>1, <3>2, <3>3, <3>4
    <2>4. \A l : l = 1 \/ l = 2 + f1 \/ l = 2 + f1 + f2 \/ l = 2 + f1 + f2 + f3 => l \in Nat /\ l <= 12 + n + f1
      BY <1>6
    <2> QED BY <2>3, <2>4, Zenon
  <1>10. CASE pc = "value"
    <2>1. j \in 1 .. 4 /\ pair \in FirstPair(post_keys[j])
      BY <1>1, <1>10 DEF BodyInv
    <2>2. PICK from, k : Decoding(from, k)
      BY <1>1, <1>10 DEF BodyInv
    <2>3. form[pair].val \in Seq(Int) /\ Len(Field(post_keys[j])) = Len(form[pair].val) + 2
      BY <1>1, <2>1, FieldType
    <2>4. PICK v \in Nat : v = Len(form[pair].val)
      BY <2>3, LenProperties
    <2>5. k \in 1 .. v + 1 /\ res = (Begun(j) \o <<QUOTE>>) \o SubSeq(form[pair].val, 1, k - 1)
      BY <2>2, <2>4 DEF Decoding
    <2>6. \A m \in 1 .. 5 : Begun(m) \in Seq(Int)
      BY <1>1, BegunGrows
    <2>7. PICK b \in Nat : b = Len(Begun(j)) /\ Begun(j) \in Seq(Int)
      <3>1. Begun(j) \in Seq(Int)
        BY <2>1, <2>6
      <3> QED BY <3>1, LenProperties
    <2>8. <<QUOTE>> \in Seq(Int) /\ Len(<<QUOTE>>) = 1
      BY TupleIsSeq DEF QUOTE
    <2>9. Begun(j) \o <<QUOTE>> \in Seq(Int) /\ Len(Begun(j) \o <<QUOTE>>) = b + 1
      BY <2>7, <2>8, ConcatProperties
    <2>10. /\ SubSeq(form[pair].val, 1, k - 1) \in Seq(Int)
           /\ Len(SubSeq(form[pair].val, 1, k - 1)) = k - 1
      BY <2>3, <2>4, <2>5, FrontType
    <2>11. Len(res) = (b + 1) + (k - 1)
      <3> DEFINE s == Begun(j) \o <<QUOTE>>
                 t == SubSeq(form[pair].val, 1, k - 1)
      <3>1. s \in Seq(Int) /\ t \in Seq(Int) /\ Len(s) = b + 1 /\ Len(t) = k - 1 /\ res = s \o t
        BY <2>5, <2>9, <2>10
      <3> HIDE DEF s, t
      <3>2. Len(s \o t) = Len(s) + Len(t)
        BY <3>1, ConcatProperties
      <3> QED BY <3>1, <3>2
    <2>12. \/ j = 1 /\ b = 1 /\ v + 2 = f1
           \/ j = 2 /\ b = 2 + f1 /\ v + 2 = f2
           \/ j = 3 /\ b = 2 + f1 + f2 /\ v + 2 = f3
           \/ j = 4 /\ b = 2 + f1 + f2 + f3 /\ v + 2 = f4
      <3>1. Len(Field(post_keys[j])) = v + 2 /\ b = Len(Begun(j))
        BY <2>3, <2>4, <2>7
      <3>2. j = 1 \/ j = 2 \/ j = 3 \/ j = 4
        BY <2>1
      <3>3. CASE j = 1
        BY <1>2, <1>5, <3>1, <3>3
      <3>4. CASE j = 2
        BY <1>2, <1>5, <3>1, <3>4
      <3>5. CASE j = 3
        BY <1>2, <1>5, <3>1, <3>5
      <3>6. CASE j = 4
        BY <1>2, <1>5, <3>1, <3>6
      <3> QED BY <3>2, <3>3, <3>4, <3>5, <3>6
    <2>13. k \in Int /\ k <= v + 1
      BY <2>5
    <2> QED BY <1>6, <2>11, <2>12, <2>13
  <1>11. CASE pc = "path"
    <2>1. res = Begun(5)
      BY <1>1, <1>11 DEF BodyInv
    <2>2. Len(res) = 2 + f1 + f2 + f3 + f4
      BY <1>5, <2>1
    <2> QED BY <1>6, <2>2
  <1>12. CASE Packed
    <2>1. res = Package
      BY <1>1, <1>12 DEF BodyInv
    <2>2. Len(res) = 2 + f1 + f2 + f3 + f4 + f1
      BY <1>5, <2>1
    <2> QED BY <1>6, <2>2
  <1> QED BY <1>8, <1>9, <1>10, <1>11, <1>12 DEF AfterSplit, Packed

\* For forms of any length, keys in any order and blocks of any width, the package
\* Dubbo gets is the one the pairs of the form make, with its length and the id of
\* the request (PackageRight).
THEOREM PackageIsRight == Spec => []PackageRight
  <1>1. TInv => PackageRight
    <2> SUFFICES ASSUME TInv, Packed
                 PROVE  /\ res = Package
                        /\ header.id = frame.id
                        /\ four_char_to_int(header.length) = Len(Package)
      BY DEF PackageRight
    <2>1. res = Package
      BY DEF TInv, BodyInv
    <2>2. header = [length |-> int_to_four_char(Len(Package)), id |-> frame.id]
      BY DEF TInv, OutInv
    <2>3. four_char_to_int(int_to_four_char(Len(Package))) = Len(Package)
      BY PackageFits, FieldHolds DEF TInv
    <2>4. header.id = frame.id /\ header.length = int_to_four_char(Len(Package))
      BY <2>2
    <2> QED BY <2>1, <2>3, <2>4
  <1> QED BY <1>1, TranslationInvariant, PTL

\* What lay behind the form in raw_buf1 lies there again when the form has been
\* split (NeighboursRestored).
THEOREM NeighboursAreRestored == Spec => []NeighboursRestored
  <1>1. TInv => NeighboursRestored
    BY DEF TInv, StrInv, NeighboursRestored, Text
  <1> QED BY <1>1, TranslationInvariant, PTL

\* The forms that overrun off[] are those of more than (OFFSETS - 1) \div 2 pairs, all
\* of them, and a package has room if its form, the interface and the literals do
\* (StaysInBounds).
THEOREM BoundsKept == Spec => []StaysInBounds
  <1>1. TInv => StaysInBounds
    <2> SUFFICES ASSUME TInv PROVE StaysInBounds
      OBVIOUS
    <2>1. ~Splitting /\ pc # "split" => (pc = "wild" <=> ~RoomForPairs)
      BY DEF TInv, SplitInv, Splitting, AfterSplit
    <2>2. ASSUME RoomForPackage PROVE OVERHEAD + Len(res) <= PACKAGE
      <3>1. /\ Len(res) \in Nat /\ LITERALS = 12 /\ len \in Nat /\ Len(PathField) \in Nat
            /\ Len(res) <= LITERALS + len + Len(PathField)
        BY ResBounded
      <3>2. OVERHEAD = 41
        <4>1. Len(post_keys) = 4
          BY KeysAssumption
        <4> QED BY <4>1 DEF OVERHEAD
      <3>3. OVERHEAD + LITERALS + len + Len(PathField) <= PACKAGE
        BY <2>2 DEF RoomForPackage
      <3>4. PICK a \in Nat, b \in Nat, c \in Nat : a = Len(res) /\ b = len /\ c = Len(PathField)
        BY <3>1
      <3>5. a <= 12 + b + c /\ 41 + 12 + b + c <= PACKAGE
        BY <3>1, <3>2, <3>3, <3>4
      <3>6. 41 + a <= PACKAGE
        BY <3>5, PackageAssumption
      <3> QED BY <3>2, <3>4, <3>6
    <2> QED BY <2>1, <2>2 DEF StaysInBounds
  <1> QED BY <1>1, TranslationInvariant, PTL

\* The two places of Content-Length are read as what was written there.
LEMMA NumberRead ==
    ASSUME NEW n \in 0 .. 99
    PROVE  ReadNumber(int_to_string(n)) = n
  <1>1. CASE n < 10
    <2>1. int_to_string(n) = <<48 + n, 32>>
      BY <1>1 DEF int_to_string, BLANK
    <2>2. 48 + n \in 48 .. 57 /\ ~(32 \in 48 .. 57) /\ (48 + n) - 48 = n
      BY <1>1
    <2> QED BY <2>1, <2>2 DEF ReadNumber, Digit, BLANK
  <1>2. CASE ~(n < 10)
    <2>1. PICK t \in Nat, u \in Nat : n = 10 * t + u /\ u < 10 /\ t = n \div 10 /\ 1 <= t /\ t <= 9
      <3>1. n \div 10 \in Int /\ n % 10 \in 0 .. 9 /\ n = 10 * (n \div 10) + (n % 10)
        BY DivMod
      <3>2. 1 <= n \div 10 /\ n \div 10 <= 9
        BY <1>2, <3>1
      <3> QED BY <3>1, <3>2
    <2>2. int_to_string(n) = <<48 + t, 48 + u>>
      <3>1. n - 10 * (n \div 10) = u
        BY <2>1
      <3> QED BY <1>2, <2>1, <3>1 DEF int_to_string
    <2>3. 48 + t \in 48 .. 57 /\ 48 + u \in 48 .. 57 /\ 10 * ((48 + t) - 48) + (48 + u) - 48 = n
      BY <2>1
    <2>4. Digit(48 + t) /\ Digit(48 + u)
      BY <2>3 DEF Digit
    <2>5. ReadNumber(<<48 + t, 48 + u>>) = 10 * ((48 + t) - 48) + (48 + u) - 48
      <3> DEFINE d == <<48 + t, 48 + u>>
      <3>1. d[1] = 48 + t /\ d[2] = 48 + u
        OBVIOUS
      <3>2. Digit(d[1]) /\ Digit(d[2]) /\ d[2] # BLANK
        <4>1. 48 + u # 32
          BY <2>1
        <4> QED BY <2>4, <3>1, <4>1 DEF BLANK
      <3> HIDE DEF d
      <3>3. ReadNumber(d) = 10 * (d[1] - 48) + d[2] - 48
        BY <3>2 DEF ReadNumber
      <3> QED BY <3>1, <3>3 DEF d
    <2> QED BY <2>2, <2>3, <2>5
  <1> QED BY <1>1, <1>2

\* The response is framed by the request's id and its own length, and its
\* Content-Length is right where two places hold it (ResponseRight).
THEOREM ResponseIsRight == Spec => []ResponseRight
  <1>1. TInv => ResponseRight
    <2> SUFFICES ASSUME TInv, pc = "done"
                 PROVE  /\ response.id = frame.id
                        /\ four_char_to_int(response.length) = response_template_len + result.hash
                        /\ response.hash = result.hash
                        /\ result.hash < 100 => ReadNumber(response.content_length) = result.hash
      BY DEF ResponseRight
    <2>1. PICK n \in HashLengths : result = [length |-> int_to_four_char(n + 3), id |-> frame.id, hash |-> n]
      BY DEF TInv, OutInv
    <2>2. result.hash = n /\ n \in Nat
      BY <2>1, HashFits
    <2>3. response = [length |-> int_to_four_char(response_template_len + n), id |-> frame.id,
                      content_length |-> int_to_string(n), hash |-> n]
      BY <2>2 DEF TInv, OutInv
    <2>4. four_char_to_int(int_to_four_char(response_template_len + n)) = response_template_len + n
      BY HashFits, FieldHolds
    <2>5. n < 100 => ReadNumber(int_to_string(n)) = n
      <3>1. n < 100 => n \in 0 .. 99
        BY <2>2
      <3> QED BY <3>1, NumberRead
    <2>6. /\ response.length = int_to_four_char(response_template_len + n) /\ response.id = frame.id
          /\ response.content_length = int_to_string(n) /\ response.hash = n
      BY <2>3
    <2> QED BY <2>2, <2>4, <2>5, <2>6
  <1> QED BY <1>1, TranslationInvariant, PTL
==============================================================================
