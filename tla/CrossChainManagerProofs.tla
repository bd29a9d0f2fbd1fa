---------------------- MODULE CrossChainManagerProofs ----------------------
(***************************************************************************)
(* Proofs about CrossChainManager for every set of messages and requests:  *)
(* nothing is executed twice, and outgoing ids are dense and unique.  The  *)
(* lemmas about sums, about the bank and about what is added to the        *)
(* histories of messages serve the token modules.                          *)
(***************************************************************************)
EXTENDS CrossChainManager, FiniteSetTheorems, SequenceTheorems, TLAPS

-----------------------------------------------------------------------------
(* Sums: SumFunction of the community module Functions, a fold over the    *)
(* domain of a function in an order that CHOOSE fixes                      *)

\* A set with zero that has the successor of each of its numbers has them all.
LEMMA CountingUp ==
    ASSUME NEW G, 0 \in G, \A n \in Nat : n \in G => n + 1 \in G
    PROVE  Nat \subseteq G
<1>. DEFINE T == Nat \ G
            R == OpToRel(<, Nat)
<1>1. SUFFICES ASSUME T # {} PROVE FALSE
  OBVIOUS
<1>2. PICK x \in T : \A y \in T : ~ (<<y, x>> \in R)
  <2>1. T \subseteq Nat /\ IsWellFoundedOn(R, Nat)
    BY NatLessThanWellFounded
  <2>. HIDE DEF T, R
  <2>. QED
    BY <1>1, <2>1, WFMin
<1>3. x \in Nat /\ x - 1 \in Nat /\ x = (x - 1) + 1
  OBVIOUS
<1>4. x - 1 \in T
  BY <1>2, <1>3
<1>5. <<x - 1, x>> \in R
  BY <1>3 DEF OpToRel
<1>. QED
  BY <1>2, <1>4, <1>5

\* The fold behind SumFunctionOnSet: one element after the other, in an order
\* that CHOOSE fixes.
FirstOf(T) == CHOOSE x \in T : TRUE

FoldStep(f, g, T) == IF T = {} THEN 0 ELSE f[FirstOf(T)] + g[T \ {FirstOf(T)}]

PartialSums(f, S) == CHOOSE g : g = [T \in SUBSET S |-> FoldStep(f, g, T)]

LEMMA SumIsFold ==
    ASSUME NEW f, NEW S
    PROVE  SumFunctionOnSet(f, S) = PartialSums(f, S)[S]
BY DEF SumFunctionOnSet, FoldFunctionOnSet, MapThenFoldSet, PartialSums, FoldStep, FirstOf

LEMMA FirstIn ==
    ASSUME NEW T, T # {}
    PROVE  FirstOf(T) \in T
BY DEF FirstOf

\* The fold is defined on the subsets of a finite set.
LEMMA SumsDefined ==
    ASSUME NEW f, NEW S, IsFiniteSet(S)
    PROVE  \A T \in SUBSET S : PartialSums(f, S)[T] = FoldStep(f, PartialSums(f, S), T)
<1>. DEFINE Small(n) == {T \in SUBSET S : Cardinality(T) <= n}
            G == {n \in Nat : \E g : g = [T \in Small(n) |-> FoldStep(f, g, T)]}
<1>1. \A T \in SUBSET S : IsFiniteSet(T) /\ Cardinality(T) \in Nat
  BY FS_Subset, FS_CardinalityType
<1>2. 0 \in G
  <2>. DEFINE g == [T \in Small(0) |-> 0]
  <2>1. \A T \in Small(0) : T = {}
    BY <1>1, FS_EmptySet
  <2>2. g = [T \in Small(0) |-> FoldStep(f, g, T)]
    BY <2>1 DEF FoldStep
  <2>. QED
    BY <2>2
<1>3. ASSUME NEW n \in Nat, n \in G
      PROVE  n + 1 \in G
  <2>1. PICK g : g = [T \in Small(n) |-> FoldStep(f, g, T)]
    BY <1>3
  <2>. DEFINE h == [T \in Small(n + 1) |-> FoldStep(f, g, T)]
  <2>2. ASSUME NEW T \in Small(n + 1), T # {}
        PROVE  h[T \ {FirstOf(T)}] = g[T \ {FirstOf(T)}]
    <3>. DEFINE U == T \ {FirstOf(T)}
    <3>1. Cardinality(U) = Cardinality(T) - 1 /\ U \in SUBSET S
      BY <1>1, <2>2, FirstIn, FS_RemoveElement
    <3>2. U \in Small(n) /\ U \in Small(n + 1)
      BY <1>1, <3>1
    <3>3. h[U] = FoldStep(f, g, U) /\ g[U] = FoldStep(f, g, U)
      <4>. HIDE DEF U, Small
      <4>. QED
        BY <2>1, <3>2
    <3>. QED
      BY <3>3
  <2>3. h = [T \in Small(n + 1) |-> FoldStep(f, h, T)]
    <3>1. \A T \in Small(n + 1) : FoldStep(f, g, T) = FoldStep(f, h, T)
      <4>. HIDE DEF h, Small
      <4>. QED
        BY <2>2 DEF FoldStep
    <3>. HIDE DEF Small
    <3>. QED
      BY <3>1
  <2>. HIDE DEF h, Small
  <2>. QED
    BY <2>3
<1>4. Cardinality(S) \in Nat /\ Small(Cardinality(S)) = SUBSET S
  BY <1>1, FS_Subset, FS_CardinalityType
<1>5. Cardinality(S) \in G
  <2>. HIDE DEF G
  <2>. QED
    BY <1>2, <1>3, <1>4, CountingUp
<1>6. \E g : g = [T \in SUBSET S |-> FoldStep(f, g, T)]
  <2>1. PICK g : g = [T \in Small(Cardinality(S)) |-> FoldStep(f, g, T)]
    BY <1>5
  <2>. HIDE DEF Small
  <2>2. g = [T \in SUBSET S |-> FoldStep(f, g, T)]
    BY <1>4, <2>1
  <2>. QED
    BY <2>2
<1>7. PartialSums(f, S) = [T \in SUBSET S |-> FoldStep(f, PartialSums(f, S), T)]
  BY <1>6 DEF PartialSums
<1>8. PICK g : g = PartialSums(f, S)
  OBVIOUS
<1>. QED
  BY <1>7, <1>8

\* What holds of a finite set when it holds of all its proper subsets, holds of
\* all sets that are finite.
LEMMA SubsetInduction ==
    ASSUME NEW S, IsFiniteSet(S), NEW G,
           \A T \in SUBSET S : (\A U \in SUBSET T : U # T => U \in G) => T \in G
    PROVE  SUBSET S \subseteq G
<1>. DEFINE Bad == (SUBSET S) \ G
            R == StrictSubsetOrdering(S)
<1>1. SUFFICES ASSUME Bad # {} PROVE FALSE
  OBVIOUS
<1>2. PICK T \in Bad : \A U \in Bad : ~ (<<U, T>> \in R)
  <2>1. IsWellFoundedOn(R, SUBSET S)
    BY FS_StrictSubsetOrderingWellFounded, FS_FiniteSubsetsOfFinite
  <2>2. Bad \subseteq SUBSET S
    OBVIOUS
  <2>. HIDE DEF Bad, R
  <2>. QED
    BY <1>1, <2>1, <2>2, WFMin
<1>3. \A U \in SUBSET T : U # T => U \in G
  BY <1>2 DEF StrictSubsetOrdering
<1>. QED
  BY <1>2, <1>3

\* The fold over a subset does not depend on what it is a subset of.
LEMMA SumsAgree ==
    ASSUME NEW f, NEW S, IsFiniteSet(S), NEW T \in SUBSET S
    PROVE  PartialSums(f, S)[T] = SumFunctionOnSet(f, T)
<1>. DEFINE g == PartialSums(f, S)
            h == PartialSums(f, T)
            G == {U \in SUBSET T : g[U] = h[U]}
<1>1. IsFiniteSet(T) /\ \A U \in SUBSET T : U \in SUBSET S
  BY FS_Subset
<1>2. \A U \in SUBSET T : g[U] = FoldStep(f, g, U) /\ h[U] = FoldStep(f, h, U)
  BY <1>1, SumsDefined
<1>. HIDE DEF g, h
<1>3. ASSUME NEW U \in SUBSET T, \A V \in SUBSET U : V # U => V \in G
      PROVE  U \in G
  <2>1. CASE U = {}
    BY <1>2, <2>1 DEF FoldStep
  <2>2. CASE U # {}
    <3>1. U \ {FirstOf(U)} \in G
      BY <1>3, <2>2, FirstIn
    <3>. QED
      BY <1>2, <2>2, <3>1 DEF FoldStep
  <2>. QED
    BY <2>1, <2>2
<1>4. T \in G
  <2>. HIDE DEF G
  <2>. QED
    BY <1>1, <1>3, SubsetInduction
<1>. QED
  BY <1>4, SumIsFold DEF g, h

\* The equation of the fold.
LEMMA SumEquation ==
    ASSUME NEW f, NEW S, IsFiniteSet(S)
    PROVE  /\ S = {} => SumFunctionOnSet(f, S) = 0
           /\ S # {} => SumFunctionOnSet(f, S)
                            = f[FirstOf(S)] + SumFunctionOnSet(f, S \ {FirstOf(S)})
<1>. DEFINE g == PartialSums(f, S)
<1>1. SumFunctionOnSet(f, S) = FoldStep(f, g, S)
  BY SumsDefined, SumIsFold
<1>2. g[S \ {FirstOf(S)}] = SumFunctionOnSet(f, S \ {FirstOf(S)})
  BY SumsAgree
<1>. HIDE DEF g
<1>. QED
  BY <1>1, <1>2 DEF FoldStep

\* A sum of integers is one, and any element can be taken out of it first.
LEMMA SumRemove ==
    ASSUME NEW f, NEW S, IsFiniteSet(S), \A x \in S : f[x] \in Int
    PROVE  /\ SumFunctionOnSet(f, S) \in Int
           /\ \A x \in S : SumFunctionOnSet(f, S) = f[x] + SumFunctionOnSet(f, S \ {x})
<1>. DEFINE sum(T) == SumFunctionOnSet(f, T)
            Good(T) == sum(T) \in Int /\ \A x \in T : sum(T) = f[x] + sum(T \ {x})
            G == {T \in SUBSET S : Good(T)}
<1>1. \A T \in SUBSET S : IsFiniteSet(T)
  BY FS_Subset
<1>2. ASSUME NEW T \in SUBSET S, \A U \in SUBSET T : U # T => U \in G
      PROVE  T \in G
  <2>1. CASE T = {}
    <3>1. sum(T) = 0
      BY <1>1, <2>1, SumEquation
    <3>. QED
      BY <2>1, <3>1
  <2>2. CASE T # {}
    <3>. DEFINE y == FirstOf(T)
    <3>1. y \in T /\ sum(T) = f[y] + sum(T \ {y})
      BY <1>1, <2>2, FirstIn, SumEquation
    <3>. HIDE DEF y
    <3>2. \A U \in SUBSET T : U # T => Good(U)
      <4>. HIDE DEF Good
      <4>. QED
        BY <1>2
    <3>3. sum(T) \in Int
      BY <3>1, <3>2
    <3>4. ASSUME NEW x \in T, x # y
          PROVE  sum(T) = f[x] + sum(T \ {x})
      <4>. DEFINE rest == (T \ {x}) \ {y}
      <4>1. /\ T \ {x} \in SUBSET T /\ T \ {x} # T
            /\ T \ {y} \in SUBSET T /\ T \ {y} # T
            /\ rest \in SUBSET T /\ rest # T
            /\ x \in T \ {y} /\ y \in T \ {x} /\ (T \ {y}) \ {x} = rest
        BY <3>1, <3>4
      <4>. HIDE DEF rest
      <4>2. sum(T \ {y}) = f[x] + sum(rest)
        BY <3>2, <4>1
      <4>3. sum(T \ {x}) = f[y] + sum(rest)
        BY <3>2, <4>1 DEF rest
      <4>4. f[x] \in Int /\ f[y] \in Int /\ sum(rest) \in Int
        BY <3>1, <3>2, <4>1
      <4>. HIDE DEF sum
      <4>. QED
        BY <3>1, <4>2, <4>3, <4>4
    <3>. QED
      BY <3>1, <3>3, <3>4
  <2>. QED
    BY <2>1, <2>2
<1>3. S \in G
  <2>. HIDE DEF G
  <2>. QED
    BY <1>2, SubsetInduction
<1>. HIDE DEF sum
<1>. QED
  BY <1>3 DEF sum

\* A sum depends on the values of its elements alone.
LEMMA SumsEqual ==
    ASSUME NEW f, NEW g, NEW S, IsFiniteSet(S), \A x \in S : f[x] = g[x]
    PROVE  SumFunctionOnSet(f, S) = SumFunctionOnSet(g, S)
<1>. DEFINE G == {T \in SUBSET S : SumFunctionOnSet(f, T) = SumFunctionOnSet(g, T)}
<1>1. ASSUME NEW T \in SUBSET S, \A U \in SUBSET T : U # T => U \in G
      PROVE  T \in G
  <2>1. IsFiniteSet(T)
    BY FS_Subset
  <2>2. CASE T # {}
    <3>1. FirstOf(T) \in T /\ T \ {FirstOf(T)} \in G
      BY <1>1, <2>2, FirstIn
    <3>. QED
      BY <2>1, <2>2, <3>1, SumEquation
  <2>3. CASE T = {}
    BY <2>1, <2>3, SumEquation
  <2>. QED
    BY <2>2, <2>3
<1>2. S \in G
  <2>. HIDE DEF G
  <2>. QED
    BY <1>1, SubsetInduction
<1>. QED
  BY <1>2

\* A sum of natural numbers is one.
LEMMA SumNat ==
    ASSUME NEW f, IsFiniteSet(DOMAIN f), \A x \in DOMAIN f : f[x] \in Nat
    PROVE  SumFunction(f) \in Nat
<1>. DEFINE S == DOMAIN f
            G == {T \in SUBSET S : SumFunctionOnSet(f, T) \in Nat}
<1>1. ASSUME NEW T \in SUBSET S, \A U \in SUBSET T : U # T => U \in G
      PROVE  T \in G
  <2>1. IsFiniteSet(T)
    BY FS_Subset
  <2>2. CASE T # {}
    <3>1. FirstOf(T) \in T /\ T \ {FirstOf(T)} \in G
      BY <1>1, <2>2, FirstIn
    <3>2. f[FirstOf(T)] \in Nat /\ SumFunctionOnSet(f, T \ {FirstOf(T)}) \in Nat
      BY <3>1
    <3>. QED
      BY <2>1, <2>2, <3>2, SumEquation
  <2>3. CASE T = {}
    <3>1. SumFunctionOnSet(f, T) = 0
      BY <2>1, <2>3, SumEquation
    <3>. QED
      BY <3>1
  <2>. QED
    BY <2>2, <2>3
<1>2. S \in G
  <2>. HIDE DEF G, S
  <2>1. IsFiniteSet(S)
    BY DEF S
  <2>. QED
    BY <1>1, <2>1, SubsetInduction
<1>. QED
  BY <1>2 DEF SumFunction

\* A sum of nothing.
LEMMA SumEmpty ==
    ASSUME NEW f, DOMAIN f = {}
    PROVE  SumFunction(f) = 0
BY FS_EmptySet, SumEquation DEF SumFunction

\* What a new element adds to a sum.
LEMMA SumExtends ==
    ASSUME NEW f, NEW g, NEW x, IsFiniteSet(DOMAIN f), x \notin DOMAIN f,
           DOMAIN g = DOMAIN f \cup {x}, g[x] \in Int,
           \A y \in DOMAIN f : f[y] \in Int /\ g[y] = f[y]
    PROVE  SumFunction(f) \in Int /\ SumFunction(g) = SumFunction(f) + g[x]
<1>1. IsFiniteSet(DOMAIN g) /\ (DOMAIN g) \ {x} = DOMAIN f
  BY FS_AddElement
<1>2. \A y \in DOMAIN g : g[y] \in Int
  OBVIOUS
<1>3. SumFunctionOnSet(g, DOMAIN g) = g[x] + SumFunctionOnSet(g, DOMAIN f)
  BY <1>1, <1>2, SumRemove
<1>4. SumFunctionOnSet(g, DOMAIN f) = SumFunctionOnSet(f, DOMAIN f)
  BY SumsEqual
<1>5. SumFunctionOnSet(f, DOMAIN f) \in Int
  BY SumRemove
<1>. QED
  BY <1>3, <1>4, <1>5 DEF SumFunction

\* What the change of one element adds to a sum.
LEMMA SumChanges ==
    ASSUME NEW f, NEW g, NEW x \in DOMAIN f, IsFiniteSet(DOMAIN f), DOMAIN g = DOMAIN f,
           \A y \in DOMAIN f : f[y] \in Int /\ (y # x => g[y] = f[y]), g[x] \in Int
    PROVE  /\ SumFunction(f) \in Int /\ SumFunction(g) \in Int
           /\ SumFunction(g) = SumFunction(f) + (g[x] - f[x])
<1>. DEFINE rest == (DOMAIN f) \ {x}
<1>1. IsFiniteSet(rest) /\ \A y \in DOMAIN g : g[y] \in Int
  BY FS_Subset
<1>2. /\ SumFunctionOnSet(f, DOMAIN f) = f[x] + SumFunctionOnSet(f, rest)
      /\ SumFunctionOnSet(g, DOMAIN g) = g[x] + SumFunctionOnSet(g, rest)
  BY <1>1, SumRemove
<1>3. SumFunctionOnSet(f, rest) = SumFunctionOnSet(g, rest)
  BY <1>1, SumsEqual
<1>4. SumFunctionOnSet(f, rest) \in Int
  BY <1>1, SumRemove
<1>. QED
  BY <1>2, <1>3, <1>4 DEF SumFunction

\* The powers of b up to the n-th, as the recursion of FixedBytes gives them.
Powers(b, n) == CHOOSE p : p = [i \in 0..n |-> IF i = 0 THEN 1 ELSE b * p[i - 1]]

\* The recursion defines every one of them.
LEMMA PowersAreNat ==
    ASSUME NEW b \in Nat, NEW n \in Nat
    PROVE  \A i \in 0..n : Powers(b, n)[i] \in Nat
<1>. DEFINE F(p, k) == [i \in 0..k |-> IF i = 0 THEN 1 ELSE b * p[i - 1]]
            G == {k \in Nat : \E p : p = F(p, k) /\ \A i \in 0..k : p[i] \in Nat}
<1>1. 0 \in G
  <2>. DEFINE p == [i \in 0..0 |-> 1]
  <2>1. p = F(p, 0) /\ \A i \in 0..0 : p[i] \in Nat
    OBVIOUS
  <2>. QED
    BY <2>1
<1>2. ASSUME NEW k \in Nat, k \in G PROVE k + 1 \in G
  <2>1. PICK p : p = F(p, k) /\ \A i \in 0..k : p[i] \in Nat
    BY <1>2
  <2>. DEFINE q == F(p, k + 1)
  <2>2. ASSUME NEW i \in 0..k + 1
        PROVE  /\ q[i] = IF i = 0 THEN 1 ELSE b * p[i - 1]
               /\ i # 0 => i - 1 \in 0..k /\ i - 1 \in 0..k + 1
    OBVIOUS
  <2>3. \A i \in 0..k : q[i] = p[i]
    <3>1. \A i \in 0..k : p[i] = IF i = 0 THEN 1 ELSE b * p[i - 1]
      BY <2>1
    <3>. QED
      BY <3>1
  <2>4. q = F(q, k + 1)
    <3>1. \A i \in 0..k + 1 : i # 0 => q[i - 1] = p[i - 1]
      BY <2>2, <2>3
    <3>. HIDE DEF q
    <3>2. F(q, k + 1) = F(p, k + 1)
      BY <3>1
    <3>. QED
      BY <3>2 DEF q
  <2>5. \A i \in 0..k + 1 : q[i] \in Nat
    <3>. HIDE DEF q
    <3>1. \A j \in 0..k : b * p[j] \in Nat
      BY <2>1
    <3>. QED
      BY <2>2, <3>1
  <2>. HIDE DEF q
  <2>. QED
    BY <2>4, <2>5
<1>3. n \in G
  <2>. HIDE DEF G
  <2>. QED
    BY <1>1, <1>2, CountingUp
<1>4. PICK p : p = F(p, n) /\ \A i \in 0..n : p[i] \in Nat
  BY <1>3
<1>5. Powers(b, n) = F(Powers(b, n), n)
  BY <1>4 DEF Powers
<1>. DEFINE P == Powers(b, n)
            H == {i \in Nat : i \in 0..n => P[i] \in Nat}
<1>6. ASSUME NEW i \in 0..n PROVE P[i] = IF i = 0 THEN 1 ELSE b * P[i - 1]
  <2>. HIDE DEF P
  <2>. QED
    BY <1>5 DEF P
<1>7. 0 \in H
  BY <1>6
<1>8. ASSUME NEW i \in Nat, i \in H PROVE i + 1 \in H
  <2>1. i + 1 \in 0..n => P[i + 1] = b * P[i] /\ P[i] \in Nat
    BY <1>6, <1>8
  <2>. QED
    BY <2>1
<1>9. Nat \subseteq H
  <2>. HIDE DEF H
  <2>. QED
    BY <1>7, <1>8, CountingUp
<1>. QED
  BY <1>9

-----------------------------------------------------------------------------
(* The bank *)

\* Coins paid to a holder.
LEMMA CreditedCoins ==
    ASSUME NEW b \in [Holder -> [Denom -> Nat]], NEW h \in Holder, NEW d \in Denom, NEW n \in Nat
    PROVE  Credited(b, h, d, n) \in [Holder -> [Denom -> Nat]]
<1>1. Credited(b, h, d, n) = [b EXCEPT ![h] = [b[h] EXCEPT ![d] = b[h][d] + n]]
  BY DEF Credited
<1>2. b[h][d] + n \in Nat
  OBVIOUS
<1>. QED
  BY <1>1, <1>2

\* Coins taken from a holder who has them.
LEMMA DebitedCoins ==
    ASSUME NEW b \in [Holder -> [Denom -> Nat]], NEW h \in Holder, NEW d \in Denom, NEW n \in Nat,
           b[h][d] >= n
    PROVE  Debited(b, h, d, n) \in [Holder -> [Denom -> Nat]]
<1>1. Debited(b, h, d, n) = [b EXCEPT ![h] = [b[h] EXCEPT ![d] = b[h][d] - n]]
  BY DEF Debited
<1>2. b[h][d] - n \in Nat
  OBVIOUS
<1>. QED
  BY <1>1, <1>2

\* Coins move between two holders, one of whom may be both.
LEMMA SendKeepsBank ==
    ASSUME BankTypeOK, NEW from \in Holder, NEW to \in Holder,
           NEW d \in Denom, NEW n \in Nat, SendCoins(from, to, d, n)
    PROVE  BankTypeOK'
<1>1. Debited(balance, from, d, n) \in [Holder -> [Denom -> Nat]]
  BY DebitedCoins DEF BankTypeOK, SendCoins
<1>2. balance' \in [Holder -> [Denom -> Nat]]
  BY <1>1, CreditedCoins DEF SendCoins
<1>. QED
  BY <1>2 DEF BankTypeOK, SendCoins

\* Coins are made for one holder and counted in the total.
LEMMA MintKeepsBank ==
    ASSUME BankTypeOK, NEW to \in Holder, NEW d \in Denom, NEW n \in Nat,
           MintCoins(to, d, n)
    PROVE  BankTypeOK'
<1>1. balance' \in [Holder -> [Denom -> Nat]]
  BY CreditedCoins DEF BankTypeOK, MintCoins
<1>2. supply \in [Denom -> Nat] /\ supply[d] + n \in Nat
  BY DEF BankTypeOK
<1>. QED
  BY <1>1, <1>2 DEF BankTypeOK, MintCoins

\* Coins are taken from one holder and from the total.
LEMMA BurnKeepsBank ==
    ASSUME BankTypeOK, NEW from \in Holder, NEW d \in Denom, NEW n \in Nat,
           BurnCoins(from, d, n)
    PROVE  BankTypeOK'
<1>1. balance' \in [Holder -> [Denom -> Nat]]
  BY DebitedCoins DEF BankTypeOK, BurnCoins
<1>2. supply \in [Denom -> Nat] /\ supply[d] - n \in Nat
  BY DEF BankTypeOK, BurnCoins
<1>. QED
  BY <1>1, <1>2 DEF BankTypeOK, BurnCoins

\* What a transfer leaves a holder of a denom: nothing changes but for the coins
\* that the holder pays or is paid.
LEMMA SendEffect ==
    ASSUME BankTypeOK, NEW from \in Holder, NEW to \in Holder,
           NEW d \in Denom, NEW n \in Nat, SendCoins(from, to, d, n),
           NEW h \in Holder, NEW x \in Denom
    PROVE  balance'[h][x] < balance[h][x] =>
               h = from /\ x = d /\ balance[h][x] - balance'[h][x] = n
<1>. DEFINE b == Debited(balance, from, d, n)
<1>1. balance \in [Holder -> [Denom -> Nat]]
  BY DEF BankTypeOK
<1>2. /\ b \in [Holder -> [Denom -> Int]]
      /\ b[h][x] = IF h = from /\ x = d THEN balance[h][x] - n ELSE balance[h][x]
  BY <1>1 DEF Debited
<1>3. balance' = Credited(b, to, d, n)
  BY DEF SendCoins
<1>. HIDE DEF b
<1>4. balance'[h][x] = IF h = to /\ x = d THEN b[h][x] + n ELSE b[h][x]
  BY <1>2, <1>3 DEF Credited
<1>5. balance[h][x] \in Nat
  BY <1>1
<1>. QED
  BY <1>2, <1>4, <1>5

\* What a holder has after a transfer.
LEMMA SendBalance ==
    ASSUME BankTypeOK, NEW from \in Holder, NEW to \in Holder,
           NEW d \in Denom, NEW n \in Nat, SendCoins(from, to, d, n),
           NEW h \in Holder, NEW x \in Denom
    PROVE  balance'[h][x] = balance[h][x] - (IF h = from /\ x = d THEN n ELSE 0)
                                          + (IF h = to /\ x = d THEN n ELSE 0)
<1>. DEFINE b == Debited(balance, from, d, n)
<1>1. balance \in [Holder -> [Denom -> Nat]]
  BY DEF BankTypeOK
<1>2. /\ b \in [Holder -> [Denom -> Int]]
      /\ b[h][x] = IF h = from /\ x = d THEN balance[h][x] - n ELSE balance[h][x]
  BY <1>1 DEF Debited
<1>3. balance' = Credited(b, to, d, n)
  BY DEF SendCoins
<1>. HIDE DEF b
<1>4. balance'[h][x] = IF h = to /\ x = d THEN b[h][x] + n ELSE b[h][x]
  BY <1>2, <1>3 DEF Credited
<1>5. balance[h][x] \in Nat
  BY <1>1
<1>. QED
  BY <1>2, <1>4, <1>5

\* Coins paid to a holder and coins taken from one are so in the total.
LEMMA TotalChanges ==
    ASSUME NEW b \in [Holder -> [Denom -> Nat]], NEW c \in [Holder -> [Denom -> Nat]],
           NEW h \in Holder, NEW x \in Denom, NEW n \in Int,
           c[h][x] = b[h][x] + n, \A g \in Holder : g # h => c[g][x] = b[g][x]
    PROVE  TotalOf(b, x) \in Int /\ TotalOf(c, x) = TotalOf(b, x) + n
<1>. DEFINE f == [g \in Holder |-> b[g][x]]
            e == [g \in Holder |-> c[g][x]]
<1>1. /\ h \in DOMAIN f /\ IsFiniteSet(DOMAIN f) /\ DOMAIN e = DOMAIN f
      /\ \A y \in DOMAIN f : f[y] \in Int /\ (y # h => e[y] = f[y])
      /\ f[h] \in Int /\ e[h] \in Int /\ e[h] - f[h] = n
  BY BankAssumption
<1>2. TotalOf(b, x) = SumFunction(f) /\ TotalOf(c, x) = SumFunction(e)
  BY DEF TotalOf
<1>. HIDE DEF f, e
<1>3. SumFunction(f) \in Int /\ SumFunction(e) = SumFunction(f) + (e[h] - f[h])
  BY <1>1, SumChanges
<1>. QED
  BY <1>1, <1>2, <1>3

LEMMA CreditedTotal ==
    ASSUME NEW b \in [Holder -> [Denom -> Nat]], NEW h \in Holder, NEW d \in Denom,
           NEW n \in Nat, NEW x \in Denom
    PROVE  /\ TotalOf(b, x) \in Int
           /\ TotalOf(Credited(b, h, d, n), x) = TotalOf(b, x) + (IF x = d THEN n ELSE 0)
<1>. DEFINE c == Credited(b, h, d, n)
            k == IF x = d THEN n ELSE 0
<1>1. c \in [Holder -> [Denom -> Nat]]
  BY CreditedCoins
<1>2. c[h][x] = b[h][x] + k /\ \A g \in Holder : g # h => c[g][x] = b[g][x]
  BY DEF Credited
<1>3. k \in Int
  OBVIOUS
<1>. HIDE DEF c, k
<1>4. TotalOf(b, x) \in Int /\ TotalOf(c, x) = TotalOf(b, x) + k
  BY <1>1, <1>2, <1>3, TotalChanges, Zenon
<1>. QED
  BY <1>4 DEF c, k

LEMMA DebitedTotal ==
    ASSUME NEW b \in [Holder -> [Denom -> Nat]], NEW h \in Holder, NEW d \in Denom,
           NEW n \in Nat, b[h][d] >= n, NEW x \in Denom
    PROVE  /\ TotalOf(b, x) \in Int
           /\ TotalOf(Debited(b, h, d, n), x) = TotalOf(b, x) - (IF x = d THEN n ELSE 0)
<1>. DEFINE c == Debited(b, h, d, n)
            k == IF x = d THEN 0 - n ELSE 0
<1>1. c \in [Holder -> [Denom -> Nat]]
  BY DebitedCoins
<1>2. c[h][x] = b[h][x] + k /\ \A g \in Holder : g # h => c[g][x] = b[g][x]
  BY DEF Debited
<1>3. k \in Int
  OBVIOUS
<1>. HIDE DEF c, k
<1>4. TotalOf(b, x) \in Int /\ TotalOf(c, x) = TotalOf(b, x) + k
  BY <1>1, <1>2, <1>3, TotalChanges, Zenon
<1>. QED
  BY <1>4 DEF c, k

(* What each operation of the bank conserves *)

LEMMA BankInitInvariant ==
    ASSUME BankInit
    PROVE  BankTypeOK /\ CoinsConserved
BY BankAssumption DEF BankInit, BankTypeOK, CoinsConserved

LEMMA SendConserves ==
    ASSUME BankTypeOK, CoinsConserved, NEW from \in Holder, NEW to \in Holder,
           NEW d \in Denom, NEW n \in Nat, SendCoins(from, to, d, n)
    PROVE  CoinsConserved'
<1>. SUFFICES ASSUME NEW x \in Denom PROVE supply'[x] = TotalOf(balance', x)
  BY DEF CoinsConserved, TotalOf
<1>. DEFINE b == Debited(balance, from, d, n)
            k == IF x = d THEN n ELSE 0
<1>1. /\ balance \in [Holder -> [Denom -> Nat]] /\ balance[from][d] >= n
      /\ balance' = Credited(b, to, d, n) /\ supply' = supply
  BY DEF BankTypeOK, SendCoins
<1>2. b \in [Holder -> [Denom -> Nat]]
  BY <1>1, DebitedCoins
<1>3. TotalOf(balance, x) \in Int /\ TotalOf(b, x) = TotalOf(balance, x) - k
  BY <1>1, DebitedTotal
<1>4. k \in Int
  OBVIOUS
<1>. HIDE DEF b
<1>5. TotalOf(Credited(b, to, d, n), x) = TotalOf(b, x) + k
  BY <1>2, CreditedTotal
<1>6. TotalOf(balance', x) = TotalOf(b, x) + k
  BY <1>1, <1>5
<1>. HIDE DEF k
<1>. QED
  BY <1>1, <1>3, <1>4, <1>6 DEF CoinsConserved

LEMMA MintConserves ==
    ASSUME BankTypeOK, CoinsConserved, NEW to \in Holder, NEW d \in Denom, NEW n \in Nat,
           MintCoins(to, d, n)
    PROVE  CoinsConserved'
<1>. SUFFICES ASSUME NEW x \in Denom PROVE supply'[x] = TotalOf(balance', x)
  BY DEF CoinsConserved, TotalOf
<1>1. /\ balance \in [Holder -> [Denom -> Nat]] /\ supply \in [Denom -> Nat]
      /\ balance' = Credited(balance, to, d, n)
      /\ supply' = [supply EXCEPT ![d] = @ + n]
  BY DEF BankTypeOK, MintCoins
<1>2. supply'[x] = supply[x] + (IF x = d THEN n ELSE 0)
  BY <1>1
<1>3. TotalOf(balance', x) = TotalOf(balance, x) + (IF x = d THEN n ELSE 0)
  BY <1>1, CreditedTotal
<1>. QED
  BY <1>2, <1>3 DEF CoinsConserved

LEMMA BurnConserves ==
    ASSUME BankTypeOK, CoinsConserved, NEW from \in Holder, NEW d \in Denom, NEW n \in Nat,
           BurnCoins(from, d, n)
    PROVE  CoinsConserved'
<1>. SUFFICES ASSUME NEW x \in Denom PROVE supply'[x] = TotalOf(balance', x)
  BY DEF CoinsConserved, TotalOf
<1>1. /\ balance \in [Holder -> [Denom -> Nat]] /\ supply \in [Denom -> Nat]
      /\ balance[from][d] >= n
      /\ balance' = Debited(balance, from, d, n)
      /\ supply' = [supply EXCEPT ![d] = @ - n]
  BY DEF BankTypeOK, BurnCoins
<1>2. supply'[x] = supply[x] - (IF x = d THEN n ELSE 0)
  BY <1>1
<1>3. TotalOf(balance', x) = TotalOf(balance, x) - (IF x = d THEN n ELSE 0)
  BY <1>1, DebitedTotal
<1>. QED
  BY <1>2, <1>3 DEF CoinsConserved

LEMMA MintAllConserves ==
    ASSUME BankTypeOK, CoinsConserved, NEW to \in Holder, NEW coins \in [Denom -> Nat],
           MintAll(to, coins)
    PROVE  BankTypeOK' /\ CoinsConserved'
<1>1. /\ balance \in [Holder -> [Denom -> Nat]] /\ supply \in [Denom -> Nat]
      /\ balance' = [balance EXCEPT ![to] = [d \in Denom |-> @[d] + coins[d]]]
      /\ supply' = [d \in Denom |-> supply[d] + coins[d]]
      /\ accounts \subseteq Holder /\ accounts' = accounts \cup {to}
  BY DEF BankTypeOK, MintAll
<1>2. balance' = [balance EXCEPT ![to] = [d \in Denom |-> balance[to][d] + coins[d]]]
  BY <1>1
<1>3. [d \in Denom |-> balance[to][d] + coins[d]] \in [Denom -> Nat]
  BY <1>1
<1>4. balance' \in [Holder -> [Denom -> Nat]] /\ supply' \in [Denom -> Nat]
  BY <1>1, <1>2, <1>3
<1>5. ASSUME NEW x \in Denom PROVE supply'[x] = TotalOf(balance', x)
  <2>1. /\ balance'[to][x] = balance[to][x] + coins[x] /\ coins[x] \in Int
        /\ \A g \in Holder : g # to => balance'[g][x] = balance[g][x]
    BY <1>1, <1>2
  <2>2. TotalOf(balance', x) = TotalOf(balance, x) + coins[x]
    <3>. DEFINE c == balance'
                n == coins[x]
    <3>1. /\ c \in [Holder -> [Denom -> Nat]] /\ n \in Int
          /\ c[to][x] = balance[to][x] + n
          /\ \A g \in Holder : g # to => c[g][x] = balance[g][x]
      BY <1>4, <2>1
    <3>. HIDE DEF c, n
    <3>2. TotalOf(c, x) = TotalOf(balance, x) + n
      BY <1>1, <3>1, TotalChanges
    <3>. QED
      BY <3>2 DEF c, n
  <2>. QED
    BY <1>1, <2>2 DEF CoinsConserved
<1>. QED
  BY <1>1, <1>4, <1>5 DEF BankTypeOK, CoinsConserved, TotalOf

\* Put leaves a store with the values it had and the new one.
LEMMA PutValues ==
    ASSUME NEW S, NEW store, NEW k, NEW v \in S, \A x \in DOMAIN store : store[x] \in S
    PROVE  \A x \in DOMAIN Put(store, k, v) : Put(store, k, v)[x] \in S
BY DEF Put

-----------------------------------------------------------------------------
\* What a successful ExecuteMessage preserves, whoever calls it.
IncomingInv ==
    /\ DOMAIN doneTx \subseteq {DoneTxKey(m) : m \in Inbound}
    /\ \A k \in DOMAIN doneTx : doneTx[k] \in Bytes
    /\ executed \in Seq(Inbound)
    /\ ExecutedOnce
    /\ DoneMeansExecuted

\* A message that passes checkDoneTx gets a new marker and is executed last.
LEMMA ExecuteKeepsIncoming ==
    ASSUME IncomingInv, NEW m \in Inbound, ExecuteMessage(m)
    PROVE  IncomingInv'
<1>1. DoneTxKey(m) \notin DOMAIN doneTx /\ executed' = Append(executed, m)
  BY DEF ExecuteMessage, VerifyToCosmosTx, CheckDoneTx
<1>2. doneTx' = [k \in DOMAIN doneTx \cup {DoneTxKey(m)} |->
                    IF k = DoneTxKey(m) THEN m.crossChainId ELSE doneTx[k]]
  BY DEF ExecuteMessage, VerifyToCosmosTx, PutDoneTx, Put
<1>3. DOMAIN doneTx' = DOMAIN doneTx \cup {DoneTxKey(m)}
  BY <1>2
<1>. DEFINE n == Len(executed)
<1>4. /\ n \in Nat
      /\ executed' \in Seq(Inbound)
      /\ Len(executed') = n + 1
      /\ executed'[n + 1] = m
      /\ \A i \in 1..n : executed'[i] = executed[i]
  BY <1>1 DEF IncomingInv
<1>5. \A i \in 1..n : DoneTxKey(executed[i]) # DoneTxKey(m)
  BY <1>1 DEF IncomingInv, DoneMeansExecuted
<1>. HIDE DEF n
<1>6. ExecutedOnce'
  <2>1. SUFFICES ASSUME NEW i \in 1..n + 1, NEW j \in 1..n + 1,
                        DoneTxKey(executed'[i]) = DoneTxKey(executed'[j])
                 PROVE  i = j
    BY <1>4 DEF ExecutedOnce, DoneTxKey
  <2>2. CASE i \in 1..n /\ j \in 1..n
    BY <1>4, <2>1, <2>2 DEF IncomingInv, ExecutedOnce, n
  <2>3. CASE i = n + 1 /\ j \in 1..n
    BY <1>4, <1>5, <2>1, <2>3
  <2>4. CASE i \in 1..n /\ j = n + 1
    BY <1>4, <1>5, <2>1, <2>4
  <2>5. CASE i = n + 1 /\ j = n + 1
    BY <2>5
  <2>. QED
    BY <1>4, <2>2, <2>3, <2>4, <2>5
<1>7. DoneMeansExecuted'
  <2>1. DOMAIN doneTx = {DoneTxKey(executed[i]) : i \in 1..n}
    BY DEF IncomingInv, DoneMeansExecuted, n
  <2>2. {DoneTxKey(executed'[i]) : i \in 1..n + 1}
            = {DoneTxKey(executed[i]) : i \in 1..n} \cup {DoneTxKey(m)}
    BY <1>4 DEF DoneTxKey
  <2>. QED
    BY <1>3, <1>4, <2>1, <2>2 DEF DoneMeansExecuted, DoneTxKey
<1>8. \A k \in DOMAIN doneTx' : doneTx'[k] \in Bytes
  BY <1>2, CcmAssumption DEF IncomingInv
<1>9. DOMAIN doneTx' \subseteq {DoneTxKey(w) : w \in Inbound}
  BY <1>3 DEF IncomingInv
<1>. QED
  BY <1>4, <1>6, <1>7, <1>8, <1>9 DEF IncomingInv, DoneTxKey

-----------------------------------------------------------------------------
\* What CreateCrossChainTx preserves, whoever calls it.
OutgoingInv ==
    /\ crossChainId \in 0..MaxCrossChainId
    /\ crossChainTxs \subseteq OutboundTx
    /\ OutgoingIdsDense

\* A new outgoing transaction takes the next id, which none has yet.
LEMMA CreateKeepsOutgoing ==
    ASSUME OutgoingInv, NEW r \in Outbound, CreateCrossChainTx(r)
    PROVE  OutgoingInv'
<1>. DEFINE new == [crossChainId |-> IdBytes[crossChainId], param |-> r]
<1>1. /\ crossChainId < MaxCrossChainId
      /\ crossChainId' = crossChainId + 1
      /\ crossChainTxs' = crossChainTxs \cup {new}
  BY DEF CreateCrossChainTx
<1>2. crossChainId \in 0..MaxCrossChainId /\ crossChainId' \in 0..MaxCrossChainId
  BY <1>1, CcmAssumption DEF OutgoingInv
<1>3. new \in OutboundTx
  BY <1>2, IdBytesAssumption DEF OutboundTx
<1>4. \A tx \in crossChainTxs : tx.crossChainId # IdBytes[crossChainId]
  <2>1. SUFFICES ASSUME NEW tx \in crossChainTxs, tx.crossChainId = IdBytes[crossChainId]
                 PROVE  FALSE
    OBVIOUS
  <2>2. PICK k \in 0..crossChainId - 1 : tx.crossChainId = IdBytes[k]
    BY DEF OutgoingInv, OutgoingIdsDense
  <2>3. k \in 0..MaxCrossChainId /\ k # crossChainId
    BY <1>2, <2>2, CcmAssumption
  <2>. QED
    BY <1>2, <2>1, <2>2, <2>3, IdBytesAssumption
<1>5. /\ crossChainId \in 0..crossChainId' - 1
      /\ \A k \in 0..crossChainId' - 1 : k = crossChainId \/ k \in 0..crossChainId - 1
      /\ \A k \in 0..crossChainId - 1 : k \in 0..crossChainId' - 1
  BY <1>1, <1>2
<1>6. OutgoingIdsDense'
  <2>1. \A tx \in crossChainTxs' : \E k \in 0..crossChainId' - 1 : tx.crossChainId = IdBytes[k]
    BY <1>1, <1>5 DEF OutgoingInv, OutgoingIdsDense
  <2>2. \A k \in 0..crossChainId' - 1 : \E tx \in crossChainTxs' : tx.crossChainId = IdBytes[k]
    <3>1. SUFFICES ASSUME NEW k \in 0..crossChainId' - 1
                   PROVE  \E tx \in crossChainTxs' : tx.crossChainId = IdBytes[k]
      OBVIOUS
    <3>2. CASE k = crossChainId
      <4>1. new \in crossChainTxs' /\ new.crossChainId = IdBytes[k]
        BY <1>1, <3>2
      <4>. QED
        BY <4>1
    <3>3. CASE k \in 0..crossChainId - 1
      BY <1>1, <3>3 DEF OutgoingInv, OutgoingIdsDense
    <3>. QED
      BY <1>5, <3>1, <3>2, <3>3
  <2>3. \A s, t \in crossChainTxs' : s.crossChainId = t.crossChainId => s = t
    BY <1>1, <1>4 DEF OutgoingInv, OutgoingIdsDense
  <2>. QED
    BY <2>1, <2>2, <2>3 DEF OutgoingIdsDense
<1>. QED
  BY <1>1, <1>2, <1>3, <1>6 DEF OutgoingInv, OutboundTx

NewTx(r) == [crossChainId |-> IdBytes[crossChainId], param |-> r]

\* The transaction that is stored has an id that none had before.
LEMMA CreateStores ==
    ASSUME OutgoingInv, NEW r, CreateCrossChainTx(r)
    PROVE  /\ crossChainTxs' = crossChainTxs \cup {NewTx(r)}
           /\ NewTx(r).param = r
           /\ \A tx \in crossChainTxs : tx.crossChainId # IdBytes[crossChainId]
           /\ NewTx(r) \notin crossChainTxs
<1>1. /\ crossChainTxs' = crossChainTxs \cup {NewTx(r)}
      /\ NewTx(r).param = r /\ NewTx(r).crossChainId = IdBytes[crossChainId]
  BY DEF CreateCrossChainTx, NewTx
<1>2. ASSUME NEW tx \in crossChainTxs, tx.crossChainId = IdBytes[crossChainId]
      PROVE  FALSE
  <2>1. PICK k \in 0..crossChainId - 1 : tx.crossChainId = IdBytes[k]
    BY DEF OutgoingInv, OutgoingIdsDense
  <2>2. crossChainId \in 0..MaxCrossChainId /\ k \in 0..MaxCrossChainId /\ k # crossChainId
    BY CcmAssumption DEF OutgoingInv
  <2>. QED
    BY <1>2, <2>1, <2>2, IdBytesAssumption
<1>. QED
  BY <1>1, <1>2

LEMMA CreateIsNew ==
    ASSUME OutgoingInv, NEW r, CreateCrossChainTx(r)
    PROVE  \E tx \in crossChainTxs' \ crossChainTxs : tx.param = r
BY CreateStores

\* As many transactions were stored as ids were given out.
LEMMA MessagesFinite ==
    ASSUME OutgoingInv
    PROVE  IsFiniteSet(crossChainTxs)
<1>. DEFINE ids == 0..crossChainId - 1
            id == [tx \in crossChainTxs |-> CHOOSE n \in ids : tx.crossChainId = IdBytes[n]]
<1>1. IsFiniteSet(ids)
  BY FS_Interval DEF OutgoingInv
<1>2. \A tx \in crossChainTxs : id[tx] \in ids /\ tx.crossChainId = IdBytes[id[tx]]
  BY DEF OutgoingInv, OutgoingIdsDense
<1>3. id \in [crossChainTxs -> ids]
  BY <1>2
<1>. HIDE DEF id, ids
<1>4. id \in Injection(crossChainTxs, ids)
  BY <1>2, <1>3 DEF OutgoingInv, OutgoingIdsDense, Injection, IsInjective
<1>. QED
  BY <1>1, <1>4, FS_Injection

\* The message that is executed comes last in the history.
LEMMA ExecuteAppends ==
    ASSUME IncomingInv, NEW m \in Inbound, ExecuteMessage(m)
    PROVE  LET n == Len(executed) IN
           /\ n \in Nat /\ n + 1 \notin 1..n
           /\ DOMAIN executed = 1..n /\ IsFiniteSet(DOMAIN executed)
           /\ DOMAIN executed' = 1..n \cup {n + 1}
           /\ executed'[n + 1] = m
           /\ \A i \in 1..n : executed'[i] = executed[i]
<1>. DEFINE n == Len(executed)
<1>1. executed' = Append(executed, m) /\ executed \in Seq(Inbound)
  BY DEF ExecuteMessage, IncomingInv
<1>2. /\ n \in Nat /\ DOMAIN executed = 1..n
      /\ executed' \in Seq(Inbound) /\ Len(executed') = n + 1
      /\ executed'[n + 1] = m
      /\ \A i \in 1..n : executed'[i] = executed[i]
  BY <1>1
<1>3. DOMAIN executed' = 1..n + 1
  BY <1>2
<1>4. IsFiniteSet(1..n)
  BY <1>2, FS_Interval
<1>. HIDE DEF n
<1>5. 1..n + 1 = 1..n \cup {n + 1} /\ n + 1 \notin 1..n
  BY <1>2
<1>. QED
  BY <1>2, <1>3, <1>4, <1>5 DEF n

-----------------------------------------------------------------------------
CcmInv == CcmTypeOK /\ IncomingInv /\ OutgoingInv

\* The empty stores satisfy the invariant.
LEMMA CcmInitInvariant == CcmInit => CcmInv
<1>. SUFFICES ASSUME CcmInit PROVE CcmInv
  OBVIOUS
<1>1. CcmTypeOK
  BY CcmAssumption DEF CcmInit, CcmTypeOK
<1>2. Len(executed) = 0 /\ DOMAIN doneTx = {}
  BY DEF CcmInit
<1>3. ExecutedOnce /\ DoneMeansExecuted
  BY <1>2 DEF ExecutedOnce, DoneMeansExecuted
<1>4. OutgoingIdsDense
  BY DEF CcmInit, OutgoingIdsDense
<1>. QED
  BY <1>1, <1>3, <1>4 DEF CcmInv, IncomingInv, OutgoingInv, CcmTypeOK

(* The three ways in which a token handler changes the stores, and a frame *)

\* A handler that sends a transaction keeps the invariant.
LEMMA OutgoingStep ==
    ASSUME CcmInv, NEW r \in Outbound, CreateCrossChainTx(r),
           UNCHANGED <<doneTx, denomCreator, executed>>
    PROVE  CcmInv'
<1>1. OutgoingInv'
  BY CreateKeepsOutgoing DEF CcmInv
<1>2. IncomingInv'
  BY DEF CcmInv, IncomingInv, ExecutedOnce, DoneMeansExecuted, DoneTxKey
<1>. QED
  BY <1>1, <1>2 DEF CcmInv, CcmTypeOK, IncomingInv, OutgoingInv

\* A handler run for an incoming message keeps it.
LEMMA IncomingStep ==
    ASSUME CcmInv, NEW m \in Inbound, ExecuteMessage(m),
           UNCHANGED <<crossChainId, crossChainTxs, denomCreator>>
    PROVE  CcmInv'
<1>1. IncomingInv'
  BY ExecuteKeepsIncoming DEF CcmInv
<1>2. OutgoingInv'
  BY DEF CcmInv, OutgoingInv, OutgoingIdsDense
<1>. QED
  BY <1>1, <1>2 DEF CcmInv, CcmTypeOK, IncomingInv, OutgoingInv

\* A handler that creates a denom keeps it.
LEMMA CreatorStep ==
    ASSUME CcmInv, NEW d \in Denom, NEW creator \in Account, SetDenomCreator(d, creator),
           UNCHANGED <<crossChainId, crossChainTxs, doneTx, executed>>
    PROVE  CcmInv'
<1>1. denomCreator' \in [Denom -> {NoAddr} \cup Account]
  BY DEF CcmInv, CcmTypeOK, SetDenomCreator
<1>. QED
  BY <1>1 DEF CcmInv, CcmTypeOK, IncomingInv, OutgoingInv,
              ExecutedOnce, DoneMeansExecuted, DoneTxKey, OutgoingIdsDense

\* A handler that does not call ccm keeps it.
LEMMA FrameStep ==
    ASSUME CcmInv, UNCHANGED ccmVars
    PROVE  CcmInv'
BY DEF ccmVars, CcmInv, CcmTypeOK, IncomingInv, OutgoingInv,
       ExecutedOnce, DoneMeansExecuted, DoneTxKey, OutgoingIdsDense

\* The inductive invariant of ccm: both directions together.
THEOREM CcmInvariance == CcmSpec => []CcmInv
<1>1. CcmInv /\ [CcmNext /\ UNCHANGED bankVars]_<<ccmVars, bankVars>> => CcmInv'
  BY OutgoingStep, IncomingStep, FrameStep DEF CcmNext, SendRequest, ReceiveMessage
<1>. QED
  BY CcmInitInvariant, <1>1, PTL DEF CcmSpec

\* The stores are well-typed in every reachable state.
THEOREM CcmTypeCorrect == CcmSpec => []CcmTypeOK
<1>1. CcmInv => CcmTypeOK
  BY DEF CcmInv
<1>. QED
  BY CcmInvariance, <1>1, PTL

\* No source transaction is ever executed twice.
THEOREM NoReplay == CcmSpec => []ExecutedOnce
<1>1. CcmInv => ExecutedOnce
  BY DEF CcmInv, IncomingInv
<1>. QED
  BY CcmInvariance, <1>1, PTL

\* A message is marked as done exactly when it was executed.
THEOREM DoneIsExecuted == CcmSpec => []DoneMeansExecuted
<1>1. CcmInv => DoneMeansExecuted
  BY DEF CcmInv, IncomingInv
<1>. QED
  BY CcmInvariance, <1>1, PTL

\* Outgoing ids are dense and unique.
THEOREM IdsDense == CcmSpec => []OutgoingIdsDense
<1>1. CcmInv => OutgoingIdsDense
  BY DEF CcmInv, OutgoingInv
<1>. QED
  BY CcmInvariance, <1>1, PTL
=============================================================================
