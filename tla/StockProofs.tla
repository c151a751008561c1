----------------------------- MODULE StockProofs -----------------------------
(***************************************************************************)
(* What the proofs about the inventory service share: sums over finite     *)
(* sets.  SumFunction is defined by a recursion that picks the elements in *)
(* an order of its own, so each lemma below looks at a smallest set for    *)
(* which it could fail.                                                    *)
(***************************************************************************)
EXTENDS Stock, Integers, Functions, FiniteSetTheorems, TLAPS

\* A family of subsets of a finite set has a member that contains no other.
LEMMA SmallestSet ==
  ASSUME NEW S, IsFiniteSet(S), NEW F, F \subseteq SUBSET S, F # {}
  PROVE  \E T \in F : \A U \in F : U \subseteq T => U = T
<1> DEFINE R == StrictSubsetOrdering(S)
<1>1. IsWellFoundedOn(R, FiniteSubsetsOf(S))
  BY FS_StrictSubsetOrderingWellFounded
<1>2. F \subseteq FiniteSubsetsOf(S)
  BY FS_FiniteSubsetsOfFinite
<1>3. PICK T \in F : \A U \in F : <<U, T>> \notin R
  <2> HIDE DEF R
  <2> QED BY <1>1, <1>2, WFMin
<1>4. ASSUME NEW U \in F, U \subseteq T, U # T
      PROVE  FALSE
  <2>1. <<U, T>> \in R
    BY <1>4 DEF StrictSubsetOrdering
  <2> QED BY <1>3, <2>1
<1> HIDE DEF R
<1> QED BY <1>4

\* The element SumFunctionOnSet adds first, and the function it builds.
First(s) == CHOOSE x \in s : TRUE

Adds(f, S, h) ==
  h = [s \in SUBSET S |-> IF s = {} THEN 0 ELSE f[First(s)] + h[s \ {First(s)}]]

LEMMA FirstIn == \A s : s # {} => First(s) \in s
BY DEF First

LEMMA AddsValue ==
  ASSUME NEW f, NEW S, NEW h, Adds(f, S, h), NEW s \in SUBSET S
  PROVE  h[s] = IF s = {} THEN 0 ELSE f[First(s)] + h[s \ {First(s)}]
BY DEF Adds

\* Two such functions agree where both are defined.
LEMMA AddsAgree ==
  ASSUME NEW f, NEW S, IsFiniteSet(S), NEW g, Adds(f, S, g),
         NEW T, NEW h, Adds(f, T, h)
  PROVE  \A s \in SUBSET (S \cap T) : g[s] = h[s]
<1> DEFINE F == {s \in SUBSET S : s \subseteq T /\ g[s] # h[s]}
<1> SUFFICES ASSUME F # {} PROVE FALSE
  OBVIOUS
<1>1. PICK s \in F : \A u \in F : u \subseteq s => u = s
  <2>1. F \subseteq SUBSET S
    OBVIOUS
  <2> HIDE DEF F
  <2> QED BY <2>1, SmallestSet
<1>2. s \in SUBSET S /\ s \in SUBSET T /\ g[s] # h[s]
  OBVIOUS
<1>3. g[s] = IF s = {} THEN 0 ELSE f[First(s)] + g[s \ {First(s)}]
  BY <1>2, AddsValue
<1>4. h[s] = IF s = {} THEN 0 ELSE f[First(s)] + h[s \ {First(s)}]
  BY <1>2, AddsValue
<1>5. CASE s = {}
  BY <1>2, <1>3, <1>4, <1>5
<1>6. CASE s # {}
  <2>1. s \ {First(s)} # s /\ s \ {First(s)} \in SUBSET S /\ s \ {First(s)} \subseteq T
    BY <1>2, <1>6, FirstIn
  <2>2. g[s \ {First(s)}] = h[s \ {First(s)}]
    BY <1>1, <2>1
  <2> QED BY <1>2, <1>3, <1>4, <1>6, <2>2
<1> QED BY <1>5, <1>6

\* There is such a function for every finite set.
LEMMA AddsExists ==
  ASSUME NEW f, NEW S, IsFiniteSet(S)
  PROVE  \E h : Adds(f, S, h)
<1> DEFINE F == {T \in SUBSET S : ~ \E h : Adds(f, T, h)}
<1> SUFFICES ASSUME F # {} PROVE FALSE
  OBVIOUS
<1>1. PICK T \in F : \A U \in F : U \subseteq T => U = T
  <2>1. F \subseteq SUBSET S
    OBVIOUS
  <2> HIDE DEF F
  <2> QED BY <2>1, SmallestSet
<1> DEFINE Sol(s) == CHOOSE h : Adds(f, s, h)
           Rest(s) == s \ {First(s)}
           H == [s \in SUBSET T |-> IF s = {} THEN 0
                                    ELSE f[First(s)] + Sol(Rest(s))[Rest(s)]]
<1>2. ASSUME NEW s \in SUBSET T, s # {}
      PROVE  Rest(s) \in SUBSET T /\ IsFiniteSet(Rest(s)) /\ Adds(f, Rest(s), Sol(Rest(s)))
  <2>1. Rest(s) \in SUBSET T /\ Rest(s) # T /\ Rest(s) \in SUBSET S
    BY <1>2, FirstIn
  <2>2. \E h : Adds(f, Rest(s), h)
    BY <1>1, <2>1
  <2>3. IsFiniteSet(Rest(s))
    BY <2>1, FS_Subset
  <2> QED BY <2>1, <2>2, <2>3
<1>3. ASSUME NEW s \in SUBSET T, s # {}
      PROVE  H[s] = f[First(s)] + H[Rest(s)]
  <2> DEFINE r == Rest(s)
             g == Sol(r)
  <2>1. r \in SUBSET T /\ IsFiniteSet(r) /\ Adds(f, r, g)
    BY <1>2, <1>3
  <2>2. g[r] = IF r = {} THEN 0 ELSE f[First(r)] + g[Rest(r)]
    <3>1. r \in SUBSET r
      OBVIOUS
    <3> HIDE DEF Sol, r, g
    <3> QED BY <2>1, <3>1, AddsValue
  <2>3. H[r] = IF r = {} THEN 0 ELSE f[First(r)] + Sol(Rest(r))[Rest(r)]
    BY <2>1
  <2>4. r # {} => g[Rest(r)] = Sol(Rest(r))[Rest(r)]
    <3> SUFFICES ASSUME r # {} PROVE g[Rest(r)] = Sol(Rest(r))[Rest(r)]
      OBVIOUS
    <3>1. IsFiniteSet(Rest(r)) /\ Adds(f, Rest(r), Sol(Rest(r)))
      BY <1>2, <2>1
    <3>2. Rest(r) \in SUBSET (r \cap Rest(r))
      OBVIOUS
    <3> DEFINE q == Rest(r)
               k == Sol(Rest(r))
    <3>3. IsFiniteSet(r) /\ Adds(f, r, g) /\ Adds(f, q, k) /\ q \in SUBSET (r \cap q)
      BY <2>1, <3>1, <3>2
    <3>4. g[q] = k[q]
      <4> HIDE DEF r, g, q, k
      <4> QED BY <3>3, AddsAgree
    <3> QED BY <3>4
  <2>5. H[s] = f[First(s)] + g[r]
    BY <1>3
  <2>6. H[r] = g[r]
    <3> HIDE DEF H, Sol, r, g
    <3> QED BY <2>2, <2>3, <2>4
  <2> HIDE DEF H, Sol, g
  <2> QED BY <2>5, <2>6
<1>4. H[{}] = 0 /\ H = [s \in SUBSET T |-> H[s]]
  OBVIOUS
<1>5. Adds(f, T, H)
  <2> HIDE DEF H
  <2> QED BY <1>3, <1>4 DEF Adds
<1> QED BY <1>1, <1>5

LEMMA SumIsFold ==
  ASSUME NEW f, NEW S
  PROVE  SumFunctionOnSet(f, S) = (CHOOSE h : Adds(f, S, h))[S]
BY DEF SumFunctionOnSet, FoldFunctionOnSet, MapThenFoldSet, Adds, First

\* The recursion the definition means.
LEMMA SumUnfolds ==
  ASSUME NEW f, NEW S, IsFiniteSet(S)
  PROVE  SumFunctionOnSet(f, S) =
           IF S = {} THEN 0 ELSE f[First(S)] + SumFunctionOnSet(f, S \ {First(S)})
<1> DEFINE h == CHOOSE h : Adds(f, S, h)
           r == S \ {First(S)}
           g == CHOOSE g : Adds(f, r, g)
<1>1. Adds(f, S, h)
  BY AddsExists
<1>2. IsFiniteSet(r)
  BY FS_RemoveElement
<1>3. Adds(f, r, g)
  BY <1>2, AddsExists
<1>4. SumFunctionOnSet(f, S) = h[S] /\ SumFunctionOnSet(f, r) = g[r]
  BY SumIsFold
<1>5. h[S] = IF S = {} THEN 0 ELSE f[First(S)] + h[r]
  BY <1>1, AddsValue
<1>6. h[r] = g[r]
  <2>1. r \in SUBSET (S \cap r)
    OBVIOUS
  <2> HIDE DEF h, g, r
  <2> QED BY <1>1, <1>3, <2>1, AddsAgree
<1> QED BY <1>4, <1>5, <1>6
\* Any element can be taken out of the sum first.
LEMMA SumRemove ==
  ASSUME NEW f, NEW S, IsFiniteSet(S), \A y \in S : f[y] \in Int
  PROVE  /\ SumFunctionOnSet(f, S) \in Int
         /\ \A x \in S : SumFunctionOnSet(f, S) = f[x] + SumFunctionOnSet(f, S \ {x})
<1> DEFINE Sum(T) == SumFunctionOnSet(f, T)
           Good(T) == Sum(T) \in Int /\ \A x \in T : Sum(T) = f[x] + Sum(T \ {x})
           F == {T \in SUBSET S : ~ Good(T)}
<1> SUFFICES ASSUME F # {} PROVE FALSE
  OBVIOUS
<1>1. PICK T \in F : \A U \in F : U \subseteq T => U = T
  <2>1. F \subseteq SUBSET S
    OBVIOUS
  <2> HIDE DEF F
  <2> QED BY <2>1, SmallestSet
<1>2. T \in SUBSET S /\ ~ Good(T)
  OBVIOUS
<1>3. \A U \in SUBSET T : U # T => Good(U)
  <2> TAKE U \in SUBSET T
  <2>1. U \in SUBSET S
    BY <1>2
  <2> QED BY <1>1, <2>1
<1>4. \A U \in SUBSET T : Sum(U) = IF U = {} THEN 0 ELSE f[First(U)] + Sum(U \ {First(U)})
  <2> TAKE U \in SUBSET T
  <2>1. IsFiniteSet(U)
    BY <1>2, FS_Subset
  <2> QED BY <2>1, SumUnfolds
<1>5. \A y \in T : f[y] \in Int
  BY <1>2
<1> HIDE DEF Sum, F
<1>6. CASE T = {}
  <2>1. Sum(T) = 0
    BY <1>4, <1>6
  <2> QED BY <1>2, <1>6, <2>1
<1>7. CASE T # {}
  <2> DEFINE c == First(T)
  <2>1. c \in T /\ Sum(T) = f[c] + Sum(T \ {c}) /\ f[c] \in Int
    BY <1>4, <1>5, <1>7, FirstIn
  <2>2. Good(T \ {c})
    BY <1>3, <2>1
  <2>3. ASSUME NEW x \in T, x # c
        PROVE  Sum(T) = f[x] + Sum(T \ {x})
    <3>1. Good(T \ {x}) /\ Good(T \ {c, x})
      BY <1>3
    <3>2. (T \ {c}) \ {x} = T \ {c, x} /\ (T \ {x}) \ {c} = T \ {c, x}
      OBVIOUS
    <3>3. Sum(T \ {c}) = f[x] + Sum(T \ {c, x})
      BY <2>2, <2>3, <3>2
    <3>4. Sum(T \ {x}) = f[c] + Sum(T \ {c, x})
      BY <2>1, <2>3, <3>1, <3>2
    <3>5. Sum(T \ {c, x}) \in Int /\ f[x] \in Int /\ f[c] \in Int
      BY <1>5, <2>1, <3>1
    <3> QED BY <2>1, <3>3, <3>4, <3>5
  <2>4. \A x \in T : Sum(T) = f[x] + Sum(T \ {x})
    BY <2>1, <2>3
  <2>5. Sum(T) \in Int
    BY <2>1, <2>2
  <2> QED BY <1>2, <2>4, <2>5
<1> QED BY <1>6, <1>7

\* The sum depends on the values of the elements only; naturals add up to a
\* natural, and zeros to zero.
LEMMA SumAgrees ==
  ASSUME NEW S, IsFiniteSet(S), NEW f, NEW g,
         \A y \in S : f[y] = g[y]
  PROVE  SumFunctionOnSet(f, S) = SumFunctionOnSet(g, S)
<1> DEFINE F == {T \in SUBSET S : SumFunctionOnSet(f, T) # SumFunctionOnSet(g, T)}
<1> SUFFICES ASSUME F # {} PROVE FALSE
  OBVIOUS
<1>1. PICK T \in F : \A U \in F : U \subseteq T => U = T
  <2>1. F \subseteq SUBSET S
    OBVIOUS
  <2> HIDE DEF F
  <2> QED BY <2>1, SmallestSet
<1>2. IsFiniteSet(T)
  BY FS_Subset
<1>3. T # {}
  BY <1>2, SumUnfolds
<1>4. SumFunctionOnSet(f, T \ {First(T)}) = SumFunctionOnSet(g, T \ {First(T)})
  BY <1>1, <1>3, FirstIn
<1> QED BY <1>2, <1>3, <1>4, SumUnfolds, FirstIn

LEMMA SumNat ==
  ASSUME NEW S, IsFiniteSet(S), NEW f, \A y \in S : f[y] \in Nat
  PROVE  SumFunctionOnSet(f, S) \in Nat
<1> DEFINE F == {T \in SUBSET S : SumFunctionOnSet(f, T) \notin Nat}
<1> SUFFICES ASSUME F # {} PROVE FALSE
  OBVIOUS
<1>1. PICK T \in F : \A U \in F : U \subseteq T => U = T
  <2>1. F \subseteq SUBSET S
    OBVIOUS
  <2> HIDE DEF F
  <2> QED BY <2>1, SmallestSet
<1>2. IsFiniteSet(T)
  BY FS_Subset
<1>3. T # {}
  <2>1. T = {} => SumFunctionOnSet(f, T) = 0
    BY <1>2, SumUnfolds
  <2> QED BY <2>1
<1>4. SumFunctionOnSet(f, T \ {First(T)}) \in Nat
  BY <1>1, <1>3, FirstIn
<1> QED BY <1>2, <1>3, <1>4, SumUnfolds, FirstIn

LEMMA SumZero ==
  ASSUME NEW S, IsFiniteSet(S), NEW f, \A y \in S : f[y] = 0
  PROVE  SumFunctionOnSet(f, S) = 0
<1> DEFINE F == {T \in SUBSET S : SumFunctionOnSet(f, T) # 0}
<1> SUFFICES ASSUME F # {} PROVE FALSE
  OBVIOUS
<1>1. PICK T \in F : \A U \in F : U \subseteq T => U = T
  <2>1. F \subseteq SUBSET S
    OBVIOUS
  <2> HIDE DEF F
  <2> QED BY <2>1, SmallestSet
<1>2. IsFiniteSet(T)
  BY FS_Subset
<1>3. T # {}
  BY <1>2, SumUnfolds
<1>4. SumFunctionOnSet(f, T \ {First(T)}) = 0
  BY <1>1, <1>3, FirstIn
<1> QED BY <1>2, <1>3, <1>4, SumUnfolds, FirstIn

\* Of natural numbers none exceeds the sum.
LEMMA SumBounds ==
  ASSUME NEW S, IsFiniteSet(S), NEW f \in [S -> Nat]
  PROVE  SumFunction(f) \in Nat /\ \A x \in S : f[x] <= SumFunction(f)
<1>1. SumFunctionOnSet(f, S) \in Nat
  BY SumNat
<1>2. ASSUME NEW x \in S
      PROVE  f[x] <= SumFunctionOnSet(f, S)
  <2>1. SumFunctionOnSet(f, S) = f[x] + SumFunctionOnSet(f, S \ {x})
    BY SumRemove
  <2>2. SumFunctionOnSet(f, S \ {x}) \in Nat
    <3>1. IsFiniteSet(S \ {x})
      BY FS_RemoveElement
    <3> QED BY <3>1, SumNat
  <2> QED BY <2>1, <2>2
<1> QED BY <1>1, <1>2 DEF SumFunction

\* Changing one value changes the sum by as much.
LEMMA SumChange ==
  ASSUME NEW S, IsFiniteSet(S), NEW f \in [S -> Int], NEW g \in [S -> Int], NEW x \in S,
         \A y \in S \ {x} : g[y] = f[y]
  PROVE  SumFunction(g) = SumFunction(f) - f[x] + g[x]
<1>1. IsFiniteSet(S \ {x})
  BY FS_RemoveElement
<1>2. SumFunctionOnSet(f, S \ {x}) = SumFunctionOnSet(g, S \ {x})
  BY <1>1, SumAgrees
<1>3. /\ SumFunctionOnSet(f, S \ {x}) \in Int
      /\ SumFunctionOnSet(f, S) = f[x] + SumFunctionOnSet(f, S \ {x})
      /\ SumFunctionOnSet(g, S) = g[x] + SumFunctionOnSet(g, S \ {x})
  BY <1>1, SumRemove
<1> QED BY <1>2, <1>3 DEF SumFunction

-----------------------------------------------------------------------------
(* The statements on a stock row keep its columns at or above zero.         *)

LEMMA StockStatementsTyped ==
  ASSUME NEW row \in StockRow, NEW q \in Nat
  PROVE  /\ Reserve(row, q) \in StockRow
         /\ GiveBack(row, q) \in StockRow
         /\ SetQuantity(row, q) \in StockRow
BY DEF StockRow, Reserve, GiveBack, SetQuantity

(* What each of them does to the reserved units.                            *)

LEMMA StockStatementsReserved ==
  ASSUME NEW row \in StockRow, NEW q \in Nat
  PROVE  /\ Reserve(row, q).reserved = row.reserved + q
         /\ GiveBack(row, q).reserved = IF row.reserved > q THEN row.reserved - q ELSE 0
         /\ SetQuantity(row, q).reserved = row.reserved
BY DEF StockRow, Reserve, GiveBack, SetQuantity
==============================================================================
