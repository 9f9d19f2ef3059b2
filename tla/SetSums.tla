------------------------------- MODULE SetSums -------------------------------
(***************************************************************************)
(* What the proofs about balances need to know of the sums of the          *)
(* community modules: a ledger is a function, a balance the sum of its     *)
(* values (SumFunction), and a handler adds an entry, removes one or       *)
(* changes one.                                                            *)
(*                                                                         *)
(* SumFunctionOnSet is a recursive function on the subsets of its indices  *)
(* and takes the chosen element of a set out first.  The lemmas say that   *)
(* any element may be taken out.  Induction over a finite set is done by   *)
(* taking a smallest counterexample among its subsets, which needs no      *)
(* theorem with an operator as parameter.                                  *)
(***************************************************************************)
EXTENDS Integers, FiniteSetsExt, FiniteSetTheorems, TLAPS

\* Induction over a finite set: among some of its subsets one is smallest.
LEMMA SmallestSubset ==
  ASSUME NEW S, IsFiniteSet(S), NEW Bad, Bad \subseteq SUBSET S, Bad # {}
  PROVE  \E U \in Bad : \A V \in Bad : V \subseteq U => V = U
<1>1. IsWellFoundedOn(StrictSubsetOrdering(S), FiniteSubsetsOf(S))
  BY FS_StrictSubsetOrderingWellFounded
<1>2. Bad \subseteq FiniteSubsetsOf(S)
  BY FS_FiniteSubsetsOfFinite
<1>3. PICK U \in Bad : \A V \in Bad : ~(<<V, U>> \in StrictSubsetOrdering(S))
  BY <1>1, <1>2, WFMin
<1>4. ASSUME NEW V \in Bad, V \subseteq U, V # U
      PROVE  <<V, U>> \in StrictSubsetOrdering(S)
  BY <1>4 DEF StrictSubsetOrdering
<1>5. \A V \in Bad : V \subseteq U => V = U
  BY <1>3, <1>4
<1>6. QED
  BY <1>5

(***************************************************************************)
(* The recursive function behind SumFunctionOnSet                          *)
(***************************************************************************)
Chosen(s) == CHOOSE x \in s : TRUE

IsIter(g, f, S) ==
  g = [s \in SUBSET S |->
         IF s = {} THEN 0 ELSE f[Chosen(s)] + g[s \ {Chosen(s)}]]

IterOf(f, S) == CHOOSE g : IsIter(g, f, S)

LEMMA SumIsIter ==
  ASSUME NEW f, NEW S
  PROVE  SumFunctionOnSet(f, S) = IterOf(f, S)[S]
BY DEF SumFunctionOnSet, FoldFunctionOnSet, MapThenFoldSet, IterOf, IsIter, Chosen

LEMMA ChosenIsMember == ASSUME NEW s, s # {} PROVE Chosen(s) \in s
BY DEF Chosen

LEMMA IterAt ==
  ASSUME NEW f, NEW S, NEW g, IsIter(g, f, S), NEW s \in SUBSET S
  PROVE  g[s] = IF s = {} THEN 0 ELSE f[Chosen(s)] + g[s \ {Chosen(s)}]
<1> DEFINE h == [t \in SUBSET S |->
                   IF t = {} THEN 0 ELSE f[Chosen(t)] + g[t \ {Chosen(t)}]]
<1>1. g = h
  BY DEF IsIter
<1>2. h[s] = IF s = {} THEN 0 ELSE f[Chosen(s)] + g[s \ {Chosen(s)}]
  OBVIOUS
<1>3. QED
  <2> HIDE DEF h
  <2> QED BY <1>1, <1>2

\* The functions of a set and of one of its subsets agree.
LEMMA ItersAgree ==
  ASSUME NEW f, NEW S, IsFiniteSet(S), NEW T \in SUBSET S,
         NEW g, IsIter(g, f, S), NEW h, IsIter(h, f, T)
  PROVE  \A s \in SUBSET T : g[s] = h[s]
<1> DEFINE Bad == {s \in SUBSET T : g[s] # h[s]}
<1> SUFFICES ASSUME Bad # {} PROVE FALSE
  OBVIOUS
<1>1. IsFiniteSet(T)
  BY FS_Subset
<1>2. PICK s \in Bad : \A V \in Bad : V \subseteq s => V = s
  <2>1. Bad \subseteq SUBSET T
    OBVIOUS
  <2> HIDE DEF Bad
  <2> QED BY <1>1, <2>1, SmallestSubset
<1>3. s \in SUBSET T /\ s \in SUBSET S
  OBVIOUS
<1>4. /\ g[s] = IF s = {} THEN 0 ELSE f[Chosen(s)] + g[s \ {Chosen(s)}]
      /\ h[s] = IF s = {} THEN 0 ELSE f[Chosen(s)] + h[s \ {Chosen(s)}]
  BY <1>3, IterAt
<1>5. s # {}
  BY <1>2, <1>4
<1>6. s \ {Chosen(s)} \in SUBSET T /\ s \ {Chosen(s)} # s
  BY <1>3, <1>5, ChosenIsMember
<1>7. g[s \ {Chosen(s)}] = h[s \ {Chosen(s)}]
  BY <1>2, <1>6
<1>8. QED
  BY <1>2, <1>4, <1>5, <1>7

\* The recursion has a solution on every finite set.
LEMMA IterExists ==
  ASSUME NEW f, NEW S, IsFiniteSet(S)
  PROVE  IsIter(IterOf(f, S), f, S)
<1> DEFINE Bad == {U \in SUBSET S : ~ \E g : IsIter(g, f, U)}
<1>1. Bad = {}
  <2> SUFFICES ASSUME Bad # {} PROVE FALSE
    OBVIOUS
  <2>1. PICK U \in Bad : \A V \in Bad : V \subseteq U => V = U
    <3>1. Bad \subseteq SUBSET S
      OBVIOUS
    <3> HIDE DEF Bad
    <3> QED BY <3>1, SmallestSubset
  <2>2. U \in SUBSET S /\ IsFiniteSet(U)
    BY FS_Subset
  <2>3. ASSUME NEW V \in SUBSET U, V # U
        PROVE  IsIter(IterOf(f, V), f, V) /\ IsFiniteSet(V)
    <3>1. \E g : IsIter(g, f, V)
      BY <2>1, <2>2, <2>3
    <3>2. QED
      BY <2>2, <3>1, FS_Subset DEF IterOf
  <2> DEFINE below[s \in SUBSET U] ==
               IF s = {} THEN 0
               ELSE f[Chosen(s)] + IterOf(f, s \ {Chosen(s)})[s \ {Chosen(s)}]
  <2>4. ASSUME NEW s \in SUBSET U, s # {}
        PROVE  IterOf(f, s \ {Chosen(s)})[s \ {Chosen(s)}] = below[s \ {Chosen(s)}]
    <3> DEFINE r == s \ {Chosen(s)}
    <3>1. r \in SUBSET U /\ r # U
      BY <2>4, ChosenIsMember
    <3> HIDE DEF r
    <3>2. IsIter(IterOf(f, r), f, r)
      BY <2>3, <3>1
    <3>3. IterOf(f, r)[r] = IF r = {} THEN 0
                            ELSE f[Chosen(r)] + IterOf(f, r)[r \ {Chosen(r)}]
      BY <3>2, IterAt
    <3>4. below[r] = IF r = {} THEN 0
                     ELSE f[Chosen(r)] + IterOf(f, r \ {Chosen(r)})[r \ {Chosen(r)}]
      BY <3>1
    <3>5. ASSUME r # {}
          PROVE  IterOf(f, r)[r \ {Chosen(r)}]
                   = IterOf(f, r \ {Chosen(r)})[r \ {Chosen(r)}]
      <4> DEFINE q == r \ {Chosen(r)}
      <4>1. q \in SUBSET U /\ q # U /\ q \in SUBSET r
        BY <3>1
      <4> HIDE DEF q
      <4>2. IsIter(IterOf(f, q), f, q) /\ IsFiniteSet(r)
        BY <2>3, <3>1, <4>1
      <4>3. \A t \in SUBSET q : IterOf(f, r)[t] = IterOf(f, q)[t]
        BY <3>2, <4>1, <4>2, ItersAgree
      <4>4. QED
        BY <4>3 DEF q
    <3>6. IterOf(f, r)[r] = below[r]
      <4> HIDE DEF below
      <4> QED BY <3>3, <3>4, <3>5
    <3>7. QED
      <4> HIDE DEF below
      <4> QED BY <3>6 DEF r
  <2>5. IsIter(below, f, U)
    <3>1. \A s \in SUBSET U :
            below[s] = IF s = {} THEN 0
                       ELSE f[Chosen(s)] + below[s \ {Chosen(s)}]
      BY <2>4
    <3>2. below = [s \in SUBSET U |-> below[s]]
      OBVIOUS
    <3> HIDE DEF below
    <3> QED BY <3>1, <3>2 DEF IsIter
  <2>6. QED
    <3> HIDE DEF below
    <3> QED BY <2>1, <2>5
<1>2. QED
  <2>1. \E g : IsIter(g, f, S)
    BY <1>1
  <2> QED BY <2>1 DEF IterOf

(***************************************************************************)
(* Sums over a finite set of indices                                       *)
(***************************************************************************)
LEMMA SumOverNothing == ASSUME NEW f PROVE SumFunctionOnSet(f, {}) = 0
<1>1. IsFiniteSet({})
  BY FS_EmptySet
<1>2. IsIter(IterOf(f, {}), f, {}) /\ {} \in SUBSET {}
  BY <1>1, IterExists
<1>3. IterOf(f, {})[{}] = 0
  BY <1>2, IterAt
<1>4. QED
  BY <1>3, SumIsIter

LEMMA SumOfChosen ==
  ASSUME NEW f, NEW S, IsFiniteSet(S), S # {}
  PROVE  SumFunctionOnSet(f, S)
           = f[Chosen(S)] + SumFunctionOnSet(f, S \ {Chosen(S)})
<1> DEFINE r == S \ {Chosen(S)}
<1>1. r \in SUBSET S /\ S \in SUBSET S /\ IsFiniteSet(r)
  BY FS_Subset
<1>2. IsIter(IterOf(f, S), f, S) /\ IsIter(IterOf(f, r), f, r)
  BY <1>1, IterExists
<1>3. IterOf(f, S)[S] = f[Chosen(S)] + IterOf(f, S)[r]
  BY <1>1, <1>2, IterAt
<1>4. r \in SUBSET r
  OBVIOUS
<1> HIDE DEF r
<1>5. IterOf(f, S)[r] = IterOf(f, r)[r]
  BY <1>1, <1>2, <1>4, ItersAgree
<1>6. QED
  BY <1>3, <1>5, SumIsIter DEF r

LEMMA SumIsInteger ==
  ASSUME NEW f, NEW S, IsFiniteSet(S), \A x \in S : f[x] \in Int
  PROVE  SumFunctionOnSet(f, S) \in Int
<1> DEFINE Bad == {U \in SUBSET S : SumFunctionOnSet(f, U) \notin Int}
<1> SUFFICES ASSUME Bad # {} PROVE FALSE
  OBVIOUS
<1>1. PICK U \in Bad : \A V \in Bad : V \subseteq U => V = U
  <2>1. Bad \subseteq SUBSET S
    OBVIOUS
  <2> HIDE DEF Bad
  <2> QED BY <2>1, SmallestSubset
<1>2. U \in SUBSET S /\ IsFiniteSet(U) /\ U # {}
  <2>1. U \in SUBSET S /\ SumFunctionOnSet(f, U) \notin Int
    OBVIOUS
  <2>2. SumFunctionOnSet(f, {}) \in Int
    BY SumOverNothing
  <2>3. QED
    BY <2>1, <2>2, FS_Subset
<1>3. Chosen(U) \in U
  BY <1>2, ChosenIsMember
<1>4. SumFunctionOnSet(f, U \ {Chosen(U)}) \in Int
  BY <1>1, <1>2, <1>3
<1>5. QED
  BY <1>2, <1>3, <1>4, SumOfChosen

\* Any element may be taken out first.
LEMMA SumOfMember ==
  ASSUME NEW f, NEW S, IsFiniteSet(S), \A x \in S : f[x] \in Int, NEW e \in S
  PROVE  SumFunctionOnSet(f, S) = f[e] + SumFunctionOnSet(f, S \ {e})
<1> DEFINE Bad == {U \in SUBSET S :
              \E x \in U : SumFunctionOnSet(f, U)
                             # f[x] + SumFunctionOnSet(f, U \ {x})}
<1> SUFFICES ASSUME Bad # {} PROVE FALSE
  OBVIOUS
<1>1. PICK U \in Bad : \A V \in Bad : V \subseteq U => V = U
  <2>1. Bad \subseteq SUBSET S
    OBVIOUS
  <2> HIDE DEF Bad
  <2> QED BY <2>1, SmallestSubset
<1>2. PICK x \in U : SumFunctionOnSet(f, U) # f[x] + SumFunctionOnSet(f, U \ {x})
  OBVIOUS
<1>3. U \in SUBSET S /\ IsFiniteSet(U) /\ U # {}
  BY FS_Subset
<1> DEFINE c == Chosen(U)
<1>4. c \in U
  BY <1>3, ChosenIsMember
<1>5. SumFunctionOnSet(f, U) = f[c] + SumFunctionOnSet(f, U \ {c})
  BY <1>3, SumOfChosen
<1> HIDE DEF c
<1>6. c # x
  BY <1>2, <1>5
<1> DEFINE rest == U \ {c, x}
<1>7. /\ U \ {c} \in SUBSET S /\ U \ {c} # U /\ x \in U \ {c}
      /\ U \ {x} \in SUBSET S /\ U \ {x} # U /\ c \in U \ {x}
      /\ (U \ {c}) \ {x} = rest
      /\ (U \ {x}) \ {c} = rest
      /\ rest \in SUBSET S
  BY <1>3, <1>4, <1>6
<1>8. SumFunctionOnSet(f, U \ {c}) = f[x] + SumFunctionOnSet(f, rest)
  BY <1>1, <1>7
<1>9. SumFunctionOnSet(f, U \ {x}) = f[c] + SumFunctionOnSet(f, rest)
  BY <1>1, <1>7
<1>10. /\ SumFunctionOnSet(f, rest) \in Int
       /\ f[c] \in Int /\ f[x] \in Int
  <2> HIDE DEF rest
  <2>1. IsFiniteSet(rest) /\ \A y \in rest : f[y] \in Int
    BY <1>7, FS_Subset
  <2>2. QED
    BY <1>3, <1>4, <2>1, SumIsInteger
<1>11. QED
  <2> HIDE DEF rest
  <2> QED BY <1>2, <1>5, <1>8, <1>9, <1>10

\* Only the values on the indices count.
LEMMA SumOfEqualValues ==
  ASSUME NEW f, NEW g, NEW S, IsFiniteSet(S), \A x \in S : f[x] = g[x]
  PROVE  SumFunctionOnSet(f, S) = SumFunctionOnSet(g, S)
<1> DEFINE Bad == {U \in SUBSET S :
                     SumFunctionOnSet(f, U) # SumFunctionOnSet(g, U)}
<1> SUFFICES ASSUME Bad # {} PROVE FALSE
  OBVIOUS
<1>1. PICK U \in Bad : \A V \in Bad : V \subseteq U => V = U
  <2>1. Bad \subseteq SUBSET S
    OBVIOUS
  <2> HIDE DEF Bad
  <2> QED BY <2>1, SmallestSubset
<1>2. U \in SUBSET S /\ IsFiniteSet(U) /\ U # {}
  BY FS_Subset, SumOverNothing
<1>3. Chosen(U) \in U
  BY <1>2, ChosenIsMember
<1>4. SumFunctionOnSet(f, U \ {Chosen(U)}) = SumFunctionOnSet(g, U \ {Chosen(U)})
  BY <1>1, <1>2, <1>3
<1>5. QED
  BY <1>1, <1>2, <1>3, <1>4, SumOfChosen

(***************************************************************************)
(* Sums of ledgers: a ledger is a function whose domain is finite          *)
(***************************************************************************)
LEMMA LedgerIsInteger ==
  ASSUME NEW S, IsFiniteSet(S), NEW f \in [S -> Int]
  PROVE  SumFunction(f) \in Int
BY SumIsInteger DEF SumFunction

LEMMA LedgerIsEmpty ==
  ASSUME NEW f, DOMAIN f = {} PROVE SumFunction(f) = 0
BY SumOverNothing DEF SumFunction

LEMMA LedgerWithout ==
  ASSUME NEW S, IsFiniteSet(S), NEW f \in [S -> Int], NEW e \in S,
         NEW g \in [S \ {e} -> Int], \A x \in S \ {e} : g[x] = f[x]
  PROVE  SumFunction(f) = SumFunction(g) + f[e]
<1>1. IsFiniteSet(S \ {e})
  BY FS_Subset
<1>2. SumFunctionOnSet(f, S) = f[e] + SumFunctionOnSet(f, S \ {e})
  BY SumOfMember
<1>3. SumFunctionOnSet(f, S \ {e}) = SumFunctionOnSet(g, S \ {e})
  BY <1>1, SumOfEqualValues
<1>4. SumFunctionOnSet(g, S \ {e}) \in Int
  BY <1>1, SumIsInteger
<1>5. QED
  BY <1>2, <1>3, <1>4 DEF SumFunction

\* An entry is added.
LEMMA LedgerWith ==
  ASSUME NEW S, IsFiniteSet(S), NEW e, e \notin S, NEW T, T = S \cup {e}
  PROVE  \A f \in [S -> Int], g \in [T -> Int] :
           (\A x \in S : g[x] = f[x]) => SumFunction(g) = SumFunction(f) + g[e]
<1> SUFFICES ASSUME NEW f \in [S -> Int], NEW g \in [T -> Int],
                    \A x \in S : g[x] = f[x]
             PROVE  SumFunction(g) = SumFunction(f) + g[e]
  OBVIOUS
<1>1. IsFiniteSet(T) /\ T \ {e} = S /\ e \in T
  BY FS_AddElement
<1>2. QED
  BY <1>1, LedgerWithout

\* The value of an entry changes.
LEMMA LedgerChanged ==
  ASSUME NEW S, IsFiniteSet(S), NEW e \in S
  PROVE  \A f \in [S -> Int], g \in [S -> Int] :
           (\A x \in S \ {e} : g[x] = f[x])
           => SumFunction(g) = SumFunction(f) - f[e] + g[e]
<1> SUFFICES ASSUME NEW f \in [S -> Int], NEW g \in [S -> Int],
                    \A x \in S \ {e} : g[x] = f[x]
             PROVE  SumFunction(g) = SumFunction(f) - f[e] + g[e]
  OBVIOUS
<1> DEFINE h == [x \in S \ {e} |-> f[x]]
<1>1. h \in [S \ {e} -> Int] /\ \A x \in S \ {e} : h[x] = f[x] /\ h[x] = g[x]
  OBVIOUS
<1> HIDE DEF h
<1>2. SumFunction(f) = SumFunction(h) + f[e]
  BY <1>1, LedgerWithout
<1>3. SumFunction(g) = SumFunction(h) + g[e]
  BY <1>1, LedgerWithout
<1>4. SumFunction(h) \in Int
  <2>1. IsFiniteSet(S \ {e})
    BY FS_Subset
  <2>2. QED
    BY <1>1, <2>1, LedgerIsInteger
<1>5. QED
  BY <1>2, <1>3, <1>4

\* A sum of amounts that are not negative is not negative.
LEMMA LedgerIsNatural ==
  ASSUME NEW S, IsFiniteSet(S), NEW f \in [S -> Nat]
  PROVE  SumFunction(f) \in Nat
<1> DEFINE Bad == {U \in SUBSET S : SumFunctionOnSet(f, U) \notin Nat}
<1>1. Bad = {}
  <2> SUFFICES ASSUME Bad # {} PROVE FALSE
    OBVIOUS
  <2>1. PICK U \in Bad : \A V \in Bad : V \subseteq U => V = U
    <3>1. Bad \subseteq SUBSET S
      OBVIOUS
    <3> HIDE DEF Bad
    <3> QED BY <3>1, SmallestSubset
  <2>2. U \in SUBSET S /\ IsFiniteSet(U) /\ U # {}
    <3>1. U \in SUBSET S /\ SumFunctionOnSet(f, U) \notin Nat
      OBVIOUS
    <3>2. SumFunctionOnSet(f, {}) \in Nat
      BY SumOverNothing
    <3>3. QED
      BY <3>1, <3>2, FS_Subset
  <2>3. Chosen(U) \in U
    BY <2>2, ChosenIsMember
  <2>4. SumFunctionOnSet(f, U \ {Chosen(U)}) \in Nat /\ f[Chosen(U)] \in Nat
    BY <2>1, <2>2, <2>3
  <2>5. QED
    BY <2>2, <2>4, SumOfChosen
<1>2. QED
  BY <1>1 DEF SumFunction

LEMMA LedgerOfZeros ==
  ASSUME NEW S, IsFiniteSet(S) PROVE SumFunction([x \in S |-> 0]) = 0
<1> DEFINE f == [x \in S |-> 0]
<1> DEFINE Bad == {U \in SUBSET S : SumFunctionOnSet(f, U) # 0}
<1>1. Bad = {}
  <2> SUFFICES ASSUME Bad # {} PROVE FALSE
    OBVIOUS
  <2>1. PICK U \in Bad : \A V \in Bad : V \subseteq U => V = U
    <3>1. Bad \subseteq SUBSET S
      OBVIOUS
    <3> HIDE DEF Bad
    <3>2. QED
      BY <3>1, SmallestSubset
  <2>2. U # {} /\ IsFiniteSet(U)
    BY SumOverNothing, FS_Subset
  <2>3. PICK e \in U : TRUE
    BY <2>2
  <2>4. SumFunctionOnSet(f, U) = f[e] + SumFunctionOnSet(f, U \ {e})
    BY <2>2, SumOfMember
  <2>5. SumFunctionOnSet(f, U \ {e}) = 0
    BY <2>1
  <2>6. QED
    BY <2>4, <2>5
<1>2. QED
  BY <1>1 DEF SumFunction

\* No row of a ledger without negative rows is more than its sum.
LEMMA LedgerCovers ==
  ASSUME NEW S, IsFiniteSet(S), NEW f \in [S -> Nat], NEW e \in S
  PROVE  f[e] <= SumFunction(f)
<1> DEFINE g == [x \in S |-> IF x = e THEN 0 ELSE f[x]]
<1>1. g \in [S -> Nat]
  OBVIOUS
<1>2. f \in [S -> Int] /\ g \in [S -> Int] /\ g[e] = 0 /\ \A x \in S \ {e} : g[x] = f[x]
  OBVIOUS
<1> HIDE DEF g
<1>3. SumFunction(g) = SumFunction(f) - f[e] + g[e]
  BY <1>2, LedgerChanged
<1>4. SumFunction(g) \in Nat /\ SumFunction(f) \in Nat
  BY <1>1, LedgerIsNatural
<1>5. f[e] \in Nat
  OBVIOUS
<1>6. QED
  BY <1>2, <1>3, <1>4, <1>5
=============================================================================
