------------------------------ MODULE FoldLemmas ------------------------------
(***************************************************************************)
(* What the folds of the community modules compute, for every finite set:  *)
(* the loop of _within_budget and the sums of the reports are such folds.  *)
(*                                                                         *)
(* The induction theorems of the library take an operator; here induction  *)
(* is over a set, the set of the numbers (or of the subsets) for which a   *)
(* formula holds.  The recursive function inside a fold is described by    *)
(* an equation, so that the lemmas hold of any fold that satisfies it.     *)
(***************************************************************************)
EXTENDS FiniteSetTheorems, FiniteSetsExt, TLAPS

-----------------------------------------------------------------------------
(* Induction *)

Below == {pair \in Nat \X Nat : pair[1] < pair[2]}

(* The order of the numbers is well founded.                               *)
LEMMA BelowWellFounded == IsWellFoundedOn(Below, Nat)
<1>1. OpToRel(<, Nat) = Below
  BY Zenon DEF OpToRel, Below
<1> QED BY <1>1, NatLessThanWellFounded, Zenon

(* Every set of numbers has a least element.                               *)
LEMMA LeastNumber ==
  ASSUME NEW S \in SUBSET Nat, S # {}
  PROVE  \E n \in S : \A m \in S : n <= m
<1>1. PICK n \in S : \A m \in S : <<m, n>> \notin Below
  BY BelowWellFounded, WFMin
<1>2. \A m \in S : n <= m
  <2> SUFFICES ASSUME NEW m \in S PROVE n <= m
    OBVIOUS
  <2>1. m \in Nat /\ n \in Nat /\ <<m, n>> \notin Below
    BY <1>1
  <2> QED BY <2>1 DEF Below
<1> QED BY <1>2

(* Induction over numbers: a set with 0 in it, closed under +1, holds all. *)
LEMMA NumberInduction ==
  ASSUME NEW S, 0 \in S, \A n \in Nat : n \in S => n + 1 \in S
  PROVE  Nat \subseteq S
<1> SUFFICES ASSUME Nat \ S # {} PROVE FALSE
  OBVIOUS
<1>1. PICK n \in Nat \ S : \A m \in Nat \ S : n <= m
  BY LeastNumber
<1>2. n # 0 /\ n - 1 \in Nat /\ n - 1 \in S
  BY <1>1
<1>3. (n - 1) + 1 \in S
  BY <1>2
<1> QED BY <1>1, <1>3

(* A set of subsets that has a subset once it has those with one element   *)
(* less has them all.                                                      *)
LEMMA SubsetInduction ==
  ASSUME NEW D, IsFiniteSet(D), NEW P, {} \in P,
         \A s \in SUBSET D : s # {} /\ (\A x \in s : s \ {x} \in P) => s \in P
  PROVE  SUBSET D \subseteq P
<1> DEFINE Sized(n) == {s \in SUBSET D : Cardinality(s) = n}
           S == {n \in Nat : Sized(n) \subseteq P}
<1>1. \A s \in SUBSET D : IsFiniteSet(s) /\ Cardinality(s) \in Nat
  BY FS_Subset, FS_CardinalityType
<1>2. 0 \in S
  BY <1>1, FS_EmptySet
<1>3. ASSUME NEW n \in Nat, n \in S
      PROVE  n + 1 \in S
  <2> SUFFICES ASSUME NEW s \in Sized(n + 1) PROVE s \in P
    OBVIOUS
  <2>1. s # {}
    BY <1>1, FS_EmptySet
  <2>2. \A x \in s : s \ {x} \in Sized(n)
    BY <1>1, FS_RemoveElement
  <2> QED BY <1>3, <2>1, <2>2
<1>4. Nat \subseteq S
  <2> HIDE DEF S
  <2> QED BY <1>2, <1>3, NumberInduction
<1> QED BY <1>1, <1>4

-----------------------------------------------------------------------------
(* Folds *)

Picks(pick, D) == \A s \in SUBSET D : s # {} => pick[s] \in s

\* Folding `op`, a function of an element and the rest's result, over D.
Folds(g, D, pick, base, op) ==
  g = [s \in SUBSET D |-> IF s = {} THEN base ELSE op[<<pick[s], g[s \ {pick[s]}]>>]]

(* The recursion is well founded: there is such a function.                *)
LEMMA FoldExists ==
  ASSUME NEW D, IsFiniteSet(D), NEW pick, Picks(pick, D), NEW base, NEW op
  PROVE  \E g : Folds(g, D, pick, base, op)
<1> DEFINE Upto(n) == {s \in SUBSET D : Cardinality(s) <= n}
           Turn(g, s) == IF s = {} THEN base ELSE op[<<pick[s], g[s \ {pick[s]}]>>]
           S == {n \in Nat : \E g : g = [s \in Upto(n) |-> Turn(g, s)]}
<1>1. \A s \in SUBSET D : /\ IsFiniteSet(s) /\ Cardinality(s) \in Nat
                          /\ Cardinality(s) <= Cardinality(D)
  BY FS_Subset, FS_CardinalityType
<1>2. 0 \in S
  <2> DEFINE g == [s \in Upto(0) |-> base]
  <2>1. \A s \in Upto(0) : s = {}
    BY <1>1, FS_EmptySet
  <2>2. g = [s \in Upto(0) |-> Turn(g, s)]
    BY <2>1
  <2> QED BY <2>2
<1>3. ASSUME NEW n \in Nat, n \in S
      PROVE  n + 1 \in S
  <2>1. PICK g : g = [s \in Upto(n) |-> Turn(g, s)]
    BY <1>3
  <2> DEFINE h == [s \in Upto(n + 1) |-> Turn(g, s)]
  <2>2. \A s \in Upto(n + 1) : s # {} => s \ {pick[s]} \in Upto(n) /\ s \ {pick[s]} \in Upto(n + 1)
    <3> SUFFICES ASSUME NEW s \in Upto(n + 1), s # {}
                 PROVE  s \ {pick[s]} \in Upto(n) /\ s \ {pick[s]} \in Upto(n + 1)
      OBVIOUS
    <3>1. pick[s] \in s
      BY DEF Picks
    <3>2. Cardinality(s \ {pick[s]}) = Cardinality(s) - 1 /\ Cardinality(s) \in Nat
      BY <1>1, <3>1, FS_RemoveElement
    <3> QED BY <3>2
  <2>3. \A s \in Upto(n) : h[s] = g[s]
    <3>1. Upto(n) \subseteq Upto(n + 1)
      BY <1>1
    <3> QED BY <2>1, <3>1
  <2>4. \A s \in Upto(n + 1) : Turn(h, s) = Turn(g, s)
    <3> HIDE DEF h, Upto
    <3> QED BY <2>2, <2>3
  <2>5. h = [s \in Upto(n + 1) |-> Turn(h, s)]
    <3>1. h = [s \in Upto(n + 1) |-> Turn(g, s)]
      OBVIOUS
    <3> HIDE DEF h, Upto
    <3> QED BY <2>4, <3>1
  <2> HIDE DEF h, Upto
  <2> QED BY <2>5
<1>4. Cardinality(D) \in S
  <2> HIDE DEF S
  <2> QED BY <1>1, <1>2, <1>3, NumberInduction
<1>5. Upto(Cardinality(D)) = SUBSET D
  BY <1>1
<1> QED BY <1>4, <1>5 DEF Folds

(* The result does not depend on the set the recursion was defined for.    *)
LEMMA FoldsAgree ==
  ASSUME NEW D, IsFiniteSet(D), NEW T \in SUBSET D, NEW pick, Picks(pick, D),
         NEW base, NEW op, NEW g, NEW h,
         Folds(g, D, pick, base, op), Folds(h, T, pick, base, op)
  PROVE  \A s \in SUBSET T : h[s] = g[s]
<1> DEFINE P == {s \in SUBSET T : h[s] = g[s]}
<1>1. {} \in P
  BY DEF Folds
<1>2. ASSUME NEW s \in SUBSET T, s # {}, \A x \in s : s \ {x} \in P
      PROVE  s \in P
  <2>1. s \in SUBSET D /\ pick[s] \in s
    BY <1>2 DEF Picks
  <2>2. h[s \ {pick[s]}] = g[s \ {pick[s]}]
    BY <1>2, <2>1
  <2>3. h[s] = op[<<pick[s], h[s \ {pick[s]}]>>] /\ g[s] = op[<<pick[s], g[s \ {pick[s]}]>>]
    BY <1>2, <2>1 DEF Folds
  <2> QED BY <2>2, <2>3
<1>3. IsFiniteSet(T)
  BY FS_Subset
<1>4. SUBSET T \subseteq P
  <2> HIDE DEF P
  <2> QED BY <1>1, <1>2, <1>3, SubsetInduction
<1> QED BY <1>4

(* A fold stays in a set that its turns stay in.                           *)
LEMMA FoldType ==
  ASSUME NEW D, IsFiniteSet(D), NEW pick, Picks(pick, D), NEW V, NEW base \in V, NEW op,
         \A x \in D, v \in V : op[<<x, v>>] \in V,
         NEW g, Folds(g, D, pick, base, op)
  PROVE  \A s \in SUBSET D : g[s] \in V
<1> DEFINE P == {s \in SUBSET D : g[s] \in V}
<1>1. {} \in P
  BY DEF Folds
<1>2. ASSUME NEW s \in SUBSET D, s # {}, \A x \in s : s \ {x} \in P
      PROVE  s \in P
  <2>1. pick[s] \in s
    BY <1>2 DEF Picks
  <2>2. g[s] = op[<<pick[s], g[s \ {pick[s]}]>>]
    BY <1>2 DEF Folds
  <2> QED BY <1>2, <2>1, <2>2
<1>3. SUBSET D \subseteq P
  <2> HIDE DEF P
  <2> QED BY <1>1, <1>2, SubsetInduction
<1> QED BY <1>3

-----------------------------------------------------------------------------
(* Sums *)

AnyOf(D) == [s \in SUBSET D |-> CHOOSE x \in s : TRUE]

Adding(fun, D) == [pair \in D \X Int |-> fun[pair[1]] + pair[2]]

(* A sum is the fold its definition recurs on.                             *)
LEMMA SumIsFold ==
  ASSUME NEW S, IsFiniteSet(S), NEW fun, \A x \in S : fun[x] \in Int
  PROVE  \E g : /\ Folds(g, S, AnyOf(S), 0, Adding(fun, S))
                /\ SumFunctionOnSet(fun, S) = g[S]
<1> DEFINE Any(s) == CHOOSE x \in s : TRUE
           Turn(g, s) == IF s = {} THEN 0 ELSE fun[Any(s)] + g[s \ {Any(s)}]
           sum == CHOOSE g : g = [s \in SUBSET S |-> Turn(g, s)]
<1>1. /\ Picks(AnyOf(S), S)
      /\ \A s \in SUBSET S : s # {} => Any(s) \in s
      /\ \A s \in SUBSET S : AnyOf(S)[s] = Any(s)
  BY DEF Picks, AnyOf
<1>2. SumFunctionOnSet(fun, S) = sum[S]
  BY DEF SumFunctionOnSet, FoldFunctionOnSet, MapThenFoldSet
<1>3. PICK h : Folds(h, S, AnyOf(S), 0, Adding(fun, S))
  BY <1>1, FoldExists
<1>4. \A s \in SUBSET S : h[s] \in Int
  <2>1. \A x \in S, v \in Int : Adding(fun, S)[<<x, v>>] \in Int
    BY DEF Adding
  <2>2. 0 \in Int
    OBVIOUS
  <2> HIDE DEF Any, sum
  <2> QED BY <1>1, <1>3, <2>1, <2>2, FoldType, Zenon
<1>5. h = [s \in SUBSET S |-> Turn(h, s)]
  <2>1. \A s \in SUBSET S : s # {} =>
          Adding(fun, S)[<<AnyOf(S)[s], h[s \ {AnyOf(S)[s]}]>>] = Turn(h, s)
    BY <1>1, <1>4 DEF Adding
  <2> HIDE DEF Any
  <2> QED BY <1>3, <2>1 DEF Folds
<1>6. sum = [s \in SUBSET S |-> Turn(sum, s)]
  <2> HIDE DEF Any
  <2> QED BY <1>5
<1>7. SUBSET S \subseteq {s \in SUBSET S : sum[s] = h[s]}
  <2> DEFINE P == {s \in SUBSET S : sum[s] = h[s]}
  <2>1. {} \in P
    <3> HIDE DEF Any, sum
    <3> QED BY <1>5, <1>6
  <2>2. ASSUME NEW s \in SUBSET S, s # {}, \A x \in s : s \ {x} \in P
        PROVE  s \in P
    <3>1. sum[s \ {Any(s)}] = h[s \ {Any(s)}]
      BY <1>1, <2>2
    <3> HIDE DEF Any, sum
    <3> QED BY <1>5, <1>6, <2>2, <3>1
  <2> HIDE DEF P
  <2>3. SUBSET S \subseteq P
    BY <2>1, <2>2, SubsetInduction
  <2> QED BY <2>3 DEF P
<1>8. sum[S] = h[S]
  <2> HIDE DEF sum
  <2> QED BY <1>7
<1> QED BY <1>2, <1>3, <1>8

(* The elements may be added in any order.                                 *)
LEMMA SumPart ==
  ASSUME NEW D, IsFiniteSet(D), NEW fun, \A x \in D : fun[x] \in Int,
         NEW g, Folds(g, D, AnyOf(D), 0, Adding(fun, D)), NEW S \in SUBSET D
  PROVE  g[S] = SumFunctionOnSet(fun, S)
<1>1. IsFiniteSet(S) /\ Picks(AnyOf(D), D)
  BY FS_Subset DEF Picks, AnyOf
<1>2. PICK h : /\ Folds(h, S, AnyOf(S), 0, Adding(fun, S))
               /\ SumFunctionOnSet(fun, S) = h[S]
  BY <1>1, SumIsFold
<1>3. \A s \in SUBSET S : g[s] \in Int
  <2>1. \A x \in D, v \in Int : Adding(fun, D)[<<x, v>>] \in Int
    BY DEF Adding
  <2>2. 0 \in Int
    OBVIOUS
  <2>3. \A s \in SUBSET D : g[s] \in Int
    BY <1>1, <2>1, <2>2, FoldType, Zenon
  <2> QED BY <2>3
<1> DEFINE P == {s \in SUBSET S : h[s] = g[s]}
<1>4. {} \in P
  BY <1>2 DEF Folds
<1>5. ASSUME NEW s \in SUBSET S, s # {}, \A x \in s : s \ {x} \in P
      PROVE  s \in P
  <2>1. s \in SUBSET D /\ AnyOf(D)[s] \in s /\ AnyOf(S)[s] = AnyOf(D)[s]
    BY <1>5 DEF AnyOf
  <2> DEFINE x == AnyOf(D)[s]
  <2>2. h[s \ {x}] = g[s \ {x}] /\ g[s \ {x}] \in Int
    BY <1>3, <1>5, <2>1
  <2>3. /\ h[s] = Adding(fun, S)[<<x, h[s \ {x}]>>]
        /\ g[s] = Adding(fun, D)[<<x, g[s \ {x}]>>]
    BY <1>2, <1>5, <2>1 DEF Folds
  <2>4. /\ Adding(fun, S)[<<x, g[s \ {x}]>>] = fun[x] + g[s \ {x}]
        /\ Adding(fun, D)[<<x, g[s \ {x}]>>] = fun[x] + g[s \ {x}]
    BY <2>1, <2>2 DEF Adding
  <2> QED BY <2>2, <2>3, <2>4
<1>6. SUBSET S \subseteq P
  <2> HIDE DEF P
  <2> QED BY <1>1, <1>4, <1>5, SubsetInduction
<1> QED BY <1>2, <1>6

(* A sum over nothing is 0.                                                *)
LEMMA SumEmpty == ASSUME NEW fun PROVE SumFunctionOnSet(fun, {}) = 0
<1>1. PICK g : /\ Folds(g, {}, AnyOf({}), 0, Adding(fun, {}))
               /\ SumFunctionOnSet(fun, {}) = g[{}]
  BY SumIsFold, FS_EmptySet
<1> QED BY <1>1 DEF Folds

(* A finite sum of integers is an integer.                                 *)
LEMMA SumType ==
  ASSUME NEW S, IsFiniteSet(S), NEW fun, \A x \in S : fun[x] \in Int
  PROVE  SumFunctionOnSet(fun, S) \in Int
<1>1. PICK g : /\ Folds(g, S, AnyOf(S), 0, Adding(fun, S))
               /\ SumFunctionOnSet(fun, S) = g[S]
  BY SumIsFold
<1>2. \A x \in S, v \in Int : Adding(fun, S)[<<x, v>>] \in Int
  BY DEF Adding
<1>3. 0 \in Int /\ Picks(AnyOf(S), S)
  BY DEF Picks, AnyOf
<1>4. \A s \in SUBSET S : g[s] \in Int
  BY <1>1, <1>2, <1>3, FoldType, Zenon
<1> QED BY <1>1, <1>4

(* A sum is one of its terms, the one the fold picks, plus the rest.       *)
LEMMA SumPicked ==
  ASSUME NEW S, IsFiniteSet(S), S # {}, NEW fun, \A x \in S : fun[x] \in Int
  PROVE  \E x \in S : SumFunctionOnSet(fun, S) = fun[x] + SumFunctionOnSet(fun, S \ {x})
<1>1. PICK g : /\ Folds(g, S, AnyOf(S), 0, Adding(fun, S))
               /\ SumFunctionOnSet(fun, S) = g[S]
  BY SumIsFold
<1> DEFINE x == AnyOf(S)[S]
           rest == SumFunctionOnSet(fun, S \ {x})
<1>2. x \in S
  BY DEF AnyOf
<1>3. g[S] = Adding(fun, S)[<<x, g[S \ {x}]>>]
  BY <1>1 DEF Folds
<1>4. g[S \ {x}] = rest
  <2>1. S \ {x} \in SUBSET S
    OBVIOUS
  <2> HIDE DEF x
  <2> QED BY <1>1, <2>1, SumPart
<1>5. rest \in Int
  <2>1. IsFiniteSet(S \ {x}) /\ \A y \in S \ {x} : fun[y] \in Int
    BY FS_Subset
  <2> HIDE DEF x
  <2> QED BY <2>1, SumType
<1>6. Adding(fun, S)[<<x, rest>>] = fun[x] + rest
  BY <1>2, <1>5 DEF Adding
<1> QED BY <1>1, <1>2, <1>3, <1>4, <1>6

(* Any term can be split off, not only the one the fold picks.             *)
LEMMA SumSplit ==
  ASSUME NEW D, IsFiniteSet(D), NEW fun, \A x \in D : fun[x] \in Int, NEW d \in D
  PROVE  SumFunctionOnSet(fun, D) = fun[d] + SumFunctionOnSet(fun, D \ {d})
<1> DEFINE Total(s) == SumFunctionOnSet(fun, s)
           P == {s \in SUBSET D : \A x \in s : Total(s) = fun[x] + Total(s \ {x})}
<1>1. {} \in P
  OBVIOUS
<1>2. ASSUME NEW s \in SUBSET D, s # {}, \A x \in s : s \ {x} \in P
      PROVE  s \in P
  <2> SUFFICES ASSUME NEW x \in s PROVE Total(s) = fun[x] + Total(s \ {x})
    BY <1>2
  <2>1. IsFiniteSet(s) /\ \A y \in s : fun[y] \in Int
    BY FS_Subset
  <2>2. PICK y \in s : Total(s) = fun[y] + Total(s \ {y})
    BY <1>2, <2>1, SumPicked
  <2>3. CASE x = y
    BY <2>2, <2>3
  <2>4. CASE x # y
    <3> DEFINE rest == (s \ {x}) \ {y}
    <3>1. Total(s \ {y}) = fun[x] + Total((s \ {y}) \ {x}) /\ Total(s \ {x}) = fun[y] + Total(rest)
      BY <1>2, <2>4
    <3>2. (s \ {y}) \ {x} = rest
      OBVIOUS
    <3>3. Total(rest) \in Int
      <4>1. IsFiniteSet(rest) /\ \A z \in rest : fun[z] \in Int
        BY FS_Subset
      <4> QED BY <4>1, SumType
    <3>4. Total(s) = fun[y] + (fun[x] + Total(rest))
      BY <2>2, <3>1, <3>2
    <3>5. fun[x] \in Int /\ fun[y] \in Int
      BY <2>1
    <3> HIDE DEF Total, rest
    <3> QED BY <3>1, <3>3, <3>4, <3>5
  <2> QED BY <2>3, <2>4
<1>3. SUBSET D \subseteq P
  <2> HIDE DEF P
  <2> QED BY <1>1, <1>2, SubsetInduction
<1> QED BY <1>3

(* A sum of one term is that term.                                         *)
LEMMA SumOfOne ==
  ASSUME NEW x, NEW fun, fun[x] \in Int
  PROVE  SumFunctionOnSet(fun, {x}) = fun[x]
<1>1. IsFiniteSet({x}) /\ {x} \ {x} = {}
  BY FS_Singleton
<1>2. SumFunctionOnSet(fun, {x}) = fun[x] + SumFunctionOnSet(fun, {x} \ {x})
  BY <1>1, SumSplit
<1> QED BY <1>1, <1>2, SumEmpty

(* Counting is adding ones.                                                *)
LEMMA CountIsSum ==
  ASSUME NEW S, IsFiniteSet(S), NEW Q, NEW fun, \A x \in S : fun[x] = IF x \in Q THEN 1 ELSE 0
  PROVE  SumFunctionOnSet(fun, S) = Cardinality(S \cap Q)
<1> DEFINE P == {s \in SUBSET S : SumFunctionOnSet(fun, s) = Cardinality(s \cap Q)}
<1>1. {} \in P
  <2>1. {} \cap Q = {}
    OBVIOUS
  <2> QED BY <2>1, SumEmpty, FS_EmptySet
<1>2. ASSUME NEW s \in SUBSET S, s # {}, \A x \in s : s \ {x} \in P
      PROVE  s \in P
  <2>1. PICK x \in s : TRUE
    BY <1>2
  <2>2. IsFiniteSet(s) /\ IsFiniteSet(s \cap Q) /\ \A y \in s : fun[y] \in Int
    BY FS_Subset
  <2>3. SumFunctionOnSet(fun, s) = fun[x] + SumFunctionOnSet(fun, s \ {x})
    BY <2>2, SumSplit
  <2>4. SumFunctionOnSet(fun, s \ {x}) = Cardinality((s \ {x}) \cap Q)
    BY <1>2
  <2>5. (s \ {x}) \cap Q = (s \cap Q) \ {x}
    OBVIOUS
  <2>6. /\ Cardinality((s \cap Q) \ {x}) =
             IF x \in s \cap Q THEN Cardinality(s \cap Q) - 1 ELSE Cardinality(s \cap Q)
        /\ Cardinality(s \cap Q) \in Nat
    BY <2>2, FS_RemoveElement, FS_CardinalityType
  <2>7. fun[x] = IF x \in s \cap Q THEN 1 ELSE 0
    OBVIOUS
  <2>8. SumFunctionOnSet(fun, s) = Cardinality(s \cap Q)
    <3>1. SumFunctionOnSet(fun, s) = fun[x] + Cardinality((s \cap Q) \ {x})
      BY <2>3, <2>4, <2>5
    <3>2. CASE x \in s \cap Q
      <4>1. fun[x] = 1 /\ Cardinality((s \cap Q) \ {x}) = Cardinality(s \cap Q) - 1
        BY <2>6, <2>7, <3>2
      <4> QED BY <2>6, <3>1, <4>1
    <3>3. CASE x \notin s \cap Q
      <4>1. fun[x] = 0 /\ Cardinality((s \cap Q) \ {x}) = Cardinality(s \cap Q)
        BY <2>6, <2>7, <3>3
      <4> QED BY <2>6, <3>1, <4>1
    <3> QED BY <3>2, <3>3
  <2> QED BY <2>8
<1>3. SUBSET S \subseteq P
  <2> HIDE DEF P
  <2> QED BY <1>1, <1>2, SubsetInduction
<1> QED BY <1>3

(* Sums over disjoint sets add up to the sum over both.                    *)
LEMMA SumDisjoint ==
  ASSUME NEW A, NEW B, IsFiniteSet(A), IsFiniteSet(B), A \cap B = {},
         NEW fun, \A x \in A \cup B : fun[x] \in Int
  PROVE  SumFunctionOnSet(fun, A \cup B) = SumFunctionOnSet(fun, A) + SumFunctionOnSet(fun, B)
<1> DEFINE Total(s) == SumFunctionOnSet(fun, s)
           P == {s \in SUBSET B : Total(A \cup s) = Total(A) + Total(s)}
<1>1. Total(A) \in Int
  BY SumType
<1>2. {} \in P
  <2>1. A \cup {} = A
    OBVIOUS
  <2> QED BY <1>1, <2>1, SumEmpty
<1>3. ASSUME NEW s \in SUBSET B, s # {}, \A x \in s : s \ {x} \in P
      PROVE  s \in P
  <2>1. PICK x \in s : TRUE
    BY <1>3
  <2>2. /\ IsFiniteSet(s) /\ IsFiniteSet(A \cup s) /\ IsFiniteSet(s \ {x})
        /\ \A y \in A \cup s : fun[y] \in Int
    BY FS_Subset, FS_Union
  <2>3. Total(A \cup s) = fun[x] + Total((A \cup s) \ {x})
    BY <2>2, SumSplit
  <2>4. Total(s) = fun[x] + Total(s \ {x})
    BY <2>2, SumSplit
  <2>5. (A \cup s) \ {x} = A \cup (s \ {x})
    OBVIOUS
  <2>6. Total(A \cup (s \ {x})) = Total(A) + Total(s \ {x})
    BY <1>3
  <2>7. Total(s \ {x}) \in Int /\ fun[x] \in Int
    BY <2>2, SumType
  <2>8. Total(A \cup s) = fun[x] + (Total(A) + Total(s \ {x}))
    BY <2>3, <2>5, <2>6
  <2>9. Total(A \cup s) = Total(A) + Total(s)
    <3> HIDE DEF Total
    <3> QED BY <1>1, <2>4, <2>7, <2>8
  <2> QED BY <2>9
<1>4. SUBSET B \subseteq P
  <2> HIDE DEF P
  <2> QED BY <1>2, <1>3, SubsetInduction
<1> QED BY <1>4

(* The sets part[t] cut S into disjoint parts, one for each t in T.        *)
Cuts(part, T, S) ==
  /\ \A t \in T : part[t] \subseteq S
  /\ \A x \in S : \E t \in T : x \in part[t]
  /\ \A t, u \in T : \A x \in S : x \in part[t] /\ x \in part[u] => t = u

(* A sum of the sums of disjoint parts is the whole sum.                   *)
LEMMA SumOfParts ==
  ASSUME NEW S, NEW T, IsFiniteSet(S), IsFiniteSet(T), NEW part, Cuts(part, T, S),
         NEW fun, \A x \in S : fun[x] \in Int,
         NEW gun, \A t \in T : gun[t] = SumFunctionOnSet(fun, part[t])
  PROVE  SumFunctionOnSet(gun, T) = SumFunctionOnSet(fun, S)
<1> DEFINE Parts(s) == {x \in S : \E t \in s : x \in part[t]}
           P == {s \in SUBSET T : SumFunctionOnSet(gun, s) = SumFunctionOnSet(fun, Parts(s))}
<1>1. \A s \in SUBSET S : IsFiniteSet(s) /\ \A x \in s : fun[x] \in Int
  BY FS_Subset
<1>2. \A t \in T : gun[t] \in Int
  <2> SUFFICES ASSUME NEW t \in T PROVE gun[t] \in Int
    OBVIOUS
  <2>1. IsFiniteSet(part[t]) /\ \A x \in part[t] : fun[x] \in Int
    BY <1>1 DEF Cuts
  <2> QED BY <2>1, SumType
<1>3. {} \in P
  <2>1. Parts({}) = {}
    OBVIOUS
  <2> QED BY <2>1, SumEmpty
<1>4. ASSUME NEW s \in SUBSET T, s # {}, \A t \in s : s \ {t} \in P
      PROVE  s \in P
  <2>1. PICK t \in s : TRUE
    BY <1>4
  <2>2. IsFiniteSet(s) /\ \A u \in s : gun[u] \in Int
    BY <1>2, FS_Subset
  <2>3. SumFunctionOnSet(gun, s) = gun[t] + SumFunctionOnSet(gun, s \ {t})
    BY <2>2, SumSplit
  <2>4. SumFunctionOnSet(gun, s \ {t}) = SumFunctionOnSet(fun, Parts(s \ {t}))
    BY <1>4
  <2>5. Parts(s) = part[t] \cup Parts(s \ {t}) /\ part[t] \cap Parts(s \ {t}) = {}
    BY DEF Cuts
  <2>6. SumFunctionOnSet(fun, Parts(s)) =
          SumFunctionOnSet(fun, part[t]) + SumFunctionOnSet(fun, Parts(s \ {t}))
    <3>1. /\ IsFiniteSet(part[t]) /\ IsFiniteSet(Parts(s \ {t}))
          /\ \A x \in part[t] \cup Parts(s \ {t}) : fun[x] \in Int
      BY <1>1 DEF Cuts
    <3> HIDE DEF Parts
    <3>2. ASSUME NEW A, NEW B, IsFiniteSet(A), IsFiniteSet(B), A \cap B = {},
                 \A x \in A \cup B : fun[x] \in Int
          PROVE  SumFunctionOnSet(fun, A \cup B) =
                   SumFunctionOnSet(fun, A) + SumFunctionOnSet(fun, B)
      BY <3>2, SumDisjoint
    <3> QED BY <2>5, <3>1, <3>2
  <2> QED BY <2>3, <2>4, <2>6
<1>5. SUBSET T \subseteq P
  <2> HIDE DEF P
  <2> QED BY <1>3, <1>4, SubsetInduction
<1>6. Parts(T) = S
  BY DEF Cuts
<1> QED BY <1>5, <1>6

(* f pairs every element of S with one of T, and none of T is left over.   *)
Pairs(f, S, T) ==
  /\ \A x, y \in S : f[x] = f[y] => x = y
  /\ \A x \in S : f[x] \in T
  /\ \A t \in T : \E x \in S : t = f[x]

(* Sets whose elements can be paired have as many of them.                 *)
LEMMA CountOfImage ==
  ASSUME NEW S, IsFiniteSet(S), NEW f, NEW T, Pairs(f, S, T)
  PROVE  IsFiniteSet(T) /\ Cardinality(T) = Cardinality(S)
<1> DEFINE map == [x \in S |-> f[x]]
<1>1. map \in Bijection(S, T)
  BY DEF Pairs, Bijection, Injection, Surjection, IsInjective
<1>2. ExistsBijection(S, T)
  BY <1>1 DEF ExistsBijection
<1> QED BY <1>2, FS_Bijection

(* A sum over one of two paired sets is the sum over the other.            *)
LEMMA SumOfImage ==
  ASSUME NEW S, IsFiniteSet(S), NEW f, NEW T, Pairs(f, S, T),
         NEW fun, \A x \in S : fun[x] \in Int, NEW gun, \A x \in S : gun[f[x]] = fun[x]
  PROVE  SumFunctionOnSet(gun, T) = SumFunctionOnSet(fun, S)
<1> DEFINE part == [t \in T |-> {x \in S : f[x] = t}]
<1>1. IsFiniteSet(T)
  BY CountOfImage
<1>2. \A t \in T : gun[t] = SumFunctionOnSet(fun, part[t])
  <2> SUFFICES \A y \in S : gun[f[y]] = SumFunctionOnSet(fun, part[f[y]])
    <3> HIDE DEF part
    <3> QED BY DEF Pairs
  <2> TAKE y \in S
  <2>1. part[f[y]] = {y}
    BY DEF Pairs
  <2>2. fun[y] \in Int /\ gun[f[y]] = fun[y]
    OBVIOUS
  <2>3. SumFunctionOnSet(fun, {y}) = fun[y]
    BY <2>2, SumOfOne
  <2> QED BY <2>1, <2>2, <2>3
<1>3. Cuts(part, T, S)
  BY DEF Cuts, Pairs
<1>4. \A x \in S : fun[x] \in Int
  OBVIOUS
<1> HIDE DEF part
<1> QED BY <1>1, <1>2, <1>3, <1>4, SumOfParts

(* More terms, none of them negative, make no smaller a sum.               *)
LEMMA SumOfMore ==
  ASSUME NEW T, IsFiniteSet(T), NEW S \in SUBSET T,
         NEW fun, \A x \in T : fun[x] \in Nat, NEW gun, \A x \in S : gun[x] = fun[x]
  PROVE  SumFunctionOnSet(gun, S) <= SumFunctionOnSet(fun, T)
<1> DEFINE Part(s) == SumFunctionOnSet(gun, s \cap S)
           Total(s) == SumFunctionOnSet(fun, s)
           P == {s \in SUBSET T : Part(s) <= Total(s)}
<1>1. {} \in P
  <2>1. {} \cap S = {}
    OBVIOUS
  <2> QED BY <2>1, SumEmpty
<1>2. ASSUME NEW s \in SUBSET T
      PROVE  IsFiniteSet(s) /\ IsFiniteSet(s \cap S) /\ Part(s) \in Int /\ Total(s) \in Int
  <2>1. IsFiniteSet(s) /\ IsFiniteSet(s \cap S)
    BY FS_Subset
  <2>2. (\A x \in s \cap S : gun[x] \in Int) /\ (\A x \in s : fun[x] \in Int)
    OBVIOUS
  <2> QED BY <2>1, <2>2, SumType
<1>3. ASSUME NEW s \in SUBSET T, s # {}, \A x \in s : s \ {x} \in P
      PROVE  s \in P
  <2>1. PICK x \in s : TRUE
    BY <1>3
  <2> DEFINE rest == s \ {x}
  <2>2. /\ Part(rest) <= Total(rest) /\ fun[x] \in Nat
        /\ Part(rest) \in Int /\ Total(rest) \in Int
    BY <1>2, <1>3
  <2>3. Total(s) = fun[x] + Total(rest)
    <3>1. IsFiniteSet(s)
      BY <1>3, FS_Subset
    <3>2. \A y \in s : fun[y] \in Int
      OBVIOUS
    <3> QED BY <3>1, <3>2, SumSplit
  <2>4. CASE x \in S
    <3>1. IsFiniteSet(s \cap S) /\ (\A y \in s \cap S : gun[y] \in Int) /\ x \in s \cap S
      BY <1>2, <2>4
    <3>2. Part(s) = gun[x] + SumFunctionOnSet(gun, (s \cap S) \ {x})
      BY <3>1, SumSplit
    <3>3. (s \cap S) \ {x} = rest \cap S /\ gun[x] = fun[x]
      BY <2>4
    <3>4. Part(s) = fun[x] + Part(rest)
      BY <3>2, <3>3
    <3> HIDE DEF Part, Total, rest
    <3>5. Part(s) <= Total(s)
      BY <2>2, <2>3, <3>4
    <3> QED BY <3>5
  <2>5. CASE x \notin S
    <3>1. s \cap S = rest \cap S
      BY <2>5
    <3>2. Part(s) = Part(rest)
      BY <3>1
    <3> HIDE DEF Part, Total, rest
    <3>3. Part(s) <= Total(s)
      BY <2>2, <2>3, <3>2
    <3> QED BY <3>3
  <2> QED BY <2>4, <2>5
<1>4. SUBSET T \subseteq P
  <2> HIDE DEF P
  <2> QED BY <1>1, <1>3, SubsetInduction
<1>5. T \cap S = S
  OBVIOUS
<1> QED BY <1>4, <1>5

=============================================================================
