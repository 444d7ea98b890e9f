-------------------------- MODULE ContextWindow_proofs --------------------------
(***************************************************************************)
(* The loop of _within_budget, for every list and every budget: it keeps   *)
(* the largest run of newest emails that fits, and over a suffix or a      *)
(* prefix of a list it does what it does over the whole.                   *)
(***************************************************************************)
EXTENDS ContextWindow, FoldLemmas, SequenceTheorems

-----------------------------------------------------------------------------
(* The loop, turn by turn *)

Acc == [kept : Nat, used : Nat, stopped : BOOLEAN]

(* What an email costs: a quarter of its length and the overhead.          *)
LEMMA EmailCostType == ASSUME NEW chars \in Nat
                       PROVE  EmailCost(chars) \in Nat /\ EmailCost(chars) = 40 + (chars \div 4)
BY DEF EmailCost, EstimateTokens, CharsPerToken, PerEmailOverheadTokens

(* One turn: the email is kept, or the loop stops for good.                *)
LEMMA TurnResult ==
  ASSUME NEW chars \in Nat, NEW acc \in Acc
  PROVE  /\ KeepNext(chars, acc) \in Acc
         /\ acc.stopped \/ OverBudget(chars, acc) =>
              KeepNext(chars, acc) = [kept |-> acc.kept, used |-> acc.used, stopped |-> TRUE]
         /\ ~(acc.stopped \/ OverBudget(chars, acc)) =>
              KeepNext(chars, acc) =
                [kept |-> acc.kept + 1, used |-> acc.used + EmailCost(chars), stopped |-> FALSE]
<1>1. /\ acc.kept \in Nat /\ acc.used \in Nat /\ acc.stopped \in BOOLEAN
      /\ acc = [kept |-> acc.kept, used |-> acc.used, stopped |-> acc.stopped]
  BY DEF Acc
<1>2. CASE acc.stopped \/ OverBudget(chars, acc)
  <2>1. KeepNext(chars, acc) = [acc EXCEPT !.stopped = TRUE]
    BY <1>2 DEF KeepNext
  <2>2. KeepNext(chars, acc) = [kept |-> acc.kept, used |-> acc.used, stopped |-> TRUE]
    BY <1>1, <2>1
  <2> QED BY <1>1, <1>2, <2>2 DEF Acc
<1>3. CASE ~(acc.stopped \/ OverBudget(chars, acc))
  <2>1. KeepNext(chars, acc) =
          [acc EXCEPT !.kept = acc.kept + 1, !.used = acc.used + EmailCost(chars)]
    BY <1>3 DEF KeepNext
  <2>2. KeepNext(chars, acc) =
          [kept |-> acc.kept + 1, used |-> acc.used + EmailCost(chars), stopped |-> FALSE]
    BY <1>1, <1>3, <2>1
  <2> QED BY <1>1, <1>3, <2>2, EmailCostType DEF Acc
<1> QED BY <1>2, <1>3

(* The least element is what Min chooses.                                  *)
LEMMA MinOf ==
  ASSUME NEW S \in SUBSET Nat, NEW m \in S, \A x \in S : m <= x
  PROVE  Min(S) = m
<1>1. \A n \in S : (\A x \in S : n <= x) => n = m
  <2> SUFFICES ASSUME NEW n \in S, \A x \in S : n <= x PROVE n = m
    OBVIOUS
  <2>1. n <= m /\ m <= n /\ n \in Nat /\ m \in Nat
    OBVIOUS
  <2> QED BY <2>1
<1>2. \E n \in S : \A x \in S : n <= x
  OBVIOUS
<1> QED BY <1>1, <1>2 DEF Min

(* turns[n] is the loop's state once the n newest emails are seen.         *)
LoopTurns(turns, b) ==
  /\ turns \in [0 .. Len(b) -> Acc]
  /\ turns[0] = NothingKept
  /\ \A n \in 0 .. Len(b) - 1 : turns[n + 1] = KeepNext(b[Len(b) - n], turns[n])

(* The fold of _within_budget is a loop: its turns lead to its result.     *)
LEMMA LoopRuns ==
  ASSUME NEW b \in Seq(Nat)
  PROVE  \E turns : LoopTurns(turns, b) /\ KeptCount(b) = turns[Len(b)].kept
<1> DEFINE D == 1 .. Len(b)
           Turn(g, s) == IF s = {} THEN NothingKept
                         ELSE KeepNext(b[Min(s)], g[s \ {Min(s)}])
           loop == CHOOSE g : g = [s \in SUBSET D |-> Turn(g, s)]
           pick == [s \in SUBSET D |-> Min(s)]
           op == [pair \in D \X Acc |-> KeepNext(b[pair[1]], pair[2])]
<1>1. IsFiniteSet(D) /\ Len(b) \in Nat /\ D = DOMAIN b
  BY FS_Interval
<1>2. KeptCount(b) = loop[D].kept
  BY <1>1 DEF KeptCount, FoldRight, MapThenFoldSet
<1>3. \A s \in SUBSET D : s # {} => Min(s) \in s
  <2> SUFFICES ASSUME NEW s \in SUBSET D, s # {} PROVE Min(s) \in s
    OBVIOUS
  <2>1. s \in SUBSET Nat
    BY <1>1
  <2>2. PICK m \in s : \A x \in s : m <= x
    BY <2>1, LeastNumber
  <2> QED BY <2>1, <2>2, MinOf
<1>4. Picks(pick, D)
  <2> HIDE DEF D
  <2> QED BY <1>3 DEF Picks
<1>5. PICK h : Folds(h, D, pick, NothingKept, op)
  BY <1>1, <1>4, FoldExists
<1>6. \A s \in SUBSET D : h[s] \in Acc
  <2>1. NothingKept \in Acc
    BY DEF NothingKept, Acc
  <2>2. \A x \in D, v \in Acc : op[<<x, v>>] \in Acc
    BY <1>1, TurnResult
  <2> HIDE DEF D, pick, op, loop
  <2> QED BY <1>1, <1>4, <1>5, <2>1, <2>2, FoldType, Zenon
<1>7. h = [s \in SUBSET D |-> Turn(h, s)]
  <2>1. \A s \in SUBSET D : s # {} => op[<<pick[s], h[s \ {pick[s]}]>>] = Turn(h, s)
    BY <1>3, <1>6
  <2> HIDE DEF D, op
  <2> QED BY <1>5, <2>1 DEF Folds
<1>8. loop = [s \in SUBSET D |-> Turn(loop, s)]
  <2> HIDE DEF D
  <2> QED BY <1>7
<1> HIDE DEF loop
<1> DEFINE newest(n) == (Len(b) - n + 1) .. Len(b)
           turns == [n \in 0 .. Len(b) |-> loop[newest(n)]]
<1>9. loop[{}] = NothingKept /\ NothingKept \in Acc
  BY <1>8 DEF NothingKept, Acc
<1>10. \A n \in 0 .. Len(b) - 1 :
         loop[newest(n + 1)] = KeepNext(b[Len(b) - n], loop[newest(n)])
  <2> SUFFICES ASSUME NEW n \in 0 .. Len(b) - 1
               PROVE  loop[newest(n + 1)] = KeepNext(b[Len(b) - n], loop[newest(n)])
    OBVIOUS
  <2>1. Len(b) - n \in newest(n + 1) /\ \A x \in newest(n + 1) : Len(b) - n <= x
    BY <1>1
  <2>2. newest(n + 1) \in SUBSET D /\ newest(n + 1) \in SUBSET Nat /\ newest(n + 1) # {}
    <3>1. newest(n + 1) \subseteq D /\ D \subseteq Nat
      BY <1>1
    <3> HIDE DEF newest, D
    <3> QED BY <2>1, <3>1
  <2>3. Min(newest(n + 1)) = Len(b) - n
    <3> HIDE DEF newest
    <3> QED BY <2>1, <2>2, MinOf
  <2>4. newest(n + 1) \ {Len(b) - n} = newest(n)
    BY <1>1
  <2> HIDE DEF newest, D
  <2> QED BY <1>8, <2>2, <2>3, <2>4
<1>11. \A n \in 0 .. Len(b) : loop[newest(n)] \in Acc
  <2> DEFINE S == {n \in Nat : n <= Len(b) => loop[newest(n)] \in Acc}
  <2>1. 0 \in S
    <3>1. newest(0) = {}
      BY <1>1
    <3> QED BY <1>9, <3>1
  <2>2. ASSUME NEW n \in Nat, n \in S
        PROVE  n + 1 \in S
    <3> SUFFICES ASSUME n + 1 <= Len(b) PROVE loop[newest(n + 1)] \in Acc
      OBVIOUS
    <3>1. n \in 0 .. Len(b) - 1 /\ b[Len(b) - n] \in Nat
      BY <1>1
    <3>2. loop[newest(n)] \in Acc
      BY <1>1, <2>2, <3>1
    <3> HIDE DEF newest
    <3> QED BY <1>10, <3>1, <3>2, TurnResult
  <2>3. Nat \subseteq S
    <3> HIDE DEF S
    <3> QED BY <2>1, <2>2, NumberInduction
  <2> QED BY <1>1, <2>3
<1>12. LoopTurns(turns, b)
  <2>1. turns[0] = NothingKept
    <3>1. newest(0) = {}
      BY <1>1
    <3> QED BY <1>1, <1>9, <3>1
  <2>2. \A n \in 0 .. Len(b) - 1 : turns[n + 1] = KeepNext(b[Len(b) - n], turns[n])
    <3>1. \A n \in 0 .. Len(b) - 1 : n \in 0 .. Len(b) /\ n + 1 \in 0 .. Len(b)
      BY <1>1
    <3> HIDE DEF newest
    <3> QED BY <1>10, <3>1
  <2> HIDE DEF newest
  <2> QED BY <1>11, <2>1, <2>2 DEF LoopTurns
<1>13. KeptCount(b) = turns[Len(b)].kept
  <2>1. newest(Len(b)) = D
    BY <1>1
  <2> QED BY <1>1, <1>2, <2>1
<1> HIDE DEF turns
<1> QED BY <1>12, <1>13

-----------------------------------------------------------------------------
(* The largest run that fits *)

(* The cost of the newest emails, one more at a time.                      *)
LEMMA CostOfNewest ==
  ASSUME NEW b \in Seq(Nat), NEW n \in 0 .. Len(b)
  PROVE  /\ NewestCost(b, n) \in Int
         /\ n = 0 => NewestCost(b, n) = 0
         /\ n < Len(b) =>
              NewestCost(b, n + 1) = NewestCost(b, n) + EmailCost(b[Len(b) - n])
<1> DEFINE L == Len(b)
           run(k) == (L - k + 1) .. L
           cost == [i \in DOMAIN b |-> 40 + (b[i] \div 4)]
<1>1. L \in Nat /\ DOMAIN b = 1 .. L /\ n \in Nat /\ \A i \in 1 .. L : b[i] \in Nat
  OBVIOUS
<1>2. \A k \in 0 .. L : IsFiniteSet(run(k)) /\ \A i \in run(k) : cost[i] \in Int
  <2> SUFFICES ASSUME NEW k \in 0 .. L
               PROVE  IsFiniteSet(run(k)) /\ \A i \in run(k) : cost[i] \in Int
    OBVIOUS
  <2>1. IsFiniteSet(run(k))
    BY <1>1, FS_Interval
  <2>2. \A i \in run(k) : i \in DOMAIN b /\ b[i] \in Nat
    BY <1>1
  <2> QED BY <2>1, <2>2
<1>3. \A k : NewestCost(b, k) = SumFunctionOnSet(cost, run(k))
  BY DEF NewestCost
<1>4. NewestCost(b, n) \in Int
  <2> HIDE DEF run, cost
  <2> QED BY <1>2, <1>3, SumType
<1>5. ASSUME n = 0
      PROVE  NewestCost(b, n) = 0
  <2>1. run(n) = {}
    BY <1>1, <1>5
  <2> QED BY <1>3, <2>1, SumEmpty
<1>6. ASSUME n < L
      PROVE  NewestCost(b, n + 1) = NewestCost(b, n) + EmailCost(b[L - n])
  <2>1. L - n \in run(n + 1) /\ n + 1 \in 0 .. L /\ run(n + 1) \ {L - n} = run(n)
    <3>1. (L - (n + 1)) + 1 = L - n /\ (L - n) + 1 = L - n + 1 /\ L - n \in Nat /\ L - n <= L
      BY <1>1, <1>6
    <3> HIDE DEF L
    <3> QED BY <1>1, <1>6, <3>1
  <2>2. SumFunctionOnSet(cost, run(n + 1)) = cost[L - n] + SumFunctionOnSet(cost, run(n))
    <3> DEFINE D == run(n + 1)
               d == L - n
    <3>1. IsFiniteSet(D) /\ (\A i \in D : cost[i] \in Int) /\ d \in D /\ D \ {d} = run(n)
      BY <1>2, <2>1
    <3> HIDE DEF D, d, run, cost
    <3>2. SumFunctionOnSet(cost, D) = cost[d] + SumFunctionOnSet(cost, D \ {d})
      BY <3>1, SumSplit
    <3> QED BY <3>1, <3>2 DEF D, d
  <2>3. L - n \in DOMAIN b
    BY <1>1, <1>6
  <2>4. cost[L - n] = EmailCost(b[L - n]) /\ EmailCost(b[L - n]) \in Nat
    BY <1>1, <2>3, EmailCostType
  <2>5. NewestCost(b, n + 1) = EmailCost(b[L - n]) + NewestCost(b, n)
    BY <1>3, <2>2, <2>4
  <2> HIDE DEF L
  <2> QED BY <1>4, <2>4, <2>5
<1> QED BY <1>4, <1>5, <1>6

(* After n turns: what is kept fits, and no longer run of the n does.      *)
TurnSound(acc, b, n) ==
  /\ acc.kept <= n /\ (n > 0 => acc.kept > 0)
  /\ acc.stopped <=> acc.kept < n
  /\ acc.used = NewestCost(b, acc.kept)
  /\ acc.kept > 1 => NewestCost(b, acc.kept) <= MaxInputTokens
  /\ \A m \in acc.kept + 1 .. n : NewestCost(b, m) > MaxInputTokens

(* One turn of the loop keeps what is known of it.                         *)
LEMMA TurnKeepsSound ==
  ASSUME NEW b \in Seq(Nat), NEW n \in 0 .. Len(b) - 1, NEW acc \in Acc,
         TurnSound(acc, b, n)
  PROVE  TurnSound(KeepNext(b[Len(b) - n], acc), b, n + 1)
<1> DEFINE chars == b[Len(b) - n]
           next == KeepNext(chars, acc)
<1>1. /\ n \in Nat /\ n + 1 \in 0 .. Len(b) /\ n \in 0 .. Len(b) /\ n < Len(b)
      /\ chars \in Nat /\ MaxInputTokens \in Nat
      /\ acc.kept \in Nat /\ acc.used \in Nat /\ acc.stopped \in BOOLEAN
      /\ acc.kept \in 0 .. Len(b)
  BY ContextAssumption DEF Acc, TurnSound
<1>2. /\ NewestCost(b, n + 1) = NewestCost(b, n) + EmailCost(chars)
      /\ NewestCost(b, n) \in Int /\ NewestCost(b, n + 1) \in Int
      /\ EmailCost(chars) \in Nat
  BY <1>1, CostOfNewest, EmailCostType
<1>3. \A m \in acc.kept + 1 .. n + 1 : m \in acc.kept + 1 .. n \/ m = n + 1
  BY <1>1
<1> HIDE DEF chars
<1>4. CASE acc.stopped
  <2>1. next = [kept |-> acc.kept, used |-> acc.used, stopped |-> TRUE]
    BY <1>1, <1>4, TurnResult
  <2>2. NewestCost(b, n) > MaxInputTokens
    BY <1>1, <1>4 DEF TurnSound
  <2>3. NewestCost(b, n + 1) > MaxInputTokens
    BY <1>1, <1>2, <2>2
  <2> QED BY <1>1, <1>3, <1>4, <2>1, <2>3 DEF TurnSound, chars
<1>5. CASE ~acc.stopped /\ OverBudget(chars, acc)
  <2>1. next = [kept |-> acc.kept, used |-> acc.used, stopped |-> TRUE]
    BY <1>1, <1>5, TurnResult
  <2>2. acc.kept = n /\ acc.used = NewestCost(b, n)
    BY <1>1, <1>5 DEF TurnSound
  <2>3. NewestCost(b, n + 1) > MaxInputTokens /\ acc.kept > 0
    BY <1>2, <1>5, <2>2 DEF OverBudget
  <2> QED BY <1>1, <1>3, <2>1, <2>2, <2>3 DEF TurnSound, chars
<1>6. CASE ~acc.stopped /\ ~OverBudget(chars, acc)
  <2>1. next = [kept |-> acc.kept + 1, used |-> acc.used + EmailCost(chars), stopped |-> FALSE]
    BY <1>1, <1>6, TurnResult
  <2>2. acc.kept = n /\ acc.used = NewestCost(b, n)
    BY <1>1, <1>6 DEF TurnSound
  <2>3. n > 0 => NewestCost(b, n + 1) <= MaxInputTokens
    BY <1>1, <1>2, <1>6, <2>2 DEF OverBudget
  <2>4. next.kept = n + 1 /\ next.used = NewestCost(b, n + 1) /\ next.stopped = FALSE
    BY <1>2, <2>1, <2>2
  <2> HIDE DEF next
  <2> QED BY <1>1, <2>3, <2>4 DEF TurnSound, next, chars
<1> QED BY <1>4, <1>5, <1>6

(* Every turn of the loop is sound.                                        *)
LEMMA LoopSound ==
  ASSUME NEW b \in Seq(Nat), NEW turns, LoopTurns(turns, b), NEW n \in 0 .. Len(b)
  PROVE  TurnSound(turns[n], b, n)
<1> DEFINE S == {k \in Nat : k <= Len(b) => TurnSound(turns[k], b, k)}
<1>1. 0 \in S
  <2>1. Len(b) \in Nat /\ 0 \in 0 .. Len(b)
    OBVIOUS
  <2>2. NewestCost(b, 0) = 0
    BY <2>1, CostOfNewest
  <2> QED BY <2>2 DEF LoopTurns, TurnSound, NothingKept
<1>2. ASSUME NEW k \in Nat, k \in S
      PROVE  k + 1 \in S
  <2> SUFFICES ASSUME k + 1 <= Len(b) PROVE TurnSound(turns[k + 1], b, k + 1)
    OBVIOUS
  <2>1. k \in 0 .. Len(b) - 1 /\ k \in 0 .. Len(b)
    OBVIOUS
  <2>2. turns[k] \in Acc /\ turns[k + 1] = KeepNext(b[Len(b) - k], turns[k])
    BY <2>1 DEF LoopTurns
  <2>3. TurnSound(turns[k], b, k)
    BY <1>2, <2>1
  <2> QED BY <2>1, <2>2, <2>3, TurnKeepsSound
<1>3. Nat \subseteq S
  <2> HIDE DEF S
  <2> QED BY <1>1, <1>2, NumberInduction
<1> QED BY <1>3

(* The greatest element is what Max chooses.                               *)
LEMMA MaxOf ==
  ASSUME NEW S \in SUBSET Nat, NEW m \in S, \A x \in S : x <= m
  PROVE  Max(S) = m
<1>1. \A n \in S : (\A x \in S : n >= x) => n = m
  <2> SUFFICES ASSUME NEW n \in S, \A x \in S : n >= x PROVE n = m
    OBVIOUS
  <2>1. n <= m /\ m <= n /\ n \in Nat /\ m \in Nat
    OBVIOUS
  <2> QED BY <2>1
<1>2. \E n \in S : \A x \in S : n >= x
  OBVIOUS
<1> QED BY <1>1, <1>2 DEF Max

(* What the loop of _within_budget returns, for any list.                  *)
LEMMA KeptIsLargestFit == ASSUME NEW b \in Seq(Nat) PROVE KeptCount(b) = LargestFit(b)
<1>1. PICK turns : LoopTurns(turns, b) /\ KeptCount(b) = turns[Len(b)].kept
  BY LoopRuns
<1> DEFINE kept == KeptCount(b)
<1>2. Len(b) \in Nat /\ Len(b) \in 0 .. Len(b)
  OBVIOUS
<1>3. TurnSound(turns[Len(b)], b, Len(b)) /\ kept \in Nat
  BY <1>1, <1>2, LoopSound DEF LoopTurns, Acc
<1>4. CASE b = <<>>
  BY <1>2, <1>3, <1>1, <1>4 DEF LargestFit, TurnSound
<1>5. CASE b # <<>>
  <2> DEFINE S == {1} \cup {n \in 1 .. Len(b) : NewestCost(b, n) <= MaxInputTokens}
  <2>1. Len(b) > 0
    BY <1>5
  <2>2. S \in SUBSET Nat /\ kept \in S
    BY <1>1, <1>2, <1>3, <2>1 DEF TurnSound
  <2>3. \A x \in S : x <= kept
    <3> SUFFICES ASSUME NEW x \in S, kept < x PROVE FALSE
      BY <1>3, <2>2
    <3>1. x \in 1 .. Len(b) /\ NewestCost(b, x) <= MaxInputTokens
      BY <1>1, <1>2, <1>3, <2>1 DEF TurnSound
    <3>2. x \in kept + 1 .. Len(b) /\ NewestCost(b, x) \in Int
      BY <1>3, <3>1, CostOfNewest
    <3>3. NewestCost(b, x) > MaxInputTokens
      BY <1>1, <1>3, <3>2 DEF TurnSound
    <3> QED BY <3>1, <3>2, <3>3, ContextAssumption
  <2> HIDE DEF kept
  <2>4. Max(S) = kept
    <3> HIDE DEF S
    <3> QED BY <2>2, <2>3, MaxOf
  <2> QED BY <1>5, <2>4 DEF LargestFit, kept
<1> QED BY <1>4, <1>5

(* A turn only looks at its email: the loop over a suffix is the loop over *)
(* the whole list, cut short.                                              *)
LEMMA KeptOfSuffix ==
  ASSUME NEW b \in Seq(Nat), NEW a \in 0 .. Len(b)
  PROVE  \A new, all :
           new = KeptCount(SubSeq(b, a + 1, Len(b))) /\ all = KeptCount(b) =>
             /\ all \in 0 .. Len(b) /\ new \in 0 .. Len(b) - a
             /\ a < Len(b) => new > 0
             /\ new = IF all <= Len(b) - a THEN all ELSE Len(b) - a
<1> DEFINE suffix == SubSeq(b, a + 1, Len(b))
           M == Len(b) - a
<1>1. /\ Len(b) \in Nat /\ a \in Nat /\ M \in Nat /\ M \in 0 .. Len(b) /\ Len(b) \in 0 .. Len(b)
      /\ suffix \in Seq(Nat) /\ Len(suffix) = M
      /\ \A n \in 0 .. M - 1 : suffix[M - n] = b[Len(b) - n]
  <2>1. Len(b) \in Nat /\ a \in Nat /\ a <= Len(b)
    OBVIOUS
  <2>2. M \in Nat /\ M \in 0 .. Len(b) /\ Len(b) \in 0 .. Len(b)
    BY <2>1
  <2>3. suffix \in Seq(Nat) /\ Len(suffix) = M
    OBVIOUS
  <2>4. \A i \in 1 .. M : suffix[i] = b[a + i]
    OBVIOUS
  <2>5. ASSUME NEW n \in 0 .. M - 1
        PROVE  suffix[M - n] = b[Len(b) - n]
    <3>1. M - n \in 1 .. M /\ a + (M - n) = Len(b) - n
      BY <2>1, <2>2
    <3> HIDE DEF suffix, M
    <3>2. suffix[M - n] = b[a + (M - n)]
      BY <2>4, <3>1
    <3> QED BY <3>1, <3>2
  <2> HIDE DEF suffix, M
  <2> QED BY <2>1, <2>2, <2>3, <2>5
<1>2. PICK turns : LoopTurns(turns, b) /\ KeptCount(b) = turns[Len(b)].kept
  BY LoopRuns
<1>3. PICK short : LoopTurns(short, suffix) /\ KeptCount(suffix) = short[M].kept
  BY <1>1, LoopRuns
<1>4. short[M] = turns[M]
  <2> DEFINE S == {n \in Nat : n <= M => short[n] = turns[n]}
  <2>1. 0 \in S
    BY <1>2, <1>3 DEF LoopTurns
  <2>2. ASSUME NEW n \in Nat, n \in S
        PROVE  n + 1 \in S
    <3> SUFFICES ASSUME n + 1 <= M PROVE short[n + 1] = turns[n + 1]
      OBVIOUS
    <3>1. n \in 0 .. M - 1 /\ n \in 0 .. Len(b) - 1 /\ short[n] = turns[n]
      BY <1>1, <2>2
    <3>2. suffix[M - n] = b[Len(b) - n]
      BY <1>1, <3>1
    <3> HIDE DEF suffix, M
    <3>3. short[n + 1] = KeepNext(suffix[M - n], short[n])
      BY <1>1, <1>3, <3>1 DEF LoopTurns
    <3>4. turns[n + 1] = KeepNext(b[Len(b) - n], turns[n])
      BY <1>2, <3>1 DEF LoopTurns
    <3> QED BY <3>1, <3>2, <3>3, <3>4
  <2>3. Nat \subseteq S
    <3> HIDE DEF S
    <3> QED BY <2>1, <2>2, NumberInduction
  <2> QED BY <1>1, <2>3
<1>5. TurnSound(turns[M], b, M) /\ turns[M] \in Acc
  BY <1>1, <1>2, LoopSound DEF LoopTurns
<1>6. TurnSound(turns[Len(b)], b, Len(b)) /\ turns[Len(b)] \in Acc
  BY <1>1, <1>2, LoopSound DEF LoopTurns
(* Later turns keep what is kept, and nothing more once the loop stopped.  *)
<1>7. /\ turns[Len(b)].kept >= turns[M].kept
      /\ turns[M].stopped => turns[Len(b)].kept = turns[M].kept
  <2> DEFINE Onward(k) == /\ turns[k].kept >= turns[M].kept
                          /\ turns[M].stopped =>
                               turns[k].stopped /\ turns[k].kept = turns[M].kept
             S == {n \in Nat : n <= a => Onward(M + n)}
  <2>1. 0 \in S
    <3>1. M + 0 = M /\ turns[M].kept \in Nat
      BY <1>1, <1>5 DEF Acc
    <3> QED BY <3>1
  <2> HIDE DEF Onward
  <2>2. ASSUME NEW n \in Nat, n \in S
        PROVE  n + 1 \in S
    <3> SUFFICES ASSUME n + 1 <= a PROVE Onward(M + (n + 1))
      OBVIOUS
    <3> DEFINE k == M + n
               chars == b[Len(b) - k]
    <3>1. k \in 0 .. Len(b) - 1 /\ k \in 0 .. Len(b) /\ M + (n + 1) = k + 1 /\ chars \in Nat
      BY <1>1
    <3>2. Onward(k)
      BY <2>2
    <3> HIDE DEF k, M
    <3> USE DEF Onward
    <3>3. turns[k] \in Acc /\ turns[k + 1] = KeepNext(chars, turns[k])
      BY <1>2, <3>1 DEF LoopTurns
    <3> HIDE DEF chars
    <3>4. turns[k].kept \in Nat /\ turns[M].kept \in Nat
      BY <1>5, <3>3 DEF Acc
    <3>5. CASE turns[k].stopped \/ OverBudget(chars, turns[k])
      <4>1. turns[k + 1] = [kept |-> turns[k].kept, used |-> turns[k].used, stopped |-> TRUE]
        BY <3>1, <3>3, <3>5, TurnResult
      <4> QED BY <3>1, <3>2, <4>1
    <3>6. CASE ~(turns[k].stopped \/ OverBudget(chars, turns[k]))
      <4>1. turns[k + 1].kept = turns[k].kept + 1
        BY <3>1, <3>3, <3>6, TurnResult
      <4> QED BY <3>1, <3>2, <3>4, <3>6, <4>1
    <3> QED BY <3>5, <3>6
  <2>3. Nat \subseteq S
    <3> HIDE DEF S
    <3> QED BY <2>1, <2>2, NumberInduction
  <2>4. Onward(M + a)
    <3>1. a \in Nat /\ a <= a
      BY <1>1
    <3>2. a \in S
      <4> HIDE DEF S
      <4> QED BY <2>3, <3>1
    <3> QED BY <3>1, <3>2
  <2>5. M + a = Len(b)
    <3> HIDE DEF suffix
    <3> QED BY <1>1
  <2> QED BY <2>4, <2>5 DEF Onward
<1> SUFFICES ASSUME NEW new, NEW all,
                    new = KeptCount(SubSeq(b, a + 1, Len(b))), all = KeptCount(b)
             PROVE  /\ all \in 0 .. Len(b) /\ new \in 0 .. Len(b) - a
                    /\ a < Len(b) => new > 0
                    /\ new = IF all <= Len(b) - a THEN all ELSE Len(b) - a
  OBVIOUS
<1>8. new = turns[M].kept /\ all = turns[Len(b)].kept
  BY <1>2, <1>3, <1>4
<1>9. /\ turns[M].kept \in Nat /\ turns[Len(b)].kept \in Nat
      /\ turns[M].kept <= M /\ (M > 0 => turns[M].kept > 0)
      /\ turns[M].stopped <=> turns[M].kept < M
      /\ turns[Len(b)].kept <= Len(b)
  BY <1>5, <1>6 DEF TurnSound, Acc
<1> HIDE DEF suffix, M
<1>10. /\ all \in 0 .. Len(b) /\ new \in 0 .. M
       /\ M > 0 => new > 0
       /\ new = IF all <= M THEN all ELSE M
  <2>1. new < M => all = new
    BY <1>7, <1>8, <1>9
  <2>2. /\ new \in Nat /\ all \in Nat /\ new <= M /\ (M > 0 => new > 0)
        /\ all <= Len(b) /\ all >= new
    BY <1>7, <1>8, <1>9
  <2> QED BY <1>1, <2>1, <2>2
<1>11. M = Len(b) - a /\ (a < Len(b) => M > 0)
  BY <1>1 DEF M
<1> QED BY <1>10, <1>11

-----------------------------------------------------------------------------
(* Lists that fit *)

\* The loop keeps all of the list.
Fits(b) == KeptCount(b) = Len(b)

(* A list fits when it is one email, or costs no more than the budget.     *)
LEMMA FitsByCost ==
  ASSUME NEW b \in Seq(Nat)
  PROVE  Fits(b) <=> Len(b) <= 1 \/ NewestCost(b, Len(b)) <= MaxInputTokens
<1>1. PICK turns : LoopTurns(turns, b) /\ KeptCount(b) = turns[Len(b)].kept
  BY LoopRuns
<1>2. Len(b) \in Nat /\ Len(b) \in 0 .. Len(b)
  OBVIOUS
<1>3. TurnSound(turns[Len(b)], b, Len(b)) /\ turns[Len(b)].kept \in Nat
  BY <1>1, <1>2, LoopSound DEF LoopTurns, Acc
<1>4. NewestCost(b, Len(b)) \in Int /\ MaxInputTokens \in Int
  BY <1>2, CostOfNewest, ContextAssumption
<1>5. ASSUME Fits(b)
      PROVE  Len(b) <= 1 \/ NewestCost(b, Len(b)) <= MaxInputTokens
  BY <1>1, <1>2, <1>3, <1>5 DEF TurnSound, Fits
<1>6. ASSUME ~Fits(b)
      PROVE  ~(Len(b) <= 1 \/ NewestCost(b, Len(b)) <= MaxInputTokens)
  <2>1. turns[Len(b)].kept < Len(b) /\ (Len(b) > 0 => turns[Len(b)].kept > 0)
    BY <1>1, <1>2, <1>3, <1>6 DEF TurnSound, Fits
  <2>2. Len(b) \in turns[Len(b)].kept + 1 .. Len(b)
    BY <1>2, <1>3, <2>1
  <2>3. NewestCost(b, Len(b)) > MaxInputTokens
    BY <1>3, <2>2 DEF TurnSound
  <2> QED BY <1>2, <1>3, <1>4, <2>1, <2>3
<1> QED BY <1>5, <1>6

(* The oldest emails of a list alone cost no more than all of it.          *)
LEMMA CostOfPrefix ==
  ASSUME NEW b \in Seq(Nat), NEW n \in 0 .. Len(b)
  PROVE  NewestCost(SubSeq(b, 1, n), n) <= NewestCost(b, Len(b))
<1> DEFINE oldest == SubSeq(b, 1, n)
           whole == [i \in DOMAIN b |-> 40 + (b[i] \div 4)]
           part == [i \in DOMAIN oldest |-> 40 + (oldest[i] \div 4)]
<1>1. Len(b) \in Nat /\ n \in Nat /\ n <= Len(b) /\ DOMAIN b = 1 .. Len(b)
  OBVIOUS
<1>2. Len(oldest) = n /\ DOMAIN oldest = 1 .. n /\ \A i \in 1 .. n : oldest[i] = b[i]
  OBVIOUS
<1>3. (n - n) + 1 = 1 /\ (Len(b) - Len(b)) + 1 = 1
  BY <1>1
<1>4. NewestCost(oldest, n) = SumFunctionOnSet(part, 1 .. n)
  <2> HIDE DEF oldest
  <2> QED BY <1>2, <1>3 DEF NewestCost
<1>5. NewestCost(b, Len(b)) = SumFunctionOnSet(whole, 1 .. Len(b))
  BY <1>3 DEF NewestCost
<1>6. \A i \in 1 .. Len(b) : whole[i] \in Nat
  <2> SUFFICES ASSUME NEW i \in 1 .. Len(b) PROVE whole[i] \in Nat
    OBVIOUS
  <2>1. b[i] \in Nat
    OBVIOUS
  <2> QED BY <1>1, <2>1
<1>7. \A i \in 1 .. n : part[i] = whole[i]
  <2> HIDE DEF oldest
  <2> QED BY <1>1, <1>2
<1>8. IsFiniteSet(1 .. Len(b)) /\ 1 .. n \in SUBSET (1 .. Len(b))
  BY <1>1, FS_Interval
<1> HIDE DEF oldest, whole, part
<1>9. SumFunctionOnSet(part, 1 .. n) <= SumFunctionOnSet(whole, 1 .. Len(b))
  BY <1>6, <1>7, <1>8, SumOfMore
<1> QED BY <1>4, <1>5, <1>9 DEF oldest

(* What a list is cut to fits when the list does: its oldest emails ...    *)
LEMMA PrefixFits ==
  ASSUME NEW b \in Seq(Nat), Fits(b), NEW n \in 0 .. Len(b)
  PROVE  Fits(SubSeq(b, 1, n))
<1> DEFINE oldest == SubSeq(b, 1, n)
<1>1. oldest \in Seq(Nat) /\ Len(oldest) = n /\ Len(b) \in Nat /\ n \in Nat /\ n <= Len(b)
  <2>1. \A i \in 1 .. n : b[i] \in Nat
    OBVIOUS
  <2> QED BY <2>1
<1>2. NewestCost(oldest, n) <= NewestCost(b, Len(b))
  BY CostOfPrefix
<1>3. /\ NewestCost(oldest, n) \in Int /\ NewestCost(b, Len(b)) \in Int
      /\ MaxInputTokens \in Int
  <2>1. n \in 0 .. Len(oldest) /\ Len(b) \in 0 .. Len(b)
    BY <1>1
  <2> HIDE DEF oldest
  <2> QED BY <1>1, <2>1, CostOfNewest, ContextAssumption
<1>4. Len(b) <= 1 \/ NewestCost(b, Len(b)) <= MaxInputTokens
  BY FitsByCost
<1> HIDE DEF oldest
<1>5. Len(oldest) <= 1 \/ NewestCost(oldest, Len(oldest)) <= MaxInputTokens
  BY <1>1, <1>2, <1>3, <1>4
<1>6. Fits(oldest)
  BY <1>1, <1>5, FitsByCost
<1> QED BY <1>6 DEF oldest

(* ... and its newest ones.                                                *)
LEMMA SuffixFits ==
  ASSUME NEW b \in Seq(Nat), Fits(b), NEW a \in 0 .. Len(b)
  PROVE  KeptCount(SubSeq(b, a + 1, Len(b))) = Len(b) - a
<1>1. Len(b) \in Nat /\ a \in Nat
  OBVIOUS
<1> QED BY <1>1, KeptOfSuffix DEF Fits

(* A prompt made of a list that fits leaves no email of its source out.    *)
LEMMA FittingPromptIsWhole ==
  ASSUME NEW b \in Seq(Nat), Fits(b), NEW analyzed \in Nat, NEW hasPrior
  PROVE  BuildRefreshContext(b, analyzed, hasPrior).selected =
           BuildRefreshContext(b, analyzed, hasPrior).source
<1> DEFINE incremental == IsIncremental(Len(b), analyzed, hasPrior)
           first == SourceStart(incremental, analyzed)
           kept == KeptCount(SubSeq(b, first, Len(b)))
           before == IF incremental THEN analyzed ELSE 0
<1>1. Len(b) \in Nat /\ before \in 0 .. Len(b) /\ first = before + 1
  BY DEF IsIncremental, SourceStart
<1>2. kept = Len(b) - before
  <2> HIDE DEF before, first
  <2> QED BY <1>1, SuffixFits
<1>3. {i \in first .. Len(b) : i > Len(b) - kept} = first .. Len(b)
  <2> HIDE DEF before, first, kept
  <2> QED BY <1>1, <1>2
<1> QED BY <1>3 DEF BuildRefreshContext

=============================================================================
