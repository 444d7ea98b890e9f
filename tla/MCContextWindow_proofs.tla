------------------------ MODULE MCContextWindow_proofs ------------------------
(***************************************************************************)
(* What a refresh sends, for every inbox, every high-water mark and every  *)
(* setting of the incremental mode: the two modes agree on the emails both *)
(* see, and an email out of order costs one email, not more.               *)
(***************************************************************************)
EXTENDS MCContextWindow, ContextWindow_proofs

-----------------------------------------------------------------------------
(* Refreshes of a growing inbox *)

(* What an insertion does: later elements move up by one.                  *)
LEMMA InsertedAt ==
  ASSUME NEW S, NEW s \in Seq(S), NEW place \in 1 .. Len(s), NEW e \in S
  PROVE  /\ InsertAt(s, place, e) \in Seq(S)
         /\ Len(InsertAt(s, place, e)) = Len(s) + 1
         /\ InsertAt(s, place, e)[place] = e
         /\ \A i \in 1 .. Len(s) + 1 :
              /\ i < place => InsertAt(s, place, e)[i] = s[i]
              /\ i > place => InsertAt(s, place, e)[i] = s[i - 1]
<1> DEFINE before == SubSeq(s, 1, place - 1)
           after == SubSeq(s, place, Len(s))
<1>1. /\ before \in Seq(S) /\ Len(before) = place - 1
      /\ \A i \in 1 .. place - 1 : before[i] = s[i]
  OBVIOUS
<1>2. /\ after \in Seq(S) /\ Len(after) = Len(s) - place + 1
      /\ \A i \in 1 .. Len(s) - place + 1 : after[i] = s[place + i - 1]
  OBVIOUS
<1>3. InsertAt(s, place, e) = before \o <<e>> \o after
  BY DEF InsertAt
<1> HIDE DEF before, after
<1> DEFINE upto == before \o <<e>>
<1>4. /\ upto \in Seq(S) /\ Len(upto) = place /\ upto[place] = e
      /\ \A i \in 1 .. place - 1 : upto[i] = s[i]
  BY <1>1
<1>5. Len(s) \in Nat /\ place \in Nat /\ Len(after) = Len(s) - place + 1
  BY <1>2
<1> HIDE DEF upto
<1>6. /\ upto \o after \in Seq(S) /\ Len(upto \o after) = Len(s) + 1
      /\ \A i \in 1 .. Len(s) + 1 :
           (upto \o after)[i] = IF i <= place THEN upto[i] ELSE after[i - place]
  BY <1>2, <1>4, <1>5
<1>7. \A i \in 1 .. Len(s) + 1 : i > place => after[i - place] = s[i - 1]
  <2> SUFFICES ASSUME NEW i \in 1 .. Len(s) + 1, i > place PROVE after[i - place] = s[i - 1]
    OBVIOUS
  <2>1. i - place \in 1 .. Len(s) - place + 1 /\ place + (i - place) - 1 = i - 1
    BY <1>5
  <2> QED BY <1>2, <2>1
<1>8. InsertAt(s, place, e) = upto \o after
  BY <1>3 DEF upto
<1> QED BY <1>4, <1>5, <1>6, <1>7, <1>8

(* What a late email can add to a set of positions.                        *)
LEMMA ShiftedByOne ==
  ASSUME NEW A \in SUBSET Nat, NEW B \in SUBSET Nat, IsFiniteSet(A), IsFiniteSet(B),
         NEW x, NEW place \in Nat, place \notin A \ {x},
         \A i \in A \ {x} : (IF i < place THEN i ELSE i - 1) \in B
  PROVE  Cardinality(A) <= Cardinality(B) + 1
<1> DEFINE shift == [i \in A \ {x} |-> IF i < place THEN i ELSE i - 1]
<1>1. shift \in Injection(A \ {x}, B)
  <2>1. shift \in [A \ {x} -> B]
    OBVIOUS
  <2>2. \A i, j \in A \ {x} : shift[i] = shift[j] => i = j
    OBVIOUS
  <2> HIDE DEF shift
  <2> QED BY <2>1, <2>2 DEF Injection, IsInjective
<1>2. Cardinality(A \ {x}) <= Cardinality(B)
  <2> HIDE DEF shift
  <2> QED BY <1>1, FS_Injection
<1>3. Cardinality(A \ {x}) = IF x \in A THEN Cardinality(A) - 1 ELSE Cardinality(A)
  BY FS_RemoveElement
<1>4. Cardinality(A) \in Nat /\ Cardinality(B) \in Nat
  BY FS_CardinalityType
<1> QED BY <1>2, <1>3, <1>4

Missed == {i \in 1 .. analyzed : ~handed[i]}
Resent == {i \in analyzed + 1 .. Len(bodies) : handed[i]}

WindowInv ==
  /\ bodies \in Seq(Nat) /\ handed \in Seq(BOOLEAN) /\ Len(handed) = Len(bodies)
  /\ analyzed \in 0 .. Len(bodies) /\ late \in Nat
  /\ Cardinality(Missed) <= late /\ Cardinality(Resent) <= late

(* What _build_refresh_context hands to the budget loop.                   *)
LEMMA Sources ==
  ASSUME WindowInv
  PROVE  /\ Context.incremental \in BOOLEAN
         /\ Context.incremental =>
              /\ 0 < analyzed /\ analyzed < Len(bodies)
              /\ Context.source = analyzed + 1 .. Len(bodies)
         /\ ~Context.incremental => Context.source = 1 .. Len(bodies)
BY DEF WindowInv, Context, BuildRefreshContext, IsIncremental, SourceStart

(* A set of positions is finite.                                           *)
LEMMA FinitePositions ==
  ASSUME NEW a \in Nat, NEW b \in Nat, NEW S \in SUBSET (a .. b)
  PROVE  IsFiniteSet(S) /\ Cardinality(S) \in Nat
<1>1. IsFiniteSet(a .. b)
  BY FS_Interval
<1>2. IsFiniteSet(S)
  BY <1>1, FS_Subset
<1> QED BY <1>2, FS_CardinalityType

(* An email that sinks below the mark adds one to both costs at most.      *)
LEMMA LateKeepsInv == ASSUME WindowInv, ReceiveLate PROVE WindowInv'
<1>1. PICK place \in 1 .. analyzed :
        /\ \E chars \in Bodies : bodies' = InsertAt(bodies, place, chars)
        /\ handed' = InsertAt(handed, place, FALSE)
  BY DEF ReceiveLate
<1>2. /\ late' = late + 1 /\ analyzed' = analyzed
      /\ Len(bodies) \in Nat /\ analyzed \in Nat /\ analyzed <= Len(bodies) /\ late \in Nat
      /\ place \in 1 .. Len(bodies) /\ place \in 1 .. Len(handed) /\ place \in Nat
      /\ Len(handed) = Len(bodies)
  BY DEF ReceiveLate, WindowInv
<1>3. bodies' \in Seq(Nat) /\ Len(bodies') = Len(bodies) + 1
  <2>1. PICK chars \in Bodies : bodies' = InsertAt(bodies, place, chars)
    BY <1>1
  <2>2. bodies \in Seq(Nat) /\ chars \in Nat
    BY InboxAssumption DEF WindowInv
  <2>3. /\ InsertAt(bodies, place, chars) \in Seq(Nat)
        /\ Len(InsertAt(bodies, place, chars)) = Len(bodies) + 1
    <3>1. bodies \in Seq(Nat) /\ place \in 1 .. Len(bodies) /\ chars \in Nat
      BY <1>2, <2>2
    <3> QED BY <3>1, InsertedAt
  <2> QED BY <2>1, <2>3
<1>4. /\ handed' \in Seq(BOOLEAN) /\ Len(handed') = Len(bodies) + 1
      /\ handed'[place] = FALSE
      /\ \A i \in 1 .. Len(bodies) + 1 :
           /\ i < place => handed'[i] = handed[i]
           /\ i > place => handed'[i] = handed[i - 1]
  <2> DEFINE new == InsertAt(handed, place, FALSE)
  <2>1. handed \in Seq(BOOLEAN) /\ FALSE \in BOOLEAN
    BY DEF WindowInv
  <2>2. /\ new \in Seq(BOOLEAN) /\ Len(new) = Len(handed) + 1 /\ new[place] = FALSE
        /\ \A i \in 1 .. Len(handed) + 1 :
             /\ i < place => new[i] = handed[i]
             /\ i > place => new[i] = handed[i - 1]
    <3>1. place \in 1 .. Len(handed)
      BY <1>2
    <3>2. ASSUME NEW S, handed \in Seq(S), NEW e \in S
          PROVE  /\ InsertAt(handed, place, e) \in Seq(S)
                 /\ Len(InsertAt(handed, place, e)) = Len(handed) + 1
                 /\ InsertAt(handed, place, e)[place] = e
                 /\ \A i \in 1 .. Len(handed) + 1 :
                      /\ i < place => InsertAt(handed, place, e)[i] = handed[i]
                      /\ i > place => InsertAt(handed, place, e)[i] = handed[i - 1]
      BY <3>1, <3>2, InsertedAt
    <3> QED BY <2>1, <3>2, Zenon
  <2> QED BY <1>1, <1>2, <2>2, Zenon
<1>5. /\ Missed \in SUBSET Nat /\ Missed' \in SUBSET Nat /\ Resent \in SUBSET Nat
      /\ Resent' \in SUBSET Nat
      /\ IsFiniteSet(Missed) /\ IsFiniteSet(Missed') /\ IsFiniteSet(Resent)
      /\ IsFiniteSet(Resent')
      /\ Cardinality(Missed) \in Nat /\ Cardinality(Resent) \in Nat
  <2>1. /\ Missed \in SUBSET (1 .. analyzed) /\ Missed' \in SUBSET (1 .. analyzed)
        /\ Resent \in SUBSET (1 .. Len(bodies)) /\ Resent' \in SUBSET (1 .. Len(bodies) + 1)
    BY <1>2, <1>3 DEF Missed, Resent
  <2>2. Len(bodies) + 1 \in Nat /\ \A n \in Nat : 1 .. n \subseteq Nat
    BY <1>2
  <2>3. \A n \in Nat : \A S \in SUBSET (1 .. n) :
          S \in SUBSET Nat /\ IsFiniteSet(S) /\ Cardinality(S) \in Nat
    BY <2>2, FinitePositions
  <2> QED BY <1>2, <2>1, <2>2, <2>3
<1>6. Cardinality(Missed') <= Cardinality(Missed) + 1
  <2>1. ASSUME NEW i \in Missed' \ {place}
        PROVE  (IF i < place THEN i ELSE i - 1) \in Missed
    <3>1. i \in 1 .. analyzed /\ i # place /\ ~handed'[i]
      BY <1>2 DEF Missed
    <3>2. i \in 1 .. Len(bodies) + 1
      BY <1>2, <3>1
    <3>3. CASE i < place
      <4>1. ~handed[i]
        <5>1. handed'[i] = handed[i]
          BY <1>4, <3>2, <3>3, Zenon
        <5> QED BY <3>1, <5>1, Zenon
      <4> QED BY <3>1, <3>3, <4>1 DEF Missed
    <3>4. CASE i > place
      <4>1. ~handed[i - 1]
        <5>1. handed'[i] = handed[i - 1]
          BY <1>4, <3>2, <3>4, Zenon
        <5> QED BY <3>1, <5>1, Zenon
      <4>2. i - 1 \in 1 .. analyzed /\ ~(i < place)
        BY <1>2, <3>1, <3>4
      <4> QED BY <4>1, <4>2 DEF Missed
    <3> QED BY <1>2, <3>1, <3>3, <3>4
  <2> QED BY <1>2, <1>5, <2>1, ShiftedByOne
<1>7. Cardinality(Resent') <= Cardinality(Resent) + 1
  <2>1. ASSUME NEW i \in Resent' \ {analyzed + 1}
        PROVE  (IF i < place THEN i ELSE i - 1) \in Resent
    <3>1. i \in analyzed + 1 .. Len(bodies) + 1 /\ i # analyzed + 1 /\ handed'[i]
      BY <1>2, <1>3 DEF Resent
    <3>2. /\ i \in 1 .. Len(bodies) + 1 /\ i > place /\ ~(i < place)
          /\ i - 1 \in analyzed + 1 .. Len(bodies)
      BY <1>2, <3>1
    <3>3. handed[i - 1]
      BY <1>4, <3>1, <3>2, Zenon
    <3> QED BY <3>2, <3>3 DEF Resent
  <2>2. place \notin Resent' \ {analyzed + 1}
    BY <1>2, <1>3 DEF Resent
  <2> QED BY <1>2, <1>5, <2>1, <2>2, ShiftedByOne
<1>8. Cardinality(Missed) <= late /\ Cardinality(Resent) <= late
  BY DEF WindowInv
<1>9. Cardinality(Missed') \in Nat /\ Cardinality(Resent') \in Nat
  BY <1>5, FS_CardinalityType
<1>10. Cardinality(Missed') <= late' /\ Cardinality(Resent') <= late'
  BY <1>2, <1>5, <1>6, <1>7, <1>8, <1>9
<1> QED BY <1>2, <1>3, <1>4, <1>10 DEF WindowInv

(* A full pass starts the count of late emails anew.                       *)
LEMMA CoverKeepsInv == ASSUME WindowInv, Cover PROVE WindowInv'
<1>1. /\ bodies' = bodies /\ analyzed' = Len(bodies) /\ Len(bodies) \in Nat
      /\ analyzed \in Nat /\ analyzed <= Len(bodies) /\ late \in Nat /\ late' \in Nat
      /\ handed \in Seq(BOOLEAN) /\ Len(handed) = Len(bodies)
  BY DEF Cover, WindowInv
<1>2. handed' = [i \in 1 .. Len(bodies) |-> handed[i] \/ i \in Context.source]
  BY DEF Cover
<1>3. handed' \in Seq(BOOLEAN) /\ Len(handed') = Len(bodies)
  BY <1>1, <1>2
<1>4. Resent' = {}
  BY <1>1 DEF Resent
<1>5. CASE Context.incremental
  <2>1. Missed' \subseteq Missed /\ late' = late
    <3>1. late' = late /\ Context.source = analyzed + 1 .. Len(bodies)
      BY <1>5, Sources DEF Cover
    <3>2. ASSUME NEW i \in Missed'
          PROVE  i \in Missed
      <4>1. i \in 1 .. Len(bodies) /\ ~handed'[i]
        BY <1>1 DEF Missed
      <4>2. ~handed[i] /\ i \notin Context.source
        BY <1>2, <4>1, Zenon
      <4>3. i \in 1 .. analyzed
        BY <1>1, <3>1, <4>1, <4>2
      <4> QED BY <4>2, <4>3 DEF Missed
    <3> QED BY <3>1, <3>2
  <2>2. Missed \in SUBSET (1 .. analyzed)
    BY DEF Missed
  <2>3. IsFiniteSet(Missed) /\ Cardinality(Missed) \in Nat
    BY <1>1, <2>2, FinitePositions
  <2>4. Cardinality(Missed') <= Cardinality(Missed) /\ Cardinality(Missed') \in Nat
    BY <2>1, <2>3, FS_Subset, FS_CardinalityType
  <2>5. Cardinality(Missed') <= late' /\ Cardinality(Resent') <= late'
    BY <1>1, <1>4, <2>1, <2>3, <2>4, FS_EmptySet DEF WindowInv
  <2> QED BY <1>1, <1>3, <2>5 DEF WindowInv
<1>6. CASE ~Context.incremental
  <2>1. Missed' = {}
    BY <1>1, <1>2, <1>6, Sources DEF Missed
  <2>2. Cardinality(Missed') <= late' /\ Cardinality(Resent') <= late'
    BY <1>1, <1>4, <2>1, FS_EmptySet
  <2> QED BY <1>1, <1>3, <2>2 DEF WindowInv
<1> QED BY <1>5, <1>6, Sources

(* The inductive invariant holds in every behaviour.                       *)
LEMMA WindowInvariant == Spec => []WindowInv
<1>1. Init => WindowInv
  <2> SUFFICES ASSUME Init PROVE WindowInv
    OBVIOUS
  <2>1. Missed = {} /\ Resent = {}
    BY DEF Init, Missed, Resent
  <2> QED BY <2>1, FS_EmptySet DEF Init, WindowInv
<1>2. WindowInv /\ [Next]_<<bodies, analyzed, handed, late>> => WindowInv'
  <2> SUFFICES ASSUME WindowInv, [Next]_<<bodies, analyzed, handed, late>> PROVE WindowInv'
    OBVIOUS
  <2>1. CASE Receive
    <3>1. PICK chars \in Bodies : bodies' = Append(bodies, chars)
      BY <2>1 DEF Receive
    <3>2. /\ handed' = Append(handed, FALSE) /\ analyzed' = analyzed /\ late' = late
          /\ chars \in Nat /\ Len(bodies) \in Nat /\ analyzed \in 0 .. Len(bodies)
      BY <2>1, InboxAssumption DEF Receive, WindowInv
    <3>3. /\ bodies' \in Seq(Nat) /\ Len(bodies') = Len(bodies) + 1
          /\ handed' \in Seq(BOOLEAN) /\ Len(handed') = Len(bodies) + 1
          /\ \A i \in 1 .. Len(bodies) : handed'[i] = handed[i]
          /\ handed'[Len(bodies) + 1] = FALSE
      <4>1. /\ bodies \in Seq(Nat) /\ handed \in Seq(BOOLEAN) /\ Len(handed) = Len(bodies)
            /\ FALSE \in BOOLEAN
        BY DEF WindowInv
      <4>2. bodies' \in Seq(Nat) /\ Len(bodies') = Len(bodies) + 1
        BY <3>1, <3>2, <4>1
      <4>3. handed' \in Seq(BOOLEAN) /\ Len(handed') = Len(handed) + 1
        BY <3>2, <4>1, AppendProperties
      <4>4. /\ \A i \in 1 .. Len(handed) : handed'[i] = handed[i]
            /\ handed'[Len(handed) + 1] = FALSE
        BY <3>2, <4>1, AppendProperties
      <4> QED BY <4>1, <4>2, <4>3, <4>4
    <3>4. Missed' = Missed
      <4>1. \A i \in 1 .. analyzed : i \in 1 .. Len(bodies)
        BY <3>2
      <4>2. \A i \in 1 .. analyzed : handed'[i] <=> handed[i]
        BY <3>3, <4>1, Zenon
      <4> QED BY <3>2, <4>2 DEF Missed
    <3>5. Resent' = Resent
      <4>1. ASSUME NEW i \in analyzed + 1 .. Len(bodies) + 1, handed'[i]
            PROVE  i \in 1 .. Len(bodies)
        <5>1. i # Len(bodies) + 1
          BY <3>3, <4>1, Zenon
        <5> QED BY <3>2, <5>1
      <4>2. \A i \in 1 .. Len(bodies) : handed'[i] <=> handed[i]
        BY <3>3, Zenon
      <4>3. /\ Resent' = {i \in analyzed + 1 .. Len(bodies) + 1 : handed'[i]}
            /\ \A i \in analyzed + 1 .. Len(bodies) :
                 i \in 1 .. Len(bodies) /\ i \in analyzed + 1 .. Len(bodies) + 1
        BY <3>2, <3>3 DEF Resent
      <4>4. ASSUME NEW i \in Resent'
            PROVE  i \in Resent
        <5>1. i \in analyzed + 1 .. Len(bodies) + 1 /\ handed'[i]
          BY <4>3
        <5>2. i \in 1 .. Len(bodies) /\ handed[i]
          BY <4>1, <4>2, <5>1
        <5> QED BY <3>2, <5>1, <5>2 DEF Resent
      <4>5. ASSUME NEW i \in Resent
            PROVE  i \in Resent'
        <5>1. i \in analyzed + 1 .. Len(bodies) /\ handed[i]
          BY DEF Resent
        <5>2. handed'[i] /\ i \in analyzed + 1 .. Len(bodies) + 1
          BY <4>2, <4>3, <5>1
        <5> QED BY <4>3, <5>2
      <4> QED BY <4>4, <4>5
    <3> QED BY <3>2, <3>3, <3>4, <3>5 DEF WindowInv
  <2>2. CASE UNCHANGED <<bodies, analyzed, handed, late>>
    BY <2>2 DEF WindowInv, Missed, Resent
  <2> QED BY <2>1, <2>2, LateKeepsInv, CoverKeepsInv DEF Next
<1> QED BY <1>1, <1>2, PTL DEF Spec

-----------------------------------------------------------------------------
(***************************************************************************)
(* The early-exit loop keeps exactly the longest run of newest emails that *)
(* fits the budget, and the newest email if none does, for every inbox and *)
(* budget (_within_budget).                                                *)
(***************************************************************************)
THEOREM BudgetLoopCorrect == Spec => []BudgetLoopIsLargestFit
<1>1. WindowInv => BudgetLoopIsLargestFit
  BY KeptIsLargestFit DEF WindowInv, BudgetLoopIsLargestFit
<1> QED BY <1>1, WindowInvariant, PTL

(* The emails of the prompt: the last `kept` of the inbox.                 *)
LEMMA Selections ==
  ASSUME WindowInv
  PROVE  \A new, all :
           new = KeptCount(SubSeq(bodies, analyzed + 1, Len(bodies))) /\ all = KeptCount(bodies) =>
             /\ FullContext.selected = {i \in 1 .. Len(bodies) : i > Len(bodies) - all}
             /\ Context.incremental =>
                  Context.selected = {i \in analyzed + 1 .. Len(bodies) : i > Len(bodies) - new}
             /\ ~Context.incremental =>
                  Context.selected = {i \in 1 .. Len(bodies) : i > Len(bodies) - all}
<1>1. SubSeq(bodies, 1, Len(bodies)) = bodies /\ Len(bodies) \in Nat
  BY DEF WindowInv
<1>2. /\ Context.incremental = IsIncremental(Len(bodies), analyzed, analyzed > 0)
      /\ FullContext.selected =
           {i \in 1 .. Len(bodies) : i > Len(bodies) - KeptCount(SubSeq(bodies, 1, Len(bodies)))}
  BY DEF Context, FullContext, BuildRefreshContext, SourceStart, IsIncremental
<1>3. ASSUME Context.incremental
      PROVE  Context.selected =
               {i \in analyzed + 1 .. Len(bodies) :
                  i > Len(bodies) - KeptCount(SubSeq(bodies, analyzed + 1, Len(bodies)))}
  BY <1>2, <1>3 DEF Context, BuildRefreshContext, SourceStart
<1>4. ASSUME ~Context.incremental
      PROVE  Context.selected =
               {i \in 1 .. Len(bodies) :
                  i > Len(bodies) - KeptCount(SubSeq(bodies, 1, Len(bodies)))}
  BY <1>2, <1>4 DEF Context, BuildRefreshContext, SourceStart
<1> QED BY <1>1, <1>2, <1>3, <1>4

(***************************************************************************)
(* In both modes the prior summary and the list handed to the loop         *)
(* partition the inbox, and the newest email is in the prompt              *)
(* (_build_refresh_context).                                               *)
(***************************************************************************)
THEOREM PriorAndPromptPartition == Spec => []NoEmailBetweenPriorAndPrompt
<1>1. WindowInv => NoEmailBetweenPriorAndPrompt
  <2> SUFFICES ASSUME WindowInv, bodies # <<>>
               PROVE  LET covered == IF Context.incremental THEN 1 .. analyzed ELSE {}
                      IN  /\ covered \cup Context.source = 1 .. Len(bodies)
                          /\ covered \cap Context.source = {}
                          /\ Len(bodies) \in Context.selected
    BY DEF NoEmailBetweenPriorAndPrompt
  <2> DEFINE new == KeptCount(SubSeq(bodies, analyzed + 1, Len(bodies)))
             all == KeptCount(bodies)
             L == Len(bodies)
  <2>1. /\ bodies \in Seq(Nat) /\ L \in Nat /\ L > 0 /\ analyzed \in 0 .. L /\ 0 \in 0 .. L
        /\ SubSeq(bodies, 1, L) = bodies
    BY DEF WindowInv
  <2>2. all \in 0 .. L /\ new \in 0 .. L - analyzed /\ (analyzed < L => new > 0)
    BY <2>1, KeptOfSuffix
  <2>3. all > 0
    BY <2>1, KeptOfSuffix
  <2>4. CASE Context.incremental
    <3>1. L \in Context.selected
      <4>1. Context.selected = {i \in analyzed + 1 .. L : i > L - new}
        BY <2>4, Selections
      <4> HIDE DEF new, L
      <4> QED BY <2>1, <2>2, <2>4, <4>1, Sources DEF L
    <3>2. /\ 1 .. analyzed \cup Context.source = 1 .. L
          /\ 1 .. analyzed \cap Context.source = {}
      BY <2>1, <2>4, Sources
    <3> QED BY <2>4, <3>1, <3>2
  <2>5. CASE ~Context.incremental
    <3>1. L \in Context.selected
      <4>1. Context.selected = {i \in 1 .. L : i > L - all}
        BY <2>5, Selections
      <4> HIDE DEF all, L
      <4> QED BY <2>1, <2>2, <2>3, <4>1
    <3> QED BY <2>5, <3>1, Sources
  <2> QED BY <2>4, <2>5
<1> QED BY <1>1, WindowInvariant, PTL

(***************************************************************************)
(* An incremental pass sends exactly the new emails a full pass would      *)
(* send (_build_refresh_context, _within_budget).                          *)
(***************************************************************************)
THEOREM ModesSendSameNewEmails == Spec => []IncrementalSendsNewPartOfFullPass
<1>1. WindowInv => IncrementalSendsNewPartOfFullPass
  <2> SUFFICES ASSUME WindowInv, Context.incremental
               PROVE  Context.selected = FullContext.selected \ (1 .. analyzed)
    BY DEF IncrementalSendsNewPartOfFullPass
  <2> DEFINE new == KeptCount(SubSeq(bodies, analyzed + 1, Len(bodies)))
             all == KeptCount(bodies)
             L == Len(bodies)
  <2>1. bodies \in Seq(Nat) /\ L \in Nat /\ analyzed \in 0 .. L /\ analyzed \in Nat
    BY DEF WindowInv
  <2>2. all \in 0 .. L /\ new = IF all <= L - analyzed THEN all ELSE L - analyzed
    BY <2>1, KeptOfSuffix
  <2>3. /\ FullContext.selected = {i \in 1 .. L : i > L - all}
        /\ Context.selected = {i \in analyzed + 1 .. L : i > L - new}
    BY Selections
  <2> HIDE DEF new, all, L
  <2> QED BY <2>1, <2>2, <2>3
<1> QED BY <1>1, WindowInvariant, PTL

(***************************************************************************)
(* The append-only assumption of the incremental mode, priced: until the   *)
(* next full pass each email that sank below the mark is at most one email *)
(* never handed to the model and one sent again (_build_refresh_context).  *)
(***************************************************************************)
THEOREM LateEmailsPriced == Spec => []LateEmailsCostOneEach
<1>1. WindowInv => LateEmailsCostOneEach
  <2> SUFFICES ASSUME WindowInv
               PROVE  /\ Cardinality({i \in 1 .. analyzed : ~handed[i]}) <= late
                      /\ Context.incremental =>
                           Cardinality({i \in Context.source : handed[i]}) <= late
    BY DEF LateEmailsCostOneEach
  <2>1. Cardinality(Missed) <= late /\ Cardinality(Resent) <= late
    BY DEF WindowInv
  <2> QED BY <2>1, Sources DEF Missed, Resent
<1> QED BY <1>1, WindowInvariant, PTL

=============================================================================
