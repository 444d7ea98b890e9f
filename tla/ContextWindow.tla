---------------------------- MODULE ContextWindow ----------------------------
(***************************************************************************)
(* What a refresh sends to the language model.  These are the pure helpers *)
(* of SummaryService (app/services/summary_service.py): the token          *)
(* estimate, the newest-first budget loop and the choice between a full    *)
(* and an incremental pass.                                                *)
(*                                                                         *)
(* A client's emails are a sequence ordered by sent_at, and an email is    *)
(* the number of characters in its body: nothing else about it matters     *)
(* here.  The i-th email is named by its position i.                       *)
(***************************************************************************)
EXTENDS Integers, SequencesExt

CONSTANTS
  MaxInputTokens,            \* settings.summary_max_input_tokens
  IncrementalRefresh,        \* settings.incremental_refresh
  IncrementalMinPriorEmails  \* settings.incremental_min_prior_emails

ASSUME ContextAssumption ==
  /\ MaxInputTokens \in Nat
  /\ IncrementalRefresh \in BOOLEAN
  /\ IncrementalMinPriorEmails \in Nat

CharsPerToken == 4
PerEmailOverheadTokens == 40

EstimateTokens(chars) == chars \div CharsPerToken

EmailCost(chars) == EstimateTokens(chars) + PerEmailOverheadTokens

(***************************************************************************)
(* One turn of the budget loop, which walks the emails newest first.  The  *)
(* newest email is kept whatever it costs; the loop breaks for good at the *)
(* first email that does not fit.                                          *)
(***************************************************************************)
NothingKept == [kept |-> 0, used |-> 0, stopped |-> FALSE]

OverBudget(chars, acc) ==
  acc.kept > 0 /\ acc.used + EmailCost(chars) > MaxInputTokens

\* Mutant: continue instead of break.
KeepNextSkippingLarge(chars, acc) ==
  IF OverBudget(chars, acc)
  THEN acc
  ELSE [acc EXCEPT !.kept = @ + 1, !.used = @ + EmailCost(chars)]

KeepNext(chars, acc) ==
  IF acc.stopped \/ OverBudget(chars, acc)
  THEN [acc EXCEPT !.stopped = TRUE]
  ELSE [acc EXCEPT !.kept = @ + 1, !.used = @ + EmailCost(chars)]

\* Mutant: the loop forgets reversed() and charges the oldest emails first.
KeptCountOldestFirst(bodies) ==
  FoldLeft(LAMBDA acc, chars : KeepNext(chars, acc), NothingKept, bodies).kept

\* _within_budget: how many of the most recent emails of this list are sent.
KeptCount(bodies) == FoldRight(KeepNext, bodies, NothingKept).kept

(***************************************************************************)
(* _build_refresh_context.  `source` is the list handed to the budget      *)
(* loop, `selected` the emails the prompt contains, both as positions in   *)
(* the inbox; the difference is what truncation dropped.                   *)
(***************************************************************************)
IsIncremental(total, analyzed, hasPrior) ==
  /\ IncrementalRefresh
  /\ hasPrior
  /\ analyzed >= IncrementalMinPriorEmails
  /\ 0 < analyzed
  /\ analyzed < total

\* Mutant: emails[analyzed - 1:].
SourceStartOffByOne(incremental, analyzed) ==
  IF incremental THEN analyzed ELSE 1

\* emails[analyzed:] or all of emails.
SourceStart(incremental, analyzed) ==
  IF incremental THEN analyzed + 1 ELSE 1

BuildRefreshContext(bodies, analyzed, hasPrior) ==
  LET total       == Len(bodies)
      incremental == IsIncremental(total, analyzed, hasPrior)
      first       == SourceStart(incremental, analyzed)
      kept        == KeptCount(SubSeq(bodies, first, total))
  IN  [incremental |-> incremental,
       source      |-> first .. total,
       selected    |-> {i \in first .. total : i > total - kept}]

-----------------------------------------------------------------------------
(* What the loop should compute, said without following it. *)

\* What sending the n newest emails of the list b costs.
NewestCost(b, n) ==
  SumFunctionOnSet([i \in DOMAIN b |-> 40 + (b[i] \div 4)], (Len(b) - n + 1) .. Len(b))

\* Reference for KeptCount: the most emails, newest first, that fit together.
LargestFit(b) ==
  IF b = <<>> THEN 0
  ELSE Max({1} \cup {n \in 1 .. Len(b) : NewestCost(b, n) <= MaxInputTokens})

=============================================================================
