--------------------------- MODULE MCContextWindow ---------------------------
(***************************************************************************)
(* Checks the operators of ContextWindow on every inbox of at most         *)
(* MaxEmails emails whose bodies come from Bodies, and every high-water    *)
(* mark: each state is one input of a refresh.  The reference definitions  *)
(* say what the code should compute without following its loop.            *)
(***************************************************************************)
EXTENDS ContextWindow

CONSTANTS Bodies, MaxEmails, MaxLate

ASSUME InboxAssumption == Bodies \subseteq Nat

VARIABLES
  bodies,    \* the inbox, in sent_at order
  analyzed,  \* emails_analyzed_count
  handed,    \* ghost: has this email been in the list of a refresh?
  late       \* ghost: emails that sank below the mark since the last full pass

Context == BuildRefreshContext(bodies, analyzed, analyzed > 0)

Init == bodies = <<>> /\ analyzed = 0 /\ handed = <<>> /\ late = 0

\* The inbox grows by one email, the newest.
Receive ==
  /\ Len(bodies) < MaxEmails
  /\ \E chars \in Bodies : bodies' = Append(bodies, chars)
  /\ handed' = Append(handed, FALSE)
  /\ UNCHANGED <<analyzed, late>>

\* An email arrives with a sent_at below the high-water mark.
ReceiveLate ==
  /\ Len(bodies) < MaxEmails /\ late < MaxLate
  /\ \E place \in 1 .. analyzed :
       /\ \E chars \in Bodies : bodies' = InsertAt(bodies, place, chars)
       /\ handed' = InsertAt(handed, place, FALSE)
  /\ late' = late + 1
  /\ UNCHANGED analyzed

\* A refresh covers the inbox.
Cover ==
  /\ bodies # <<>>
  /\ analyzed' = Len(bodies)
  /\ handed' = [i \in 1 .. Len(bodies) |-> handed[i] \/ i \in Context.source]
  /\ late' = IF Context.incremental THEN late ELSE 0
  /\ UNCHANGED bodies

Next == Receive \/ ReceiveLate \/ Cover

Spec == Init /\ [][Next]_<<bodies, analyzed, handed, late>>

-----------------------------------------------------------------------------
FullContext == BuildRefreshContext(bodies, 0, FALSE)

(***************************************************************************)
(* The early-exit loop of _within_budget keeps exactly the longest run of  *)
(* newest emails that fits the budget: it never stops one email early,     *)
(* never overshoots except for a single oversized newest email, and never  *)
(* skips a large email to keep an older, smaller one.                      *)
(***************************************************************************)
BudgetLoopIsLargestFit == KeptCount(bodies) = LargestFit(bodies)

(***************************************************************************)
(* Whichever mode _build_refresh_context picks, no email falls between the *)
(* prior summary and the emails handed to the budget loop, and the newest  *)
(* email is always in the prompt.                                          *)
(***************************************************************************)
NoEmailBetweenPriorAndPrompt ==
  LET covered == IF Context.incremental THEN 1 .. analyzed ELSE {}
  IN  bodies # <<>> =>
        /\ covered \cup Context.source = 1 .. Len(bodies)
        /\ covered \cap Context.source = {}
        /\ Len(bodies) \in Context.selected

(***************************************************************************)
(* An incremental pass spends the budget on new emails exactly as a full   *)
(* pass would: switching modes never makes a new email disappear from the  *)
(* prompt, nor lets an analyzed one back in.                               *)
(***************************************************************************)
IncrementalSendsNewPartOfFullPass ==
  Context.incremental =>
    Context.selected = FullContext.selected \ (1 .. analyzed)

(***************************************************************************)
(* "emails[:analyzed] are already reflected in `prior`" rests on an        *)
(* append-only inbox.  What a late email costs until the next full pass:   *)
(* it is never handed to the model itself, and pushes one analyzed email   *)
(* over the mark, which is sent again; without one nothing is lost and     *)
(* nothing sent twice.                                                     *)
(***************************************************************************)
LateEmailsCostOneEach ==
  LET missed   == {i \in 1 .. analyzed : ~handed[i]}
      repeated == {i \in Context.source : handed[i]}
  IN  /\ Cardinality(missed) <= late
      /\ Context.incremental => Cardinality(repeated) <= late

=============================================================================
