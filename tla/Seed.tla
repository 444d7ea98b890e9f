-------------------------------- MODULE Seed --------------------------------
(***************************************************************************)
(* scripts/seed.py: the demo world is wiped and rebuilt in five            *)
(* transactions, while the API serves users who regenerate summaries.  The *)
(* script may die at any time and be run again.                            *)
(*                                                                         *)
(* A refresh is reduced to what the seed sees of it: it lists the emails,  *)
(* selects the row, and writes it; SummaryService has the whole of it.     *)
(* The flush and the commit of a transaction are one step, except for      *)
(* reset, whose DELETE statements each see what is committed by then.      *)
(***************************************************************************)
EXTENDS Integers

CONSTANTS
  Clients,      \* the keys of CLIENTS
  Base, Late,   \* how many emails and late emails each of them has
  Pregenerate,  \* those whose summary is generated by the seed
  Users,        \* refreshes by users of the API
  Seeder,       \* the refresh of the seed itself
  MaxRuns       \* bound: how often the script is started

VARIABLES
  run,       \* how often the script was started
  step,      \* where it is
  todo,      \* clients whose summary it has yet to generate
  exists,    \* the clients table; each run draws new ids
  inbox,     \* the emails table: how many of each client
  analyzed,  \* email_summaries.emails_analyzed_count, 0 without a row
  deleted,   \* what reset has deleted and not committed yet
  refresh,   \* the refreshes in progress
  touched    \* ghost: clients a user refreshed

database == <<exists, inbox, analyzed>>
script == <<run, step, todo, deleted>>
vars == <<run, step, todo, exists, inbox, analyzed, deleted, refresh, touched>>

-----------------------------------------------------------------------------
ASSUME SeedAssumption ==
  /\ Base \in [Clients -> Nat \ {0}] /\ Late \in [Clients -> Nat]
  /\ Pregenerate \subseteq Clients
  /\ Seeder \notin Users /\ MaxRuns \in Nat

Ids == (1 .. MaxRuns) \X Clients

World == {run} \X Clients

Stopped == {"idle", "done", "dead"}

Workers == Users \cup {Seeder}

RefreshState ==
  [phase : {"idle"}]
    \cup [phase : {"listed"}, client : Ids, total : Nat]
    \cup [phase : {"selected"}, client : Ids, total : Nat, seen : Nat]

Nothing == [summaries |-> {}, clients |-> {}]

TypeOK ==
  /\ run \in 0 .. MaxRuns
  /\ step \in Stopped \cup {"summaries", "clients", "commit", "people", "emails",
                            "generate"}
  /\ todo \subseteq Pregenerate
  /\ exists \subseteq Ids
  /\ inbox \in [Ids -> Nat]
  /\ analyzed \in [Ids -> Nat]
  /\ deleted \in [summaries : SUBSET Ids, clients : SUBSET Ids]
  /\ refresh \in [Workers -> RefreshState]
  /\ touched \subseteq Ids

Init ==
  /\ run = 0 /\ step = "idle" /\ todo = {} /\ exists = {}
  /\ inbox = [id \in Ids |-> 0] /\ analyzed = [id \in Ids |-> 0]
  /\ deleted = Nothing
  /\ refresh = [w \in Workers |-> [phase |-> "idle"]]
  /\ touched = {}

-----------------------------------------------------------------------------
(* reset *)

Start ==
  /\ step \in Stopped /\ run < MaxRuns
  /\ run' = run + 1 /\ step' = "summaries"
  /\ UNCHANGED <<todo, database, deleted, refresh, touched>>

\* Mutant: the transaction outlives the script.
DiesHoldingLocks ==
  /\ step' = "dead"
  /\ refresh' = [refresh EXCEPT ![Seeder] = [phase |-> "idle"]]
  /\ UNCHANGED <<run, todo, deleted, database, touched>>

\* The exception ends the script; its transaction is rolled back.
Dies ==
  /\ step' = "dead" /\ deleted' = Nothing
  /\ refresh' = [refresh EXCEPT ![Seeder] = [phase |-> "idle"]]
  /\ UNCHANGED <<run, todo, database, touched>>

\* DELETE FROM emails, which only the script writes, and email_summaries.
DeleteSummaries ==
  /\ step = "summaries" /\ step' = "clients"
  /\ deleted' = [deleted EXCEPT !.summaries = {id \in exists : analyzed[id] # 0}]
  /\ UNCHANGED <<run, todo, database, refresh, touched>>

\* Mutant: email_summaries.client_id is not a foreign key.
DeleteClientsUnchecked ==
  /\ step = "clients" /\ step' = "commit"
  /\ deleted' = [deleted EXCEPT !.clients = exists]
  /\ UNCHANGED <<run, todo, database, refresh, touched>>

\* DELETE FROM clients fails if a summary has been inserted meanwhile.
DeleteClients ==
  /\ step = "clients"
  /\ IF {id \in exists : analyzed[id] # 0} \subseteq deleted.summaries
     THEN /\ step' = "commit"
          /\ deleted' = [deleted EXCEPT !.clients = exists]
          /\ UNCHANGED <<run, todo, database, refresh, touched>>
     ELSE Dies

CommitReset ==
  /\ step = "commit" /\ step' = "people"
  /\ exists' = exists \ deleted.clients
  /\ inbox' = [id \in Ids |-> 0]
  /\ analyzed' = [id \in Ids |-> IF id \in deleted.summaries THEN 0 ELSE analyzed[id]]
  /\ deleted' = Nothing
  /\ UNCHANGED <<run, todo, refresh, touched>>

-----------------------------------------------------------------------------
(* seed *)

InsertPeople ==
  /\ step = "people" /\ step' = "emails"
  /\ exists' = exists \cup World
  /\ UNCHANGED <<run, todo, inbox, analyzed, deleted, refresh, touched>>

\* Mutant: the late emails are not held back.
InsertAllEmails ==
  /\ step = "emails" /\ step' = "generate"
  /\ inbox' = [id \in Ids |-> inbox[id] + IF id \in World THEN Base[id[2]] + Late[id[2]] ELSE 0]
  /\ todo' = Pregenerate
  /\ UNCHANGED <<run, exists, analyzed, deleted, refresh, touched>>

InsertEmails ==
  /\ step = "emails" /\ step' = "generate"
  /\ inbox' = [id \in Ids |-> inbox[id] + IF id \in World THEN Base[id[2]] ELSE 0]
  /\ todo' = Pregenerate
  /\ UNCHANGED <<run, exists, analyzed, deleted, refresh, touched>>

InsertLateEmails ==
  /\ step = "generate" /\ todo = {} /\ step' = "done"
  /\ inbox' = [id \in Ids |-> inbox[id] + IF id \in World THEN Late[id[2]] ELSE 0]
  /\ UNCHANGED <<run, todo, exists, analyzed, deleted, refresh, touched>>

\* The process is killed, the database is lost, or the model call fails.
Killed == step \notin Stopped /\ Dies

-----------------------------------------------------------------------------
(* refresh_summary, called by the script or by a user *)

List(w, id) ==
  /\ refresh[w].phase = "idle" /\ id \in exists /\ inbox[id] # 0
  /\ refresh' = [refresh EXCEPT ![w] = [phase |-> "listed", client |-> id, total |-> inbox[id]]]

UserLists(u, id) == List(u, id) /\ UNCHANGED <<script, database, touched>>

\* Which client comes next makes no difference to what the script leaves.
SeedLists ==
  /\ step = "generate"
  /\ \E c \in todo : List(Seeder, <<run, c>>)
  /\ UNCHANGED <<script, database, touched>>

\* upsert selects the row.
Select(w) ==
  /\ refresh[w].phase = "listed"
  /\ refresh' = [refresh EXCEPT ![w] =
       [phase |-> "selected", client |-> @.client, total |-> @.total,
        seen |-> analyzed[@.client]]]
  /\ UNCHANGED <<script, database, touched>>

\* The statement waits for reset, which has deleted the row or the client.
Waits(w) == refresh[w].client \in deleted.summaries \cup deleted.clients

(***************************************************************************)
(* The INSERT needs the client and no row yet; the UPDATE needs the row it *)
(* selected, and leaves the count alone if it has not changed since.       *)
(***************************************************************************)
Accepted(w) ==
  LET id == refresh[w].client
  IN  IF refresh[w].seen = 0 THEN id \in exists /\ analyzed[id] = 0 ELSE analyzed[id] # 0

Counted(w) ==
  IF refresh[w].total = refresh[w].seen
  THEN analyzed[refresh[w].client] ELSE refresh[w].total

Write(w) ==
  /\ refresh[w].phase = "selected" /\ ~Waits(w) /\ Accepted(w)
  /\ analyzed' = [analyzed EXCEPT ![refresh[w].client] = Counted(w)]
  /\ refresh' = [refresh EXCEPT ![w] = [phase |-> "idle"]]
  /\ todo' = IF w = Seeder THEN todo \ {refresh[w].client[2]} ELSE todo
  /\ touched' = IF w = Seeder THEN touched ELSE touched \cup {refresh[w].client}
  /\ UNCHANGED <<run, step, exists, inbox, deleted>>

\* An IntegrityError or StaleDataError: a 500 to a user, the script's end.
WriteFails(w) ==
  /\ refresh[w].phase = "selected" /\ ~Waits(w) /\ ~Accepted(w)
  /\ IF w = Seeder
     THEN Dies
     ELSE /\ refresh' = [refresh EXCEPT ![w] = [phase |-> "idle"]]
          /\ UNCHANGED <<script, database, touched>>

\* The model call of a user's refresh fails, or the request does.
UserFails(u) ==
  /\ refresh[u].phase # "idle"
  /\ refresh' = [refresh EXCEPT ![u] = [phase |-> "idle"]]
  /\ UNCHANGED <<script, database, touched>>

-----------------------------------------------------------------------------
SeedStep ==
  \/ DeleteSummaries \/ DeleteClients \/ CommitReset
  \/ InsertPeople \/ InsertEmails \/ SeedLists \/ InsertLateEmails

RefreshStep(w) == Select(w) \/ Write(w) \/ WriteFails(w)

Next ==
  \/ Start \/ SeedStep \/ Killed
  \/ \E w \in Workers : RefreshStep(w)
  \/ \E u \in Users : UserFails(u) \/ \E id \in Ids : UserLists(u, id)

Spec == Init /\ [][Next]_vars

\* A transaction that has begun is carried on; nobody has to begin one.
FairSpec ==
  Spec /\ WF_vars(SeedStep) /\ \A w \in Workers : WF_vars(RefreshStep(w))

-----------------------------------------------------------------------------
\* The demo state _print_overview announces for a client.
Announced(c) ==
  CASE c \notin Pregenerate -> "none"
    [] c \in Pregenerate /\ Late[c] = 0 -> "fresh"
    [] c \in Pregenerate /\ Late[c] # 0 -> "stale"

\* The state its reports show.
Shown(id) ==
  CASE analyzed[id] = 0 -> "none"
    [] analyzed[id] # 0 /\ analyzed[id] >= inbox[id] -> "fresh"
    [] analyzed[id] # 0 /\ analyzed[id] < inbox[id] -> "stale"

(***************************************************************************)
(* A run that ends well leaves one world, complete, whatever earlier runs  *)
(* left when they died; and every client is in the state the script prints *)
(* for it, unless a user refreshed it meanwhile.                           *)
(***************************************************************************)
DoneShowsEveryState ==
  step = "done" =>
    /\ exists = World
    /\ \A id \in World : inbox[id] = Base[id[2]] + Late[id[2]]
    /\ \A id \in World \ touched : Shown(id) = Announced(id[2])

(***************************************************************************)
(* reset is "FK-safe": the old world goes as a whole or stays as a whole,  *)
(* although users insert summaries between its DELETE statements.          *)
(***************************************************************************)
WipedWhole ==
  [][(exists \ exists' # {}) =>
       /\ exists' = {}
       /\ \A id \in Ids : inbox'[id] = 0 /\ analyzed'[id] = 0]_vars

(***************************************************************************)
(* A user's refresh that runs into the locks of reset is released, however *)
(* the script ends, and the script does end.                               *)
(***************************************************************************)
RefreshesEnd ==
  /\ \A u \in Users : refresh[u].phase # "idle" ~> refresh[u].phase = "idle"
  /\ step \notin Stopped ~> step \in Stopped

=============================================================================
