--------------------------------- MODULE Api ---------------------------------
(***************************************************************************)
(* The HTTP API around the summary service: which account may ask for      *)
(* what, and the two reports, computed by SQL over the tables the service  *)
(* writes.                                                                 *)
(*                                                                         *)
(*   app/core/deps.py                    get_current_user, require_roles   *)
(*   app/services/summary_service.py     _load_client                      *)
(*   app/services/report_service.py      scope and staleness of a report   *)
(*   app/repositories/report.py          its SQL                           *)
(*                                                                         *)
(* A request that is refused (400, 401, 403, 404) touches nothing, and a   *)
(* report only reads: the steps are the requests let in to the service,    *)
(* and a report is a function of the tables.                               *)
(***************************************************************************)
EXTENDS SummaryService

CONSTANTS
  Firms, FirmOf,         \* firms, and the firm of each client
  Accounts, RoleOf,      \* accountants' logins, and their roles
  AccountFirm,           \* the firm of each account; NoFirm for a superuser
  NoFirm,
  Null                   \* SQL's NULL

VARIABLE
  accounts  \* the accounts that still have a row

apiVars == <<accounts>>

ASSUME ApiAssumption ==
  /\ FirmOf \in [Clients -> Firms]
  /\ RoleOf \in [Accounts -> {"accountant", "firm_admin", "superuser"}]
  /\ AccountFirm \in [Accounts -> Firms \cup {NoFirm}]
  /\ IsFiniteSet(Clients) /\ IsFiniteSet(Firms)
  /\ NoFirm \notin Firms /\ Null \notin Clients \cup Nat

ApiInit ==
  /\ Init
  /\ accounts = Accounts

-----------------------------------------------------------------------------
(* The firm report *)

Coalesce(x, default) == IF x = Null THEN default ELSE x

\* The subquery of email counts has no row for a client without emails.
EmailCount(c) == IF inbox[c] = <<>> THEN Null ELSE Len(inbox[c])

AnalyzedColumn(c) == IF rows[c] = NoRow THEN Null ELSE rows[c].analyzed

\* firm_client_rows: clients, LEFT JOIN summaries, LEFT JOIN email counts.
FirmClientRows(f) ==
  {[client |-> c, total |-> Coalesce(EmailCount(c), 0), analyzed |-> AnalyzedColumn(c)] :
     c \in {d \in Clients : FirmOf[d] = f}}

\* Mutant: only new emails make a client stale.
StalenessByCount(total, analyzed) ==
  LET new == IF total > Coalesce(analyzed, 0) THEN total - Coalesce(analyzed, 0) ELSE 0
  IN  [new |-> new, stale |-> new > 0]

\* _staleness; a NULL count is a client without summary.
Staleness(total, analyzed) ==
  LET new == IF total > Coalesce(analyzed, 0) THEN total - Coalesce(analyzed, 0) ELSE 0
  IN  [new |-> new, stale |-> analyzed = Null \/ new > 0]

\* The totals at the head of a firm report.
FirmTotals(clients) ==
  [clients     |-> Cardinality(clients),
   withSummary |-> Cardinality({r \in clients : r.analyzed # Null}),
   stale       |-> Cardinality({r \in clients : Staleness(r.total, r.analyzed).stale}),
   emails      |-> SumFunction([r \in clients |-> r.total])]

-----------------------------------------------------------------------------
(* The network report *)

\* Firms LEFT JOIN clients: a firm without clients is one row of NULLs.
JoinedRows(f) ==
  IF \E c \in Clients : FirmOf[c] = f
  THEN {[client |-> c, count |-> EmailCount(c), analyzed |-> AnalyzedColumn(c)] :
          c \in {d \in Clients : FirmOf[d] = f}}
  ELSE {[client |-> Null, count |-> Null, analyzed |-> Null]}

\* Mutant: the CASE lacks its first branch.
StaleWithoutGuard(row) ==
  IF row.analyzed = Null THEN 1
  ELSE IF Coalesce(row.count, 0) > row.analyzed THEN 1 ELSE 0

\* The CASE expression of network_firm_rows.
Stale(row) ==
  CASE row.client = Null -> 0
    [] row.client # Null /\ row.analyzed = Null -> 1
    [] row.client # Null /\ row.analyzed # Null ->
         IF Coalesce(row.count, 0) > row.analyzed THEN 1 ELSE 0

\* The aggregates, grouped by firm; COUNT ignores NULL.
NetworkTotals(f) ==
  LET joined == JoinedRows(f)
  IN  [clients     |-> Cardinality({r.client : r \in joined} \ {Null}),
       withSummary |-> Cardinality({r.client : r \in {s \in joined : s.analyzed # Null}}),
       stale       |-> SumFunction([r \in joined |-> Stale(r)]),
       emails      |-> SumFunction([r \in joined |-> Coalesce(r.count, 0)])]

NetworkRows == {[firm |-> f, totals |-> NetworkTotals(f)] : f \in Firms}

\* The network's own totals, added up from the firms'.
NetworkHead(entries) ==
  [firms       |-> Cardinality(entries),
   clients     |-> SumFunction([e \in entries |-> e.totals.clients]),
   withSummary |-> SumFunction([e \in entries |-> e.totals.withSummary]),
   stale       |-> SumFunction([e \in entries |-> e.totals.stale]),
   emails      |-> SumFunction([e \in entries |-> e.totals.emails])]

-----------------------------------------------------------------------------
(* Who may ask *)

\* _load_client.
MayRead(a, c) == RoleOf[a] = "superuser" \/ FirmOf[c] = AccountFirm[a]

\* get_current_user: a verified token names an account that still exists.
Authenticated(a) == a \in accounts

\* _resolve_firm_scope: the firm a report is about, NoFirm if it is refused.
FirmScope(a, named) ==
  IF RoleOf[a] = "superuser" THEN named
  ELSE IF named \in {NoFirm, AccountFirm[a]} THEN AccountFirm[a] ELSE NoFirm

\* require_roles.
HasRole(a, allowed) == Authenticated(a) /\ RoleOf[a] \in allowed

\* GET /reports/firm: the rows the account is answered, none if refused.
FirmReport(a, named) ==
  IF /\ HasRole(a, {"firm_admin", "superuser"})
     /\ FirmScope(a, named) \in Firms
  THEN FirmClientRows(FirmScope(a, named))
  ELSE {}

\* GET /reports/network.
NetworkReport(a) == IF HasRole(a, {"superuser"}) THEN NetworkRows ELSE {}

AskSummary(a, r, c) ==
  /\ Authenticated(a) /\ MayRead(a, c)
  /\ GetStart(r, c)
  /\ UNCHANGED accounts

AskRefresh(a, p, c) ==
  /\ Authenticated(a) /\ MayRead(a, c)
  /\ PostStart(p, c)
  /\ UNCHANGED accounts

DeleteAccount(a) ==
  /\ a \in accounts
  /\ accounts' = accounts \ {a}
  /\ UNCHANGED vars

-----------------------------------------------------------------------------
\* The steps of the service that are not the start of a request.
Ongoing ==
  \/ \E r \in Readers : GetStep(r) \/ AbortGet(r)
  \/ \E p \in Refreshers : PostStep(p) \/ AbortPost(p)
  \/ \E c \in Clients : ReceiveEmail(c) \/ Expire(c)
  \/ Restart

ApiNext ==
  \/ \E a \in Accounts :
       \/ \E c \in Clients : \/ \E r \in Readers : AskSummary(a, r, c)
                             \/ \E p \in Refreshers : AskRefresh(a, p, c)
       \/ DeleteAccount(a)
  \/ Ongoing /\ UNCHANGED apiVars

ApiSpec == ApiInit /\ [][ApiNext]_<<vars, apiVars>>

-----------------------------------------------------------------------------
(* Safety *)

(***************************************************************************)
(* The two reports are computed apart, one row per client in Python and    *)
(* one row per firm in SQL over outer joins.  For a superuser who opens a  *)
(* firm from the network report they agree in every state of the tables,   *)
(* on clients without emails or summary and on empty firms too; and the    *)
(* network's head counts every client, summary and email exactly once.     *)
(***************************************************************************)
RollupMatchesFirmReports ==
  \A a \in Accounts :
    LET entries == NetworkReport(a)
    IN  /\ \A entry \in entries : entry.totals = FirmTotals(FirmReport(a, entry.firm))
        /\ entries # {} => NetworkHead(entries) =
             [firms       |-> Cardinality(Firms),
              clients     |-> Cardinality(Clients),
              withSummary |-> Cardinality({c \in Clients : rows[c] # NoRow}),
              stale       |-> Cardinality({c \in Clients : IsStale(Len(inbox[c]), rows[c])}),
              emails      |-> SumFunction([c \in Clients |-> Len(inbox[c])])]

(***************************************************************************)
(* DESIGN.md: "staleness in a report matches the summary endpoint exactly  *)
(* (same formula)".  Both formulas give the same answer on the same row.   *)
(***************************************************************************)
ReportMatchesEndpoint ==
  \A f \in Firms : \A r \in FirmClientRows(f) :
    Staleness(r.total, r.analyzed) =
      [new   |-> NewEmails(Len(inbox[r.client]), rows[r.client]),
       stale |-> IsStale(Len(inbox[r.client]), rows[r.client])]

(***************************************************************************)
(* An endpoint may answer from the cache, whose copy of the row is older   *)
(* or newer than what a report reads.  With one refresh of a client at a   *)
(* time it is never newer: where the endpoint calls a summary fresh, and   *)
(* no email has come since, the firm report calls it fresh too.            *)
(***************************************************************************)
AnswerNoFresherThanReport ==
  \A r \in Readers :
    (/\ gets[r].phase = "answered"
     /\ ~IsStale(gets[r].total, gets[r].blob)
     /\ gets[r].total = Len(inbox[gets[r].client])) =>
      \A row \in FirmClientRows(FirmOf[gets[r].client]) :
        row.client = gets[r].client => ~Staleness(row.total, row.analyzed).stale

=============================================================================
