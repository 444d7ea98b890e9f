------------------------------ MODULE Api_proofs ------------------------------
(***************************************************************************)
(* The two reports, computed in two ways, count the same clients,          *)
(* summaries, stale clients and emails; and what the summary endpoint      *)
(* answers from the cache is never fresher than the report.                *)
(***************************************************************************)
EXTENDS Api, SummaryService_proofs, FoldLemmas, TLAPS

-----------------------------------------------------------------------------
(* Every step of the API is a step of the service, or leaves it alone: the *)
(* guards of deps.py and _load_client only ever narrow it.                 *)
LEMMA ApiStepIsServiceStep == [ApiNext]_<<vars, apiVars>> => [Next]_vars
<1> SUFFICES ASSUME ApiNext PROVE [Next]_vars
  BY DEF vars, apiVars
<1>1. ASSUME NEW a \in Accounts, NEW c \in Clients, NEW r \in Readers, AskSummary(a, r, c)
      PROVE  Next
  BY <1>1 DEF AskSummary, Next
<1>2. ASSUME NEW a \in Accounts, NEW c \in Clients, NEW p \in Refreshers, AskRefresh(a, p, c)
      PROVE  Next
  BY <1>2 DEF AskRefresh, Next
<1>3. ASSUME NEW a \in Accounts, DeleteAccount(a)
      PROVE  UNCHANGED vars
  BY <1>3 DEF DeleteAccount
<1>4. ASSUME Ongoing
      PROVE  Next
  BY <1>4 DEF Ongoing, Next
<1> QED BY <1>1, <1>2, <1>3, <1>4 DEF ApiNext

(* Api's actions are conjunctions with the service's, so this holds by     *)
(* construction: it only carries the theorems about Spec over to the API.  *)
LEMMA ApiKeepsService == ApiSpec => Spec
<1>1. ApiInit => Init
  BY DEF ApiInit
<1> QED BY <1>1, ApiStepIsServiceStep, PTL DEF ApiSpec, Spec

-----------------------------------------------------------------------------
(* A row of the firm report, with SQL's NULLs resolved.                    *)
LEMMA ReportRow ==
  ASSUME TypeOK, NEW f \in Firms, NEW r \in FirmClientRows(f)
  PROVE  /\ r.client \in Clients
         /\ r.total = Len(inbox[r.client]) /\ r.total \in Nat
         /\ Coalesce(r.analyzed, 0) = Analyzed(rows[r.client])
         /\ r.analyzed = Null <=> rows[r.client] = NoRow
<1>1. PICK c \in Clients :
        r = [client |-> c, total |-> Coalesce(EmailCount(c), 0), analyzed |-> AnalyzedColumn(c)]
  BY DEF FirmClientRows
<1>2. inbox[c] \in Seq(Nat) /\ rows[c] \in Blob /\ Null \notin Nat
  BY ApiAssumption DEF TypeOK
<1>3. Coalesce(EmailCount(c), 0) = Len(inbox[c]) /\ Len(inbox[c]) \in Nat
  BY <1>2 DEF Coalesce, EmailCount
<1>4. rows[c] # NoRow => rows[c].analyzed \in Nat
  BY <1>2 DEF Blob, Row
<1>5. /\ Coalesce(AnalyzedColumn(c), 0) = Analyzed(rows[c])
      /\ AnalyzedColumn(c) = Null <=> rows[c] = NoRow
  BY <1>2, <1>4 DEF Coalesce, AnalyzedColumn, Analyzed
<1> QED BY <1>1, <1>3, <1>5

(***************************************************************************)
(* DESIGN.md: "staleness in a report matches the summary endpoint exactly  *)
(* (same formula)": true of every row in every state (_staleness against   *)
(* _build_response).                                                       *)
(***************************************************************************)
THEOREM ReportsMatchEndpoint == ApiSpec => []ReportMatchesEndpoint
<1>1. TypeOK => ReportMatchesEndpoint
  <2> SUFFICES ASSUME TypeOK, NEW f \in Firms, NEW r \in FirmClientRows(f)
               PROVE  Staleness(r.total, r.analyzed) =
                        [new   |-> NewEmails(Len(inbox[r.client]), rows[r.client]),
                         stale |-> IsStale(Len(inbox[r.client]), rows[r.client])]
    BY DEF ReportMatchesEndpoint
  <2> DEFINE new == NewEmails(Len(inbox[r.client]), rows[r.client])
  <2>1. /\ r.total = Len(inbox[r.client])
        /\ Coalesce(r.analyzed, 0) = Analyzed(rows[r.client])
        /\ r.analyzed = Null <=> rows[r.client] = NoRow
    BY ReportRow
  <2>2. Staleness(r.total, r.analyzed) = [new |-> new, stale |-> r.analyzed = Null \/ new > 0]
    BY <2>1 DEF Staleness, NewEmails
  <2>3. (r.analyzed = Null \/ new > 0) <=> IsStale(Len(inbox[r.client]), rows[r.client])
    BY <2>1 DEF IsStale
  <2>4. (r.analyzed = Null \/ new > 0) = IsStale(Len(inbox[r.client]), rows[r.client])
    BY <2>3 DEF IsStale
  <2> QED BY <2>2, <2>4
<1> QED BY <1>1, ApiKeepsService, TypeCorrect, PTL

(***************************************************************************)
(* For any firms and readers, faults, restarts and rotations: with one     *)
(* refresh at a time, a summary the endpoint calls fresh, from the cache   *)
(* or not, is fresh in the firm report too, unless an email came since.    *)
(***************************************************************************)
THEOREM AnswersNoFresher ==
  ASSUME NEW p0, Refreshers = {p0}
  PROVE  ApiSpec => []AnswerNoFresherThanReport
<1>1. TypeInv /\ CommitInv /\ CountsGrow => AnswerNoFresherThanReport
  <2> SUFFICES ASSUME TypeInv, CommitInv, CountsGrow, NEW r \in Readers,
                      gets[r].phase = "answered",
                      ~IsStale(gets[r].total, gets[r].blob),
                      gets[r].total = Len(inbox[gets[r].client]),
                      NEW row \in FirmClientRows(FirmOf[gets[r].client]),
                      row.client = gets[r].client
               PROVE  ~Staleness(row.total, row.analyzed).stale
    BY DEF AnswerNoFresherThanReport
  <2> DEFINE c == gets[r].client
             blob == gets[r].blob
             n == Len(history[c])
  <2>1. /\ c \in Clients /\ gets[r].total \in Nat /\ FirmOf[c] \in Firms
        /\ history[c] \in Seq(Row)
    BY GetFields, ApiAssumption DEF TypeInv, TypeOK
  <2>2. blob # NoRow /\ blob \in CommittedSince(c, 1)
    BY DEF CommitInv, ReadCommitted, GoodRead, IsStale
  <2>3. PICK i \in 1 .. n : blob = history[c][i]
    BY <2>2 DEF CommittedSince
  <2>4. /\ n \in 1 .. n /\ rows[c] = history[c][n] /\ rows[c] # NoRow
        /\ blob.analyzed \in Nat /\ rows[c].analyzed \in Nat
    <3>1. n \in 1 .. n /\ history[c][i] \in Row /\ history[c][n] \in Row
      BY <2>1, <2>3
    <3>2. rows[c] = history[c][n]
      BY <2>1, <3>1 DEF CommitInv, RowIsLastCommitted
    <3> QED BY <2>3, <3>1, <3>2, ServiceAssumption DEF Row
  <2>5. blob.analyzed <= rows[c].analyzed
    BY <2>1, <2>3, <2>4 DEF CountsGrow
  <2>6. gets[r].total <= blob.analyzed
    BY <2>1, <2>2, <2>4 DEF IsStale, NewEmails, Analyzed
  <2>7. /\ row.total = gets[r].total
        /\ Coalesce(row.analyzed, 0) = rows[c].analyzed
        /\ row.analyzed # Null
    BY <2>1, <2>4, ReportRow DEF TypeInv, Analyzed
  <2>8. ~(row.total > Coalesce(row.analyzed, 0))
    <3> HIDE DEF c, blob, n
    <3> QED BY <2>1, <2>4, <2>5, <2>6, <2>7
  <2> DEFINE stale == row.analyzed = Null \/ 0 > 0
  <2>9. Staleness(row.total, row.analyzed) = [new |-> 0, stale |-> stale]
    BY <2>8 DEF Staleness
  <2>10. ~stale
    BY <2>7
  <2> HIDE DEF stale
  <2>11. Staleness(row.total, row.analyzed).stale = stale
    BY <2>9
  <2> QED BY <2>10, <2>11
<1> QED
  BY <1>1, ApiKeepsService, TypeInvariant, CommitInvariant, CountsGrowOneAtATime, PTL

-----------------------------------------------------------------------------
(* What both reports should count: over the clients themselves, the rows   *)
(* of the join forgotten.                                                  *)
ClientsOf(f) == {c \in Clients : FirmOf[c] = f}

Summarised == {c \in Clients : rows[c] # NoRow}

StaleClients == {c \in Clients : IsStale(Len(inbox[c]), rows[c])}

EmailsOf == [c \in Clients |-> Len(inbox[c])]

TotalsOf(f) ==
  [clients     |-> Cardinality(ClientsOf(f)),
   withSummary |-> Cardinality(ClientsOf(f) \cap Summarised),
   stale       |-> Cardinality(ClientsOf(f) \cap StaleClients),
   emails      |-> SumFunctionOnSet(EmailsOf, ClientsOf(f))]

(* The counts are numbers, of finitely many clients.                       *)
LEMMA ClientCounts ==
  ASSUME TypeOK, NEW f
  PROVE  /\ ClientsOf(f) \subseteq Clients /\ IsFiniteSet(ClientsOf(f))
         /\ \A c \in Clients : EmailsOf[c] \in Nat
<1>1. \A c \in Clients : Len(inbox[c]) \in Nat
  BY DEF TypeOK
<1> QED BY <1>1, ApiAssumption, FS_Subset DEF ClientsOf, EmailsOf

(* A row of the firm report, written for its client.                       *)
RowOf == [c \in Clients |->
  [client |-> c, total |-> Coalesce(EmailCount(c), 0), analyzed |-> AnalyzedColumn(c)]]

(* The row of a client says how many emails it has, and whether a summary  *)
(* is there and stale.                                                     *)
LEMMA RowOfClient ==
  ASSUME TypeOK, NEW f \in Firms, NEW c \in ClientsOf(f)
  PROVE  /\ RowOf[c] \in FirmClientRows(f) /\ RowOf[c].client = c
         /\ RowOf[c].total = EmailsOf[c]
         /\ RowOf[c].analyzed # Null <=> c \in Summarised
         /\ Staleness(RowOf[c].total, RowOf[c].analyzed).stale <=> c \in StaleClients
<1>1. c \in Clients /\ RowOf[c] \in FirmClientRows(f) /\ RowOf[c].client = c
  BY DEF ClientsOf, RowOf, FirmClientRows
<1> DEFINE r == RowOf[c]
<1>2. /\ r.total = Len(inbox[c]) /\ r.total \in Nat
      /\ Coalesce(r.analyzed, 0) = Analyzed(rows[c])
      /\ r.analyzed = Null <=> rows[c] = NoRow
  BY <1>1, ReportRow
<1> HIDE DEF r
<1>3. Staleness(r.total, r.analyzed).stale <=> r.analyzed = Null \/ NewEmails(r.total, rows[c]) > 0
  BY <1>2 DEF Staleness, NewEmails
<1> QED BY <1>1, <1>2, <1>3 DEF r, Summarised, StaleClients, EmailsOf, IsStale

(***************************************************************************)
(* The head of a firm report counts the clients of the firm, one row each. *)
(***************************************************************************)
LEMMA FirmTotalsCountClients ==
  ASSUME TypeOK, NEW f \in Firms
  PROVE  FirmTotals(FirmClientRows(f)) = TotalsOf(f)
<1> DEFINE S == ClientsOf(f)
           T == FirmClientRows(f)
<1>1. IsFiniteSet(S) /\ \A c \in S : EmailsOf[c] \in Int
  BY ClientCounts
<1>2. Pairs(RowOf, S, T)
  <2>1. \A t \in T : \E x \in S : t = RowOf[x]
    BY DEF ClientsOf, FirmClientRows, RowOf
  <2>2. \A x \in S : RowOf[x] \in T /\ RowOf[x].client = x
    BY RowOfClient
  <2> QED BY <2>1, <2>2 DEF Pairs
<1>3. Cardinality(T) = Cardinality(S)
  <2> HIDE DEF S, T
  <2> QED BY <1>1, <1>2, CountOfImage
<1>4. Cardinality({r \in T : r.analyzed # Null}) = Cardinality(S \cap Summarised)
  <2> DEFINE A == S \cap Summarised
             B == {r \in T : r.analyzed # Null}
  <2>1. IsFiniteSet(A)
    BY <1>1, FS_Subset
  <2>2. \A x \in S : RowOf[x].analyzed # Null <=> x \in Summarised
    BY RowOfClient
  <2> HIDE DEF S, T
  <2>3. Pairs(RowOf, A, B)
    BY <1>2, <2>2 DEF Pairs
  <2> HIDE DEF A, B
  <2>4. Cardinality(B) = Cardinality(A)
    BY <2>1, <2>3, CountOfImage
  <2> QED BY <2>4 DEF A, B
<1>5. Cardinality({r \in T : Staleness(r.total, r.analyzed).stale}) = Cardinality(S \cap StaleClients)
  <2> DEFINE A == S \cap StaleClients
             B == {r \in T : Staleness(r.total, r.analyzed).stale}
  <2>1. IsFiniteSet(A)
    BY <1>1, FS_Subset
  <2>2. \A x \in S : Staleness(RowOf[x].total, RowOf[x].analyzed).stale <=> x \in StaleClients
    BY RowOfClient
  <2> HIDE DEF S, T
  <2>3. Pairs(RowOf, A, B)
    BY <1>2, <2>2 DEF Pairs
  <2> HIDE DEF A, B
  <2>4. Cardinality(B) = Cardinality(A)
    BY <2>1, <2>3, CountOfImage
  <2> QED BY <2>4 DEF A, B
<1>6. SumFunction([r \in T |-> r.total]) = SumFunctionOnSet(EmailsOf, S)
  <2> DEFINE totals == [r \in T |-> r.total]
  <2>1. \A x \in S : totals[RowOf[x]] = EmailsOf[x]
    BY RowOfClient
  <2>2. SumFunction(totals) = SumFunctionOnSet(totals, T)
    BY DEF SumFunction
  <2> HIDE DEF S, T, totals
  <2>3. SumFunctionOnSet(totals, T) = SumFunctionOnSet(EmailsOf, S)
    BY <1>1, <1>2, <2>1, SumOfImage
  <2> QED BY <2>2, <2>3 DEF totals
<1> HIDE DEF S, T
<1>7. FirmTotals(T) = [clients |-> Cardinality(S), withSummary |-> Cardinality(S \cap Summarised),
                       stale |-> Cardinality(S \cap StaleClients),
                       emails |-> SumFunctionOnSet(EmailsOf, S)]
  BY <1>3, <1>4, <1>5, <1>6 DEF FirmTotals
<1> QED BY <1>7 DEF S, T, TotalsOf

-----------------------------------------------------------------------------
(* A row of the outer join, written for its client.                        *)
JoinOf == [c \in Clients |->
  [client |-> c, count |-> EmailCount(c), analyzed |-> AnalyzedColumn(c)]]

(* The CASE of the query gives 1 to the stale clients and 0 to the others. *)
StaleWeight == [c \in Clients |-> IF c \in StaleClients THEN 1 ELSE 0]

(* The joined row of a client, its NULLs resolved.                         *)
LEMMA JoinedRow ==
  ASSUME TypeOK, NEW c \in Clients
  PROVE  /\ JoinOf[c].client = c /\ c # Null
         /\ Coalesce(JoinOf[c].count, 0) = EmailsOf[c]
         /\ JoinOf[c].analyzed # Null <=> c \in Summarised
         /\ Stale(JoinOf[c]) = StaleWeight[c]
<1> DEFINE j == JoinOf[c]
<1>1. inbox[c] \in Seq(Nat) /\ rows[c] \in Blob /\ Null \notin Clients \cup Nat
  BY ApiAssumption DEF TypeOK
<1>2. j.client = c /\ j.count = EmailCount(c) /\ j.analyzed = AnalyzedColumn(c)
  BY DEF JoinOf
<1>3. Coalesce(EmailCount(c), 0) = Len(inbox[c]) /\ Len(inbox[c]) \in Nat
  BY <1>1 DEF Coalesce, EmailCount
<1>4. rows[c] # NoRow => rows[c].analyzed \in Nat
  BY <1>1 DEF Blob, Row
<1>5. /\ AnalyzedColumn(c) = Null <=> rows[c] = NoRow
      /\ rows[c] # NoRow => AnalyzedColumn(c) = Analyzed(rows[c])
  BY <1>1, <1>4 DEF AnalyzedColumn, Analyzed
<1>6. c # Null
  BY <1>1
<1> HIDE DEF j
<1>7. CASE rows[c] = NoRow
  <2>1. Stale(j) = 1
    BY <1>2, <1>5, <1>6, <1>7 DEF Stale
  <2>2. c \in StaleClients
    BY <1>7 DEF StaleClients, IsStale
  <2> QED BY <1>2, <1>3, <1>5, <1>6, <1>7, <2>1, <2>2 DEF j, EmailsOf, Summarised, StaleWeight
<1>8. CASE rows[c] # NoRow
  <2>1. Stale(j) = IF Len(inbox[c]) > Analyzed(rows[c]) THEN 1 ELSE 0
    BY <1>2, <1>3, <1>5, <1>6, <1>8 DEF Stale
  <2>2. c \in StaleClients <=> Len(inbox[c]) > Analyzed(rows[c])
    BY <1>3, <1>4, <1>8 DEF StaleClients, IsStale, NewEmails, Analyzed
  <2> QED BY <1>2, <1>3, <1>5, <1>6, <1>8, <2>1, <2>2 DEF j, EmailsOf, Summarised, StaleWeight
<1> QED BY <1>7, <1>8

(***************************************************************************)
(* The network report's entry of a firm counts the same clients: grouped   *)
(* by SQL over the outer joins, the row of NULLs of an empty firm adding   *)
(* nothing.                                                                *)
(***************************************************************************)
LEMMA NetworkTotalsCountClients ==
  ASSUME TypeOK, NEW f \in Firms
  PROVE  NetworkTotals(f) = TotalsOf(f)
<1> DEFINE S == ClientsOf(f)
           T == JoinedRows(f)
           stales == [r \in T |-> Stale(r)]
           emails == [r \in T |-> Coalesce(r.count, 0)]
<1>1. /\ S \subseteq Clients /\ IsFiniteSet(S)
      /\ \A c \in S : EmailsOf[c] \in Int /\ StaleWeight[c] \in Int
  BY ClientCounts DEF StaleWeight
<1>2. SumFunctionOnSet(StaleWeight, S) = Cardinality(S \cap StaleClients)
  <2>1. \A c \in S : StaleWeight[c] = IF c \in StaleClients THEN 1 ELSE 0
    BY <1>1 DEF StaleWeight
  <2> HIDE DEF S
  <2> QED BY <1>1, <2>1, CountIsSum
<1>3. CASE \E c \in Clients : FirmOf[c] = f
  <2>1. /\ \A x \in S : JoinOf[x] \in T
        /\ \A t \in T : \E x \in S : t = JoinOf[x]
    BY <1>3 DEF ClientsOf, JoinedRows, JoinOf
  <2>2. \A x \in S : /\ JoinOf[x].client = x /\ x # Null
                     /\ JoinOf[x].analyzed # Null <=> x \in Summarised
                     /\ emails[JoinOf[x]] = EmailsOf[x]
                     /\ stales[JoinOf[x]] = StaleWeight[x]
    BY <1>1, <2>1, JoinedRow
  <2> HIDE DEF S, T, stales, emails
  <2>3. {r.client : r \in T} \ {Null} = S
    BY <2>1, <2>2
  <2>4. {r.client : r \in {s \in T : s.analyzed # Null}} = S \cap Summarised
    BY <2>1, <2>2
  <2>5. Pairs(JoinOf, S, T)
    BY <2>1, <2>2 DEF Pairs
  <2>6. SumFunctionOnSet(stales, T) = SumFunctionOnSet(StaleWeight, S)
    <3>1. /\ \A x \in S : StaleWeight[x] \in Int
          /\ \A x \in S : stales[JoinOf[x]] = StaleWeight[x]
      BY <1>1, <2>2
    <3> QED BY <1>1, <2>5, <3>1, SumOfImage
  <2>7. SumFunctionOnSet(emails, T) = SumFunctionOnSet(EmailsOf, S)
    <3>1. /\ \A x \in S : EmailsOf[x] \in Int
          /\ \A x \in S : emails[JoinOf[x]] = EmailsOf[x]
      BY <1>1, <2>2
    <3> QED BY <1>1, <2>5, <3>1, SumOfImage
  <2> QED BY <1>2, <2>3, <2>4, <2>6, <2>7 DEF S, T, stales, emails, NetworkTotals, TotalsOf, SumFunction
<1>4. CASE ~ \E c \in Clients : FirmOf[c] = f
  <2> DEFINE null == [client |-> Null, count |-> Null, analyzed |-> Null]
  <2>1. S = {} /\ T = {null}
    BY <1>4 DEF ClientsOf, JoinedRows
  <2>2. {r.client : r \in T} \ {Null} = {} /\ {r.client : r \in {s \in T : s.analyzed # Null}} = {}
    BY <2>1
  <2>3. stales[null] = 0 /\ emails[null] = 0
    BY <2>1 DEF Stale, Coalesce
  <2>4. SumFunctionOnSet(stales, {null}) = 0 /\ SumFunctionOnSet(emails, {null}) = 0
    <3> HIDE DEF stales, emails, null
    <3> QED BY <2>3, SumOfOne
  <2>5. /\ Cardinality({}) = 0 /\ SumFunctionOnSet(EmailsOf, {}) = 0
        /\ {} \cap Summarised = {} /\ {} \cap StaleClients = {}
    BY FS_EmptySet, SumEmpty
  <2>6. SumFunction(stales) = 0 /\ SumFunction(emails) = 0
    BY <2>1, <2>4 DEF SumFunction
  <2> HIDE DEF null
  <2>7. NetworkTotals(f) = [clients |-> 0, withSummary |-> 0, stale |-> 0, emails |-> 0]
    BY <2>2, <2>5, <2>6 DEF NetworkTotals
  <2>8. TotalsOf(f) = [clients |-> 0, withSummary |-> 0, stale |-> 0, emails |-> 0]
    BY <2>1, <2>5 DEF TotalsOf
  <2> QED BY <2>7, <2>8
<1> QED BY <1>3, <1>4

-----------------------------------------------------------------------------
(* The network report's entry of a firm.                                   *)
EntryOf == [f \in Firms |-> [firm |-> f, totals |-> NetworkTotals(f)]]

(* Every firm has one entry.                                               *)
LEMMA OneEntryPerFirm == Pairs(EntryOf, Firms, NetworkRows)
<1>1. \A x \in Firms : EntryOf[x].firm = x
  BY DEF EntryOf
<1> QED BY <1>1 DEF Pairs, EntryOf, NetworkRows

(* A column of the head adds a weight of the clients up, each once: the    *)
(* firms cut the clients into disjoint parts.                              *)
LEMMA HeadSum ==
  ASSUME TypeOK, NEW weight, \A c \in Clients : weight[c] \in Int,
         NEW column,
         \A f \in Firms : column[EntryOf[f]] = SumFunctionOnSet(weight, ClientsOf(f))
  PROVE  SumFunctionOnSet(column, NetworkRows) = SumFunctionOnSet(weight, Clients)
<1> DEFINE part == [f \in Firms |-> ClientsOf(f)]
           sums == [f \in Firms |-> SumFunctionOnSet(weight, ClientsOf(f))]
<1>1. IsFiniteSet(Firms) /\ IsFiniteSet(Clients) /\ FirmOf \in [Clients -> Firms]
  BY ApiAssumption
<1>2. Cuts(part, Firms, Clients)
  BY <1>1 DEF Cuts, ClientsOf
<1>3. /\ \A f \in Firms : sums[f] = SumFunctionOnSet(weight, part[f])
      /\ \A f \in Firms : column[EntryOf[f]] = sums[f]
  OBVIOUS
<1>4. \A f \in Firms : sums[f] \in Int
  <2> SUFFICES ASSUME NEW f \in Firms
               PROVE  SumFunctionOnSet(weight, ClientsOf(f)) \in Int
    OBVIOUS
  <2>1. IsFiniteSet(ClientsOf(f)) /\ \A c \in ClientsOf(f) : weight[c] \in Int
    BY ClientCounts
  <2> HIDE DEF part, sums
  <2> QED BY <2>1, SumType
<1>5. \A c \in Clients : weight[c] \in Int
  OBVIOUS
<1> HIDE DEF part, sums
<1>6. SumFunctionOnSet(sums, Firms) = SumFunctionOnSet(weight, Clients)
  BY <1>1, <1>2, <1>3, <1>5, SumOfParts
<1>7. SumFunctionOnSet(column, NetworkRows) = SumFunctionOnSet(sums, Firms)
  BY <1>1, <1>3, <1>4, OneEntryPerFirm, SumOfImage
<1> QED BY <1>6, <1>7

(* A column of the head that counts clients counts each once.              *)
LEMMA HeadCount ==
  ASSUME TypeOK, NEW Q \in SUBSET Clients, NEW column,
         \A f \in Firms : column[EntryOf[f]] = Cardinality(ClientsOf(f) \cap Q)
  PROVE  SumFunctionOnSet(column, NetworkRows) = Cardinality(Q)
<1> DEFINE weight == [c \in Clients |-> IF c \in Q THEN 1 ELSE 0]
<1>1. \A c \in Clients : weight[c] \in Int /\ weight[c] = IF c \in Q THEN 1 ELSE 0
  OBVIOUS
<1>2. \A f \in Firms : column[EntryOf[f]] = SumFunctionOnSet(weight, ClientsOf(f))
  <2> SUFFICES ASSUME NEW f \in Firms
               PROVE  SumFunctionOnSet(weight, ClientsOf(f)) = Cardinality(ClientsOf(f) \cap Q)
    OBVIOUS
  <2>1. /\ IsFiniteSet(ClientsOf(f))
        /\ \A c \in ClientsOf(f) : weight[c] = IF c \in Q THEN 1 ELSE 0
    BY <1>1, ClientCounts
  <2> HIDE DEF weight
  <2> QED BY <2>1, CountIsSum
<1> HIDE DEF weight
<1>3. SumFunctionOnSet(column, NetworkRows) = SumFunctionOnSet(weight, Clients)
  BY <1>1, <1>2, HeadSum
<1>4. SumFunctionOnSet(weight, Clients) = Cardinality(Clients \cap Q)
  BY <1>1, ApiAssumption, CountIsSum
<1>5. Clients \cap Q = Q
  OBVIOUS
<1> QED BY <1>3, <1>4, <1>5

(* The head of the network report counts every client, summary, stale      *)
(* client and email once.                                                  *)
LEMMA HeadCountsNetwork ==
  ASSUME TypeOK
  PROVE  NetworkHead(NetworkRows) =
           [firms       |-> Cardinality(Firms),
            clients     |-> Cardinality(Clients),
            withSummary |-> Cardinality(Summarised),
            stale       |-> Cardinality(StaleClients),
            emails      |-> SumFunctionOnSet(EmailsOf, Clients)]
<1> DEFINE E == NetworkRows
           clients == [e \in E |-> e.totals.clients]
           summarised == [e \in E |-> e.totals.withSummary]
           stales == [e \in E |-> e.totals.stale]
           emails == [e \in E |-> e.totals.emails]
<1>1. \A f \in Firms : EntryOf[f] \in E /\ EntryOf[f].totals = TotalsOf(f)
  BY OneEntryPerFirm, NetworkTotalsCountClients DEF EntryOf, Pairs
<1>2. \A f \in Firms : /\ clients[EntryOf[f]] = Cardinality(ClientsOf(f))
                       /\ summarised[EntryOf[f]] = Cardinality(ClientsOf(f) \cap Summarised)
                       /\ stales[EntryOf[f]] = Cardinality(ClientsOf(f) \cap StaleClients)
                       /\ emails[EntryOf[f]] = SumFunctionOnSet(EmailsOf, ClientsOf(f))
  <2> TAKE f \in Firms
  <2>1. /\ clients[EntryOf[f]] = TotalsOf(f).clients
        /\ summarised[EntryOf[f]] = TotalsOf(f).withSummary
        /\ stales[EntryOf[f]] = TotalsOf(f).stale
        /\ emails[EntryOf[f]] = TotalsOf(f).emails
    <3> HIDE DEF E
    <3> QED BY <1>1
  <2> HIDE DEF clients, summarised, stales, emails
  <2> QED BY <2>1 DEF TotalsOf
<1>3. NetworkHead(E) =
        [firms |-> Cardinality(E), clients |-> SumFunctionOnSet(clients, E),
         withSummary |-> SumFunctionOnSet(summarised, E), stale |-> SumFunctionOnSet(stales, E),
         emails |-> SumFunctionOnSet(emails, E)]
  BY DEF NetworkHead, SumFunction
<1> HIDE DEF clients, summarised, stales, emails
<1>4. Cardinality(E) = Cardinality(Firms)
  BY OneEntryPerFirm, ApiAssumption, CountOfImage
<1>5. SumFunctionOnSet(clients, E) = Cardinality(Clients)
  <2>1. \A f \in Firms : ClientsOf(f) \cap Clients = ClientsOf(f)
    BY ClientCounts
  <2> QED BY <1>2, <2>1, HeadCount
<1>6. SumFunctionOnSet(summarised, E) = Cardinality(Summarised)
  <2>1. Summarised \in SUBSET Clients
    BY DEF Summarised
  <2> QED BY <1>2, <2>1, HeadCount
<1>7. SumFunctionOnSet(stales, E) = Cardinality(StaleClients)
  <2>1. StaleClients \in SUBSET Clients
    BY DEF StaleClients
  <2> QED BY <1>2, <2>1, HeadCount
<1>8. SumFunctionOnSet(emails, E) = SumFunctionOnSet(EmailsOf, Clients)
  <2>1. \A c \in Clients : EmailsOf[c] \in Int
    BY ClientCounts
  <2> QED BY <1>2, <2>1, HeadSum
<1> QED BY <1>3, <1>4, <1>5, <1>6, <1>7, <1>8

(***************************************************************************)
(* The two reports agree in every state of the tables, for any number of   *)
(* firms, empty ones too, and of clients, without emails or summary too;   *)
(* and the network's head counts every client, summary, stale client and   *)
(* email exactly once (firm_client_rows, network_firm_rows).               *)
(***************************************************************************)
THEOREM ReportsAgree == ApiSpec => []RollupMatchesFirmReports
<1>1. TypeOK => RollupMatchesFirmReports
  <2> SUFFICES ASSUME TypeOK, NEW a \in Accounts, NetworkReport(a) # {}
               PROVE  /\ \A entry \in NetworkRows :
                           entry.totals = FirmTotals(FirmReport(a, entry.firm))
                      /\ NetworkHead(NetworkRows) =
                           [firms       |-> Cardinality(Firms),
                            clients     |-> Cardinality(Clients),
                            withSummary |-> Cardinality({c \in Clients : rows[c] # NoRow}),
                            stale       |-> Cardinality({c \in Clients :
                                              IsStale(Len(inbox[c]), rows[c])}),
                            emails      |-> SumFunction([c \in Clients |-> Len(inbox[c])])]
    BY DEF RollupMatchesFirmReports, NetworkReport
  <2>1. Authenticated(a) /\ RoleOf[a] = "superuser"
    BY DEF NetworkReport, HasRole
  <2>2. ASSUME NEW f \in Firms
        PROVE  NetworkTotals(f) = FirmTotals(FirmReport(a, f))
    <3>1. FirmReport(a, f) = FirmClientRows(f)
      BY <2>1 DEF FirmReport, HasRole, FirmScope
    <3> QED BY <3>1, FirmTotalsCountClients, NetworkTotalsCountClients
  <2>3. \A entry \in NetworkRows : entry.totals = FirmTotals(FirmReport(a, entry.firm))
    BY <2>2 DEF NetworkRows
  <2>4. SumFunction([c \in Clients |-> Len(inbox[c])]) = SumFunctionOnSet(EmailsOf, Clients)
    BY DEF SumFunction, EmailsOf
  <2> QED BY <2>3, <2>4, HeadCountsNetwork DEF Summarised, StaleClients
<1> QED BY <1>1, ApiKeepsService, TypeCorrect, PTL

=============================================================================
