---------------------------- MODULE SummaryService ----------------------------
(***************************************************************************)
(* The summary of a client's emails: how GET /clients/{id}/summary and     *)
(* POST /clients/{id}/summary/refresh interleave at their awaits, over     *)
(* Postgres (READ COMMITTED), Redis and the language model.                *)
(*                                                                         *)
(*   app/services/summary_service.py     the two handlers                  *)
(*   app/repositories/email_summary.py   the one-row-per-client upsert     *)
(*   app/core/cache.py                   the best-effort Redis cache       *)
(*   app/core/crypto.py                  the versioned key ring            *)
(*                                                                         *)
(* The i-th email of a client, in sent_at order, is named by its position; *)
(* its content is the length of its body, which is all truncation looks    *)
(* at.  A summary is the set of emails it reflects.                        *)
(***************************************************************************)
EXTENDS ContextWindow, FiniteSets

CONSTANTS
  Clients, Readers, Refreshers,  \* clients, GET requests and POST requests
  ProviderReadsPrior, \* TRUE for OpenAIProvider, FALSE for StubProvider
  Bodies,          \* body lengths an email may have
  MaxEmails,       \* bound: emails received per client
  MaxRefreshes,    \* bound: summaries generated in a behaviour
  MaxRotations,    \* bound: key rotations in a behaviour
  RedisFaults,     \* may a Redis command fail?
  RequestFaults,   \* may a request die on a database error?
  Restarts,        \* may the process stop and start again?
  NoRow, NoBlob    \* no summary row in Postgres, no entry in Redis

VARIABLES
  inbox,      \* the emails table: body lengths, oldest first
  rows,       \* the email_summaries table
  cache,      \* Redis: summary:{client_id}
  gets,       \* GET requests in flight or just finished
  posts,      \* POST requests in flight or just finished
  nonce,      \* the last nonce drawn; nonces never repeat
  activeKey,  \* settings.summary_encryption_key_version of this process
  history,    \* ghost: every row committed for a client, in commit order
  acked       \* ghost: the last of them whose refresh answered its caller

vars == <<inbox, rows, cache, gets, posts, nonce, activeKey, history, acked>>

-----------------------------------------------------------------------------
(* Data *)

\* `emails` are reflected in the summary, `dropped` were left out of the
\* prompt by truncation.
Payload == [emails : SUBSET Nat, dropped : SUBSET Nat]

\* What AES-GCM authenticates: one key, one nonce, one owner (the AAD).
Ciphertext == [key : Nat, nonce : Nat, aad : Clients, payload : Payload]

Row == [ciphertext : Ciphertext, keyVersion : Nat, analyzed : Nat]

ASSUME ServiceAssumption ==
  /\ MaxEmails \in Nat /\ MaxRefreshes \in Nat /\ MaxRotations \in Nat
  /\ Bodies \subseteq Nat
  /\ {ProviderReadsPrior, RedisFaults, RequestFaults, Restarts} \subseteq BOOLEAN
  /\ NoRow \notin Row /\ NoBlob \notin Row /\ NoRow # NoBlob

\* A cached blob is a snapshot of the row, or of its absence (NoRow is
\* the "generated": False blob).
Blob == Row \cup {NoRow}

Finished == {"idle", "answered", "failed"}

GetState ==
  [phase : {"idle", "failed"}]
    \cup [phase : {"counted", "missed"}, client : Clients, total : Nat, floor : Nat]
    \cup [phase : {"read", "answered"}, client : Clients, total : Nat, floor : Nat,
          blob : Blob]

PostState ==
  [phase : {"idle", "failed", "answered"}]
    \cup [phase : {"listed"}, client : Clients, total : Nat]
    \cup [phase : {"prompted"}, client : Clients, total : Nat, draft : Payload]
    \cup [phase : {"selected"}, client : Clients, seen : Blob, new : Row]
    \cup [phase : {"committed"}, client : Clients, version : Nat]

TypeOK ==
  /\ inbox \in [Clients -> Seq(Nat)]
  /\ rows \in [Clients -> Blob]
  /\ cache \in [Clients -> Blob \cup {NoBlob}]
  /\ gets \in [Readers -> GetState]
  /\ posts \in [Refreshers -> PostState]
  /\ nonce \in Nat
  /\ activeKey \in Nat
  /\ history \in [Clients -> Seq(Row)]
  /\ acked \in [Clients -> Nat]

Init ==
  /\ inbox = [c \in Clients |-> <<>>]
  /\ rows = [c \in Clients |-> NoRow]
  /\ cache = [c \in Clients |-> NoBlob]
  /\ gets = [r \in Readers |-> [phase |-> "idle"]]
  /\ posts = [p \in Refreshers |-> [phase |-> "idle"]]
  /\ nonce = 0
  /\ activeKey = 1
  /\ history = [c \in Clients |-> <<>>]
  /\ acked = [c \in Clients |-> 0]

-----------------------------------------------------------------------------
(* Crypto and staleness *)

\* Mutant: encrypt is called without associated_data.
EncryptUnbound(payload, c) ==
  [key |-> activeKey, nonce |-> nonce + 1, aad |-> NoRow, payload |-> payload]

Encrypt(payload, c) ==
  [key |-> activeKey, nonce |-> nonce + 1, aad |-> c, payload |-> payload]

\* get_encryptor builds a key ring of the active version alone.
Keyring == {activeKey}

Decrypts(row, c) ==
  /\ row.keyVersion \in Keyring
  /\ row.ciphertext.key = row.keyVersion
  /\ row.ciphertext.aad = c

Analyzed(blob) == IF blob = NoRow THEN 0 ELSE blob.analyzed

NewEmails(total, blob) ==
  IF total > Analyzed(blob) THEN total - Analyzed(blob) ELSE 0

IsStale(total, blob) == blob = NoRow \/ NewEmails(total, blob) > 0

Covered(row) == row.ciphertext.payload.emails \cup row.ciphertext.payload.dropped

-----------------------------------------------------------------------------
(* GET /clients/{id}/summary *)

\* The client is loaded and its emails counted.
GetStart(r, c) ==
  /\ gets[r].phase \in Finished
  /\ gets' = [gets EXCEPT ![r] = [phase |-> "counted", client |-> c,
                                  total |-> Len(inbox[c]), floor |-> acked[c]]]
  /\ UNCHANGED <<inbox, rows, cache, posts, nonce, activeKey, history, acked>>

\* _build_response: decrypt, or the DecryptionError nobody handles.
Respond(r, blob) ==
  gets' = [gets EXCEPT ![r] =
    IF blob = NoRow \/ Decrypts(blob, @.client)
    THEN [phase |-> "answered", client |-> @.client, total |-> @.total,
          floor |-> @.floor, blob |-> blob]
    ELSE [phase |-> "failed"]]

CacheHit(r) ==
  /\ cache[gets[r].client] # NoBlob
  /\ Respond(r, cache[gets[r].client])

\* Nothing cached, or Redis failed: both are a miss.
CacheMiss(r) ==
  /\ cache[gets[r].client] = NoBlob \/ RedisFaults
  /\ gets' = [gets EXCEPT ![r] = [@ EXCEPT !.phase = "missed"]]

\* Mutant: a miss is not handled.
GetCachedHitOnly(r) ==
  /\ gets[r].phase = "counted"
  /\ CacheHit(r)
  /\ UNCHANGED <<inbox, rows, cache, posts, nonce, activeKey, history, acked>>

GetCached(r) ==
  /\ gets[r].phase = "counted"
  /\ CacheHit(r) \/ CacheMiss(r)
  /\ UNCHANGED <<inbox, rows, cache, posts, nonce, activeKey, history, acked>>

\* _read_model_from_db.
GetRow(r) ==
  /\ gets[r].phase = "missed"
  /\ gets' = [gets EXCEPT ![r] =
       [phase |-> "read", client |-> @.client, total |-> @.total,
        floor |-> @.floor, blob |-> rows[@.client]]]
  /\ UNCHANGED <<inbox, rows, cache, posts, nonce, activeKey, history, acked>>

\* The blob is cached before it is decrypted, readable or not.
GetFill(r) ==
  /\ gets[r].phase = "read"
  /\ \/ cache' = [cache EXCEPT ![gets[r].client] = gets[r].blob]
     \/ RedisFaults /\ UNCHANGED cache
  /\ Respond(r, gets[r].blob)
  /\ UNCHANGED <<inbox, rows, posts, nonce, activeKey, history, acked>>

-----------------------------------------------------------------------------
(* POST /clients/{id}/summary/refresh *)

\* list_for_client; the inbox only grows, so the list is its first `total`.
PostStart(p, c) ==
  /\ posts[p].phase \in Finished
  /\ posts' = [posts EXCEPT ![p] =
       IF inbox[c] = <<>>
       THEN [phase |-> "failed"]
       ELSE [phase |-> "listed", client |-> c, total |-> Len(inbox[c])]]
  /\ UNCHANGED <<inbox, rows, cache, gets, nonce, activeKey, history, acked>>

\* Mutant: an incremental pass forgets what the prior summary said.
DraftWithoutPrior(bodies, prior) ==
  LET context == BuildRefreshContext(bodies, Analyzed(prior), prior # NoRow)
  IN  [emails |-> context.selected, dropped |-> context.source \ context.selected]

\* What a provider keeps of the prior summary of an incremental pass:
\* StubProvider looks at context.emails only.
Carried(incremental, prior) ==
  IF incremental /\ ProviderReadsPrior
  THEN prior.ciphertext.payload
  ELSE [emails |-> {}, dropped |-> {}]

\* The summary the provider will produce: it reflects the emails it is sent
\* and what it carries over.
Draft(bodies, prior) ==
  LET context == BuildRefreshContext(bodies, Analyzed(prior), prior # NoRow)
      carried == Carried(context.incremental, prior)
  IN  [emails  |-> carried.emails \cup context.selected,
       dropped |-> carried.dropped \cup (context.source \ context.selected)]

\* Mutant: a prior summary that a full pass does not need is not decrypted.
PostPromptTrustingFullPass(p) ==
  /\ posts[p].phase = "listed"
  /\ LET c      == posts[p].client
         total  == posts[p].total
         prior  == rows[c]
         bodies == SubSeq(inbox[c], 1, total)
         full   == ~BuildRefreshContext(bodies, Analyzed(prior), prior # NoRow).incremental
     IN  posts' = [posts EXCEPT ![p] =
           IF prior = NoRow \/ full \/ Decrypts(prior, c)
           THEN [phase |-> "prompted", client |-> c, total |-> total,
                 draft |-> Draft(bodies, prior)]
           ELSE [phase |-> "failed"]]
  /\ UNCHANGED <<inbox, rows, cache, gets, nonce, activeKey, history, acked>>

\* _load_prior_summary and _build_refresh_context.
PostPrompt(p) ==
  /\ posts[p].phase = "listed"
  /\ LET c     == posts[p].client
         total == posts[p].total
         prior == rows[c]
     IN  posts' = [posts EXCEPT ![p] =
           IF prior = NoRow \/ Decrypts(prior, c)
           THEN [phase |-> "prompted", client |-> c, total |-> total,
                 draft |-> Draft(SubSeq(inbox[c], 1, total), prior)]
           ELSE [phase |-> "failed"]]
  /\ UNCHANGED <<inbox, rows, cache, gets, nonce, activeKey, history, acked>>

\* Every retry of the provider failed: 502, and no state is touched.
PostLlmFails(p) ==
  /\ posts[p].phase = "prompted"
  /\ posts' = [posts EXCEPT ![p] = [phase |-> "failed"]]
  /\ UNCHANGED <<inbox, rows, cache, gets, nonce, activeKey, history, acked>>

\* Mutant: the emails are counted again when the row is written.
NewRowRecounted(payload, c, total) ==
  [ciphertext |-> Encrypt(payload, c), keyVersion |-> activeKey,
   analyzed |-> Len(inbox[c])]

\* Mutant: the emails sent are counted, not those there are.
NewRowCountingSent(payload, c, total) ==
  [ciphertext |-> Encrypt(payload, c), keyVersion |-> activeKey,
   analyzed |-> Max({1, NewEmails(total, rows[c])})]

NewRow(payload, c, total) ==
  [ciphertext |-> Encrypt(payload, c), keyVersion |-> activeKey, analyzed |-> total]

\* Mutant: the cache is warmed with the new row before it is committed.
PostGenerateWarmingCache(p) ==
  /\ posts[p].phase = "prompted"
  /\ nonce < MaxRefreshes
  /\ nonce' = nonce + 1
  /\ LET c   == posts[p].client
         new == NewRow(posts[p].draft, c, posts[p].total)
     IN  /\ posts' = [posts EXCEPT ![p] =
                [phase |-> "selected", client |-> c, seen |-> rows[c], new |-> new]]
         /\ cache' = [cache EXCEPT ![c] = new]
  /\ UNCHANGED <<inbox, rows, gets, activeKey, history, acked>>

(***************************************************************************)
(* The model answers, the payload is encrypted, and upsert selects the row *)
(* it will insert or update.                                               *)
(***************************************************************************)
PostGenerate(p) ==
  /\ posts[p].phase = "prompted"
  /\ nonce < MaxRefreshes
  /\ nonce' = nonce + 1
  /\ posts' = [posts EXCEPT ![p] =
       [phase |-> "selected", client |-> @.client, seen |-> rows[@.client],
        new |-> NewRow(@.draft, @.client, @.total)]]
  /\ UNCHANGED <<inbox, rows, cache, gets, activeKey, history, acked>>

\* Mutant: the counter is bumped in SQL instead of assigned.
WrittenByDelta(seen, new, stored) ==
  [new EXCEPT !.analyzed = Analyzed(stored) + 1]

(***************************************************************************)
(* What the UPDATE leaves in the table.  The ORM emits only the columns    *)
(* whose new value differs from the row it selected, so a column that      *)
(* looked unchanged keeps whatever is stored by now.                       *)
(***************************************************************************)
Written(seen, new, stored) ==
  [new EXCEPT
     !.keyVersion = IF new.keyVersion = seen.keyVersion THEN stored.keyVersion ELSE @,
     !.analyzed   = IF new.analyzed = seen.analyzed THEN stored.analyzed ELSE @]

\* client_id is unique: a second INSERT fails.
InsertConflict(p) ==
  posts[p].seen = NoRow /\ rows[posts[p].client] # NoRow

\* The flush raises IntegrityError, which nobody handles: a 500.
PostConflict(p) ==
  /\ posts[p].phase = "selected"
  /\ InsertConflict(p)
  /\ posts' = [posts EXCEPT ![p] = [phase |-> "failed"]]
  /\ UNCHANGED <<inbox, rows, cache, gets, nonce, activeKey, history, acked>>

RowToCommit(p) ==
  IF posts[p].seen = NoRow
  THEN posts[p].new
  ELSE Written(posts[p].seen, posts[p].new, rows[posts[p].client])

\* Mutant: the service never commits.
PostCommitForgotten(p) ==
  /\ posts[p].phase = "selected"
  /\ posts' = [posts EXCEPT ![p] = [phase |-> "committed", client |-> @.client,
                                    version |-> Len(history[@.client]) + 1]]
  /\ UNCHANGED <<inbox, rows, cache, gets, nonce, activeKey, history, acked>>

\* Flush and commit.
PostCommit(p) ==
  /\ posts[p].phase = "selected"
  /\ ~InsertConflict(p)
  /\ LET c == posts[p].client
     IN  /\ rows' = [rows EXCEPT ![c] = RowToCommit(p)]
         /\ history' = [history EXCEPT ![c] = Append(@, RowToCommit(p))]
         /\ posts' = [posts EXCEPT ![p] = [phase |-> "committed", client |-> c,
                                           version |-> Len(history[c]) + 1]]
  /\ UNCHANGED <<inbox, cache, gets, nonce, activeKey, acked>>

\* Mutant: the entry is left to the TTL.
PostInvalidateForgotten(p) ==
  /\ posts[p].phase = "committed"
  /\ acked' = [acked EXCEPT ![posts[p].client] = Max({@, posts[p].version})]
  /\ posts' = [posts EXCEPT ![p] = [phase |-> "answered"]]
  /\ UNCHANGED <<inbox, rows, cache, gets, nonce, activeKey, history>>

\* cache_delete, then the response.
PostInvalidate(p) ==
  /\ posts[p].phase = "committed"
  /\ LET c == posts[p].client
     IN  /\ \/ cache' = [cache EXCEPT ![c] = NoBlob]
            \/ RedisFaults /\ UNCHANGED cache
         /\ acked' = [acked EXCEPT ![c] = Max({@, posts[p].version})]
  /\ posts' = [posts EXCEPT ![p] = [phase |-> "answered"]]
  /\ UNCHANGED <<inbox, rows, gets, nonce, activeKey, history>>

-----------------------------------------------------------------------------
(* The environment *)

\* Ingestion, which is outside src/: emails arrive in sent_at order.
ReceiveEmail(c) ==
  /\ Len(inbox[c]) < MaxEmails
  /\ \E chars \in Bodies : inbox' = [inbox EXCEPT ![c] = Append(@, chars)]
  /\ UNCHANGED <<rows, cache, gets, posts, nonce, activeKey, history, acked>>

\* Mutant: cache_set_json without ex=ttl_seconds.
ExpireNever(c) == FALSE /\ UNCHANGED vars

\* Redis drops an entry summary_cache_ttl_seconds after it was set.
Expire(c) ==
  /\ cache[c] # NoBlob
  /\ cache' = [cache EXCEPT ![c] = NoBlob]
  /\ UNCHANGED <<inbox, rows, gets, posts, nonce, activeKey, history, acked>>

(***************************************************************************)
(* A database error ends a request with a 500.  In phase "committed" it is *)
(* the COMMIT whose acknowledgement is lost: the row is there, the caller  *)
(* gets an error and the cache is not invalidated.                         *)
(***************************************************************************)
AbortGet(r) ==
  /\ RequestFaults
  /\ gets[r].phase = "missed"
  /\ gets' = [gets EXCEPT ![r] = [phase |-> "failed"]]
  /\ UNCHANGED <<inbox, rows, cache, posts, nonce, activeKey, history, acked>>

AbortPost(p) ==
  /\ RequestFaults
  /\ posts[p].phase \in {"listed", "prompted", "selected", "committed"}
  /\ posts' = [posts EXCEPT ![p] = [phase |-> "failed"]]
  /\ UNCHANGED <<inbox, rows, cache, gets, nonce, activeKey, history, acked>>

(***************************************************************************)
(* The process stops, its requests die with it, and it starts again with   *)
(* the same key or with a new key under the next version.                  *)
(***************************************************************************)
Restart ==
  /\ Restarts
  /\ gets' = [r \in Readers |-> [phase |-> "idle"]]
  /\ posts' = [p \in Refreshers |-> [phase |-> "idle"]]
  /\ \/ UNCHANGED activeKey
     \/ activeKey <= MaxRotations /\ activeKey' = activeKey + 1
  /\ UNCHANGED <<inbox, rows, cache, nonce, history, acked>>

-----------------------------------------------------------------------------
GetStep(r) == GetCached(r) \/ GetRow(r) \/ GetFill(r)

PostStep(p) ==
  PostPrompt(p) \/ PostLlmFails(p) \/ PostGenerate(p) \/ PostConflict(p)
    \/ PostCommit(p) \/ PostInvalidate(p)

Next ==
  \/ \E r \in Readers : (\E c \in Clients : GetStart(r, c)) \/ GetStep(r) \/ AbortGet(r)
  \/ \E p \in Refreshers : (\E c \in Clients : PostStart(p, c)) \/ PostStep(p) \/ AbortPost(p)
  \/ \E c \in Clients : ReceiveEmail(c) \/ Expire(c)
  \/ Restart

Spec == Init /\ [][Next]_vars

(***************************************************************************)
(* The event loop resumes every request whose awaited call is over, the    *)
(* database and Redis clients answer or raise, the provider answers or     *)
(* runs out of retries, and Redis expires its keys.  No new request, email *)
(* or restart is ever owed.                                                *)
(***************************************************************************)
Fairness ==
  /\ \A r \in Readers : WF_vars(GetStep(r))
  /\ \A p \in Refreshers : WF_vars(PostStep(p))
  /\ \A c \in Clients : WF_vars(Expire(c))

FairSpec == Spec /\ Fairness

-----------------------------------------------------------------------------
(* Safety *)

(***************************************************************************)
(* Redis never holds anything but a row that was committed at some time,   *)
(* or the absence of one: no request caches what it is about to write, or  *)
(* a mixture (get_summary and refresh_summary in any interleaving).        *)
(***************************************************************************)
CacheHoldsCommittedRow ==
  \A c \in Clients : cache[c] \in {NoBlob, NoRow} \cup Range(history[c])

(***************************************************************************)
(* However refreshes overlap, a row never counts or reflects an email that *)
(* has not arrived, and never counts none (upsert, refresh_summary).       *)
(***************************************************************************)
RowWithinInbox ==
  \A c \in Clients : rows[c] # NoRow =>
    /\ rows[c].analyzed \in 1 .. Len(inbox[c])
    /\ Covered(rows[c]) \subseteq 1 .. Len(inbox[c])

(***************************************************************************)
(* DESIGN.md, section 5: "new writes use the current key while old rows    *)
(* remain decryptable under their recorded version".  Whatever is stored   *)
(* for a client decrypts, under that client's id, in the running process.  *)
(***************************************************************************)
StoredSummariesReadable ==
  \A c \in Clients :
    /\ rows[c] # NoRow => Decrypts(rows[c], c)
    /\ cache[c] \notin {NoBlob, NoRow} => Decrypts(cache[c], c)

(***************************************************************************)
(* A summary that the running key cannot read is never written over: the   *)
(* refresh fails on it (_load_prior_summary), also one that would not have *)
(* used it, and one that was under way when the key changed died with its  *)
(* process.  Going back to the earlier key therefore brings it back.       *)
(***************************************************************************)
UnreadableRowsKept ==
  [][\A c \in Clients :
       (rows[c] # NoRow /\ ~Decrypts(rows[c], c)) => rows'[c] = rows[c]]_vars

(***************************************************************************)
(* emails_analyzed_count belongs to the payload it is stored with: the     *)
(* first `analyzed` emails are those the summary reflects or knowingly     *)
(* dropped.                                                                *)
(***************************************************************************)
CountMatchesPayload ==
  \A c \in Clients : rows[c] # NoRow => Covered(rows[c]) = 1 .. rows[c].analyzed

(***************************************************************************)
(* README.md: staleness is "computed live on every read, so the dashboard  *)
(* never hides new mail".  A summary answered as fresh leaves out no email *)
(* that was in the inbox when the answer counted it.                       *)
(***************************************************************************)
FreshAnswerHidesNothing ==
  \A r \in Readers :
    (gets[r].phase = "answered" /\ ~IsStale(gets[r].total, gets[r].blob)) =>
      1 .. gets[r].total \subseteq Covered(gets[r].blob)

(***************************************************************************)
(* The docstring of _build_refresh_context: "emails[:analyzed] are already *)
(* reflected in `prior`".  Every email the row counts is in its summary,   *)
(* truncation notwithstanding.                                             *)
(***************************************************************************)
CountedEmailsReflected ==
  \A c \in Clients : rows[c] # NoRow =>
    1 .. rows[c].analyzed \subseteq rows[c].ciphertext.payload.emails

(***************************************************************************)
(* What keeps a counted email out of the summary is the budget alone: a    *)
(* client whose inbox fits into one prompt has every email it counts in    *)
(* its summary, through any chain of full and incremental passes.          *)
(***************************************************************************)
InboxFits(c) == KeptCount(inbox[c]) = Len(inbox[c])

AmpleBudgetReflectsAll ==
  \A c \in Clients : (InboxFits(c) /\ rows[c] # NoRow) =>
    1 .. rows[c].analyzed \subseteq rows[c].ciphertext.payload.emails

\* The rows committed for c, from the version-th on.
CommittedSince(c, version) ==
  {history[c][i] : i \in version .. Len(history[c])}

(***************************************************************************)
(* A read that goes to Postgres sees every refresh that had answered       *)
(* before the read began, or a later one: the lag of a read is the cache's *)
(* alone.                                                                  *)
(***************************************************************************)
MissSeesAcknowledgedRefresh ==
  \A r \in Readers : (gets[r].phase = "read" /\ gets[r].floor > 0) =>
    gets[r].blob \in CommittedSince(gets[r].client, gets[r].floor)

(***************************************************************************)
(* tests/test_summary_api.py: "Refresh encrypts; a later GET must decrypt  *)
(* and return the same payload."  A GET that begins after a refresh has    *)
(* answered returns what that refresh, or a later one, stored.             *)
(***************************************************************************)
ReadYourRefresh ==
  \A r \in Readers : (gets[r].phase = "answered" /\ gets[r].floor > 0) =>
    gets[r].blob \in CommittedSince(gets[r].client, gets[r].floor)

(***************************************************************************)
(* What keeps count and payload together is only that no two refreshes of  *)
(* one client are between their SELECT and their COMMIT at the same time:  *)
(* while that holds, however else they overlap, CountMatchesPayload does.  *)
(***************************************************************************)
NoUpsertOverlap ==
  \A p, q \in Refreshers :
    (posts[p].phase = "selected" /\ posts[q].phase = "selected" /\ p # q) =>
      posts[p].client # posts[q].client

DisjointUpsertsKeepCounts == []NoUpsertOverlap => []CountMatchesPayload

(***************************************************************************)
(* A slow refresh that commits after a quicker, later one puts the older   *)
(* count back.  Nothing else does: as long as no refresh of a client is    *)
(* between its list of emails and its COMMIT while another one is between  *)
(* its COMMIT and its answer, every row committed for the client counts at *)
(* least as many emails as those before it.                                *)
(***************************************************************************)
NoOvertaking ==
  \A p, q \in Refreshers :
    ~ /\ posts[p].phase = "committed"
      /\ posts[q].phase \in {"listed", "prompted", "selected"}
      /\ posts[p].client = posts[q].client

CountsGrow ==
  \A c \in Clients : \A j \in 1 .. Len(history[c]) : \A i \in 1 .. j :
    history[c][i].analyzed <= history[c][j].analyzed

UnovertakenCountsGrow == []NoOvertaking => []CountsGrow

(***************************************************************************)
(* ReadYourRefresh fails only by a read that fills the cache with the row  *)
(* of before a refresh after that refresh has deleted the entry.  As long  *)
(* as no read is between its SELECT and its cache_set while a refresh of   *)
(* the client is between COMMIT and cache_delete, and Redis does what it   *)
(* is told, every GET that begins after a refresh has answered sees it.    *)
(***************************************************************************)
NoFillOverlap ==
  \A r \in Readers, p \in Refreshers :
    ~ /\ gets[r].phase = "read" /\ posts[p].phase = "committed"
      /\ gets[r].client = posts[p].client

QuietFillsReadYourRefresh == []NoFillOverlap => []ReadYourRefresh

-----------------------------------------------------------------------------
(* Refinement *)

Promise == INSTANCE SummaryPromise WITH
  received  <- [c \in Clients |-> Len(inbox[c])],
  claimed   <- [c \in Clients |-> Analyzed(rows[c])],
  accounted <- [c \in Clients |-> IF rows[c] = NoRow THEN {} ELSE Covered(rows[c])]

\* With one refresh at a time, the stored row does what SummaryPromise says.
KeepsPromise == Promise!PromiseSpec

-----------------------------------------------------------------------------
(* Liveness *)

(***************************************************************************)
(* Every request ends: with an answer, an error status or the process.  In *)
(* particular a Redis failure never leaves a read without an answer.       *)
(***************************************************************************)
RequestsFinish ==
  /\ \A r \in Readers : gets[r].phase \notin Finished ~> gets[r].phase \in Finished
  /\ \A p \in Refreshers : posts[p].phase \notin Finished ~> posts[p].phase \in Finished

(***************************************************************************)
(* Once refreshes stop, the cache ends up empty or equal to the row, and   *)
(* stays so, whatever invalidations were lost or overtaken: the TTL is     *)
(* what guarantees it (cache_set_json, ex=ttl_seconds).                    *)
(***************************************************************************)
CacheConverges ==
  \A c \in Clients : <>[](cache[c] \in {NoBlob, rows[c]})

=============================================================================
