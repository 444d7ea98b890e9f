# Email Context in TLA+

A verification project for the service in `src/`: a FastAPI application that
keeps one AI-generated, encrypted summary per client of an accounting firm,
served through a Redis cache, with firm-scoped access, two reports and a small
browser client. This file says what the parts are, which module models which,
what the runs check, what is proved, and what is left.

## 1. The system

| Part | State | Operations | Talks to |
|---|---|---|---|
| Summary service (`app/services/summary_service.py`, `repositories/email_summary.py`, `repositories/email.py`) | one row per client in `email_summaries`: ciphertext, nonce, key version, `emails_analyzed_count` | `GET …/summary` (read, never calls the model), `POST …/refresh` (the only model call) | Postgres, Redis, provider, encryptor |
| Context window (same file, pure helpers) | none | token estimate, newest-first budget loop, full or incremental pass | – |
| Cache (`core/cache.py`) | `summary:{client_id}` → a JSON snapshot of the row, with a TTL | get, set, delete, each best effort | Redis |
| Encryption (`core/crypto.py`) | key ring by version, active version | encrypt, decrypt with the client id as associated data | – |
| Providers (`services/llm/`) | – | `summarize`: OpenAI with retries, or a deterministic stub | OpenAI |
| Reports (`services/report_service.py`, `repositories/report.py`) | – | firm report, network rollup | Postgres |
| Authentication and tenancy (`core/security.py`, `core/deps.py`, `api/v1/auth.py`) | accounts (role, firm); the token is held by its client | login, resolve the caller, gate by role, scope by firm | Postgres |
| Web client (`app/web/app.js`) | token in `localStorage`; per tab: user, view, hash, content | boot, login, logout, route, render, regenerate | the API |
| Process and error mapping (`main.py`, `db/session.py`, `core/config.py`, `api/responses.py`) | settings, a pool of connections, a session per request | admit, answer with a status, close the session | Postgres, every handler |
| Seed script (`scripts/seed.py`) | where it is in its five transactions | wipe, insert, pre-generate through the real service, hold back the late emails | Postgres, the service |
| Evaluations, telemetry, logging, migrations | – | – | – |

Nothing in the application takes a lock: requests are coroutines that interleave
at every `await`, and with several worker processes also between them. The hard
behaviours follow from that: a value read before an await is used after it
(count, row, list of emails), the row and the cache are two stores updated one
after the other, the model call between reading the inbox and writing the row
takes seconds, Redis and the database may fail at any call, and the process may
restart, possibly with another key. A refresh keeps its pooled connection while
the model is called, and that call is retried by two loops at once. In the browser, answers arrive in any order
while the user navigates, logs out and logs in again. `PROJECT.json` lists each
such hazard at its line under `hazards`.

What makes each part correct, in one line:

- **Summary service**: the count stored with a summary is the number of emails
  it accounts for; staleness, computed at read time, hides no email; an
  acknowledged refresh is visible; a row that the running key cannot read is not
  written over; the cache holds only committed rows and converges to the row.
- **Context window**: the prompt holds the most newest emails that fit, and no
  email falls between the prior summary and the prompt; an email that arrives out
  of order costs one email, not more.
- **Encryption**: whatever is stored decrypts, for its own client only.
- **Providers**: a refresh costs at most the product of the two retry loops, and
  nothing is sent again after an error that will not go away.
- **Process**: every request ends and gives its connection back; a status tells
  the caller whether anything was written.
- **Reports**: two computations, one in SQL and one in Python, agree with each
  other and with the endpoint in every state of the tables; the endpoint's cached
  answer is never fresher than the report.
- **Tenancy**: every path asks role and firm before it touches anything. That is one
  guard before one call; it is modelled, and no property restates it.
- **Web client**: header, address, screen and token belong together as far as the
  order of answers allows; a disabled button waits for its own call; no tab waits
  for ever.
- **Seed script**: the wipe is whole or not at all; a completed run shows the
  states it announces, whatever earlier runs left and users did meanwhile.

## 2. Modules

| Module | Models | Notes |
|---|---|---|
| `ContextWindow` | the pure helpers of `summary_service.py` | operators; the budget loop is a fold; at its end `LargestFit`, what the loop should compute, said without following it |
| `MCContextWindow` | – | every bounded input, against definitions that do not follow the loop |
| `SummaryService` | `summary_service.py` with upsert, cache, key ring and provider | extends `ContextWindow` |
| `SummaryPromise` | – | the abstract specification: a row covers a prefix of the inbox that never shrinks |
| `Api` | `deps.py`, `_load_client`, both reports | extends `SummaryService`; its steps are the service's, behind the guards |
| `Provider` | `openai_provider.py` and the retries of the SDK's client | the callers are abstract |
| `Server` | `main.py`, `session.py`, `factory.py`, when `crypto.py` loads its key | extends `Api` and `Provider`; its steps are theirs, with a pool, stages and statuses around |
| `WebClient` | `app.js`, any number of tabs | sees the API through its answers |
| `Seed` | `seed.py` beside users who refresh | a refresh is reduced to list, select, write |
| `MC*` | – | values for the constants |
| `FoldLemmas` | – | lemmas about the folds and sums of the community modules |
| `ContextWindow_proofs`, `MCContextWindow_proofs` | – | the budget loop, turn by turn; the invariants about inbox and prompt that follow |
| the other `*_proofs` | – | the theorems about the module of that name; `SummaryService_proofs` has the refinement of `SummaryPromise` and `Server_proofs` what is proved of `Provider` too |

### SummaryService

One action is what runs between two awaits that matter to another request.

| Action | Code |
|---|---|
| `GetStart` | load the client, count its emails |
| `GetCached` (`CacheHit`, `CacheMiss`) | `cache_get_json`; a Redis failure is a miss; a hit is decrypted and answered |
| `GetRow` | `_read_model_from_db` |
| `GetFill` | `cache_set_json`, then the answer; the blob is cached even if it does not decrypt |
| `PostStart` | list the emails; none is a 400 |
| `PostPrompt` | decrypt the prior summary, choose the pass, truncate |
| `PostGenerate` / `PostLlmFails` | the model answers and `upsert` selects the row / every retry failed |
| `PostCommit` / `PostConflict` | flush and commit / the unique constraint refuses a second first summary |
| `PostInvalidate` | `cache_delete`, then the answer |
| `ReceiveEmail`, `Expire`, `AbortGet`, `AbortPost`, `Restart` | ingestion, the TTL, database errors and lost commit acknowledgements, a restart with the same or the next key version |

Emails are named by their position in `sent_at` order and carry their length,
all that truncation looks at. A summary is the set of emails it reflects plus
the set it knowingly dropped. A ciphertext is an ideal AEAD: key, nonce, owner,
payload; a nonce is a number that never repeats. The UPDATE is what the ORM
emits: columns whose value equals the one selected are not sent (`Written`).
The SELECT of `upsert` sees the row as it is then: the session holds the row that
`_load_prior_summary` loaded only weakly, and nothing else refers to it by then.
`history` and `acked` are ghosts: no guard reads them.

Ingestion is not in `src/`. The model takes from the docstring of
`_build_refresh_context` that the inbox grows at its end. What it costs when it
does not is asked of the pure helpers alone, in `MCContextWindow`: an email that
arrives with an older `sent_at` sinks below the high-water mark; until the next
full pass at most one email goes unseen for it, and an incremental pass sends at
most one twice (`LateEmailsCostOneEach`).

### Api

A refused request touches nothing, so the steps are the requests let in
(`AskSummary`, `AskRefresh`: the guards of `get_current_user` and `_load_client`
before `GetStart` and `PostStart`), the service's own steps, and the removal of
an account. That `ApiSpec` implies `Spec` is therefore no finding: the lemma
`ApiKeepsService` only carries the theorems about the service over. The reports read in one statement each; they are operators over the
tables (`FirmReport`, `NetworkReport`) that keep SQL's NULLs: the missing row of
the email-count subquery, the NULL columns of a client without summary, the row
of NULLs of a firm without clients. That `FirmReport` loads the firm in a
statement of its own makes no difference, since no code removes a firm. The head
of the network report (`NetworkHead`) is its totals over firms.

### Provider

`Begin`, `Complete`, `Resend`, `Reattempt` and `Return` are one call of `summarize`.
`PhaseAfter` decides where an outcome leads: the client of the SDK, built without
`max_retries`, repeats what it holds to be temporary (`SdkRetryable`, which has
408 and 409 in it); what it raises in the end reaches tenacity, which repeats
`_RETRYABLE` only. Backing off is a phase and not a duration. Which errors are
in which class is taken from the SDK and marked external.

### Server

Each request has a `stage`: away, queued for a connection, admitted, running its
handler, leaving. Reads and refreshes are the requests of `Api`; login, `me` and the
reports are visits of a reader (`Visit`), since all they do here is hold a connection.
The actions and what they are made of:

| Action | Code |
|---|---|
| `Arrive`, `BadToken` | the middleware; a token refused before the session is used |
| `Connect`, `PoolTimeout` | the first statement of the session checks out a connection, or raises after the pool's timeout |
| `Refuse`, `Visit` | refusals of an admitted request, one of which is the `ValueError` of a key that does not load; requests without effect |
| `ServeSummary`, `ReadStep`, `ReadAborts` | `Api!AskSummary`, the steps and faults of `get_summary` |
| `ServeRefresh`, `Prompt`, `CallModel`, `Generate`, `GenerationFails`, `ProviderUnknown` | `Api!AskRefresh` and `refresh_summary` up to the row; `CallModel` is one step of `Provider` |
| `Commit`, `Conflict`, `Invalidate`, `RefreshAborts` | the end of `refresh_summary`; the session gives its connection back with the commit |
| `Close` | `get_db` ends the session with the request |
| `ServerRestart` | settings are read again; pool, calls and requests are gone |

`settings` is what the process was started with, one of `Deployments`; `StatusOf` is
the exception handlers. `reply` is the status a request is answered with, and `wrote`
a ghost that says whether it has committed. A handler that runs always has one
connection: `deps.py`, the repositories and the service share the session of the
request, and a refresh returns it by its commit. In `concurrent` and the other
runs of `SummaryService` a failed statement may strike at any time; here none
strikes while the model is being called, since none runs.

### WebClient

Tabs share `token` (localStorage) and have their own view, user, address,
`#content`, Sign in button and calls in flight. A call remembers the token it was
sent with and may be answered at any later time, in any order: accepted, refused
with 401 (if its token is not accepted by the server any more) or failed
otherwise. `Refused` is the 401 branch of `api.request`. `LoadOk` contains the
read of `currentUser` after the await in `renderFirm`. `Boot` is opening or
reloading the page. Which role may load which page is not distinguished: a 403
is one of the failures a load may have. The clients of the model have emails, so
that their button is not disabled for want of them.

### Seed

One action is one transaction of the script, except in `reset`, whose DELETE
statements each see what is committed by then: `DeleteSummaries`,
`DeleteClients` (which the foreign key refuses if a summary has been inserted
meanwhile) and `CommitReset`; what they have deleted is `deleted`, and a statement
that touches it waits (`Waits`). `List`, `Select` and `Write` are a refresh by a user
or by the script; an INSERT without client or beside another row, and an UPDATE
whose row is gone, fail (`WriteFails`): a 500 to a user, the end of the script.
`Killed` is any other end of it, and `Start` runs it again.

## 3. Runs

| Run | Question | Bounds | Result |
|---|---|---|---|
| `context_window` | are loop and pass selection right, and what does an out-of-order email cost? | 5 emails, bodies of 0, 40, 160, 400 characters, budget 100 tokens, threshold 2, 2 late emails between full passes | holds |
| `concurrent` | what survives any overlap of two refreshes and a read, and when is a summary taken back? | 1 client, 2 emails, 3 generations, Redis and database faults; budget 50, so truncation occurs | holds |
| `serial` | with one refresh at a time: staleness, promise, what an ample budget guarantees, what a rotated key leaves | 3 emails of two sizes, budget 150, so that some inboxes fit and some do not; 3 generations, all faults, restarts, 1 rotation | holds |
| `server` | does every request end, the pool recover, the cache converge; what do statuses say, what does a refresh cost? | 1 client, 1 read, 1 refresh, 1 connection, 1 retry of each kind, 1 email, 1 generation, all faults, restarts among 4 deployments | holds |
| `api` | reports against each other and against cached answers; reading what a refresh has stored | 3 firms (one empty), 2 clients, 3 roles, 1 reader and 1 refresher, 2 generations | holds |
| `web_client` | one tab, any order of answers | 2 users, a page of the firm and of 2 clients, 2 calls in flight, 2 logins | holds |
| `seed` | what a completed run leaves; is the wipe whole; does everybody get on? | 3 clients, one in each demo state, 1 user, 2 runs | holds |
| `mixed_row` | `FreshAnswerHidesNothing` with two refreshes | 3 emails, no faults | violated |
| `stale_fill` | `ReadYourRefresh` | 1 email, no faults | violated |
| `truncation` | `CountedEmailsReflected`, OpenAI | 3 emails, budget for 2 | violated |
| `rotation` | `StoredSummariesReadable` after a key rotation | 1 email, 1 rotation | violated |
| `late_logout` | `BouncedToLogin` | 2 tabs, 1 login | violated |

**Why the bounds are enough.** A torn row needs two refreshes of one client and
two different counts; a stale fill one read and one refresh; an overtaken
refresh two refreshes and two emails; a cached copy behind or ahead of the row a
second generation; an incremental pass
after a full one, with an email dropped by each, three emails. Clients share
nothing but the key, so one is enough except where tenancy or the reports need
two. A seed that died, is run again and meets a user needs two runs and one
user. In the browser the orderings need two calls at a time, a button whose screen is
replaced by another's answer two clients; two logins make one token outlive another. With one connection a refresh and a read already exhaust
the pool, in either order, and one retry of each kind makes the two retry loops
multiply; the proofs of section 5 are for every pool size and every number of
retries. `MaxEmails`, `MaxLate`, `MaxRefreshes`, `MaxRotations`, `MaxCalls`,
`MaxLogins` and `MaxRuns` are bounds of the model; everything else is the code's.
`Server!RoomFor` follows from `MaxRefreshes`: once that many summaries have been
generated OpenAI only fails, and the stub, which cannot fail, is not asked again.

**Some properties are conditional.** Each is what remains true of a sentence of
the documents that a `violation` run refutes, under the condition that the code
would have to establish and does not:

| Property | Holds for as long as | The run that needs the condition |
|---|---|---|
| `DisjointUpsertsKeepCounts` | no two refreshes of a client are between SELECT and COMMIT together; they may overlap in every other way, model calls included | `mixed_row` |
| `QuietFillsReadYourRefresh` | no read is between its SELECT and its `cache_set` while a refresh of the client is between COMMIT and `cache_delete`, and Redis does what it is told | `stale_fill` |
| `UnovertakenCountsGrow` | no refresh of a client commits while another is between listing the emails and its own COMMIT (`NoOvertaking`); each may list, call the model and fail as it likes otherwise | – |
| `AmpleBudgetReflectsAll` | the whole inbox of the client fits into one prompt | `truncation` |
| `PunctualScreensMatch`, `PunctualRegenerations` | no answer arrives for a screen the user has left (`NoLateAnswer`); the code writes late answers to whatever is shown | – |

In the last row the condition rules out the late answers that `hazards` lists, so these
two properties say only what is left without them: a screen is cleared and drawn for
its address, and the disabled button allows one call. Late answers themselves are
met by `ShellMatchesToken`, `ButtonWaitsForItsCall` and `ButtonComesBack`, which have
no condition.

The conditions on behaviours are stated as `[]Condition => []Property`: a behaviour that
breaks the condition once is not spoken of at all.

**Stopping.** `context_window`, `api` and `seed` set `CHECK_DEADLOCK FALSE`: a full
inbox, analyzed, has no further input; with every account deleted nobody can ask; a
script that dies after the wipe, on its last run, leaves nothing to refresh.

## 4. Fairness

`SummaryService!Fairness`: weak fairness of each request's next step (the event
loop resumes a coroutine whose await is over; the database and Redis answer or
raise; the provider has a timeout and a bounded number of attempts) and of the
expiry of each cached key (Redis honours `ex=`). Nothing obliges anybody to send
a request, an email or a restart. The Redis client is built without an explicit
socket timeout: where the library's default is none, a Redis that accepts a command
and never answers would break the first assumption; `hazards` lists it.

`Server!ServerFairness`: weak fairness of the next step of each request that is in
(`Serve(q)`), and of the expiry of each key. A request in the queue is served by getting a connection or by the pool's timeout, a refresh that waits for
the model by one HTTP request ending, which its timeout guarantees. That somebody
arrives, that a token is bad, that a statement fails and that the process restarts
is obliged by nothing. `ServiceFairness` checks that `SummaryService!Fairness`, which
takes the model call for one step, follows from it. `CacheConverges` and
`RequestsFinish` are therefore checked in this run. `CacheConverges` rests on
`MaxRefreshes` making refreshes stop: read it as "once refreshes stop".

`WebClient!FairSpec`: each call in flight is eventually answered or fails
(`fetch` settles). The user owes nothing. The fairness is per call, so that a
user who reloads or clicks for ever does not starve an answer.

`Seed!FairSpec`: a script that has begun goes on to its next statement, and so does
each refresh (Postgres grants a lock once its holder has ended). Nobody is
obliged to start either.

## 5. Proofs

All for every value of the constants that satisfies the assumptions of the
modules (`ContextAssumption`, `ServiceAssumption`, `ApiAssumption`,
`ProviderAssumption`, `ServerAssumption`, `WebAssumption`, `SeedAssumption`).

| Theorem | Says |
|---|---|
| `TypeCorrect` | the type invariant of `SummaryService`, strengthened by the types of requests in flight |
| `CacheOnlyCommitted`, `MissesAreCurrent` | `CommitInv`: the row is the last entry of `history`; every blob a reader carries and the cache holds is in it; a floor is never above it |
| `RowsStayWithinInbox` | `InboxInv`: every draft and every row between SELECT and COMMIT is within the inbox, and the column-wise UPDATE of two such rows is too |
| `DisjointUpserts`, `FreshAnswers` | under `NoUpsertOverlap` (an assumption on the whole behaviour): the row seen is the row stored, so `Written` is the new row, and everything committed or cached covers what it counts |
| `StaleReadsHaveTwoCauses`, `QuietFillsReadable` | under `NoFillOverlap`, and as long as the `cache_delete` of every refresh that answers arrives (`DeleteArrives`): a GET that begins after a refresh has answered returns what it or a later one stored. Failed reads and writes of the cache, dying requests and restarts are allowed, so the two conditions name the only two causes of a stale read. With `RedisFaults = FALSE` the second always holds, and the second theorem is the property the `api` run checks. `CurrentInv`: what is cached, and what a reader is about to cache, is no older than the last refresh answered *by now*, which is more than the reader itself is owed, since later readers will be served from it |
| `AmpleBudgetSuffices` | under `NoUpsertOverlap`, where the inbox fits into one prompt every counted email is in the summary. `AmpleInv`: no draft or row of such a client has dropped anything; it rests on `PrefixFits` and `SuffixFits`, since what is sent is a suffix of a prefix of the inbox |
| `ReadableWithoutRotation` | `MaxRotations = 0`: all that is stored was encrypted under the active key for its own client. The run `rotation` refutes the property without that condition |
| `UnreadableNeverOverwritten` | with any number of rotations: `ReadableInv`, a refresh past its prompt writes under the running key over a row it could read, so a row that the key cannot read stays, and going back to its key brings it back |
| `UnovertakenNeverTakenBack` | under `NoOvertaking`, for any number of refreshers: `MonotoneInv`, the list of each refresh under way is at least as long as the row's count, so the counts of the rows committed grow |
| `OneRefreshAtATime` | with `Refreshers = {p}`: a commit maps to `Regenerate` of `SummaryPromise`, a new email to `Receive`, all else to a stutter. It needs that a prompt's list is at least as long as the row's count |
| `CountsMatchOneAtATime` | with `Refreshers = {p}` and a provider that reads the prior summary, no two upserts overlap: the count of a row is that of its payload, without a condition on the behaviour |
| `ReportsAgree` | for any finite set of firms, empty ones too: the rollup that SQL computes over outer joins and the firm report counted in Python have the same totals, and the head of the network report counts every client, summary, stale client and email once. The joined rows are paired with the clients of the firm, and the firms cut the clients into disjoint parts |
| `ReportsMatchEndpoint` | what the firm report says of a client is what the endpoint would answer for its row: count, presence and staleness are computed twice, in SQL and in Python, and agree |
| `AnswersNoFresher` | with `Refreshers = {p}`, from `CommitInv` and the growth of counts: what a read answers with was committed, so it counts no more than the row the report reads |
| `ProviderTypeCorrect`, `CallsStayBounded`, `PermanentErrorsNotRetried` | `ProviderInv`: what has been sent is at most the tries of the earlier attempts plus the tries of this one, and a phase that sends again was reached by an outcome that allows it |
| `RefreshCostBounded` | the two theorems about `Provider`, of the refreshes of the process. `ServerKeepsApi` and `ServerKeepsProvider`, which carry theorems over, are lemmas: the steps of `Server` contain those of `Api` and `Provider` by definition |
| `ServerTypeCorrect`, `ConnectionsStayAccounted`, `CallsStayAwaited`, `StatusesTrue` | `ServerInv`, per request: who is admitted has a connection (`RequestSound`), a call under way is OpenAI's and awaited (`CallSoundIn`), who has written is past the commit, answered 200 or failed (`WriteSound`). A step of one request leaves what is another's alone (`OthersUntouched`) |
| `BudgetLoopCorrect` | for every inbox and every budget the loop keeps the largest run of newest emails that fits, and the newest in any case |
| `PriorAndPromptPartition`, `ModesSendSameNewEmails` | for every inbox, mark and setting: each email is either accounted for by the prior summary or handed to the loop, never both, and the newest reaches the prompt; where both modes are possible the incremental prompt is the new part of the full one |
| `LateEmailsPriced` | `WindowInv`: however many emails arrive out of order, each costs at most one unseen and one sent twice until the next full pass |
| `WebTypeCorrect` | with `TokensIssued` and `CallsIssued`: only issued tokens are stored or sent |
| `LoneTabShell` | with one tab: at most one call of boot or login is in flight, never behind the app, and it carries the stored token or none is stored |
| `PunctualAddresses`, `PunctualButtons` | any number of tabs over one localStorage. `TabInv`: at most one call of boot or login is in flight in a tab, never behind the app, and the app is shown to somebody. `ScreenInv`, while no answer is late: a load in flight is the only one and behind a spinner, a refresh in flight is the one its disabled button has sent, and a page shown is the address's |
| `PunctualScreens` | with one tab, under the same condition, the page shown is also for the user in the header. `UserInv`: each call of a screen acts for that user, which follows from the token the tab sends (`TokenInv`) and is not assumed; with two tabs it is false |
| `ButtonsWaitForTheirCalls` | any number of tabs, late answers included. `ButtonWaits`: a disabled button's call is in flight, a regeneration of its own client |
| `DoneIsAsAnnounced` | `WorldInv`: what this run has committed by the step it is in, and that nobody refreshes a client of this run before its emails are committed, so that every refresh until the late emails arrive counts exactly the emails of the dataset; a client that no user has touched has a row if and only if the script has generated it |
| `SeedTypeCorrect`, `ResetWipesWhole` | `SeedInv`: every summary has its client, and once DELETE FROM clients has succeeded reset holds every client and every summary, so that no refresh gets in before its COMMIT |

`CommitInv`, `InboxInv` and the others are needed because the properties alone
are not inductive: a cached blob is as good as the blob the reader carried two
awaits earlier, and a row as good as the draft.

**Folds.** The budget loop and the sums of the reports are folds of the community
modules, recursive functions over finite sets that are picked by CHOOSE. The
library's induction theorems take a predicate as a parameter, which the installed
provers cannot instantiate, so `FoldLemmas` states induction about sets instead: a
set of numbers that holds 0 and every successor is `Nat` (`NumberInduction`), and a
set of subsets that holds `{}` and is closed under adding an element is all of
them (`SubsetInduction`). From these follow that a fold exists, is the only one that
satisfies its equation and keeps its type, and what the reports need of sums: one
term split off, disjoint sets, parts, paired sets, more terms. The loop itself is
then a sequence of turns (`LoopTurns`, `LoopRuns`), each of which keeps `TurnSound`:
what is kept so far fits, is the longest run that does, and the loop has stopped if
anything was left. `KeptOfSuffix` compares two such sequences turn by turn: an
incremental prompt is the full one, cut.

The assumptions these proofs added are about data: the bodies of emails are numbers
of characters (`Bodies ⊆ Nat`), and there are finitely many firms and clients.

**Only model-checked** is liveness: `EveryRequestEnds`, `PoolRecovers`,
`ServiceFairness`, `RequestsFinish`, `CacheConverges`, `SignInEnds`, `ButtonComesBack`,
`RefreshesEnd`.
Fairness and ENABLED are out of the prover's reach. Every invariant and every other
action or temporal property of a passing run has a theorem.

## 6. Where code and documents disagree

Each with its quotation in `PROJECT.json`, `findings`.

1. `mixed_row`: overlapping refreshes can store an older summary under a newer
   count; the row then claims to be fresh. An UPDATE that always writes all
   columns, or `SELECT … FOR UPDATE`, would prevent it.
2. `stale_fill`: a read may put the old row back in the cache after the refresh
   deleted it; it is served until the TTL.
3. `truncation`: emails dropped by the budget are counted as analyzed.
4. `rotation`: no key but the active one is ever in the key ring.
5. The stub ignores the prior summary: `truncation` with `ProviderReadsPrior = FALSE`
   and a budget that drops nothing violates the same invariant.
6. `late_logout`: a 401 to a call without a token does not lead to the login.
7. Smaller ones, read and not run: a firm admin naming another firm gets 404 where
   the parameter is documented as ignored; the claims in the token spare no
   database read; an old session's 401 ends a new session; a login may carry
   a leftover token.
8. Of the process and the provider, likewise: the SDK's client retries without the
   log line that each retry is said to leave; an unknown `LLM_PROVIDER` is a 500 and
   not the 502 of a provider failure; without a valid key reads fail too, and
   before the client is looked up; a 500 has no `x-request-id`; the container seeds
   at every start.

## 7. Not modelled

- bcrypt, JWT signatures and AES-GCM are taken as ideal.
- Wording: prompts, markup, toasts, the texts of the seed's dataset.
- Logging, spans and the request id header: nothing reads them back.
- Requests refused by validation (422) and static files, which touch no state.
- The evaluations (offline judgements of the model's text), migrations as scripts,
  deployment files.
- Time: bcrypt on the event loop and a Redis that hangs delay others, or everyone,
  by how long they take (`hazards`).

## 8. Plan

Done: `ContextWindow` (with late arrivals), `SummaryService`, `SummaryPromise`, `Api`,
`Provider`, `Server`, `WebClient`, `Seed`, with the theorems above. No state-changing
part of the program is without a module, and no safety property of a passing run
without a theorem. Left, in this order:

1. What a summary that has regressed costs: `UnovertakenCountsGrow` says when none does;
   a promise weaker than `SummaryPromise` that overtaken refreshes keep, and its refinement.
2. The two conditions of the browser made smaller: which late answers do no harm.
3. Two tabs with two users: what a screen may show when their sessions mix.
