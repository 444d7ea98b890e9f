-------------------------------- MODULE Server --------------------------------
(***************************************************************************)
(* One process that serves the API: a request waits for a pooled database  *)
(* connection, is admitted or refused, runs its handler, is answered with  *)
(* a status, and closes its session.  A refresh keeps its connection while *)
(* it calls the model.                                                     *)
(*                                                                         *)
(*   app/main.py                    the exception handlers                 *)
(*   app/db/session.py              the engine and get_db                  *)
(*   app/services/llm/factory.py    get_llm_provider                       *)
(*   app/core/crypto.py             get_encryptor, when the key is loaded  *)
(*                                                                         *)
(* It composes Api, whose steps are conjuncts of the steps below, with     *)
(* Provider, whose callers are the refreshes.                              *)
(***************************************************************************)
EXTENDS Api, Provider

CONSTANTS
  PoolSize,    \* connections of the engine's pool, at its default
  Deployments  \* the settings the process may be started with

VARIABLES
  settings,     \* what the process was started with
  stage,        \* where each request is
  connections,  \* the requests that have a connection checked out
  reply,        \* the status each request is answered with, 0 until then
  wrote         \* ghost: has this refresh committed a row?

Requests == Readers \cup Refreshers

serverVars == <<settings, stage, connections, reply, wrote>>
allVars == <<vars, apiVars, serverVars, call>>

-----------------------------------------------------------------------------
(* Settings *)

Deployment ==
  [stubMode : BOOLEAN, provider : {"openai", "stub", "other"}, apiKey : BOOLEAN,
   summaryKey : {"unset", "malformed", "short", "valid"}]

\* get_llm_provider; "unknown" is its ValueError.
SelectedProvider(s) ==
  IF s.stubMode \/ s.provider = "stub" \/ ~s.apiKey THEN "stub"
  ELSE IF s.provider = "openai" THEN "openai" ELSE "unknown"

\* _load_key raises for every other value.
KeyLoads(s) == s.summaryKey = "valid"

ASSUME ServerAssumption ==
  /\ Readers \cap Refreshers = {}
  /\ Callers = Refreshers
  /\ PoolSize \in Nat \ {0}
  /\ Deployments \subseteq Deployment /\ Deployments # {}
  /\ \A s \in Deployments : IncrementalRefresh =>
       /\ SelectedProvider(s) = "openai" => ProviderReadsPrior
       /\ SelectedProvider(s) = "stub" => ~ProviderReadsPrior

Statuses == {200, 400, 401, 403, 404, 500, 502}

ServerTypeOK ==
  /\ settings \in Deployments
  /\ stage \in [Requests -> {"away", "queued", "admitted", "running", "leaving"}]
  /\ connections \subseteq Requests
  /\ reply \in [Requests -> Statuses \cup {0}]
  /\ wrote \in [Refreshers -> BOOLEAN]

ServerInit ==
  /\ ApiInit
  /\ settings \in Deployments
  /\ stage = [q \in Requests |-> "away"]
  /\ connections = {}
  /\ reply = [q \in Requests |-> 0]
  /\ wrote = [p \in Refreshers |-> FALSE]
  /\ ProviderInit

-----------------------------------------------------------------------------
(* Answers *)

\* The exception handlers of main.py and the HTTPExceptions; what they do
\* not know leaves through every middleware and is answered 500.
StatusOf(outcome) ==
  CASE outcome = "ok"                     -> 200
    [] outcome = "NoEmailsToSummarize"    -> 400
    [] outcome = "Unauthorized"           -> 401
    [] outcome = "Forbidden"              -> 403
    [] outcome = "ClientNotFound"         -> 404
    [] outcome = "FirmNotFound"           -> 404
    [] outcome = "ReportScopeError"       -> 400
    [] outcome = "SummaryGenerationError" -> 502
    [] OTHER                              -> 500

\* The handler of q has returned or raised.
Answer(q, outcome) ==
  /\ stage' = [stage EXCEPT ![q] = "leaving"]
  /\ reply' = [reply EXCEPT ![q] = StatusOf(outcome)]

-----------------------------------------------------------------------------
(* Getting in *)

\* Bound: of summaries, MaxRefreshes are generated.  OpenAI only fails from
\* then on; the stub, which cannot fail, is not asked again.
RoomFor(pending) == nonce + Cardinality(pending) < MaxRefreshes

Arrive(q) ==
  /\ stage[q] = "away"
  /\ (q \in Refreshers /\ SelectedProvider(settings) = "stub") =>
       RoomFor({p \in Refreshers : stage[p] # "away"})
  /\ stage' = [stage EXCEPT ![q] = "queued"]
  /\ UNCHANGED <<vars, apiVars, settings, connections, reply, wrote, call>>

\* get_current_user refuses the token before it touches the session.
BadToken(q) ==
  /\ stage[q] = "queued"
  /\ Answer(q, "Unauthorized")
  /\ UNCHANGED <<vars, apiVars, settings, connections, wrote, call>>

\* The first statement of the session takes a connection from the pool.
Connect(q) ==
  /\ stage[q] = "queued"
  /\ Cardinality(connections) < PoolSize
  /\ stage' = [stage EXCEPT ![q] = "admitted"]
  /\ connections' = connections \cup {q}
  /\ UNCHANGED <<vars, apiVars, settings, reply, wrote, call>>

\* Mutant: pool_timeout=None.
PoolTimeoutNever(q) == FALSE /\ UNCHANGED allVars

\* The pool stayed empty for pool_timeout: an error nobody handles.
PoolTimeout(q) ==
  /\ stage[q] = "queued"
  /\ Cardinality(connections) >= PoolSize
  /\ Answer(q, "TimeoutError")
  /\ UNCHANGED <<vars, apiVars, settings, connections, wrote, call>>

\* What may be said to an admitted request for a summary before the service
\* runs: no such account; no key, which SummaryService() loads; no such client.
Refusals ==
  (IF accounts # Accounts THEN {"Unauthorized"} ELSE {})
    \cup (IF accounts = {} THEN {}
          ELSE IF KeyLoads(settings) THEN {"ClientNotFound"} ELSE {"ValueError"})
    \cup (IF RequestFaults THEN {"OperationalError"} ELSE {})

Refuse(q) ==
  /\ stage[q] = "admitted"
  /\ \E outcome \in Refusals : Answer(q, outcome)
  /\ UNCHANGED <<vars, apiVars, settings, connections, wrote, call>>

\* A reader may also be one of login, me and the reports: a few statements
\* with no effect.
Visit(r) ==
  /\ stage[r] = "admitted"
  /\ \E outcome \in {"ok", "Unauthorized", "Forbidden", "FirmNotFound", "ReportScopeError"} :
       Answer(r, outcome)
  /\ UNCHANGED <<vars, apiVars, settings, connections, wrote, call>>

\* The request is over.
Forget(q) ==
  /\ reply' = [reply EXCEPT ![q] = 0]
  /\ wrote' = [p \in Refreshers |-> p # q /\ wrote[p]]

\* Mutant: the session is not closed when the handler raises.
CloseUnlessRaised(q) ==
  /\ stage[q] = "leaving"
  /\ stage' = [stage EXCEPT ![q] = "away"]
  /\ connections' = IF reply[q] = 500 THEN connections ELSE connections \ {q}
  /\ Forget(q)
  /\ UNCHANGED <<vars, apiVars, settings, call>>

\* get_db: the session ends with the request, whatever its answer.
Close(q) ==
  /\ stage[q] = "leaving"
  /\ stage' = [stage EXCEPT ![q] = "away"]
  /\ connections' = connections \ {q}
  /\ Forget(q)
  /\ UNCHANGED <<vars, apiVars, settings, call>>

-----------------------------------------------------------------------------
(* GET /clients/{id}/summary *)

ServeSummary(r) ==
  /\ stage[r] = "admitted" /\ KeyLoads(settings)
  /\ \E a \in Accounts, c \in Clients : AskSummary(a, r, c)
  /\ stage' = [stage EXCEPT ![r] = "running"]
  /\ UNCHANGED <<settings, connections, reply, wrote, call>>

\* The answer, if this step of r has produced one.
Answered(q, phase) ==
  CASE phase = "answered" -> Answer(q, "ok")
    [] phase = "failed"   -> Answer(q, "Exception")
    [] OTHER              -> UNCHANGED <<stage, reply>>

ReadStep(r) ==
  /\ stage[r] = "running"
  /\ GetStep(r)
  /\ Answered(r, gets'[r].phase)
  /\ UNCHANGED <<apiVars, settings, connections, wrote, call>>

ReadAborts(r) ==
  /\ stage[r] = "running"
  /\ AbortGet(r)
  /\ Answer(r, "OperationalError")
  /\ UNCHANGED <<apiVars, settings, connections, wrote, call>>

-----------------------------------------------------------------------------
(* POST /clients/{id}/summary/refresh *)

ServeRefresh(p) ==
  /\ stage[p] = "admitted" /\ KeyLoads(settings)
  /\ \E a \in Accounts, c \in Clients : AskRefresh(a, p, c)
  /\ IF posts'[p].phase = "failed"
     THEN Answer(p, "NoEmailsToSummarize")
     ELSE /\ stage' = [stage EXCEPT ![p] = "running"]
          /\ UNCHANGED reply
  /\ UNCHANGED <<settings, connections, wrote, call>>

\* The prompt is built, or the prior summary does not decrypt; then the
\* provider is asked, the connection still held.
Prompt(p) ==
  /\ stage[p] = "running"
  /\ PostPrompt(p)
  /\ Answered(p, posts'[p].phase)
  /\ IF posts'[p].phase = "prompted" /\ SelectedProvider(settings) = "openai"
     THEN Begin(p)
     ELSE UNCHANGED call
  /\ UNCHANGED <<apiVars, settings, connections, wrote>>

\* get_llm_provider raises outside the try: not a SummaryGenerationError.
ProviderUnknown(p) ==
  /\ stage[p] = "running"
  /\ SelectedProvider(settings) = "unknown"
  /\ PostLlmFails(p)
  /\ Answer(p, "ValueError")
  /\ UNCHANGED <<apiVars, settings, connections, wrote, call>>

\* One request to OpenAI ends or is sent again.
CallModel(p) ==
  /\ stage[p] = "running"
  /\ CallStep(p)
  /\ call'[p].phase = "answered" => RoomFor({q \in Refreshers : call[q].phase = "answered"})
  /\ UNCHANGED <<vars, apiVars, serverVars>>

GenerationFails(p) ==
  /\ stage[p] = "running"
  /\ call[p].phase = "failed" /\ SelectedProvider(settings) = "openai"
  /\ PostLlmFails(p)
  /\ Return(p)
  /\ Answer(p, "SummaryGenerationError")
  /\ UNCHANGED <<apiVars, settings, connections, wrote>>

\* The stub answers at once.
ModelAnswered(p) ==
  \/ SelectedProvider(settings) = "stub"
  \/ SelectedProvider(settings) = "openai" /\ call[p].phase = "answered"

Generate(p) ==
  /\ stage[p] = "running"
  /\ ModelAnswered(p)
  /\ PostGenerate(p)
  /\ Return(p)
  /\ UNCHANGED <<apiVars, serverVars>>

Conflict(p) ==
  /\ stage[p] = "running"
  /\ PostConflict(p)
  /\ Answer(p, "IntegrityError")
  /\ UNCHANGED <<apiVars, settings, connections, wrote, call>>

\* The session gives its connection back with the commit.
Commit(p) ==
  /\ stage[p] = "running"
  /\ PostCommit(p)
  /\ connections' = connections \ {p}
  /\ wrote' = [wrote EXCEPT ![p] = TRUE]
  /\ UNCHANGED <<apiVars, settings, stage, reply, call>>

Invalidate(p) ==
  /\ stage[p] = "running"
  /\ PostInvalidate(p)
  /\ Answer(p, "ok")
  /\ UNCHANGED <<apiVars, settings, connections, wrote, call>>

\* Mutant: a refresh gives up on a database error while its call goes on.
RefreshAbortsEarly(p) ==
  /\ stage[p] = "running"
  /\ AbortPost(p)
  /\ UNCHANGED call
  /\ Answer(p, "OperationalError")
  /\ UNCHANGED <<apiVars, settings, connections, wrote>>

\* Mutant: the try that makes a 502 reaches to the end of the method.
RefreshAbortsAs502(p) ==
  /\ stage[p] = "running"
  /\ posts[p].phase = "prompted" => ModelAnswered(p)
  /\ AbortPost(p)
  /\ Return(p)
  /\ Answer(p, "SummaryGenerationError")
  /\ UNCHANGED <<apiVars, settings, connections, wrote>>

\* A statement fails; none runs while the model is called.
RefreshAborts(p) ==
  /\ stage[p] = "running"
  /\ posts[p].phase = "prompted" => ModelAnswered(p)
  /\ AbortPost(p)
  /\ Return(p)
  /\ Answer(p, "OperationalError")
  /\ UNCHANGED <<apiVars, settings, connections, wrote>>

-----------------------------------------------------------------------------
(* The environment *)

ServerRestart ==
  /\ Restart
  /\ settings' \in Deployments
  /\ stage' = [q \in Requests |-> "away"]
  /\ connections' = {}
  /\ reply' = [q \in Requests |-> 0]
  /\ wrote' = [p \in Refreshers |-> FALSE]
  /\ Stop
  /\ UNCHANGED apiVars

Outside ==
  /\ \/ (\E c \in Clients : ReceiveEmail(c) \/ Expire(c)) /\ UNCHANGED apiVars
     \/ \E a \in Accounts : DeleteAccount(a)
  /\ UNCHANGED <<serverVars, call>>

\* Who is served only leaves when answered.
Serve(q) ==
  \/ Connect(q) \/ PoolTimeout(q) \/ Refuse(q) \/ Close(q)
  \/ q \in Readers /\ (Visit(q) \/ ServeSummary(q) \/ ReadStep(q))
  \/ q \in Refreshers /\
       \/ ServeRefresh(q) \/ Prompt(q) \/ ProviderUnknown(q) \/ CallModel(q)
       \/ GenerationFails(q) \/ Generate(q) \/ Conflict(q) \/ Commit(q) \/ Invalidate(q)

ServerNext ==
  \/ \E q \in Requests : Arrive(q) \/ BadToken(q) \/ Serve(q)
  \/ \E r \in Readers : ReadAborts(r)
  \/ \E p \in Refreshers : RefreshAborts(p)
  \/ Outside
  \/ ServerRestart

ServerSpec == ServerInit /\ [][ServerNext]_allVars

(***************************************************************************)
(* The event loop resumes every request whose awaited call is over: a      *)
(* connection or the pool's timeout, a statement, a Redis command, one     *)
(* HTTP request (which has a timeout) or the sleep before the next.        *)
(***************************************************************************)
ServerFairness ==
  /\ \A q \in Requests : WF_allVars(Serve(q))
  /\ \A c \in Clients : WF_allVars(Expire(c) /\ UNCHANGED <<apiVars, serverVars, call>>)

ServerFairSpec == ServerSpec /\ ServerFairness

-----------------------------------------------------------------------------
(* Safety *)

(***************************************************************************)
(* What the status of a refresh tells its caller (responses.py: "any       *)
(* previous summary is left intact"): after 200 its row is committed;      *)
(* after 400, 401, 404 or 502 it has written nothing.  Only a 500 leaves   *)
(* it open.                                                                *)
(***************************************************************************)
StatusTellsOutcome ==
  \A p \in Refreshers :
    /\ reply[p] = 200 => wrote[p]
    /\ reply[p] \in {400, 401, 404, 502} => ~wrote[p]

(***************************************************************************)
(* No request to OpenAI goes on for a refresh that is over, and the        *)
(* refresh that waits for it keeps a connection checked out meanwhile      *)
(* (refresh_summary awaits summarize in its session).                      *)
(***************************************************************************)
CallsAwaited ==
  \A p \in Refreshers : call[p].phase \notin Resting =>
    stage[p] = "running" /\ posts[p].phase = "prompted" /\ p \in connections

(***************************************************************************)
(* Every connection is checked out by a request that is being served, and  *)
(* every handler that still has statements to send has one.                *)
(***************************************************************************)
ConnectionsAccounted ==
  /\ \A q \in connections : stage[q] \in {"admitted", "running", "leaving"}
  /\ \A r \in Readers : stage[r] = "running" => r \in connections
  /\ \A p \in Refreshers :
       (stage[p] = "running" /\ posts[p].phase # "committed") => p \in connections

-----------------------------------------------------------------------------
(* Liveness *)

(***************************************************************************)
(* The fairness SummaryService assumes of its requests is what the pool's  *)
(* timeout, the client's timeout and the bounded retries provide.          *)
(***************************************************************************)
ServiceFairness == Fairness

(***************************************************************************)
(* Every request ends, also when the pool is empty, the provider is        *)
(* unknown, the key is missing or the model fails for ever.                *)
(***************************************************************************)
EveryRequestEnds == \A q \in Requests : stage[q] # "away" ~> stage[q] = "away"

(***************************************************************************)
(* An exhausted pool recovers: no answer, error or conflict leaks a        *)
(* connection, and no request waits for another while it holds one.        *)
(***************************************************************************)
PoolRecovers ==
  Cardinality(connections) >= PoolSize ~> Cardinality(connections) < PoolSize

=============================================================================
