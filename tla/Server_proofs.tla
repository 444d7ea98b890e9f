----------------------------- MODULE Server_proofs -----------------------------
(***************************************************************************)
(* The process that serves the API: connections, the calls it awaits, its  *)
(* answers.  Its steps contain those of Api and of Provider, so that what  *)
(* is proved of them carries over.                                         *)
(* First, what is proved of Provider alone.                                *)
(***************************************************************************)
EXTENDS Server, Api_proofs, TLAPS

-----------------------------------------------------------------------------
(* Provider: what one refresh may cost, and that a permanent error ends    *)
(* it, for any number of retries of tenacity and of the SDK's client.      *)

(* The requests of the attempts before the current one.                    *)
Before(attempt) == (attempt - 1) * (SdkRetries + 1)

(* What holds of one call at any time.  `sent` is at most the requests of  *)
(* the attempts before and those of this one.                              *)
CallSound(c) ==
  /\ c \in CallState
  /\ c.phase = "idle" => c = NoCall
  /\ c.phase # "idle" =>
       /\ c.attempt \in 1 .. MaxRetries + 1
       /\ c.try \in 1 .. SdkRetries + 1
       /\ c.sent <= Before(c.attempt) + c.try
  /\ c.phase = "backing_off" => c.try <= SdkRetries
  /\ c.phase = "waiting" => c.attempt <= MaxRetries
  /\ c.phase = "sending" => c.last = "none"
  /\ c.last \in {"rejected", "empty"} => c.phase = "failed"

ProviderInv ==
  /\ call \in [Callers -> CallState]
  /\ \A p \in Callers : CallSound(call[p])

(* Products of numbers are numbers.                                        *)
LEMMA ProductOfNats == \A a, b \in Nat : a * b \in Nat
OBVIOUS

(* The products below, with W for the requests of one attempt.             *)
LEMMA AttemptsAdd == \A a, W \in Nat : a >= 1 => a * W = (a - 1) * W + W
OBVIOUS

(* Multiplication is monotonic.                                            *)
LEMMA ProductGrows == \A a, b, W \in Nat : a <= b => a * W <= b * W
<1> SUFFICES ASSUME NEW a \in Nat, NEW b \in Nat, NEW W \in Nat, a <= b
             PROVE  a * W <= b * W
  OBVIOUS
<1>1. /\ b - a \in Nat
      /\ b * W = a * W + (b - a) * W
  OBVIOUS
<1>2. (b - a) * W \in Nat
  BY <1>1, ProductOfNats
<1> QED BY <1>1, <1>2, ProductOfNats

(* One more attempt, as many more requests.                                *)
LEMMA BeforeNext ==
  ASSUME NEW a \in Nat, a >= 1
  PROVE  /\ Before(a) \in Nat
         /\ Before(a + 1) = Before(a) + (SdkRetries + 1)
<1> DEFINE W == SdkRetries + 1
<1>1. W \in Nat /\ a - 1 \in Nat /\ (a + 1) - 1 = a
  BY ProviderAssumption
<1> HIDE DEF W
<1>2. (a - 1) * W \in Nat
  BY <1>1, ProductOfNats
<1>3. a * W = (a - 1) * W + W
  BY <1>1, AttemptsAdd
<1>4. Before(a) = (a - 1) * W /\ Before(a + 1) = a * W
  BY <1>1 DEF Before, W
<1> QED BY <1>2, <1>3, <1>4 DEF W

(* A call that starts.                                                     *)
LEMMA BegunSound ==
  CallSound([phase |-> "sending", attempt |-> 1, try |-> 1, sent |-> 1, last |-> "none"])
<1>1. Before(1) = 0
  BY ProviderAssumption DEF Before
<1> QED BY <1>1, ProviderAssumption DEF CallSound, CallState

(* No call is a sound call.                                                *)
LEMMA NoCallSound == CallSound(NoCall)
BY DEF CallSound, NoCall, CallState

(* Every step of a call keeps it sound.                                    *)
LEMMA StepSound ==
  ASSUME ProviderInv, NEW p \in Callers, CallStep(p)
  PROVE  CallSound(call'[p])
<1> USE ProviderAssumption DEF ProviderInv
<1>0. CallSound(call[p]) /\ call[p] \in CallState
  OBVIOUS
<1>1. ASSUME NEW outcome \in Outcomes, Complete(p, outcome)
      PROVE  CallSound(call'[p])
  <2>1. /\ call'[p] = [call[p] EXCEPT !.phase = PhaseAfter(p, outcome), !.last = outcome]
        /\ call[p].phase = "sending"
    BY <1>1 DEF Complete
  <2>2. /\ PhaseAfter(p, outcome) \in {"answered", "backing_off", "waiting", "failed"}
        /\ PhaseAfter(p, outcome) = "backing_off" => TriesLeft(p)
        /\ PhaseAfter(p, outcome) = "waiting" => AttemptsLeft(p)
        /\ outcome \in {"rejected", "empty"} => PhaseAfter(p, outcome) = "failed"
    BY DEF PhaseAfter, Raised, Retryable, SdkRetryable
  <2>3. /\ call'[p] \in CallState
        /\ call'[p].phase = PhaseAfter(p, outcome) /\ call'[p].last = outcome
        /\ call'[p].attempt = call[p].attempt /\ call'[p].try = call[p].try
        /\ call'[p].sent = call[p].sent
    BY <1>0, <2>1, <2>2 DEF CallState
  <2>4. call'[p].phase = "backing_off" => call'[p].try <= SdkRetries
    BY <1>0, <2>2, <2>3 DEF TriesLeft, CallState
  <2>5. call'[p].phase = "waiting" => call'[p].attempt <= MaxRetries
    BY <1>0, <2>2, <2>3 DEF AttemptsLeft, CallState
  <2> QED BY <1>0, <2>1, <2>2, <2>3, <2>4, <2>5 DEF CallSound
<1>2. ASSUME Resend(p)
      PROVE  CallSound(call'[p])
  <2>1. /\ call[p].phase = "backing_off"
        /\ call'[p] = [phase |-> "sending", attempt |-> call[p].attempt,
                       try |-> call[p].try + 1, sent |-> call[p].sent + 1, last |-> "none"]
    BY <1>0, <1>2 DEF Resend, CallState
  <2>2. call[p].attempt \in Nat /\ call[p].attempt >= 1
    BY <1>0, <2>1 DEF CallSound, CallState
  <2>3. Before(call[p].attempt) \in Nat
    BY <2>2, BeforeNext
  <2>4. /\ call'[p] \in CallState
        /\ call'[p].phase = "sending" /\ call'[p].last = "none"
        /\ call'[p].attempt = call[p].attempt /\ call'[p].try = call[p].try + 1
        /\ call'[p].sent = call[p].sent + 1
    BY <1>0, <2>1 DEF CallState
  <2>5. call'[p].try \in 1 .. SdkRetries + 1
    BY <1>0, <2>1, <2>4 DEF CallSound
  <2>6. call'[p].sent <= Before(call'[p].attempt) + call'[p].try
    BY <1>0, <2>1, <2>3, <2>4 DEF CallSound, CallState
  <2> QED BY <1>0, <2>1, <2>4, <2>5, <2>6 DEF CallSound
<1>3. ASSUME Reattempt(p)
      PROVE  CallSound(call'[p])
  <2>1. /\ call[p].phase = "waiting"
        /\ call'[p] = [phase |-> "sending", attempt |-> call[p].attempt + 1, try |-> 1,
                       sent |-> call[p].sent + 1, last |-> "none"]
    BY <1>0, <1>3 DEF Reattempt, CallState
  <2>2. call[p].attempt \in Nat /\ call[p].attempt >= 1
    BY <1>0, <2>1 DEF CallSound, CallState
  <2>3. /\ Before(call[p].attempt) \in Nat
        /\ Before(call[p].attempt + 1) = Before(call[p].attempt) + (SdkRetries + 1)
    BY <2>2, BeforeNext
  <2>4. /\ call'[p] \in CallState
        /\ call'[p].phase = "sending" /\ call'[p].last = "none"
        /\ call'[p].attempt = call[p].attempt + 1 /\ call'[p].try = 1
        /\ call'[p].sent = call[p].sent + 1
    BY <1>0, <2>1 DEF CallState
  <2>5. call'[p].attempt \in 1 .. MaxRetries + 1 /\ call'[p].try \in 1 .. SdkRetries + 1
    BY <1>0, <2>1, <2>2, <2>4 DEF CallSound
  <2>6. call'[p].sent <= Before(call'[p].attempt) + call'[p].try
    BY <1>0, <2>1, <2>3, <2>4 DEF CallSound, CallState
  <2> QED BY <2>4, <2>5, <2>6 DEF CallSound
<1> QED BY <1>1, <1>2, <1>3 DEF CallStep

(* Every call is sound in every behaviour.                                 *)
LEMMA ProviderInvariant == ProviderSpec => []ProviderInv
<1>1. ProviderInit => ProviderInv
  BY NoCallSound DEF ProviderInit, ProviderInv, CallSound
<1>2. ProviderInv /\ [ProviderNext]_call => ProviderInv'
  <2> SUFFICES ASSUME ProviderInv, [ProviderNext]_call PROVE ProviderInv'
    OBVIOUS
  <2>1. ASSUME NEW p \in Callers, Begin(p) \/ Return(p)
        PROVE  ProviderInv'
    BY <2>1, BegunSound, NoCallSound DEF Begin, Return, ProviderInv, CallSound
  <2>2. ASSUME NEW p \in Callers, CallStep(p)
        PROVE  ProviderInv'
    <3>1. CallSound(call'[p])
      BY <2>2, StepSound
    <3>2. \E c : call' = [call EXCEPT ![p] = c]
      BY <2>2 DEF CallStep, Complete, Resend, Reattempt
    <3> QED BY <3>1, <3>2 DEF ProviderInv, CallSound
  <2>3. CASE Stop
    BY <2>3, NoCallSound DEF Stop, ProviderInv, CallSound
  <2>4. CASE UNCHANGED call
    BY <2>4 DEF ProviderInv
  <2> QED BY <2>1, <2>2, <2>3, <2>4 DEF ProviderNext
<1> QED BY <1>1, <1>2, PTL DEF ProviderSpec

-----------------------------------------------------------------------------
(* Every call is in one of its phases, with its counters and last outcome. *)
THEOREM ProviderTypeCorrect == ProviderSpec => []ProviderTypeOK
<1>1. ProviderInv => ProviderTypeOK
  BY DEF ProviderInv, ProviderTypeOK
<1> QED BY <1>1, ProviderInvariant, PTL

(***************************************************************************)
(* The price of one refresh: the two retry loops multiply, and no more     *)
(* (AsyncRetrying around AsyncOpenAI, openai_provider.py).                 *)
(***************************************************************************)
THEOREM CallsStayBounded == ProviderSpec => []CallsBounded
<1>1. ProviderInv => CallsBounded
  <2> SUFFICES ASSUME ProviderInv, NEW p \in Callers
               PROVE  call[p].sent <= (MaxRetries + 1) * (SdkRetries + 1)
    BY DEF CallsBounded
  <2> DEFINE W == SdkRetries + 1
             bound == (MaxRetries + 1) * W
             last == MaxRetries * W
             before == Before(call[p].attempt)
  <2>0. W \in Nat /\ MaxRetries \in Nat /\ CallSound(call[p]) /\ call[p] \in CallState
    BY ProviderAssumption DEF ProviderInv
  <2>1. bound \in Nat /\ last \in Nat /\ bound = last + W
    BY <2>0, ProductOfNats, AttemptsAdd
  <2>2. CASE call[p].phase = "idle"
    <3> HIDE DEF bound
    <3> QED BY <2>0, <2>1, <2>2 DEF CallSound, NoCall, bound
  <2>3. CASE call[p].phase # "idle"
    <3>1. before <= last /\ before \in Nat
      <4>1. call[p].attempt - 1 \in Nat /\ call[p].attempt - 1 <= MaxRetries
        BY <2>0, <2>3 DEF CallSound, CallState
      <4> QED BY <2>0, <4>1, ProductGrows, ProductOfNats DEF Before
    <3>2. call[p].sent <= before + call[p].try /\ call[p].try <= W
      BY <2>0, <2>3 DEF CallSound
    <3>3. call[p].sent <= bound
      <4> HIDE DEF before, bound, last, W
      <4> QED BY <2>0, <2>1, <3>1, <3>2 DEF CallState
    <3> QED BY <3>3
  <2> QED BY <2>2, <2>3
<1> QED BY <1>1, ProviderInvariant, PTL

(***************************************************************************)
(* "a bad request or auth error is not retried" (openai_provider.py), by   *)
(* either loop, whatever the earlier attempts met.                         *)
(***************************************************************************)
THEOREM PermanentErrorsNotRetried == ProviderSpec => []PermanentErrorEnds
<1>1. ProviderInv => PermanentErrorEnds
  BY DEF ProviderInv, CallSound, PermanentErrorEnds
<1> QED BY <1>1, ProviderInvariant, PTL

-----------------------------------------------------------------------------
(* Server: one request's next step, also one that ends it early.           *)
Turn(q) ==
  \/ Arrive(q) \/ BadToken(q) \/ Serve(q)
  \/ q \in Readers /\ ReadAborts(q)
  \/ q \in Refreshers /\ RefreshAborts(q)

(* The steps of the process, sorted by the request they serve.             *)
LEMMA NextByTurn ==
  [ServerNext]_allVars =>
    (\E q \in Requests : Turn(q)) \/ Outside \/ ServerRestart \/ UNCHANGED allVars
BY DEF ServerNext, Turn, Requests

(* What a request does to the service is a step of the API, and most of    *)
(* what the server adds leaves the API alone.                              *)
LEMMA TurnIsApiStep ==
  ASSUME NEW q \in Requests, Turn(q)
  PROVE  ApiNext \/ UNCHANGED <<vars, apiVars>>
<1>1. CASE Arrive(q) \/ BadToken(q) \/ Connect(q) \/ PoolTimeout(q) \/ Refuse(q) \/ Close(q)
           \/ Visit(q) \/ (q \in Refreshers /\ CallModel(q))
  BY <1>1 DEF Arrive, BadToken, Connect, PoolTimeout, Refuse, Close, Visit, CallModel
<1>2. CASE q \in Readers /\ ServeSummary(q)
  BY <1>2 DEF ServeSummary, ApiNext
<1>3. CASE q \in Refreshers /\ ServeRefresh(q)
  BY <1>3 DEF ServeRefresh, ApiNext
<1>4. CASE q \in Readers /\ (ReadStep(q) \/ ReadAborts(q))
  <2>1. (GetStep(q) \/ AbortGet(q)) /\ UNCHANGED apiVars
    BY <1>4 DEF ReadStep, ReadAborts
  <2> QED BY <1>4, <2>1 DEF ApiNext, Ongoing
<1>5. CASE /\ q \in Refreshers
           /\ \/ Prompt(q) \/ ProviderUnknown(q) \/ GenerationFails(q) \/ Generate(q)
              \/ Conflict(q) \/ Commit(q) \/ Invalidate(q) \/ RefreshAborts(q)
  <2>1. (PostStep(q) \/ AbortPost(q)) /\ UNCHANGED apiVars
    BY <1>5 DEF Prompt, ProviderUnknown, GenerationFails, Generate, Conflict, Commit,
       Invalidate, RefreshAborts, PostStep
  <2> QED BY <1>5, <2>1 DEF ApiNext, Ongoing
<1> QED BY <1>1, <1>2, <1>3, <1>4, <1>5 DEF Turn, Serve

(* Server's actions are conjunctions with Api's or leave its variables     *)
(* alone: this carries the theorems about Api and the service over.        *)
LEMMA ServerKeepsApi == ServerSpec => ApiSpec
<1>1. ServerInit => ApiInit
  BY DEF ServerInit
<1>2. [ServerNext]_allVars => [ApiNext]_<<vars, apiVars>>
  <2> SUFFICES ASSUME [ServerNext]_allVars PROVE [ApiNext]_<<vars, apiVars>>
    OBVIOUS
  <2>1. CASE Outside
    <3>1. ASSUME NEW c \in Clients, ReceiveEmail(c) \/ Expire(c), UNCHANGED apiVars
          PROVE  ApiNext
      BY <3>1 DEF ApiNext, Ongoing
    <3>2. ASSUME NEW a \in Accounts, DeleteAccount(a)
          PROVE  ApiNext
      BY <3>2 DEF ApiNext
    <3> QED BY <2>1, <3>1, <3>2 DEF Outside
  <2>2. CASE ServerRestart
    BY <2>2 DEF ServerRestart, ApiNext, Ongoing
  <2>3. CASE UNCHANGED allVars
    BY <2>3 DEF allVars
  <2> QED BY <2>1, <2>2, <2>3, NextByTurn, TurnIsApiStep
<1> QED BY <1>1, <1>2, PTL DEF ServerSpec, ApiSpec

(* What SummaryService_proofs shows holds of the process.                  *)
LEMMA ServerService == ServerSpec => Spec /\ []TypeOK
BY ServerKeepsApi, ApiKeepsService, TypeCorrect, PTL

-----------------------------------------------------------------------------
(* In the same way, what Provider_proofs shows of calls carries over.      *)
LEMMA ServerKeepsProvider == ServerSpec => ProviderSpec
<1>1. ServerInit => ProviderInit
  BY DEF ServerInit
<1>2. [ServerNext]_allVars => [ProviderNext]_call
  <2> SUFFICES ASSUME [ServerNext]_allVars PROVE [ProviderNext]_call
    OBVIOUS
  <2>1. ASSUME NEW q \in Requests, Turn(q)
        PROVE  [ProviderNext]_call
    <3>1. CASE Arrive(q) \/ BadToken(q) \/ Connect(q) \/ PoolTimeout(q) \/ Refuse(q)
               \/ Close(q) \/ Visit(q) \/ ServeSummary(q) \/ ReadStep(q) \/ ReadAborts(q)
      BY <3>1 DEF Arrive, BadToken, Connect, PoolTimeout, Refuse, Close, Visit,
         ServeSummary, ReadStep, ReadAborts
    <3>2. ASSUME q \in Refreshers,
                 \/ ServeRefresh(q) \/ Prompt(q) \/ ProviderUnknown(q) \/ CallModel(q)
                 \/ GenerationFails(q) \/ Generate(q) \/ Conflict(q) \/ Commit(q)
                 \/ Invalidate(q) \/ RefreshAborts(q)
          PROVE  [ProviderNext]_call
      <4>1. q \in Callers
        BY <3>2, ServerAssumption
      <4>2. Begin(q) \/ CallStep(q) \/ Return(q) \/ UNCHANGED call
        BY <3>2 DEF ServeRefresh, Prompt, ProviderUnknown, CallModel, GenerationFails,
           Generate, Conflict, Commit, Invalidate, RefreshAborts
      <4> QED BY <4>1, <4>2 DEF ProviderNext
    <3> QED BY <2>1, <3>1, <3>2 DEF Turn, Serve
  <2>2. CASE Outside
    BY <2>2 DEF Outside
  <2>3. CASE ServerRestart
    BY <2>3 DEF ServerRestart, ProviderNext
  <2>4. CASE UNCHANGED allVars
    BY <2>4 DEF allVars
  <2> QED BY <2>1, <2>2, <2>3, <2>4, NextByTurn
<1> QED BY <1>1, <1>2, PTL DEF ServerSpec, ProviderSpec

(***************************************************************************)
(* In the process too, a refresh costs at most the product of the two      *)
(* retry loops, and nothing after a permanent error (openai_provider.py).  *)
(***************************************************************************)
THEOREM RefreshCostBounded == ServerSpec => [](CallsBounded /\ PermanentErrorEnds)
BY ServerKeepsProvider, CallsStayBounded, PermanentErrorsNotRetried, PTL

-----------------------------------------------------------------------------
(* Every outcome has a status.                                             *)
LEMMA StatusOfType == \A outcome : StatusOf(outcome) \in Statuses
BY DEF StatusOf, Statuses

(* An answer has a status and sends the request on its way out.            *)
LEMMA AnswerType ==
  ASSUME ServerTypeOK, NEW q \in Requests, NEW outcome, Answer(q, outcome)
  PROVE  /\ stage' \in [Requests -> {"away", "queued", "admitted", "running", "leaving"}]
         /\ reply' \in [Requests -> Statuses \cup {0}]
BY StatusOfType DEF Answer, ServerTypeOK

(* What a turn of q leaves of the server's own variables.                  *)
LEMMA TurnOwn ==
  ASSUME ServerTypeOK, NEW q \in Requests, Turn(q)
  PROVE  /\ settings' = settings
         /\ \/ \E outcome : Answer(q, outcome)
            \/ UNCHANGED <<stage, reply>>
            \/ stage' = [stage EXCEPT ![q] = "queued"] /\ UNCHANGED reply
            \/ stage' = [stage EXCEPT ![q] = "admitted"] /\ UNCHANGED reply
            \/ stage' = [stage EXCEPT ![q] = "running"] /\ UNCHANGED reply
            \/ stage' = [stage EXCEPT ![q] = "away"] /\ reply' = [reply EXCEPT ![q] = 0]
         /\ \/ UNCHANGED connections
            \/ connections' = connections \cup {q}
            \/ connections' = connections \ {q}
         /\ \/ UNCHANGED wrote
            \/ wrote' = [p \in Refreshers |-> p # q /\ wrote[p]]
            \/ q \in Refreshers /\ wrote' = [wrote EXCEPT ![q] = TRUE]
<1>1. CASE Arrive(q)
  BY <1>1 DEF Arrive
<1>2. CASE BadToken(q)
  BY <1>2 DEF BadToken
<1>3. CASE Connect(q)
  BY <1>3 DEF Connect
<1>4. CASE PoolTimeout(q)
  BY <1>4 DEF PoolTimeout
<1>5. CASE Refuse(q)
  BY <1>5 DEF Refuse
<1>6. CASE Close(q)
  BY <1>6 DEF Close, Forget
<1>7. CASE Visit(q)
  BY <1>7 DEF Visit
<1>8. CASE ServeSummary(q)
  BY <1>8 DEF ServeSummary
<1>9. CASE ReadStep(q)
  BY <1>9 DEF ReadStep, Answered
<1>10. CASE ReadAborts(q)
  BY <1>10 DEF ReadAborts
<1>11. CASE ServeRefresh(q)
  BY <1>11 DEF ServeRefresh
<1>12. CASE Prompt(q)
  BY <1>12 DEF Prompt, Answered
<1>13. CASE ProviderUnknown(q) \/ GenerationFails(q) \/ Conflict(q) \/ Invalidate(q)
            \/ RefreshAborts(q)
  BY <1>13 DEF ProviderUnknown, GenerationFails, Conflict, Invalidate, RefreshAborts
<1>14. CASE CallModel(q) \/ Generate(q)
  BY <1>14 DEF CallModel, Generate, serverVars
<1>15. CASE q \in Refreshers /\ Commit(q)
  BY <1>15 DEF Commit
<1> QED BY <1>1, <1>2, <1>3, <1>4, <1>5, <1>6, <1>7, <1>8, <1>9, <1>10, <1>11, <1>12,
           <1>13, <1>14, <1>15 DEF Turn, Serve

(* The server's own variables keep their types, whatever interleaves.      *)
THEOREM ServerTypeCorrect == ServerSpec => []ServerTypeOK
<1>1. ServerInit => ServerTypeOK
  BY DEF ServerInit, ServerTypeOK
<1>2. ServerTypeOK /\ [ServerNext]_allVars => ServerTypeOK'
  <2> SUFFICES ASSUME ServerTypeOK, [ServerNext]_allVars PROVE ServerTypeOK'
    OBVIOUS
  <2>1. ASSUME NEW q \in Requests, Turn(q)
        PROVE  ServerTypeOK'
    <3>1. /\ stage' \in [Requests -> {"away", "queued", "admitted", "running", "leaving"}]
          /\ reply' \in [Requests -> Statuses \cup {0}]
      BY <2>1, TurnOwn, AnswerType DEF ServerTypeOK
    <3>2. connections' \subseteq Requests /\ settings' \in Deployments
      BY <2>1, TurnOwn DEF ServerTypeOK
    <3>3. wrote' \in [Refreshers -> BOOLEAN]
      BY <2>1, TurnOwn DEF ServerTypeOK
    <3> QED BY <3>1, <3>2, <3>3 DEF ServerTypeOK
  <2>2. CASE Outside \/ UNCHANGED allVars
    BY <2>2 DEF Outside, allVars, serverVars, ServerTypeOK
  <2>3. CASE ServerRestart
    BY <2>3 DEF ServerRestart, ServerTypeOK
  <2> QED BY <2>1, <2>2, <2>3, NextByTurn
<1> QED BY <1>1, <1>2, PTL DEF ServerSpec

-----------------------------------------------------------------------------
(* The inductive form of the three invariants, one request at a time.  A   *)
(* request that holds a connection is being served, and none but a refresh *)
(* that has committed is served without.                                   *)
RequestSound(q) ==
  /\ q \in connections => stage[q] \in {"admitted", "running", "leaving"}
  /\ stage[q] = "admitted" => q \in connections
  /\ (q \in Readers /\ stage[q] = "running") => q \in connections
  /\ stage[q] # "leaving" => reply[q] = 0

(* A call under way is OpenAI's, and awaited.                              *)
CallSoundIn(p) ==
  call[p].phase \notin Resting =>
    /\ stage[p] = "running" /\ posts[p].phase = "prompted"
    /\ SelectedProvider(settings) = "openai"

(* A refresh has written when it has committed, and is then answered 200   *)
(* or, if the acknowledgement of the COMMIT was lost, 500.                 *)
WriteSound(p) ==
  /\ (stage[p] = "running" /\ posts[p].phase # "committed") => p \in connections
  /\ (stage[p] = "running" /\ posts[p].phase = "committed") => wrote[p]
  /\ wrote[p] => \/ stage[p] = "running" /\ posts[p].phase = "committed"
                 \/ stage[p] = "leaving" /\ reply[p] \in {200, 500}
  /\ reply[p] = 200 => wrote[p]

RefreshSound(p) == RequestSound(p) /\ CallSoundIn(p) /\ WriteSound(p)

ServerInv ==
  /\ TypeOK /\ ServerTypeOK /\ ProviderTypeOK
  /\ \A q \in Requests : RequestSound(q)
  /\ \A p \in Refreshers : RefreshSound(p)

(* A turn of one request leaves what is another's alone.                   *)
LEMMA OthersUntouched ==
  ASSUME TypeOK, ServerTypeOK, ProviderTypeOK,
         NEW q \in Requests, Turn(q), NEW other \in Requests, other # q
  PROVE  /\ settings' = settings /\ stage'[other] = stage[other]
         /\ reply'[other] = reply[other]
         /\ other \in connections' <=> other \in connections
         /\ other \in Refreshers =>
              /\ wrote'[other] = wrote[other]
              /\ posts'[other] = posts[other]
              /\ call'[other] = call[other]
<1>1. /\ settings' = settings /\ stage'[other] = stage[other] /\ reply'[other] = reply[other]
      /\ other \in connections' <=> other \in connections
      /\ other \in Refreshers => wrote'[other] = wrote[other]
  BY TurnOwn DEF ServerTypeOK, Answer
<1>2. ASSUME other \in Refreshers
      PROVE  posts'[other] = posts[other] /\ call'[other] = call[other]
  <2> USE <1>2 DEF TypeOK, ProviderTypeOK
  <2>1. CASE Arrive(q) \/ BadToken(q) \/ Connect(q) \/ PoolTimeout(q) \/ Refuse(q)
             \/ Close(q) \/ Visit(q)
    BY <2>1 DEF Arrive, BadToken, Connect, PoolTimeout, Refuse, Close, Visit, vars
  <2>2. CASE q \in Readers /\ (ServeSummary(q) \/ ReadStep(q) \/ ReadAborts(q))
    BY <2>2 DEF ServeSummary, AskSummary, GetStart, ReadStep, GetStep, GetCached, CacheHit,
       CacheMiss, GetRow, GetFill, ReadAborts, AbortGet
  <2>3. CASE q \in Refreshers /\ (ServeRefresh(q) \/ Prompt(q) \/ ProviderUnknown(q))
    BY <2>3, ServerAssumption DEF ServeRefresh, AskRefresh, PostStart, Prompt, PostPrompt,
       Begin, ProviderUnknown, PostLlmFails
  <2>4. CASE q \in Refreshers /\ CallModel(q)
    BY <2>4, ServerAssumption DEF CallModel, CallStep, Complete, Resend, Reattempt, vars
  <2>5. CASE q \in Refreshers /\ (GenerationFails(q) \/ Generate(q) \/ RefreshAborts(q))
    BY <2>5, ServerAssumption DEF GenerationFails, PostLlmFails, Generate, PostGenerate,
       RefreshAborts, AbortPost, Return
  <2>6. CASE q \in Refreshers /\ (Conflict(q) \/ Commit(q) \/ Invalidate(q))
    BY <2>6 DEF Conflict, PostConflict, Commit, PostCommit, Invalidate, PostInvalidate
  <2> QED BY <2>1, <2>2, <2>3, <2>4, <2>5, <2>6 DEF Turn, Serve
<1> QED BY <1>1, <1>2

(* The turns that any request may take.                                    *)
LEMMA CommonTurn ==
  ASSUME ServerInv, NEW q \in Requests,
         \/ Arrive(q) \/ BadToken(q) \/ Connect(q) \/ PoolTimeout(q) \/ Refuse(q) \/ Close(q)
         \/ q \in Readers /\ Visit(q)
  PROVE  RequestSound(q)' /\ (q \in Refreshers => RefreshSound(q)')
<1>1. /\ stage \in [Requests -> {"away", "queued", "admitted", "running", "leaving"}]
      /\ reply \in [Requests -> Statuses \cup {0}]
      /\ RequestSound(q) /\ (q \in Refreshers => CallSoundIn(q) /\ WriteSound(q))
      /\ Readers \cap Refreshers = {}
  BY ServerAssumption DEF ServerInv, RefreshSound, ServerTypeOK
<1>2. UNCHANGED <<posts, call, settings>>
  BY DEF Arrive, BadToken, Connect, PoolTimeout, Refuse, Close, Visit, vars
<1> USE DEF RequestSound, RefreshSound, CallSoundIn, WriteSound
<1>3. CASE Arrive(q) \/ Connect(q)
  BY <1>1, <1>2, <1>3 DEF Arrive, Connect
<1>4. CASE Close(q)
  <2>1. stage'[q] = "away" /\ reply'[q] = 0 /\ q \notin connections'
    BY <1>1, <1>4 DEF Close, Forget
  <2>2. q \in Refreshers => ~wrote'[q]
    BY <1>4 DEF Close, Forget
  <2>3. q \in Refreshers => call[q].phase \in Resting
    BY <1>1, <1>4 DEF Close
  <2> QED BY <1>2, <2>1, <2>2, <2>3
<1>5. CASE BadToken(q) \/ PoolTimeout(q)
  BY <1>1, <1>2, <1>5 DEF BadToken, PoolTimeout, Answer, StatusOf
<1>6. CASE Refuse(q)
  <2>1. PICK outcome \in {"Unauthorized", "ClientNotFound", "ValueError", "OperationalError"} :
          Answer(q, outcome)
    BY <1>6 DEF Refuse, Refusals
  <2> QED BY <1>1, <1>2, <1>6, <2>1 DEF Refuse, Answer, StatusOf
<1>7. CASE q \in Readers /\ Visit(q)
  BY <1>1, <1>2, <1>7 DEF Visit, Answer
<1> QED BY <1>3, <1>4, <1>5, <1>6, <1>7

(* The turns of GET .../summary.                                           *)
LEMMA ReaderTurn ==
  ASSUME ServerInv, NEW r \in Readers, ServeSummary(r) \/ ReadStep(r) \/ ReadAborts(r)
  PROVE  RequestSound(r)'
<1>1. /\ r \in Requests
      /\ stage \in [Requests -> {"away", "queued", "admitted", "running", "leaving"}]
      /\ reply \in [Requests -> Statuses \cup {0}]
      /\ RequestSound(r)
  BY DEF ServerInv, ServerTypeOK, Requests
<1> USE DEF RequestSound
<1>2. CASE ServeSummary(r)
  BY <1>1, <1>2 DEF ServeSummary
<1>3. CASE ReadStep(r)
  BY <1>1, <1>3 DEF ReadStep, Answered, Answer
<1>4. CASE ReadAborts(r)
  BY <1>1, <1>4 DEF ReadAborts, Answer
<1> QED BY <1>2, <1>3, <1>4

(* The turns of POST .../summary/refresh.                                  *)
LEMMA RefreshTurn ==
  ASSUME ServerInv, NEW p \in Refreshers,
         \/ ServeRefresh(p) \/ Prompt(p) \/ ProviderUnknown(p) \/ CallModel(p)
         \/ GenerationFails(p) \/ Generate(p) \/ Conflict(p) \/ Commit(p) \/ Invalidate(p)
         \/ RefreshAborts(p)
  PROVE  RefreshSound(p)'
<1>1. /\ p \in Requests /\ p \in Callers /\ p \notin Readers
      /\ stage \in [Requests -> {"away", "queued", "admitted", "running", "leaving"}]
      /\ reply \in [Requests -> Statuses \cup {0}]
      /\ wrote \in [Refreshers -> BOOLEAN]
      /\ posts \in [Refreshers -> PostState] /\ call \in [Callers -> CallState]
      /\ RequestSound(p) /\ CallSoundIn(p) /\ WriteSound(p)
  BY ServerAssumption
     DEF ServerInv, RefreshSound, ServerTypeOK, TypeOK, ProviderTypeOK, Requests
<1> USE <1>1 DEF RequestSound, RefreshSound, CallSoundIn, WriteSound
<1>2. CASE ServeRefresh(p)
  <2>1. stage[p] = "admitted" /\ call' = call /\ wrote' = wrote /\ connections' = connections
    BY <1>2 DEF ServeRefresh
  <2>2. posts'[p].phase \in {"failed", "listed"}
    BY <1>2 DEF ServeRefresh, AskRefresh, PostStart
  <2>3. CASE posts'[p].phase = "failed"
    <3>1. Answer(p, "NoEmailsToSummarize")
      BY <1>2, <2>3 DEF ServeRefresh
    <3> QED BY <2>1, <3>1 DEF Answer, StatusOf
  <2>4. CASE posts'[p].phase = "listed"
    <3>1. stage' = [stage EXCEPT ![p] = "running"] /\ reply' = reply
      BY <1>2, <2>4 DEF ServeRefresh
    <3> QED BY <2>1, <2>4, <3>1
  <2> QED BY <2>2, <2>3, <2>4
<1>3. CASE Prompt(p)
  <2>1. /\ stage[p] = "running" /\ posts[p].phase = "listed"
        /\ wrote' = wrote /\ connections' = connections /\ settings' = settings
        /\ posts'[p].phase \in {"prompted", "failed"}
    BY <1>3 DEF Prompt, PostPrompt
  <2>2. CASE posts'[p].phase = "failed"
    <3>1. Answer(p, "Exception") /\ call' = call
      BY <1>3, <2>2 DEF Prompt, Answered
    <3> QED BY <2>1, <3>1 DEF Answer, StatusOf
  <2>3. CASE posts'[p].phase = "prompted"
    <3>1. stage' = stage /\ reply' = reply
      BY <1>3, <2>3 DEF Prompt, Answered
    <3>2. SelectedProvider(settings) = "openai" \/ call' = call
      BY <1>3 DEF Prompt
    <3> QED BY <2>1, <2>3, <3>1, <3>2 DEF SelectedProvider
  <2> QED BY <2>1, <2>2, <2>3
<1>4. CASE ProviderUnknown(p)
  BY <1>4 DEF ProviderUnknown, PostLlmFails, Answer, StatusOf
<1>5. CASE CallModel(p)
  <2>1. UNCHANGED <<stage, reply, connections, settings, posts>> /\ wrote' = wrote
    BY <1>5 DEF CallModel, vars, serverVars
  <2>2. call[p].phase \notin Resting
    BY <1>5 DEF CallModel, CallStep, Complete, Resend, Reattempt, Resting
  <2> QED BY <2>1, <2>2 DEF SelectedProvider
<1>6. CASE GenerationFails(p) \/ RefreshAborts(p)
  <2>1. call'[p].phase = "idle" /\ wrote' = wrote /\ connections' = connections
    BY <1>6 DEF GenerationFails, RefreshAborts, Return, NoCall
  <2>2. CASE GenerationFails(p)
    BY <2>1, <2>2 DEF GenerationFails, PostLlmFails, Answer, StatusOf, Resting
  <2>3. CASE RefreshAborts(p)
    BY <2>1, <2>3 DEF RefreshAborts, AbortPost, Answer, StatusOf, Resting
  <2> QED BY <1>6, <2>2, <2>3
<1>7. CASE Generate(p)
  <2>1. /\ call'[p].phase = "idle" /\ UNCHANGED <<stage, reply, connections, settings>>
        /\ wrote' = wrote /\ posts[p].phase = "prompted" /\ posts'[p].phase = "selected"
    BY <1>7 DEF Generate, PostGenerate, Return, NoCall, serverVars
  <2> QED BY <2>1 DEF Resting
<1>8. CASE Conflict(p)
  BY <1>8 DEF Conflict, PostConflict, Answer, StatusOf
<1>9. CASE Commit(p)
  <2>1. /\ UNCHANGED <<stage, reply, call>> /\ wrote'[p]
        /\ posts[p].phase = "selected" /\ posts'[p].phase = "committed"
        /\ stage[p] = "running"
    BY <1>9 DEF Commit, PostCommit
  <2>2. p \notin connections'
    BY <1>9 DEF Commit
  <2> QED BY <2>1, <2>2
<1>10. CASE Invalidate(p)
  BY <1>10 DEF Invalidate, PostInvalidate, Answer, StatusOf
<1> QED BY <1>2, <1>3, <1>4, <1>5, <1>6, <1>7, <1>8, <1>9, <1>10

(* Every step keeps every request sound.                                   *)
LEMMA SoundStep ==
  ASSUME ServerInv, [ServerNext]_allVars
  PROVE  /\ \A q \in Requests : RequestSound(q)'
         /\ \A p \in Refreshers : RefreshSound(p)'
<1>1. ASSUME NEW q \in Requests, Turn(q)
      PROVE  /\ \A other \in Requests : RequestSound(other)'
             /\ \A p \in Refreshers : RefreshSound(p)'
  <2>1. RequestSound(q)' /\ (q \in Refreshers => RefreshSound(q)')
    <3>1. q \in Readers => q \notin Refreshers
      BY ServerAssumption
    <3>2. q \in Readers \/ q \in Refreshers
      BY DEF Requests
    <3>3. (q \in Refreshers /\ RefreshSound(q)') => RequestSound(q)'
      BY DEF RefreshSound
    <3> QED BY <1>1, <3>1, <3>2, <3>3, CommonTurn, ReaderTurn, RefreshTurn DEF Turn, Serve
  <2>2. ASSUME NEW other \in Requests, other # q
        PROVE  RequestSound(other)' /\ (other \in Refreshers => RefreshSound(other)')
    <3>1. RequestSound(other) /\ (other \in Refreshers => RefreshSound(other))
      BY DEF ServerInv
    <3>2. /\ settings' = settings /\ stage'[other] = stage[other]
          /\ reply'[other] = reply[other]
          /\ other \in connections' <=> other \in connections
          /\ other \in Refreshers =>
               /\ wrote'[other] = wrote[other]
               /\ posts'[other] = posts[other]
               /\ call'[other] = call[other]
      BY <1>1, <2>2, OthersUntouched DEF ServerInv
    <3>3. RequestSound(other)'
      BY <3>1, <3>2 DEF RequestSound
    <3>4. other \in Refreshers => CallSoundIn(other)'
      BY <3>1, <3>2 DEF RefreshSound, CallSoundIn
    <3>5. other \in Refreshers => WriteSound(other)'
      BY <3>1, <3>2 DEF RefreshSound, WriteSound
    <3> QED BY <3>3, <3>4, <3>5 DEF RefreshSound
  <2> QED BY <2>1, <2>2 DEF Requests
<1>2. CASE Outside \/ UNCHANGED allVars
  <2>1. UNCHANGED <<posts, call, settings, stage, connections, reply, wrote>>
    BY <1>2 DEF Outside, ReceiveEmail, Expire, DeleteAccount, vars, allVars, serverVars
  <2> QED BY <2>1 DEF ServerInv, RefreshSound, RequestSound, CallSoundIn, WriteSound
<1>3. CASE ServerRestart
  <2>1. /\ \A q \in Requests : stage'[q] = "away" /\ reply'[q] = 0 /\ q \notin connections'
        /\ \A p \in Refreshers : ~wrote'[p] /\ call'[p].phase \in Resting
    BY <1>3, ServerAssumption DEF ServerRestart, Stop, NoCall, Resting
  <2> QED BY <2>1 DEF RefreshSound, RequestSound, CallSoundIn, WriteSound, Requests
<1> QED BY <1>1, <1>2, <1>3, NextByTurn

(* So each is sound in every behaviour.                                    *)
LEMMA ServerInvariant == ServerSpec => []ServerInv
<1>1. ServerInit => /\ \A q \in Requests : RequestSound(q)
                    /\ \A p \in Refreshers : RefreshSound(p)
  <2> SUFFICES ASSUME ServerInit
               PROVE  /\ \A q \in Requests : RequestSound(q)
                      /\ \A p \in Refreshers : RefreshSound(p)
    OBVIOUS
  <2>1. /\ \A q \in Requests : stage[q] = "away" /\ reply[q] = 0 /\ q \notin connections
        /\ \A p \in Refreshers : ~wrote[p] /\ call[p].phase \in Resting
    BY ServerAssumption DEF ServerInit, ProviderInit, NoCall, Resting
  <2> QED BY <2>1 DEF RefreshSound, RequestSound, CallSoundIn, WriteSound, Requests
<1>2. ServerSpec => [](TypeOK /\ ServerTypeOK /\ ProviderTypeOK)
  BY ServerService, ServerTypeCorrect, ServerKeepsProvider, ProviderTypeCorrect, PTL
<1>3. ServerInit /\ TypeOK /\ ServerTypeOK /\ ProviderTypeOK => ServerInv
  BY <1>1 DEF ServerInv
<1>4. ServerInv /\ [ServerNext]_allVars /\ (TypeOK /\ ServerTypeOK /\ ProviderTypeOK)' => ServerInv'
  BY SoundStep DEF ServerInv
<1> QED BY <1>2, <1>3, <1>4, PTL DEF ServerSpec

(***************************************************************************)
(* No connection is leaked or borrowed (get_db), for any size of the pool. *)
(***************************************************************************)
THEOREM ConnectionsStayAccounted == ServerSpec => []ConnectionsAccounted
<1>1. ServerInv => ConnectionsAccounted
  <2> SUFFICES ASSUME ServerInv PROVE ConnectionsAccounted
    OBVIOUS
  <2>1. \A q \in connections : stage[q] \in {"admitted", "running", "leaving"}
    BY DEF ServerInv, ServerTypeOK, RequestSound
  <2>2. \A r \in Readers : stage[r] = "running" => r \in connections
    BY DEF ServerInv, RequestSound, Requests
  <2>3. \A p \in Refreshers :
          (stage[p] = "running" /\ posts[p].phase # "committed") => p \in connections
    BY DEF ServerInv, RefreshSound, WriteSound
  <2> QED BY <2>1, <2>2, <2>3 DEF ConnectionsAccounted
<1> QED BY <1>1, ServerInvariant, PTL

(***************************************************************************)
(* Whatever a refresh pays the model for is awaited by that refresh, which *)
(* keeps its connection meanwhile (refresh_summary).                       *)
(***************************************************************************)
THEOREM CallsStayAwaited == ServerSpec => []CallsAwaited
<1>1. ServerInv => CallsAwaited
  BY DEF ServerInv, RefreshSound, CallSoundIn, WriteSound, CallsAwaited
<1> QED BY <1>1, ServerInvariant, PTL

(***************************************************************************)
(* 200 means written, and every other answer but 500 means untouched       *)
(* (main.py, responses.py), whatever fails and whenever.                   *)
(***************************************************************************)
THEOREM StatusesTrue == ServerSpec => []StatusTellsOutcome
<1>1. ServerInv => StatusTellsOutcome
  <2> SUFFICES ASSUME ServerInv, NEW p \in Refreshers
               PROVE  /\ reply[p] = 200 => wrote[p]
                      /\ reply[p] \in {400, 401, 404, 502} => ~wrote[p]
    BY DEF StatusTellsOutcome
  <2>1. RequestSound(p) /\ WriteSound(p)
    BY DEF ServerInv, RefreshSound
  <2>2. wrote[p] => reply[p] \in {0, 200, 500}
    BY <2>1 DEF RequestSound, WriteSound
  <2> QED BY <2>1, <2>2 DEF WriteSound
<1> QED BY <1>1, ServerInvariant, PTL

=============================================================================
