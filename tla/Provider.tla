------------------------------- MODULE Provider -------------------------------
(***************************************************************************)
(* One refresh asking OpenAI for a summary: the attempts of tenacity       *)
(* around the requests of the SDK's client, which retries on its own.      *)
(*                                                                         *)
(*   app/services/llm/openai_provider.py   OpenAIProvider.summarize        *)
(*   AsyncOpenAI (not in src/)             its default max_retries         *)
(*                                                                         *)
(* What is asked and what is answered is left to SummaryService.           *)
(***************************************************************************)
EXTENDS Integers

CONSTANTS
  Callers,     \* whoever may call summarize at the same time
  MaxRetries,  \* settings.llm_max_retries
  SdkRetries   \* retries of the client, which the code leaves at its default

ASSUME ProviderAssumption == MaxRetries \in Nat /\ SdkRetries \in Nat

VARIABLE call  \* the call of each caller, under way or last ended

-----------------------------------------------------------------------------
(* How one HTTP request may end                                            *)
(*                                                                         *)
(*   parsed       an answer in the schema                                  *)
(*   empty        an answer without parseable payload                      *)
(*   rejected     bad request, authentication, any other error             *)
(*   conflict     409, or 408: the client tries again, tenacity does not   *)
(*   unavailable  network, timeout, rate limit, 5xx                        *)

Outcomes == {"parsed", "empty", "rejected", "conflict", "unavailable"}

\* Mutant: retry_if_exception instead of retry_if_exception_type.
RetryableAny == Outcomes \ {"parsed", "empty"}

\* _RETRYABLE.
Retryable == {"unavailable"}

\* What AsyncOpenAI sends again by itself.
SdkRetryable == {"conflict", "unavailable"}

Resting == {"idle", "answered", "failed"}

\* `sent` counts the requests; `last` is how the latest ended, "none" if it
\* has not.
CallState ==
  [phase : {"idle", "sending", "backing_off", "waiting", "answered", "failed"},
   attempt : Nat, try : Nat, sent : Nat, last : Outcomes \cup {"none"}]

NoCall == [phase |-> "idle", attempt |-> 0, try |-> 0, sent |-> 0, last |-> "none"]

ProviderTypeOK == call \in [Callers -> CallState]

ProviderInit == call = [p \in Callers |-> NoCall]

-----------------------------------------------------------------------------
\* summarize: the first request of the first attempt.
Begin(p) ==
  /\ call[p].phase \in Resting
  /\ call' = [call EXCEPT ![p] =
       [phase |-> "sending", attempt |-> 1, try |-> 1, sent |-> 1, last |-> "none"]]

\* Mutant: max_retries retries after the retries.
AttemptsLeftOneMore(p) == call[p].attempt <= MaxRetries + 1

\* stop_after_attempt(self._max_retries + 1).
AttemptsLeft(p) == call[p].attempt < MaxRetries + 1

\* The client sends a request SdkRetries + 1 times before it raises.
TriesLeft(p) == call[p].try < SdkRetries + 1

\* The outcomes tenacity sees as exceptions it retries.
Raised(p) == IF TriesLeft(p) THEN Retryable \ SdkRetryable ELSE Retryable

\* Where a request that ended with `outcome` leaves the call.
PhaseAfter(p, outcome) ==
  CASE outcome = "parsed"                          -> "answered"
    [] outcome \in SdkRetryable /\ TriesLeft(p)    -> "backing_off"
    [] outcome \in Raised(p) /\ AttemptsLeft(p)    -> "waiting"
    [] OTHER                                       -> "failed"

\* The request is answered, or fails within its timeout.
Complete(p, outcome) ==
  /\ call[p].phase = "sending"
  /\ call' = [call EXCEPT ![p].phase = PhaseAfter(p, outcome), ![p].last = outcome]

\* Mutant: the client heeds any Retry-After, however long.
ResendNever(p) == FALSE /\ UNCHANGED call

\* The client has slept and sends the request again.
Resend(p) ==
  /\ call[p].phase = "backing_off"
  /\ call' = [call EXCEPT ![p].phase = "sending", ![p].try = @ + 1, ![p].sent = @ + 1,
                          ![p].last = "none"]

\* wait_exponential is over: the next attempt.
Reattempt(p) ==
  /\ call[p].phase = "waiting"
  /\ call' = [call EXCEPT ![p].phase = "sending", ![p].attempt = @ + 1, ![p].try = 1,
                          ![p].sent = @ + 1, ![p].last = "none"]

\* summarize has returned or raised, and its caller goes on.
Return(p) ==
  /\ call[p].phase \in Resting
  /\ call' = [call EXCEPT ![p] = NoCall]

\* The process stops, and its calls with it.
Stop == call' = [p \in Callers |-> NoCall]

CallStep(p) == (\E outcome \in Outcomes : Complete(p, outcome)) \/ Resend(p) \/ Reattempt(p)

ProviderNext == (\E p \in Callers : Begin(p) \/ CallStep(p) \/ Return(p)) \/ Stop

ProviderSpec == ProviderInit /\ [][ProviderNext]_call

-----------------------------------------------------------------------------
(* Properties *)

(***************************************************************************)
(* One refresh pays for at most (max_retries + 1) requests per request the *)
(* client would send on its own: the two retry loops multiply              *)
(* (AsyncRetrying around AsyncOpenAI).                                     *)
(***************************************************************************)
CallsBounded ==
  \A p \in Callers : call[p].sent <= (MaxRetries + 1) * (SdkRetries + 1)

(***************************************************************************)
(* The docstring of openai_provider.py: "a bad request or auth error is    *)
(* not retried".  Whatever went before, neither loop sends again after     *)
(* such an answer, nor after one without payload.                          *)
(***************************************************************************)
PermanentErrorEnds ==
  \A p \in Callers : call[p].last \in {"rejected", "empty"} => call[p].phase = "failed"

=============================================================================
