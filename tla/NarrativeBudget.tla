---------------------------- MODULE NarrativeBudget ----------------------------
(***************************************************************************)
(* The narrations of one report or recommendation request                  *)
(* (backend/app/intelligence/report_generator.py, llm_client.py,           *)
(* generation.py).  The section narratives run concurrently under          *)
(* asyncio.gather, the executive summary after them, and all of them       *)
(* share one GenerationBudget of provider calls and of seconds.            *)
(*                                                                         *)
(* Time is a clock of ticks that runs up to the request budget.  An        *)
(* asyncio.timeout that has run out fires before time goes on, but the     *)
(* provider's answer may still win the race against it.                    *)
(***************************************************************************)
EXTENDS Naturals, FiniteSets, FiniteSetsExt

CONSTANTS
  Sections,     \* narratives generated concurrently
  Executive,    \* the executive summary, generated last
  Retries,      \* settings.llm_max_retries
  Timeout,      \* settings.llm_timeout_seconds
  TotalSeconds, \* settings.llm_request_budget_seconds
  MaxCalls      \* settings.llm_max_provider_calls

ASSUME SectionsAssumption == IsFiniteSet(Sections) /\ Executive \notin Sections
ASSUME SettingsAssumption  == {Retries, Timeout, TotalSeconds, MaxCalls} \subseteq Nat \ {0}

Narrations == Sections \cup {Executive}

VARIABLES
  clock,       \* ticks since the budget was created
  calls,       \* GenerationBudget._provider_calls
  progress,          \* where each narration is in generate_grounded_result
  attempts,    \* attempt_count of its metadata
  responses,   \* provider_response_count of its metadata
  timer,       \* ticks left of its asyncio.timeout
  text,        \* whose words it returns
  sound,       \* narrations whose deterministic fallback passes the validator
  request      \* what becomes of the whole request

narration == <<progress, attempts, responses, timer, text>>
narrativeVars      == <<clock, calls, narration, sound, request>>

NarrativeInit ==
  /\ clock = 0 /\ calls = 0
  /\ progress = [g \in Narrations |-> "waiting"]
  /\ attempts = [g \in Narrations |-> 0]
  /\ responses = [g \in Narrations |-> 0]
  /\ timer = [g \in Narrations |-> 0]
  /\ text = [g \in Narrations |-> "none"]
  /\ sound \in {Narrations} \cup {Narrations \ {g} : g \in Narrations}
  /\ request = "idle"

(* The budget is created and its clock starts; then the sections are gathered. *)
Begin ==
  /\ request = "idle"
  /\ request' = "running"
  /\ progress' = [g \in Narrations |-> IF g = Executive THEN "waiting" ELSE "reserve"]
  /\ UNCHANGED <<clock, calls, attempts, responses, timer, text, sound>>

Moves(g, from, to) == progress[g] = from /\ progress' = [progress EXCEPT ![g] = to]

Minimum(a, b) == IF a < b THEN a ELSE b

Remaining == TotalSeconds - clock

BudgetSpent == Remaining = 0 \/ calls >= MaxCalls

AttemptTimeout == Minimum(Timeout, Remaining)

BugReserve(g) ==              \* two callers read the counter before either adds to it
  /\ attempts[g] < Retries
  /\ ~BudgetSpent
  /\ Moves(g, "reserve", "calling")
  /\ calls' = calls + (IF \E h \in Narrations \ {g} : progress[h] = "calling" THEN 0 ELSE 1)
  /\ attempts' = [attempts EXCEPT ![g] = @ + 1]
  /\ timer' = [timer EXCEPT ![g] = AttemptTimeout]
  /\ UNCHANGED <<clock, responses, text, sound, request>>

(* reserve_provider_call holds the budget's lock over its test and increment. *)
Reserve(g) ==
  /\ attempts[g] < Retries
  /\ ~BudgetSpent
  /\ Moves(g, "reserve", "calling")
  /\ calls' = calls + 1
  /\ attempts' = [attempts EXCEPT ![g] = @ + 1]
  /\ timer' = [timer EXCEPT ![g] = AttemptTimeout]
  /\ UNCHANGED <<clock, responses, text, sound, request>>

BugFallBack(g) ==             \* waits for a budget that is spent
  /\ attempts[g] = Retries
  /\ Moves(g, "reserve", "validate")
  /\ text' = [text EXCEPT ![g] = "fallback"]
  /\ UNCHANGED <<clock, calls, attempts, responses, timer, sound, request>>

(* The retry loop ends, or breaks off: the deterministic text is returned. *)
FallBack(g) ==
  /\ attempts[g] = Retries \/ BudgetSpent
  /\ Moves(g, "reserve", "validate")
  /\ text' = [text EXCEPT ![g] = "fallback"]
  /\ UNCHANGED <<clock, calls, attempts, responses, timer, sound, request>>

(* A complete, grounded response ends the loop. *)
Accept(g) ==
  /\ Moves(g, "calling", "validate")
  /\ responses' = [responses EXCEPT ![g] = @ + 1]
  /\ text' = [text EXCEPT ![g] = "narrative"]
  /\ UNCHANGED <<clock, calls, attempts, timer, sound, request>>

BugReject(g) ==               \* breaks where the code continues
  /\ Moves(g, "calling", "validate")
  /\ responses' = [responses EXCEPT ![g] = @ + 1]
  /\ text' = [text EXCEPT ![g] = "fallback"]
  /\ UNCHANGED <<clock, calls, attempts, timer, sound, request>>

(* A truncated, empty or ungrounded response costs an attempt. *)
Reject(g) ==
  /\ Moves(g, "calling", "reserve")
  /\ responses' = [responses EXCEPT ![g] = @ + 1]
  /\ UNCHANGED <<clock, calls, attempts, timer, text, sound, request>>

(* Network and quota errors are caught and cost an attempt. *)
ProviderFails(g) ==
  /\ Moves(g, "calling", "reserve")
  /\ UNCHANGED <<clock, calls, attempts, responses, timer, text, sound, request>>

TimeOut(g) ==
  /\ timer[g] = 0
  /\ Moves(g, "calling", "reserve")
  /\ UNCHANGED <<clock, calls, attempts, responses, timer, text, sound, request>>

BugValidate(g) ==             \* returns the fallback without validating it
  /\ Moves(g, "validate", "done")
  /\ UNCHANGED <<clock, calls, attempts, responses, timer, text, sound, request>>

(* generate_grounded_result: the fallback itself may fail the validator, and
   ValueError leaves asyncio.gather and with it the request. *)
Validate(g) ==
  LET valid == text[g] = "narrative" \/ g \in sound IN
  /\ Moves(g, "validate", IF valid THEN "done" ELSE "raised")
  /\ request' = IF valid THEN request ELSE "failed"
  /\ UNCHANGED <<clock, calls, attempts, responses, timer, text, sound>>

StartExecutive ==
  /\ request = "running"
  /\ \A g \in Sections : progress[g] = "done"
  /\ Moves(Executive, "waiting", "reserve")
  /\ UNCHANGED <<clock, calls, attempts, responses, timer, text, sound, request>>

Finish ==
  /\ request = "running"
  /\ progress[Executive] = "done"
  /\ request' = "published"
  /\ UNCHANGED <<clock, calls, narration, sound>>

Tick ==
  /\ request # "idle" /\ clock < TotalSeconds
  /\ \A g \in Narrations : progress[g] = "calling" => timer[g] > 0
  /\ clock' = clock + 1
  /\ timer' = [g \in Narrations |-> IF progress[g] = "calling" THEN timer[g] - 1 ELSE timer[g]]
  /\ UNCHANGED <<calls, progress, attempts, responses, text, sound, request>>

Client(g) == Reserve(g) \/ FallBack(g) \/ TimeOut(g) \/ Validate(g)

Provider(g) == Accept(g) \/ Reject(g) \/ ProviderFails(g)

NarrativeNext ==
  \/ \E g \in Narrations : Client(g) \/ Provider(g)
  \/ Begin \/ StartExecutive \/ Finish \/ Tick

(* The event loop runs what is ready and time passes; the provider owes nothing. *)
NarrativeFairness ==
  /\ \A g \in Narrations : WF_narrativeVars(Client(g))
  /\ WF_narrativeVars(StartExecutive) /\ WF_narrativeVars(Finish) /\ WF_narrativeVars(Tick)

NarrativeSpec == NarrativeInit /\ [][NarrativeNext]_narrativeVars /\ NarrativeFairness

-----------------------------------------------------------------------------
AttemptCount == MapThenSumSet(LAMBDA g : attempts[g], Narrations)

(* Concurrent narrations together never make more provider calls than the
   request may, the attempts their metadata report add up to the calls, and no
   call can outlive the request's time budget, however late it was started. *)
BudgetRespected ==
  /\ calls <= MaxCalls
  /\ AttemptCount = calls
  /\ \A g \in Narrations : progress[g] = "calling" => clock + timer[g] <= TotalSeconds

(* Deterministic text replaces the model's only when the narration has used
   all its attempts or the request its whole budget. *)
FallbackIsEarned ==
  \A g \in Narrations : text[g] = "fallback" => attempts[g] = Retries \/ BudgetSpent

(* A published report consists of validated prose in every part, its executive
   summary included, and counts a response for each part the model wrote. *)
PublishedIsGrounded ==
  request = "published" => \A g \in Narrations :
    /\ progress[g] = "done"
    /\ text[g] = "narrative" => responses[g] \in 1..attempts[g]
    /\ text[g] = "fallback" => g \in sound

(* A narration is honest about what it cost and about who wrote it. *)
NarrationsAreHonest ==
  /\ BudgetRespected
  /\ FallbackIsEarned
  /\ PublishedIsGrounded

(* Whatever the provider does, also nothing at all, a request that has begun
   is answered. *)
RequestEnds == request = "running" ~> request \in {"published", "failed"}
=============================================================================
