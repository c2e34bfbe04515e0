------------------------------ MODULE ModelRuns ------------------------------
(***************************************************************************)
(* The language models of the agents: the chain of models that have their  *)
(* credentials (src/app/model_config.py), runs that fall back along it     *)
(* (src/app/agents/triage.py), the record of the last run                  *)
(* (src/app/model_metrics.py) and what /health/model makes of both         *)
(* (src/app/main.py).                                                      *)
(*                                                                         *)
(* Times are kept as ages, which stop growing where the code no longer     *)
(* tells them apart.                                                       *)
(***************************************************************************)
EXTENDS Integers, Sequences

CONSTANTS
    Chain,          \* the configured models, in order of preference
    ProviderOf(_),  \* the provider of a model; unknown for one nobody supports
    Run,            \* agent runs that may be under way at once
    Window          \* RECENT_RUNTIME_FAILURE_WINDOW_SECONDS

\* configured_model_names always yields a primary model.
ASSUME RunsConstants == Chain \in Seq(STRING) /\ Chain # <<>> /\ Window \in Nat

VARIABLES
    keys,       \* providers whose credentials are in the environment, or that need none
    broken,     \* the configuration file has load errors
    last,       \* last_success_at, last_failure_at, last_failure_category
    ended,      \* how the last run that ended did, and how long ago
    run         \* the positions in Chain of the models each run has still to try

runVars == <<keys, broken, last, ended, run>>

Never == Window + 1

Providers == {ProviderOf(Chain[i]) : i \in DOMAIN Chain} \ {"unknown"}

RunsInit ==
    /\ keys \in SUBSET Providers
    /\ broken = FALSE
    /\ last = [success |-> Never, failure |-> Never, category |-> FALSE]
    /\ ended = [ok |-> TRUE, age |-> Never]
    /\ run = [r \in Run |-> {}]

(***************************************************************************)
(* The chain: load_model_config.                                           *)
(***************************************************************************)
\* Neither unsupported nor without its credentials.
Viable(m) == ProviderOf(m) \in keys

\* The positions of the models that are tried, in their order; with none of them
\* viable, the first all the same.
ViableModels == {i \in DOMAIN Chain : Viable(Chain[i])}

ActiveChain == IF ViableModels = {} THEN {1} ELSE ViableModels

\* The model that is tried first.
FirstOf(models) == CHOOSE i \in models : \A j \in models : i <= j

(***************************************************************************)
(* Runs: run_triage_agent between start_run and record_success or _failure.*)
(***************************************************************************)
StartRun(r) ==
    /\ run[r] = {}
    /\ run' = [run EXCEPT ![r] = ActiveChain]
    /\ UNCHANGED <<keys, broken, last, ended>>

\* Mutant: a success leaves the category of the last failure.
SuccessOnlyDated == last' = [last EXCEPT !.success = 0]

RecordSuccess == last' = [last EXCEPT !.success = 0, !.category = FALSE]

RecordFailure == last' = [last EXCEPT !.failure = 0, !.category = TRUE]

\* The model that is tried answers; it can only with its credentials.
Succeed(r) ==
    /\ run[r] # {} /\ Viable(Chain[FirstOf(run[r])])
    /\ run' = [run EXCEPT ![r] = {}]
    /\ RecordSuccess
    /\ ended' = [ok |-> TRUE, age |-> 0]
    /\ UNCHANGED <<keys, broken>>

\* It fails.  An API error, or output that never validates, moves the run to
\* the next model; anything else, or the last model, ends it.
Fail(r) ==
    /\ run[r] # {}
    /\ \/ /\ run[r] # {FirstOf(run[r])}
          /\ run' = [run EXCEPT ![r] = @ \ {FirstOf(@)}]
          /\ UNCHANGED <<last, ended>>
       \/ /\ run' = [run EXCEPT ![r] = {}]
          /\ RecordFailure
          /\ ended' = [ok |-> FALSE, age |-> 0]
    /\ UNCHANGED <<keys, broken>>

\* _has_recent_runtime_failure: a later success is one of smaller age.
HasRecentFailure ==
    /\ last.category
    /\ ~(last.success < last.failure)
    /\ last.failure <= Window

\* /health/model: unavailable is answered with 503.
Readiness ==
    CASE ViableModels = {} \/ broken -> "unavailable"
      [] ViableModels # {} /\ ~broken /\ 1 \notin ViableModels -> "degraded"
      [] OTHER -> "ok"

\* The configuration file is broken, or repaired.
EditConfig ==
    /\ broken' = ~broken
    /\ UNCHANGED <<keys, last, ended, run>>

OlderRun(age) == IF age = Never THEN age ELSE age + 1

RunsTick ==
    /\ last' = [last EXCEPT !.success = OlderRun(@), !.failure = OlderRun(@)]
    /\ ended' = [ended EXCEPT !.age = OlderRun(@)]
    /\ UNCHANGED <<keys, broken, run>>

RunsNext ==
    \/ \E r \in Run : StartRun(r) \/ Succeed(r) \/ Fail(r)
    \/ EditConfig \/ RunsTick

RunsSpec == RunsInit /\ [][RunsNext]_runVars

(***************************************************************************)
(* Properties.                                                             *)
(***************************************************************************)
\* The type invariant of the configuration and of the records of runs.
RunsTypeOK ==
    /\ keys \subseteq Providers
    /\ broken \in BOOLEAN
    /\ last \in [success : 0..Never, failure : 0..Never, category : BOOLEAN]
    /\ ended \in [ok : BOOLEAN, age : 0..Never]
    /\ run \in [Run -> SUBSET ActiveChain]

\* /health/model calls the runtime degraded exactly while the last run that
\* ended has failed within the window, whatever runs overlap and however many
\* end at the same instant.
RuntimeIsTheLastRun == HasRecentFailure <=> ~ended.ok /\ ended.age <= Window

\* A run always has a model to try, and every one it has still to try has its
\* credentials unless /health/model answers 503.
ReadyMeansRunnable ==
    /\ ActiveChain # {}
    /\ Readiness # "unavailable" => \A r \in Run : \A i \in run[r] : Viable(Chain[i])

\* What is reported of the models and what becomes of their runs agree.
RunsInv == RunsTypeOK /\ RuntimeIsTheLastRun /\ ReadyMeansRunnable
=============================================================================
