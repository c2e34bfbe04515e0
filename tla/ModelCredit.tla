----------------------------- MODULE ModelCredit -----------------------------
(***************************************************************************)
(* What is known of the credit left with the providers of the models: the  *)
(* probes and their caches (src/app/quota.py), which /health/model and     *)
(* /metrics of src/app/main.py ask for.                                    *)
(*                                                                         *)
(* Amounts are cents.  Times are ages that stop growing where the code no  *)
(* longer tells them apart.                                                *)
(***************************************************************************)
EXTENDS Integers

CONSTANTS
    Provider,   \* of the active chain: among openrouter, venice and google
    Amounts,    \* of credit that a provider may have left
    Limit,      \* the credit limit of an OpenRouter key that has one
    Warn,       \* of each provider: warn_remaining_usd, VENICE_WARN_..., GEMINI_QUOTA_WARN_...
    Ttl         \* credit_probe_cache_seconds, VENICE_CREDIT_PROBE_CACHE_SECONDS

\* A key's limit counts only when it is positive.
ASSUME CreditConstants ==
    /\ Provider \subseteq {"openrouter", "venice", "google"}
    /\ Amounts \subseteq Int
    /\ Limit \in Nat \ {0}
    /\ Warn \in [Provider -> Nat]
    /\ Ttl \in Nat

\* check_gemini_quota keeps no cache.
Cached == Provider \ {"google"}

VARIABLES
    watched,    \* providers with a key, with monitoring enabled, with a project
    limited,    \* whether the OpenRouter key has a limit
    left,       \* what each provider has left, and whether it answers
    low,        \* for how long each has been short of credit or silent
    cache       \* _OPENROUTER_CACHE, _VENICE_CACHE

creditVars == <<watched, limited, left, low, cache>>

CreditInit ==
    /\ watched \in SUBSET Provider
    /\ limited \in BOOLEAN
    /\ left \in [Provider -> [amount : Amounts, up : BOOLEAN]]
    /\ low = [p \in Provider |-> 0]
    /\ cache = [p \in Cached |-> [age |-> Ttl + 1, status |-> "ok"]]

Lesser(a, b) == IF a < b THEN a ELSE b

\* At or below this a provider is degraded.  _openrouter_key_thresholds caps it
\* at a fifth of the key's limit; the critical threshold is taken as no higher,
\* as it is by default.
Threshold(p) == IF p = "openrouter" /\ limited THEN Lesser(Warn[p], Limit \div 5) ELSE Warn[p]

\* _check_openrouter_key with _check_openrouter_account: a key without a limit
\* tells no remaining amount; a rejected or silent query is degraded.
OpenRouterStatus ==
    IF ~left["openrouter"].up \/ (limited /\ left["openrouter"].amount <= Threshold("openrouter"))
    THEN "degraded" ELSE "ok"

\* _check_venice_key: an access that is not permitted counts as silent.
VeniceStatus ==
    IF ~left["venice"].up \/ left["venice"].amount <= Threshold("venice")
    THEN "degraded" ELSE "ok"

\* check_gemini_quota with a daily limit.
GoogleStatus ==
    IF ~left["google"].up \/ left["google"].amount <= Threshold("google")
    THEN "degraded" ELSE "ok"

\* What a probe of the provider finds now.
Probe(p) ==
    CASE p \notin watched -> "not_configured"
      [] p \in watched /\ p = "openrouter" -> OpenRouterStatus
      [] p \in watched /\ p = "venice" -> VeniceStatus
      [] p \in watched /\ p = "google" -> GoogleStatus

\* The cached answer is still good.
Fresh(p) == p \in Cached /\ cache[p].age <= Ttl

Status(p) == IF Fresh(p) THEN cache[p].status ELSE Probe(p)

\* Mutant: an answer from the cache is stored again as if it were new.
RefreshAlways == [p \in Cached |-> [age |-> 0, status |-> Status(p)]]

\* The caches after check_openrouter_credits and check_venice_credits.
Refreshed ==
    [p \in Cached |-> IF Fresh(p) THEN cache[p] ELSE [age |-> 0, status |-> Probe(p)]]

\* check_model_provider_credits: the worst of them.
Credit ==
    CASE \E p \in Provider : Status(p) = "degraded" -> "degraded"
      [] Provider # {} /\ \A p \in Provider : Status(p) = "not_configured" -> "not_configured"
      [] OTHER -> "ok"

\* A request of /health/model or /metrics, which is told Credit.
Check ==
    /\ cache' = Refreshed
    /\ UNCHANGED <<watched, limited, left, low>>

\* A provider's credit or availability changes.
Change(p) ==
    /\ \/ \E a \in Amounts : left' = [left EXCEPT ![p].amount = a]
       \/ left' = [left EXCEPT ![p].up = ~@]
    /\ low' = [low EXCEPT ![p] = 0]
    /\ UNCHANGED <<watched, limited, cache>>

OlderAnswer(age) == IF age > Ttl THEN age ELSE age + 1

CreditTick ==
    /\ low' = [p \in Provider |-> IF Probe(p) = "degraded" THEN OlderAnswer(low[p]) ELSE 0]
    /\ cache' = [p \in Cached |-> [cache[p] EXCEPT !.age = OlderAnswer(@)]]
    /\ UNCHANGED <<watched, limited, left>>

CreditNext == Check \/ (\E p \in Provider : Change(p)) \/ CreditTick

CreditSpec == CreditInit /\ [][CreditNext]_creditVars

(***************************************************************************)
(* Properties.                                                             *)
(***************************************************************************)
\* The type invariant of the providers' credit and of the caches.
CreditTypeOK ==
    /\ watched \subseteq Provider
    /\ limited \in BOOLEAN
    /\ left \in [Provider -> [amount : Amounts, up : BOOLEAN]]
    /\ low \in [Provider -> 0..(Ttl + 1)]
    /\ cache \in [Cached -> [age : 0..(Ttl + 1), status : {"ok", "degraded", "not_configured"}]]

\* A provider of the chain that has been out of credit or silent for longer than
\* a cached answer may live makes the answer degraded: neither the caches nor
\* providers that are not configured hide it.
ShortCreditShows == (\E p \in Provider : low[p] > Ttl) => Credit = "degraded"

\* A key with all of its credit left is never called short, however small its
\* limit is against the configured thresholds.
FullKeyIsOk ==
    "openrouter" \in watched /\ limited /\ left["openrouter"] = [amount |-> Limit, up |-> TRUE]
        => Probe("openrouter") = "ok"

\* What is told of the credit and the credit that is left agree.
CreditInv == CreditTypeOK /\ ShortCreditShows /\ FullKeyIsOk
=============================================================================
