----------------------------- MODULE ModelProofs -----------------------------
(***************************************************************************)
(* Theorems of ModelRuns and ModelCredit: for any chain of models, runs    *)
(* and window, the health of the runtime is that of the last run and a     *)
(* ready chain can be run; for any providers, amounts, thresholds and      *)
(* lifetime of a cached answer, short credit shows.                        *)
(***************************************************************************)
EXTENDS ModelRuns, ModelCredit, TLAPS

-----------------------------------------------------------------------------
(* The runs. *)

\* The record tells of the last run that ended: how it did, and, if it failed,
\* when, with no success since.
RecordIsOfTheLastRun ==
    /\ last.category <=> ~ended.ok
    /\ ~ended.ok => last.failure = ended.age /\ last.failure <= last.success

\* The strengthening of RunsInv that every step preserves.
RunsIInv == RunsTypeOK /\ RecordIsOfTheLastRun

RecordType == [success : 0..Never, failure : 0..Never, category : BOOLEAN]

EndType == [ok : BOOLEAN, age : 0..Never]

\* The chain is of configured models, and never empty.
LEMMA ChainPositions == ActiveChain # {} /\ ActiveChain \subseteq DOMAIN Chain
<1>1. 1 \in DOMAIN Chain
  BY RunsConstants
<1>2. ViableModels \subseteq DOMAIN Chain
  BY DEF ViableModels
<1> QED BY <1>1, <1>2 DEF ActiveChain

\* Growing older keeps the order of ages, and their bound.
LEMMA RunsAge ==
    ASSUME NEW a \in 0..Never, NEW b \in 0..Never
    PROVE  OlderRun(a) \in 0..Never /\ (a <= b => OlderRun(a) <= OlderRun(b))
  BY RunsConstants DEF OlderRun, Never

\* A run that ends, well or badly, is what the record tells of.
LEMMA RunsStep ==
    ASSUME RunsIInv, [RunsNext]_runVars
    PROVE  RunsIInv'
<1> USE RunsConstants DEF RunsIInv, RunsTypeOK, RecordIsOfTheLastRun, Never
<1>0. last \in RecordType /\ 0 \in 0..Never
  BY DEF RecordType
<1>1. UNCHANGED keys
  BY DEF RunsNext, StartRun, Succeed, Fail, EditConfig, RunsTick, runVars
<1>2. ActiveChain' = ActiveChain /\ Providers' = Providers
  BY <1>1 DEF ActiveChain, ViableModels, Viable, Providers
<1>3. ASSUME NEW r \in Run, StartRun(r)
      PROVE  RunsIInv'
  BY <1>2, <1>3 DEF StartRun
<1>4. ASSUME NEW r \in Run, Succeed(r)
      PROVE  RunsIInv'
  <2>1. /\ last' = [last EXCEPT !.success = 0, !.category = FALSE]
        /\ ended' = [ok |-> TRUE, age |-> 0]
        /\ run' = [run EXCEPT ![r] = {}]
        /\ UNCHANGED <<keys, broken>>
    BY <1>4 DEF Succeed, RecordSuccess
  <2>2. last'.category = FALSE /\ ended'.ok = TRUE
    BY <2>1
  <2>3. RunsTypeOK'
    <3>1. last' \in RecordType /\ ended' \in EndType
      BY <2>1, <1>0 DEF RecordType, EndType
    <3>2. run' \in [Run -> SUBSET ActiveChain]
      BY <2>1
    <3> QED BY <1>2, <2>1, <3>1, <3>2 DEF RecordType, EndType
  <2> QED BY <2>2, <2>3
<1>5. ASSUME NEW r \in Run, Fail(r)
      PROVE  RunsIInv'
  <2>1. run[r] \ {FirstOf(run[r])} \subseteq ActiveChain
    OBVIOUS
  <2>2. CASE run' = [run EXCEPT ![r] = @ \ {FirstOf(@)}] /\ UNCHANGED <<last, ended>>
    BY <1>2, <1>5, <2>1, <2>2 DEF Fail
  <2>3. CASE run' = [run EXCEPT ![r] = {}] /\ RecordFailure /\ ended' = [ok |-> FALSE, age |-> 0]
    <3>1. last' = [last EXCEPT !.failure = 0, !.category = TRUE] /\ UNCHANGED <<keys, broken>>
      BY <1>5, <2>3 DEF Fail, RecordFailure
    <3>2. /\ last'.category = TRUE /\ last'.failure = 0 /\ last'.success = last.success
          /\ ended'.ok = FALSE /\ ended'.age = 0
      BY <2>3, <3>1
    <3>3. RunsTypeOK'
      <4>1. last' \in RecordType /\ ended' \in EndType
        BY <2>3, <3>1, <1>0 DEF RecordType, EndType
      <4>2. run' \in [Run -> SUBSET ActiveChain]
        BY <2>3
      <4> QED BY <1>2, <3>1, <4>1, <4>2 DEF RecordType, EndType
    <3> QED BY <3>2, <3>3
  <2> QED BY <1>5, <2>2, <2>3 DEF Fail
<1>6. CASE EditConfig
  BY <1>2, <1>6 DEF EditConfig
<1>7. CASE RunsTick
  <2>1. /\ last' = [last EXCEPT !.success = OlderRun(last.success), !.failure = OlderRun(last.failure)]
        /\ ended' = [ended EXCEPT !.age = OlderRun(ended.age)]
        /\ UNCHANGED <<keys, broken, run>>
    BY <1>7 DEF RunsTick
  <2>2. /\ last.failure \in 0..Never /\ last.success \in 0..Never /\ ended.age \in 0..Never
        /\ OlderRun(last.failure) \in 0..Never /\ OlderRun(last.success) \in 0..Never
        /\ OlderRun(ended.age) \in 0..Never
        /\ last.failure <= last.success => OlderRun(last.failure) <= OlderRun(last.success)
    BY RunsAge
  <2>3. /\ last'.success = OlderRun(last.success) /\ last'.failure = OlderRun(last.failure)
        /\ last'.category = last.category
        /\ ended'.ok = ended.ok /\ ended'.age = OlderRun(ended.age)
    BY <2>1
  <2>4. RunsTypeOK'
    BY <1>2, <2>1, <2>2
  <2>5. RecordIsOfTheLastRun'
    BY <2>2, <2>3
  <2> QED BY <2>4, <2>5
<1>8. CASE UNCHANGED runVars
  BY <1>2, <1>8 DEF runVars
<1> QED BY <1>3, <1>4, <1>5, <1>6, <1>7, <1>8 DEF RunsNext

\* The record decides the health of the runtime, and a chain with a viable model
\* has no other.
LEMMA RunsImply ==
    ASSUME RunsIInv
    PROVE  RunsInv
<1>1. RuntimeIsTheLastRun
  BY RunsConstants DEF RunsIInv, RunsTypeOK, RecordIsOfTheLastRun, RuntimeIsTheLastRun, HasRecentFailure, Never
<1>2. ASSUME Readiness # "unavailable", NEW r \in Run, NEW i \in run[r]
      PROVE  Viable(Chain[i])
  <2>1. ViableModels # {}
    BY <1>2 DEF Readiness
  <2>2. i \in ViableModels
    BY <2>1 DEF RunsIInv, RunsTypeOK, ActiveChain
  <2> QED BY <2>2 DEF ViableModels
<1>3. ReadyMeansRunnable
  BY <1>2, ChainPositions DEF ReadyMeansRunnable
<1> QED BY <1>1, <1>3 DEF RunsIInv, RunsInv

\* /health/model calls the runtime degraded exactly while the last run that ended
\* has failed within the window, however runs overlap; and while it does not
\* answer 503, every model that a run may try has its credentials.
THEOREM RunsInvariant == RunsSpec => []RunsInv
<1>1. RunsInit => RunsIInv
  <2> SUFFICES ASSUME RunsInit PROVE RunsIInv
    OBVIOUS
  <2>1. RunsTypeOK
    <3>1. Never \in 0..Never
      BY RunsConstants DEF Never
    <3>2. last \in RecordType /\ ended \in EndType
      BY <3>1 DEF RunsInit, RecordType, EndType
    <3>3. keys \subseteq Providers /\ broken \in BOOLEAN /\ run \in [Run -> SUBSET ActiveChain]
      BY DEF RunsInit
    <3> QED BY <3>2, <3>3 DEF RunsTypeOK, RecordType, EndType
  <2>2. last.category = FALSE /\ ended.ok = TRUE
    BY DEF RunsInit
  <2> QED BY <2>1, <2>2 DEF RunsIInv, RecordIsOfTheLastRun
<1>2. RunsIInv /\ [RunsNext]_runVars => RunsIInv'
  BY RunsStep
<1>3. RunsIInv => RunsInv
  BY RunsImply
<1> QED BY <1>1, <1>2, <1>3, PTL DEF RunsSpec

-----------------------------------------------------------------------------
(* The credit. *)

\* A provider that has been short for a while is found short by a probe, and a
\* cached answer stored since says so.
ShortIsSeen ==
    \A p \in Provider :
      /\ low[p] > 0 => Probe(p) = "degraded"
      /\ p \in Cached /\ low[p] > cache[p].age /\ cache[p].age <= Ttl => cache[p].status = "degraded"

\* The strengthening of CreditInv that every step preserves.
CreditIInv == CreditTypeOK /\ ShortIsSeen

ProbeStatus == {"ok", "degraded", "not_configured"}

\* A probe finds one of three statuses.
LEMMA ProbeType ==
    ASSUME NEW p \in Provider
    PROVE  Probe(p) \in ProbeStatus
<1>1. OpenRouterStatus \in ProbeStatus /\ VeniceStatus \in ProbeStatus /\ GoogleStatus \in ProbeStatus
  BY DEF OpenRouterStatus, VeniceStatus, GoogleStatus, ProbeStatus
<1>2. p \in {"openrouter", "venice", "google"}
  BY CreditConstants
<1> QED BY <1>1, <1>2 DEF Probe, ProbeStatus

\* A probe depends on its own provider and on nothing that passes with time.
LEMMA ProbeStays ==
    ASSUME NEW p \in Provider, UNCHANGED <<watched, limited>>, left'[p] = left[p]
    PROVE  Probe(p)' = Probe(p)
<1>1. CASE p = "openrouter"
  BY <1>1 DEF Probe, OpenRouterStatus, Threshold
<1>2. CASE p = "venice"
  BY <1>2 DEF Probe, VeniceStatus, Threshold
<1>3. CASE p = "google"
  BY <1>3 DEF Probe, GoogleStatus, Threshold
<1> QED BY <1>1, <1>2, <1>3, CreditConstants

LEMMA CreditStep ==
    ASSUME CreditIInv, [CreditNext]_creditVars
    PROVE  CreditIInv'
<1>0. Ttl \in Nat /\ 0 \in 0..(Ttl + 1)
  BY CreditConstants
<1>1. ASSUME NEW p \in Cached
      PROVE  /\ p \in Provider
             /\ cache[p] \in [age : 0..(Ttl + 1), status : ProbeStatus]
  BY DEF CreditIInv, CreditTypeOK, Cached, ProbeStatus
<1>2. \A p \in Provider : low[p] \in 0..(Ttl + 1)
  BY DEF CreditIInv, CreditTypeOK
<1>3. CASE Check
  <2>1. \A p \in Provider : Probe(p)' = Probe(p)
    BY <1>3, ProbeStays DEF Check
  <2>2. \A p \in Cached : cache'[p] = IF cache[p].age <= Ttl THEN cache[p] ELSE [age |-> 0, status |-> Probe(p)]
    BY <1>3 DEF Check, Refreshed, Fresh
  <2>3. cache' \in [Cached -> [age : 0..(Ttl + 1), status : ProbeStatus]]
    <3>1. \A p \in Cached : Probe(p) \in ProbeStatus
      BY <1>1, ProbeType
    <3>2. \A p \in Cached : cache'[p] \in [age : 0..(Ttl + 1), status : ProbeStatus]
      <4> TAKE p \in Cached
      <4>1. CASE cache[p].age <= Ttl
        BY <1>1, <2>2, <4>1
      <4>2. CASE ~(cache[p].age <= Ttl)
        <5>1. cache'[p] = [age |-> 0, status |-> Probe(p)]
          BY <2>2, <4>2
        <5> QED BY <1>0, <3>1, <5>1
      <4> QED BY <4>1, <4>2
    <3> QED BY <1>3, <3>2 DEF Check, Refreshed
  <2>4. CreditTypeOK'
    BY <1>3, <2>3 DEF Check, CreditIInv, CreditTypeOK, ProbeStatus
  <2>5. ASSUME NEW p \in Provider
        PROVE  /\ low'[p] > 0 => Probe(p)' = "degraded"
               /\ p \in Cached /\ low'[p] > cache'[p].age /\ cache'[p].age <= Ttl
                    => cache'[p].status = "degraded"
    <3>1. low' = low
      BY <1>3 DEF Check
    <3>2. low[p] > 0 => Probe(p)' = "degraded"
      BY <2>1 DEF CreditIInv, ShortIsSeen
    <3>3. ASSUME p \in Cached, low[p] > cache'[p].age, cache'[p].age <= Ttl
          PROVE  cache'[p].status = "degraded"
      <4>1. CASE cache[p].age <= Ttl
        BY <2>2, <3>3, <4>1 DEF CreditIInv, ShortIsSeen
      <4>2. CASE ~(cache[p].age <= Ttl)
        <5>1. cache'[p] = [age |-> 0, status |-> Probe(p)]
          BY <2>2, <3>3, <4>2
        <5>2. low[p] > 0 /\ Probe(p)' = Probe(p)
          BY <2>1, <3>3, <5>1
        <5> QED BY <3>2, <5>1, <5>2
      <4> QED BY <4>1, <4>2
    <3> QED BY <3>1, <3>2, <3>3
  <2> QED BY <2>4, <2>5 DEF CreditIInv, ShortIsSeen
<1>4. ASSUME NEW q \in Provider, Change(q)
      PROVE  CreditIInv'
  <2>1. /\ left' \in [Provider -> [amount : Amounts, up : BOOLEAN]]
        /\ \A p \in Provider \ {q} : left'[p] = left[p]
    <3>1. PICK v \in [amount : Amounts, up : BOOLEAN] : left' = [left EXCEPT ![q] = v]
      <4>1. left[q] \in [amount : Amounts, up : BOOLEAN]
        BY DEF CreditIInv, CreditTypeOK
      <4>2. ASSUME NEW a \in Amounts, left' = [left EXCEPT ![q].amount = a]
            PROVE  left' = [left EXCEPT ![q] = [left[q] EXCEPT !.amount = a]]
        BY <4>2 DEF CreditIInv, CreditTypeOK
      <4>3. ASSUME left' = [left EXCEPT ![q].up = ~@]
            PROVE  left' = [left EXCEPT ![q] = [left[q] EXCEPT !.up = ~left[q].up]]
        BY <4>3 DEF CreditIInv, CreditTypeOK
      <4>4. \A a \in Amounts : [left[q] EXCEPT !.amount = a] \in [amount : Amounts, up : BOOLEAN]
        BY <4>1
      <4>5. (~left[q].up) \in BOOLEAN
        OBVIOUS
      <4>6. [left[q] EXCEPT !.up = ~left[q].up] \in [amount : Amounts, up : BOOLEAN]
        BY <4>1, <4>5
      <4> QED BY <1>4, <4>2, <4>3, <4>4, <4>6 DEF Change
    <3> QED BY <3>1 DEF CreditIInv, CreditTypeOK
  <2>2. /\ low' = [low EXCEPT ![q] = 0]
        /\ UNCHANGED <<watched, limited, cache>>
    BY <1>4 DEF Change
  <2>3. CreditTypeOK'
    <3>1. low' \in [Provider -> 0..(Ttl + 1)]
      BY <1>0, <2>2 DEF CreditIInv, CreditTypeOK
    <3> QED BY <2>1, <2>2, <3>1 DEF CreditIInv, CreditTypeOK
  <2>4. low'[q] = 0 /\ \A p \in Provider \ {q} : low'[p] = low[p]
    BY <2>2 DEF CreditIInv, CreditTypeOK
  <2>5. \A p \in Provider \ {q} : Probe(p)' = Probe(p)
    BY <2>1, <2>2, ProbeStays
  <2>6. q \in Cached => ~(low'[q] > cache'[q].age)
    BY <1>1, <2>2, <2>4
  <2> QED BY <2>2, <2>3, <2>4, <2>5, <2>6 DEF CreditIInv, ShortIsSeen
<1>5. CASE CreditTick
  <2>1. \A p \in Provider : Probe(p)' = Probe(p)
    BY <1>5, ProbeStays DEF CreditTick
  <2>2. \A p \in Provider : low'[p] = IF Probe(p) = "degraded" THEN OlderAnswer(low[p]) ELSE 0
    BY <1>5 DEF CreditTick
  <2>3. \A p \in Cached : cache'[p] = [cache[p] EXCEPT !.age = OlderAnswer(cache[p].age)]
    BY <1>5 DEF CreditTick
  <2>4. \A a \in 0..(Ttl + 1) : OlderAnswer(a) \in 0..(Ttl + 1)
    BY <1>0 DEF OlderAnswer
  <2>5. \A p \in Cached : cache'[p] \in [age : 0..(Ttl + 1), status : ProbeStatus]
    <3> TAKE p \in Cached
    <3>1. /\ cache[p] \in [age : 0..(Ttl + 1), status : ProbeStatus]
          /\ OlderAnswer(cache[p].age) \in 0..(Ttl + 1)
      BY <1>1, <2>4
    <3> QED BY <2>3, <3>1
  <2>6. low' \in [Provider -> 0..(Ttl + 1)] /\ cache' \in [Cached -> [age : 0..(Ttl + 1), status : ProbeStatus]]
    <3>1. \A p \in Provider : low'[p] \in 0..(Ttl + 1)
      BY <1>0, <1>2, <2>2, <2>4
    <3> QED BY <1>5, <2>5, <3>1 DEF CreditTick
  <2>7. CreditTypeOK'
    BY <1>5, <2>6 DEF CreditTick, CreditIInv, CreditTypeOK, ProbeStatus
  <2>8. \A p \in Provider : low'[p] > 0 => Probe(p)' = "degraded"
    BY <2>1, <2>2
  <2>9. ASSUME NEW p \in Cached, low'[p] > cache'[p].age, cache'[p].age <= Ttl
        PROVE  cache'[p].status = "degraded"
    <3>1. cache[p].age \in 0..(Ttl + 1) /\ low[p] \in 0..(Ttl + 1)
      BY <1>1, <1>2
    <3>2. cache'[p].age = OlderAnswer(cache[p].age) /\ cache'[p].status = cache[p].status
      BY <1>1, <2>3
    <3>3. low'[p] = OlderAnswer(low[p])
      <4>1. cache'[p].age \in 0..(Ttl + 1)
        BY <2>4, <3>1, <3>2
      <4>2. low'[p] # 0
        BY <1>0, <2>9, <4>1
      <4> QED BY <1>1, <2>2, <4>2
    <3>4. low[p] > cache[p].age /\ cache[p].age <= Ttl
      BY <1>0, <2>9, <3>1, <3>2, <3>3 DEF OlderAnswer
    <3> QED BY <1>1, <3>2, <3>4 DEF CreditIInv, ShortIsSeen
  <2> QED BY <2>7, <2>8, <2>9 DEF CreditIInv, ShortIsSeen
<1>6. CASE UNCHANGED creditVars
  <2>1. \A p \in Provider : Probe(p)' = Probe(p)
    BY <1>6, ProbeStays DEF creditVars
  <2> QED BY <1>6, <2>1 DEF creditVars, CreditIInv, CreditTypeOK, ShortIsSeen
<1> QED BY <1>3, <1>4, <1>5, <1>6 DEF CreditNext

\* A key with all of its credit is above a fifth of it.
LEMMA FullKey ==
    ASSUME CreditIInv
    PROVE  FullKeyIsOk
<1> SUFFICES ASSUME "openrouter" \in watched, limited, left["openrouter"] = [amount |-> Limit, up |-> TRUE]
             PROVE  Probe("openrouter") = "ok"
  BY DEF FullKeyIsOk
<1>1. "openrouter" \in Provider
  BY DEF CreditIInv, CreditTypeOK
<1>2. Warn["openrouter"] \in Nat /\ Limit \in Nat /\ Limit > 0
  BY <1>1, CreditConstants
<1>3. Limit \div 5 < Limit /\ Limit \div 5 \in Int
  BY <1>2
<1>4. Threshold("openrouter") < Limit /\ Threshold("openrouter") \in Int
  BY <1>2, <1>3 DEF Threshold, Lesser
<1>5. OpenRouterStatus = "ok"
  BY <1>2, <1>4 DEF OpenRouterStatus
<1> QED BY <1>5 DEF Probe

\* Credit that is short for longer than an answer is kept makes the answer
\* degraded, neither caches nor providers that are not configured hide it, and a
\* key with all of its credit is never called short.
THEOREM CreditInvariant == CreditSpec => []CreditInv
<1>1. CreditInit => CreditIInv
  BY CreditConstants DEF CreditInit, CreditIInv, CreditTypeOK, ShortIsSeen
<1>2. CreditIInv /\ [CreditNext]_creditVars => CreditIInv'
  BY CreditStep
<1>3. CreditIInv => ShortCreditShows
  <2> SUFFICES ASSUME CreditIInv, NEW p \in Provider, low[p] > Ttl
               PROVE  Credit = "degraded"
    BY DEF ShortCreditShows
  <2>1. Probe(p) = "degraded"
    BY CreditConstants DEF CreditIInv, ShortIsSeen, CreditTypeOK
  <2>2. Fresh(p) => cache[p].status = "degraded"
    BY CreditConstants DEF Fresh, CreditIInv, ShortIsSeen, CreditTypeOK
  <2>3. Status(p) = "degraded"
    BY <2>1, <2>2 DEF Status
  <2> QED BY <2>3 DEF Credit
<1>4. CreditIInv => CreditInv
  BY <1>3, FullKey DEF CreditIInv, CreditInv
<1> QED BY <1>1, <1>2, <1>4, PTL DEF CreditSpec
=============================================================================
