----------------------------- MODULE LoopHandoff -----------------------------
(***************************************************************************)
(* The loop handoff protocol on one case: handoffs to another loop         *)
(* (case_handoffs), their verification objectives, the outbox intent and   *)
(* the worker that opens the external issue, updates called back by the    *)
(* other loop or entered in the console, cancellation, and the verifier    *)
(* that checks objectives, verifies handoffs and resolves the case.        *)
(*                                                                         *)
(* The store is Postgres.  Each store call is one transaction; delivery    *)
(* and cancellation run whole inside handoff_delivery_guard, one           *)
(* transaction that commits or rolls back as a unit.  Row locks matter:    *)
(* who writes case and handoff selects them FOR UPDATE, and who inserts a  *)
(* row that references them (a delivery, an event) share-locks them until  *)
(* its transaction ends.                                                   *)
(***************************************************************************)
EXTENDS Naturals, FiniteSets

CONSTANTS Handoff,         \* handoffs that may be requested for the case
          KeyOf,           \* target loop and objective key of a handoff
          Objective,       \* verification objectives, all required
          HandoffOf,       \* the handoff an objective belongs to
          KindOf,          \* "alert" (monitoring_alert_clear) or "health"
          Worker,          \* outbox workers
          Verifier,        \* processes that run verifier_loop
          Request,         \* console results, by idempotency key
          Answer,          \* results an operator may enter
          RequiredPasses,  \* consecutive passes an objective needs
          AutoResolve,     \* case_auto_resolve_enabled
          MaxStamp,        \* bound on handoff requests, updates and cancellations
          MaxObservations, \* bound on monitor observations
          MaxFaults        \* bound on failures and crashes

ASSUME ObjectiveAssumption ==
    /\ HandoffOf \in [Objective -> Handoff]
    /\ KindOf \in [Objective -> {"alert", "health"}]
ASSUME AnswerAssumption == Answer \subseteq {"pending", "pass", "fail", "unknown", "skipped"}
ASSUME BoundAssumption ==
    /\ RequiredPasses \in Nat \ {0}
    /\ AutoResolve \in BOOLEAN
    /\ MaxStamp \in Nat /\ MaxObservations \in Nat /\ MaxFaults \in Nat

VARIABLES case,       \* the case row: status, handoff status, last observation, last_handoff_at
          handoff,    \* status of a handoff, "none" before it is requested
          occurrence, \* the occurrence in its idempotency key: last_handoff_at of the case it saw
          updated,    \* updated_at
          objective,  \* status and consecutive_pass_count
          passes,     \* history: pass results recorded so far
          since,      \* history: pass results recorded since the last other one that holds
          intent,     \* status of the delivery intent in the outbox
          delivery,   \* status of the transport delivery record
          issue,      \* external: handoffs with an issue
          outcomes,   \* outcome records written for a handoff
          sighting,   \* last_handoff_at in the case the proactive loop holds
          cancel,     \* intent status read by the cancellation in progress
          console,    \* console results in progress
          wpc, wtarget, wresult,                        \* delivery workers
          vpc, todo, vcount, vobjective, verdict, touched, vtarget, \* verifiers
          observations, faults

caseVars     == <<case, handoff, occurrence, updated, outcomes>>
objVars      == <<objective, passes, since>>
outVars      == <<intent, delivery, issue>>
workerVars   == <<wpc, wtarget, wresult>>
verifierVars == <<vpc, todo, vcount, vobjective, verdict, touched, vtarget>>
vars == <<caseVars, objVars, outVars, sighting, cancel, console, workerVars, verifierVars,
          observations, faults>>

-----------------------------------------------------------------------------
(***************************************************************************)
(* Statuses and transitions.                                               *)
(***************************************************************************)
HandoffStatus == {"requested", "accepted", "in_progress", "change_planned", "implemented", "verified",
                  "blocked", "failed", "needs_human", "resolved", "cancelled", "expired"}

Terminal == {"resolved", "cancelled", "expired"}

VerifierOnly == {"verified", "resolved"}

Stopped == {"cancelled", "expired"}

Transitions ==
    [s \in HandoffStatus |->
        CASE s = "requested"      -> {"accepted", "blocked", "failed", "needs_human"} \cup Stopped
          [] s = "accepted"       -> {"in_progress", "blocked", "failed", "needs_human"} \cup Stopped
          [] s = "in_progress"    -> {"blocked", "failed", "needs_human", "change_planned",
                                      "implemented"} \cup Stopped
          [] s = "change_planned" -> {"blocked", "failed", "needs_human", "implemented"} \cup Stopped
          [] s = "implemented"    -> {"failed", "needs_human", "verified"} \cup Stopped
          [] s = "verified"       -> {"resolved", "failed", "needs_human"}
          [] s = "blocked"        -> {"accepted", "needs_human", "failed"} \cup Stopped
          [] s = "failed"         -> {"accepted", "needs_human"} \cup Stopped
          [] s = "needs_human"    -> {"accepted", "in_progress"} \cup Stopped
          [] OTHER                -> {}]

\* allowed_handoff_transition, for the NOC; the verifier-only targets are
\* refused to everybody else before it is asked.
AllowedTransition(current, target) == current = target \/ target \in Transitions[current]

CaseStatus == {"investigating", "handoff_requested", "handoff_in_progress", "verification_pending",
               "blocked", "failed", "needs_human", "resolved"}

\* Mutant: the case takes over the status of the handoff.
CaseStatusSame(s) == s

CaseStatusForHandoff(s) ==
    CASE s \in {"accepted", "in_progress", "change_planned"}  -> "handoff_in_progress"
      [] s \in {"implemented", "verified", "resolved"}        -> "verification_pending"
      [] s \in {"blocked", "failed", "needs_human"}           -> s
      [] s \in Stopped                                        -> "investigating"
      [] OTHER                                                -> "handoff_requested"

ObjectiveStatus == {"pending", "pass", "fail", "unknown", "skipped"}

IntentStatus == {"none", "pending", "in_progress", "failed", "succeeded", "abandoned"}

NotCancelling == "idle"

NoSighting == 0

Idle == "idle"

\* A request that holds nothing: not yet read, or recorded.
RequestAt(pc) == [pc |-> pc, objective |-> {}, count |-> 0, verdict |-> "none"]

-----------------------------------------------------------------------------
Init ==
    /\ case = [status |-> "investigating", handoff |-> "none", clean |-> FALSE, stamp |-> 1]
    /\ handoff = [h \in Handoff |-> "none"]
    /\ occurrence = [h \in Handoff |-> 0]
    /\ updated = [h \in Handoff |-> 0]
    /\ objective = [o \in Objective |-> [status |-> "pending", count |-> 0]]
    /\ passes = [o \in Objective |-> 0]
    /\ since = [o \in Objective |-> 0]
    /\ intent = [h \in Handoff |-> "none"]
    /\ delivery = [h \in Handoff |-> "none"]
    /\ issue = {}
    /\ outcomes = [h \in Handoff |-> 0]
    /\ sighting = NoSighting
    /\ cancel = [h \in Handoff |-> NotCancelling]
    /\ console = [r \in Request |-> RequestAt("new")]
    /\ wpc = [w \in Worker |-> Idle]
    /\ wtarget = [w \in Worker |-> {}]
    /\ wresult = [w \in Worker |-> "none"]
    /\ vpc = [v \in Verifier |-> Idle]
    /\ todo = [v \in Verifier |-> {}]
    /\ vcount = [v \in Verifier |-> [o \in Objective |-> 0]]
    /\ vobjective = [v \in Verifier |-> {}]
    /\ verdict = [v \in Verifier |-> "none"]
    /\ touched = [v \in Verifier |-> {}]
    /\ vtarget = [v \in Verifier |-> {}]
    /\ observations = 0
    /\ faults = 0

Requested(h) == handoff[h] # "none"

Active(h) == Requested(h) /\ handoff[h] \notin Terminal

-----------------------------------------------------------------------------
(***************************************************************************)
(* Locks.  A delivery holds the guard of its handoff and, once its record  *)
(* is inserted, share locks on handoff and case; a cancellation holds the  *)
(* guard and both rows exclusively.                                        *)
(***************************************************************************)
Guarded == {"guarded", "record", "recheck", "issue"}

Recorded == {"recheck", "issue"}

GuardFree(h) ==
    /\ cancel[h] = NotCancelling
    /\ \A w \in Worker : wpc[w] \in Guarded => wtarget[w] # {h}

\* A row that references the case can be inserted.
CaseShared == \A h \in Handoff : cancel[h] = NotCancelling

\* Mutant: a delivery in progress does not lock the rows it references.
CaseFreeOfCancels == CaseShared

\* The case and its handoffs can be locked FOR UPDATE.
CaseFree == CaseShared /\ \A w \in Worker : wpc[w] \notin Recorded

(***************************************************************************)
(* Monitors.                                                               *)
(***************************************************************************)
Observe(status, clean) ==
    /\ CaseFree
    /\ observations < MaxObservations
    /\ observations' = observations + 1
    /\ case' = [case EXCEPT !.status = status, !.clean = clean]
    /\ UNCHANGED <<handoff, occurrence, updated, outcomes, objVars, outVars, cancel, console, workerVars,
                   verifierVars, faults>>

\* An unhealthy observation reopens a resolved case; the proactive loop goes on
\* with the case it got back.
ObserveHotspot ==
    /\ Observe(IF case.status = "resolved" THEN "investigating" ELSE case.status, FALSE)
    /\ sighting' = case.stamp

\* Positive evidence resolves the case whatever its handoffs are at; a degraded
\* clean observation only counts as the latest one.
ObserveClean ==
    /\ \E status \in {"resolved", case.status} : Observe(status, TRUE)
    /\ UNCHANGED sighting

(***************************************************************************)
(* Requesting a handoff.                                                   *)
(***************************************************************************)

\* Mutant: only the idempotency key is looked up.
DuplicateByKeyOnly(h) ==
    \E g \in Handoff : Requested(g) /\ KeyOf[g] = KeyOf[h] /\ occurrence[g] = sighting

\* A handoff of this occurrence, or an active one for the same objective key.
Duplicate(h) ==
    \E g \in Handoff :
        /\ Requested(g)
        /\ KeyOf[g] = KeyOf[h]
        /\ occurrence[g] = sighting \/ Active(g)

RequestHandoff(h) ==
    /\ sighting # NoSighting
    /\ ~Requested(h)
    /\ CaseFree
    /\ IF Duplicate(h)
       THEN UNCHANGED <<case, handoff, occurrence, updated, intent>>
       ELSE /\ case.stamp < MaxStamp
            /\ handoff' = [handoff EXCEPT ![h] = "requested"]
            /\ occurrence' = [occurrence EXCEPT ![h] = sighting]
            /\ updated' = [updated EXCEPT ![h] = case.stamp + 1]
            /\ intent' = [intent EXCEPT ![h] = "pending"]
            /\ case' = [case EXCEPT !.status = "handoff_requested", !.handoff = "requested",
                                    !.stamp = @ + 1]
    /\ sighting' = NoSighting
    /\ UNCHANGED <<objVars, delivery, issue, outcomes, cancel, console, workerVars, verifierVars,
                   observations, faults>>

(***************************************************************************)
(* Updates from the engineering loop or the console, cancellation included *)
(***************************************************************************)

\* The active handoff of the case, other than h, that was updated last.
Survivors(h) ==
    {g \in Handoff \ {h} : /\ Active(g)
                           /\ \A k \in Handoff \ {h} : Active(k) => updated[k] <= updated[g]}

\* The case after h moves to status s.  A terminal handoff hands the case back
\* to the surviving one, and leaves a resolved case alone.
CaseAfter(h, s) ==
    [case EXCEPT
        !.status  = IF s \notin Terminal THEN CaseStatusForHandoff(s)
                    ELSE IF @ = "resolved" THEN @
                    ELSE IF Survivors(h) = {} THEN "investigating"
                    ELSE CaseStatusForHandoff(handoff[CHOOSE g \in Survivors(h) : TRUE]),
        !.handoff = IF s \in Terminal /\ Survivors(h) # {}
                    THEN handoff[CHOOSE g \in Survivors(h) : TRUE] ELSE s,
        !.stamp   = @ + 1]

\* append_handoff_update.
MoveHandoff(h, s) ==
    /\ handoff' = [handoff EXCEPT ![h] = s]
    /\ updated' = [updated EXCEPT ![h] = case.stamp + 1]
    /\ case' = CaseAfter(h, s)

\* An update with a new external event id; a known id changes nothing, and so
\* does a refused transition.
RecordUpdate(h, s) ==
    /\ Requested(h)
    /\ s \notin VerifierOnly
    /\ AllowedTransition(handoff[h], s)
    /\ CaseFree
    /\ case.stamp < MaxStamp
    /\ MoveHandoff(h, s)
    /\ UNCHANGED <<occurrence, outcomes, objVars, outVars, sighting, cancel, console, workerVars,
                   verifierVars, observations, faults>>

\* cancel_lhp_handoff takes the guard and the rows, and lists the outbox.
StartCancel(h) ==
    /\ Requested(h)
    /\ AllowedTransition(handoff[h], "cancelled")
    /\ GuardFree(h)
    /\ CaseFree
    /\ case.stamp < MaxStamp
    /\ cancel' = [cancel EXCEPT ![h] = intent[h]]
    /\ UNCHANGED <<caseVars, objVars, outVars, sighting, console, workerVars, verifierVars,
                   observations, faults>>

\* A repeated cancellation request changes the handoff no more, and still
\* abandons intents and skips objectives.  The intent is compared and set.
CommitCancel(h) ==
    /\ cancel[h] # NotCancelling
    /\ \/ MoveHandoff(h, "cancelled")
       \/ handoff[h] = "cancelled" /\ UNCHANGED <<case, handoff, updated>>
    /\ intent' = [intent EXCEPT ![h] =
           IF @ = cancel[h] /\ @ \in {"pending", "in_progress", "failed"} THEN "abandoned" ELSE @]
    /\ objective' = [o \in Objective |->
           IF HandoffOf[o] = h /\ objective[o].status = "pending"
           THEN [objective[o] EXCEPT !.status = "skipped"] ELSE objective[o]]
    /\ cancel' = [cancel EXCEPT ![h] = NotCancelling]
    /\ UNCHANGED <<occurrence, outcomes, passes, since, delivery, issue, sighting, console, workerVars,
                   verifierVars, observations, faults>>

Fault ==
    /\ faults < MaxFaults
    /\ faults' = faults + 1

\* The cancellation fails and rolls back.
AbortCancel(h) ==
    /\ cancel[h] # NotCancelling
    /\ Fault
    /\ cancel' = [cancel EXCEPT ![h] = NotCancelling]
    /\ UNCHANGED <<caseVars, objVars, outVars, sighting, console, workerVars, verifierVars, observations>>

(***************************************************************************)
(* Delivery of the handoff as an external issue.  The claim of the intent  *)
(* is a compare and set; an intent of this type is never requeued.         *)
(***************************************************************************)
WorkerAt(w, h, label) == wpc[w] = label /\ wtarget[w] = {h}

Step(w, label) ==
    /\ wpc' = [wpc EXCEPT ![w] = label]
    /\ UNCHANGED <<wtarget, wresult>>

\* The handler returns or raises: the guard and its transaction end.
LeaveGuard(w, status) ==
    /\ wpc' = [wpc EXCEPT ![w] = "settle"]
    /\ wresult' = [wresult EXCEPT ![w] = status]
    /\ UNCHANGED wtarget

RestOfDelivery == <<caseVars, objVars, sighting, cancel, console, verifierVars, observations>>

\* Mutant: a failed delivery is not tried again.
ClaimDeliveryOnce(w, h) ==
    /\ wpc[w] = Idle
    /\ intent[h] = "pending"
    /\ intent' = [intent EXCEPT ![h] = "in_progress"]
    /\ wpc' = [wpc EXCEPT ![w] = "claimed"]
    /\ wtarget' = [wtarget EXCEPT ![w] = {h}]
    /\ UNCHANGED <<wresult, delivery, issue, RestOfDelivery, faults>>

ClaimDelivery(w, h) ==
    /\ wpc[w] = Idle
    /\ intent[h] \in {"pending", "failed"}
    /\ intent' = [intent EXCEPT ![h] = "in_progress"]
    /\ wpc' = [wpc EXCEPT ![w] = "claimed"]
    /\ wtarget' = [wtarget EXCEPT ![w] = {h}]
    /\ UNCHANGED <<wresult, delivery, issue, RestOfDelivery, faults>>

EnterGuard(w, h) ==
    /\ WorkerAt(w, h, "claimed")
    /\ GuardFree(h)
    /\ Step(w, "guarded")
    /\ UNCHANGED <<outVars, RestOfDelivery, faults>>

\* get_lhp_handoff; nothing is done for a terminal handoff.
ReadHandoff(w, h) ==
    /\ WorkerAt(w, h, "guarded")
    /\ IF handoff[h] \in Terminal THEN LeaveGuard(w, "succeeded") ELSE Step(w, "record")
    /\ UNCHANGED <<outVars, RestOfDelivery, faults>>

\* The record references handoff and case: from here on both are share-locked.
RecordDelivery(w, h) ==
    /\ WorkerAt(w, h, "record")
    /\ CaseShared
    /\ IF delivery[h] = "succeeded" THEN LeaveGuard(w, "succeeded") ELSE Step(w, "recheck")
    /\ UNCHANGED <<outVars, RestOfDelivery, faults>>

RecheckHandoff(w, h) ==
    /\ WorkerAt(w, h, "recheck")
    /\ IF handoff[h] \in Terminal
       THEN LeaveGuard(w, "succeeded") /\ delivery' = [delivery EXCEPT ![h] = "abandoned"]
       ELSE Step(w, "issue") /\ UNCHANGED delivery
    /\ UNCHANGED <<intent, issue, RestOfDelivery, faults>>

\* The issue exists (found by its marker or created) and the guard commits.
OpenIssue(w, h) ==
    /\ WorkerAt(w, h, "issue")
    /\ issue' = issue \cup {h}
    /\ delivery' = [delivery EXCEPT ![h] = "succeeded"]
    /\ LeaveGuard(w, "succeeded")
    /\ UNCHANGED <<intent, RestOfDelivery, faults>>

\* An external call under way may have had its effect before the failure.
MayHaveOpened(w, h) ==
    issue' \in IF wpc[w] = "issue" THEN {issue, issue \cup {h}} ELSE {issue}

\* The lock wait, a statement or the external call fails: the record of the
\* failed attempt is rolled back with the rest.
FailDelivery(w, h) ==
    /\ Fault
    /\ wpc[w] \in {"claimed"} \cup Guarded
    /\ wtarget[w] = {h}
    /\ MayHaveOpened(w, h)
    /\ LeaveGuard(w, "failed")
    /\ UNCHANGED <<intent, delivery, RestOfDelivery>>

CrashDelivery(w, h) ==
    /\ Fault
    /\ wpc[w] # Idle
    /\ wtarget[w] = {h}
    /\ MayHaveOpened(w, h)
    /\ wpc' = [wpc EXCEPT ![w] = Idle]
    /\ wtarget' = [wtarget EXCEPT ![w] = {}]
    /\ wresult' = [wresult EXCEPT ![w] = "none"]
    /\ UNCHANGED <<intent, delivery, RestOfDelivery>>

\* The processor settles the row, unless it was abandoned meanwhile.
SettleDelivery(w, h) ==
    /\ WorkerAt(w, h, "settle")
    /\ intent' = [intent EXCEPT ![h] = IF @ = "in_progress" THEN wresult[w] ELSE @]
    /\ wpc' = [wpc EXCEPT ![w] = Idle]
    /\ wtarget' = [wtarget EXCEPT ![w] = {}]
    /\ wresult' = [wresult EXCEPT ![w] = "none"]
    /\ UNCHANGED <<delivery, issue, RestOfDelivery, faults>>

(***************************************************************************)
(* Verification results.  The verifier and the console read an objective,  *)
(* decide, and write it back whole.                                        *)
(***************************************************************************)

\* Mutant: a result other than a pass does not reset the count.
AppliedWithoutReset(count, result) ==
    IF result = "pass"
    THEN [status |-> IF count + 1 >= RequiredPasses THEN "pass" ELSE "pending", count |-> count + 1]
    ELSE [status |-> result, count |-> count]

\* Mutant: an unknown result counts as a pass.
AppliedUnlessFailed(count, result) ==
    IF result # "fail"
    THEN [status |-> IF count + 1 >= RequiredPasses THEN "pass" ELSE "pending", count |-> count + 1]
    ELSE [status |-> result, count |-> 0]

\* _apply_check_result on an objective read with this count.
Applied(count, result) ==
    IF result = "pass"
    THEN [status |-> IF count + 1 >= RequiredPasses THEN "pass" ELSE "pending", count |-> count + 1]
    ELSE [status |-> result, count |-> 0]

\* The histories count as far as matters.
Counted(n) == IF n < RequiredPasses THEN n + 1 ELSE n

\* Who has read o and will write back what it read; the writer itself is one of them.
Holders(o) ==
    {<<"verifier", v>> : v \in {u \in Verifier : o \in todo[u]}} \cup
    {<<"console", r>> : r \in {q \in Request : console[q].pc = "read" /\ console[q].objective = {o}}}

\* No write of o based on an older reading is still to come.
Alone(o) == \A x, y \in Holders(o) : x = y

\* The objective is written by its id, whatever was written since it was read: a
\* failure recorded while somebody else holds an older copy may be written over.
WriteObjective(o, count, result) ==
    /\ CaseShared
    /\ objective' = [objective EXCEPT ![o] = Applied(count, result)]
    /\ passes' = [passes EXCEPT ![o] = IF result = "pass" THEN Counted(@) ELSE @]
    /\ since' = [since EXCEPT ![o] = IF result = "pass" THEN Counted(@)
                                     ELSE IF Alone(o) THEN 0 ELSE @]

\* A console result is recorded once, whatever its retries.
ReadForConsole(r, o, result) ==
    /\ console[r].pc = "new"
    /\ Requested(HandoffOf[o])
    /\ console' = [console EXCEPT ![r] = [pc |-> "read", objective |-> {o},
                                          count |-> objective[o].count, verdict |-> result]]
    /\ UNCHANGED <<caseVars, objVars, outVars, sighting, cancel, workerVars, verifierVars,
                   observations, faults>>

WriteFromConsole(r, o) ==
    /\ console[r].pc = "read"
    /\ console[r].objective = {o}
    /\ WriteObjective(o, console[r].count, console[r].verdict)
    /\ console' = [console EXCEPT ![r] = RequestAt("recorded")]
    /\ UNCHANGED <<caseVars, outVars, sighting, cancel, workerVars, verifierVars, observations, faults>>

\* The request fails or its process dies before the result is recorded; it may
\* be sent again.
LoseConsole(r, o) ==
    /\ console[r].pc = "read"
    /\ console[r].objective = {o}
    /\ Fault
    /\ console' = [console EXCEPT ![r] = RequestAt("new")]
    /\ UNCHANGED <<caseVars, objVars, outVars, sighting, cancel, workerVars, verifierVars, observations>>

(***************************************************************************)
(* The verifier.                                                           *)
(***************************************************************************)
Due(o) ==
    /\ objective[o].status \notin {"pass", "skipped"}
    /\ Active(HandoffOf[o])

RestOfVerifier == <<outVars, occurrence, sighting, cancel, console, workerVars, observations>>

\* The run is over, or has raised.
EndRun(v) ==
    /\ vpc' = [vpc EXCEPT ![v] = Idle]
    /\ todo' = [todo EXCEPT ![v] = {}]
    /\ vcount' = [vcount EXCEPT ![v] = [o \in Objective |-> 0]]
    /\ vobjective' = [vobjective EXCEPT ![v] = {}]
    /\ verdict' = [verdict EXCEPT ![v] = "none"]
    /\ touched' = [touched EXCEPT ![v] = {}]
    /\ vtarget' = [vtarget EXCEPT ![v] = {}]

ListDue(v) ==
    /\ vpc[v] = Idle
    /\ \E o \in Objective : Due(o)
    /\ vpc' = [vpc EXCEPT ![v] = "check"]
    /\ todo' = [todo EXCEPT ![v] = {o \in Objective : Due(o)}]
    /\ vcount' = [vcount EXCEPT ![v] = [o \in Objective |-> IF Due(o) THEN objective[o].count ELSE 0]]
    /\ UNCHANGED <<vobjective, verdict, touched, vtarget, caseVars, objVars, RestOfVerifier, faults>>

\* get_case, and default_verification_check on what it returns.
CheckObjective(v, o) ==
    /\ vpc[v] = "check"
    /\ o \in todo[v]
    /\ vpc' = [vpc EXCEPT ![v] = "write"]
    /\ vobjective' = [vobjective EXCEPT ![v] = {o}]
    /\ verdict' = [verdict EXCEPT ![v] = IF KindOf[o] = "health" \/ case.clean THEN "pass" ELSE "unknown"]
    /\ UNCHANGED <<todo, vcount, touched, vtarget, caseVars, objVars, RestOfVerifier, faults>>

WriteResult(v, o) ==
    /\ vpc[v] = "write"
    /\ vobjective[v] = {o}
    /\ WriteObjective(o, vcount[v][o], verdict[v])
    /\ todo' = [todo EXCEPT ![v] = @ \ {o}]
    /\ vcount' = [vcount EXCEPT ![v][o] = 0]
    /\ touched' = [touched EXCEPT ![v] = @ \cup {HandoffOf[o]}]
    /\ vpc' = [vpc EXCEPT ![v] = IF todo[v] = {o} THEN "verify" ELSE "check"]
    /\ vobjective' = [vobjective EXCEPT ![v] = {}]
    /\ verdict' = [verdict EXCEPT ![v] = "none"]
    /\ UNCHANGED <<vtarget, caseVars, RestOfVerifier, faults>>

\* Go on with the next touched handoff.
NextHandoff(v, h) ==
    IF touched[v] = {h}
    THEN EndRun(v)
    ELSE /\ vpc' = [vpc EXCEPT ![v] = "verify"]
         /\ touched' = [touched EXCEPT ![v] = @ \ {h}]
         /\ vtarget' = [vtarget EXCEPT ![v] = {}]
         /\ UNCHANGED <<todo, vcount, vobjective, verdict>>

Proceed(v, label) ==
    /\ vpc' = [vpc EXCEPT ![v] = label]
    /\ UNCHANGED <<todo, vcount, vobjective, verdict, touched, vtarget>>

VerifierAt(v, h, label) == vpc[v] = label /\ vtarget[v] = {h}

\* _maybe_verify_handoff: get_lhp_handoff.
ReadTouched(v, h) ==
    /\ vpc[v] = "verify"
    /\ h \in touched[v]
    /\ IF handoff[h] \in {"verified"} \cup Terminal
       THEN NextHandoff(v, h)
       ELSE /\ vpc' = [vpc EXCEPT ![v] = "objectives"]
            /\ vtarget' = [vtarget EXCEPT ![v] = {h}]
            /\ UNCHANGED <<todo, vcount, vobjective, verdict, touched>>
    /\ UNCHANGED <<caseVars, objVars, RestOfVerifier, faults>>

\* Mutant: one satisfied objective is enough.
SatisfiedByAny(h) ==
    \E o \in Objective : /\ HandoffOf[o] = h
                         /\ objective[o].status = "pass"
                         /\ objective[o].count >= RequiredPasses

Satisfied(h) ==
    /\ \E o \in Objective : HandoffOf[o] = h
    /\ \A o \in Objective : HandoffOf[o] = h => /\ objective[o].status = "pass"
                                               /\ objective[o].count >= RequiredPasses

ReadObjectives(v, h) ==
    /\ VerifierAt(v, h, "objectives")
    /\ IF Satisfied(h) THEN Proceed(v, "mark") ELSE NextHandoff(v, h)
    /\ UNCHANGED <<caseVars, objVars, RestOfVerifier, faults>>

\* mark_handoff_verified; a transition that is not allowed ends the whole run.
MarkVerified(v, h) ==
    /\ VerifierAt(v, h, "mark")
    /\ CaseFree
    /\ IF AllowedTransition(handoff[h], "verified")
       THEN /\ handoff' = [handoff EXCEPT ![h] = "verified"]
            /\ updated' = [updated EXCEPT ![h] = case.stamp + 1]
            /\ case' = [case EXCEPT !.status = "verification_pending", !.handoff = "verified",
                                    !.stamp = @ + 1]
            /\ IF AutoResolve THEN Proceed(v, "resolve") ELSE NextHandoff(v, h)
       ELSE EndRun(v) /\ UNCHANGED <<handoff, updated, case>>
    /\ UNCHANGED <<outcomes, objVars, RestOfVerifier, faults>>

\* resolve_case_with_outcome, a transaction of its own.
ResolveCase(v, h) ==
    /\ VerifierAt(v, h, "resolve")
    /\ CaseFree
    /\ IF AllowedTransition(handoff[h], "resolved")
       THEN /\ handoff' = [handoff EXCEPT ![h] = "resolved"]
            /\ outcomes' = [outcomes EXCEPT ![h] = @ + 1]
            /\ case' = [case EXCEPT !.status = "resolved"]
            /\ NextHandoff(v, h)
       ELSE EndRun(v) /\ UNCHANGED <<handoff, outcomes, case>>
    /\ UNCHANGED <<updated, objVars, RestOfVerifier, faults>>

\* A store call fails, a lock wait times out, or the process dies.
AbortRun(v) ==
    /\ vpc[v] # Idle
    /\ Fault
    /\ EndRun(v)
    /\ UNCHANGED <<caseVars, objVars, RestOfVerifier>>

-----------------------------------------------------------------------------
Monitor == ObserveHotspot \/ ObserveClean

HandoffStep(h) ==
    \/ RequestHandoff(h)
    \/ \E s \in HandoffStatus : RecordUpdate(h, s)
    \/ StartCancel(h) \/ CommitCancel(h) \/ AbortCancel(h)

Deliver(w, h) ==
    \/ EnterGuard(w, h) \/ ReadHandoff(w, h) \/ RecordDelivery(w, h)
    \/ RecheckHandoff(w, h) \/ OpenIssue(w, h) \/ SettleDelivery(w, h)

DeliveryStep(w, h) ==
    ClaimDelivery(w, h) \/ Deliver(w, h) \/ FailDelivery(w, h) \/ CrashDelivery(w, h)

ConsoleStep(r, o) ==
    \/ \E result \in Answer : ReadForConsole(r, o, result)
    \/ WriteFromConsole(r, o) \/ LoseConsole(r, o)

Verify(v) ==
    \/ ListDue(v)
    \/ \E o \in Objective : CheckObjective(v, o) \/ WriteResult(v, o)
    \/ \E h \in Handoff : \/ ReadTouched(v, h) \/ ReadObjectives(v, h)
                          \/ MarkVerified(v, h) \/ ResolveCase(v, h)

Next ==
    \/ Monitor
    \/ \E h \in Handoff : HandoffStep(h)
    \/ \E w \in Worker, h \in Handoff : DeliveryStep(w, h)
    \/ \E r \in Request, o \in Objective : ConsoleStep(r, o)
    \/ \E v \in Verifier : Verify(v) \/ AbortRun(v)

Spec == Init /\ [][Next]_vars

(***************************************************************************)
(* Fairness: the loops go on, and a cancellation finishes.  Nothing is     *)
(* assumed of monitors, operators or the other loop.                       *)
(***************************************************************************)
Fairness ==
    /\ \A v \in Verifier : SF_vars(Verify(v))
    /\ \A w \in Worker : /\ SF_vars(\E h \in Handoff : ClaimDelivery(w, h))
                         /\ SF_vars(\E h \in Handoff : Deliver(w, h))
    /\ \A h \in Handoff : WF_vars(CommitCancel(h))

FairSpec == Spec /\ Fairness

-----------------------------------------------------------------------------
(***************************************************************************)
(* Properties.                                                             *)
(***************************************************************************)

CaseRow == [status : CaseStatus, handoff : HandoffStatus \cup {"none"}, clean : BOOLEAN, stamp : Nat]

ConsoleResult == [pc : {"new", "read", "recorded"}, objective : SUBSET Objective, count : Nat,
                  verdict : ObjectiveStatus \cup {"none"}]

CaseOK ==
    /\ case \in CaseRow
    /\ handoff \in [Handoff -> HandoffStatus \cup {"none"}]
    /\ occurrence \in [Handoff -> Nat]
    /\ updated \in [Handoff -> Nat]
    /\ outcomes \in [Handoff -> Nat]
    /\ sighting \in Nat
    /\ cancel \in [Handoff -> IntentStatus \cup {NotCancelling}]

ObjectivesOK ==
    /\ objective \in [Objective -> [status : ObjectiveStatus, count : Nat]]
    /\ passes \in [Objective -> 0 .. RequiredPasses]
    /\ since \in [Objective -> 0 .. RequiredPasses]
    /\ console \in [Request -> ConsoleResult]
    /\ \A r \in Request : console[r].pc = "read" => console[r].verdict \in ObjectiveStatus

DeliveryOK ==
    /\ intent \in [Handoff -> IntentStatus]
    /\ delivery \in [Handoff -> {"none", "succeeded", "abandoned"}]
    /\ issue \subseteq Handoff
    /\ wpc \in [Worker -> {Idle, "claimed", "settle"} \cup Guarded]
    /\ wtarget \in [Worker -> SUBSET Handoff]
    /\ wresult \in [Worker -> {"none", "succeeded", "failed"}]

VerifierOK ==
    /\ vpc \in [Verifier -> {Idle, "check", "write", "verify", "objectives", "mark", "resolve"}]
    /\ todo \in [Verifier -> SUBSET Objective]
    /\ vcount \in [Verifier -> [Objective -> Nat]]
    /\ vobjective \in [Verifier -> SUBSET Objective]
    /\ verdict \in [Verifier -> ObjectiveStatus \cup {"none"}]
    /\ \A v \in Verifier : vpc[v] = "write" => verdict[v] \in ObjectiveStatus
    /\ touched \in [Verifier -> SUBSET Handoff]
    /\ vtarget \in [Verifier -> SUBSET Handoff]

\* The type of every variable.
TypeOK == CaseOK /\ ObjectivesOK /\ DeliveryOK /\ VerifierOK /\ observations \in Nat /\ faults \in Nat

(***************************************************************************)
(* An external issue is only opened for a handoff that is still active,    *)
(* although operators cancel it and the other loop ends it at any time:    *)
(* cancellation is kept out by the guard, everybody else by the locks the  *)
(* delivery record takes before the handoff is read again.                 *)
(***************************************************************************)
IssueOnlyForActiveHandoff ==
    \A w \in Worker, h \in Handoff : WorkerAt(w, h, "issue") => Active(h)

\* Two active handoffs never pursue the same objective key, whatever stale copy
\* of the case the proactive loop requests them with.
OneActiveHandoff ==
    \A g, h \in Handoff : Active(g) /\ Active(h) /\ KeyOf[g] = KeyOf[h] => g = h

Proven(h) == \A o \in Objective : HandoffOf[o] = h => passes[o] = RequiredPasses

(***************************************************************************)
(* No objective counts a pass nobody recorded: the counts in the table and *)
(* in every copy read from it are covered by recorded passes, and who is   *)
(* about to verify or resolve a handoff holds evidence for all of it.      *)
(***************************************************************************)
Backed(count, o) == count <= passes[o] \/ passes[o] = RequiredPasses

EvidenceInv ==
    /\ \A o \in Objective : Backed(objective[o].count, o)
    /\ \A v \in Verifier, o \in Objective : Backed(vcount[v][o], o)
    /\ \A r \in Request, o \in Objective : console[r].objective = {o} => Backed(console[r].count, o)
    /\ \A v \in Verifier, h \in Handoff :
          vpc[v] \in {"mark", "resolve"} /\ vtarget[v] = {h} => Proven(h)

(***************************************************************************)
(* An objective passes only on as many passes as it needs, all of them     *)
(* recorded after its last failure, although verifiers and the console     *)
(* count on from what they read long before.  A failure recorded while     *)
(* another of them holds an older copy is exempt: that copy goes on from   *)
(* the passes before it.  With a single writer the passes are consecutive. *)
(***************************************************************************)
PassedSinceFailure == \A o \in Objective : objective[o].status = "pass" => since[o] = RequiredPasses

\* The life of every handoff is that of the protocol; a handoff is proven when
\* every objective of it has been recorded to pass often enough.
Phase(s) ==
    CASE s = "none"                             -> "none"
      [] s \in {"implemented", "verified", "resolved"} -> s
      [] s \in Stopped                          -> "off"
      [] OTHER                                  -> "open"

Protocol == INSTANCE HandoffLifecycle WITH
    phase  <- [h \in Handoff |-> Phase(handoff[h])],
    proven <- {h \in Handoff : Proven(h)}

Lifecycle == Protocol!Spec

\* A delivery that waits for a worker, a guard or a lock is settled in the end,
\* unless the worker that had claimed it died.
Orphaned(h) == intent[h] = "in_progress" /\ \A w \in Worker : wtarget[w] # {h}

DeliverySettles ==
    \A h \in Handoff : intent[h] \in {"pending", "failed"}
                          ~> intent[h] \in {"succeeded", "abandoned"} \/ Orphaned(h)
=============================================================================
