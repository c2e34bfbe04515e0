---------------------------- MODULE Investigation ----------------------------
(***************************************************************************)
(* The investigation of one reactive case: the webhook that claims it      *)
(* (src/app/main.py, src/app/cases/service.py), the graph that diagnoses   *)
(* it, waits for an operator and executes (src/app/graph/nodes.py,         *)
(* src/app/graph_runtime.py), and the graph memory both write the case     *)
(* through (src/app/cases/graph_memory.py).                                *)
(*                                                                         *)
(* A task is one background investigate_alert; its graph thread has the    *)
(* task's name and outlives it in the checkpointer (external).  What a     *)
(* diagnosis says is data; a plan is the set of structured actions it      *)
(* leads to.  Every step is what happens between two awaits that matter:   *)
(* each write to the case re-reads it under its row lock.                  *)
(***************************************************************************)
EXTENDS Integers, FiniteSets

CONSTANTS
    Tasks,              \* background tasks and their threads, reused
    Decisions,          \* operator decisions, each made once
    Signals,            \* signal signatures of the condition
    Nothing,            \* no signal, no thread
    Plans,              \* the sets of structured actions a diagnosis may lead to
    Modes,              \* the configurations of execution to choose from
    MaxCrashes

ASSUME InvestigationConstants ==
    /\ Modes \subseteq {"disabled", "noop", "real"} /\ Modes # {}
    /\ Plans \subseteq SUBSET {"restart_service", "acknowledge_icinga"} /\ Plans # {}
    /\ MaxCrashes \in Nat
    /\ Nothing \notin Signals \cup Tasks

VARIABLES
    mode,       \* NOC_ENABLE_APPROVED_EXECUTION, NOC_ENABLE_NOOP_ROLLBACK_GUARDS
    firing,     \* the condition as the monitor has it
    case,       \* the case projection
    task,       \* the background tasks
    thread,     \* the checkpointed graph threads
    decision,   \* the decision requests
    balance,    \* approvals of a thread, by operators or the grant, less the
                \* times its actions were sent to their hosts
    crashes

vars == <<mode, firing, case, task, thread, decision, balance, crashes>>

\* The state of a graph run: of a runner in memory, and of the thread as it was
\* last checkpointed.
NewRun == [plan |-> {}, granted |-> FALSE, outcome |-> "pending"]

NewCase ==
    [status |-> "investigating", signal |-> Nothing, diagnosed |-> Nothing, last |-> "never",
     about |-> Nothing, aliased |-> TRUE, thread |-> Nothing]

Idle == [at |-> "idle", about |-> Nothing, seen |-> Nothing, signal |-> Nothing,
         diagnosed |-> Nothing, current |-> FALSE, moved |-> FALSE, run |-> NewRun]

NewThread == [at |-> "none", run |-> NewRun]

Init ==
    /\ mode \in Modes
    /\ firing \in Signals
    /\ case = NewCase
    /\ task = [i \in Tasks |-> Idle]
    /\ thread = [i \in Tasks |-> NewThread]
    /\ decision = [d \in Decisions |-> [at |-> "new", on |-> Nothing, seen |-> Nothing, run |-> NewRun]]
    /\ balance = [i \in Tasks |-> 0]
    /\ crashes = 0

-----------------------------------------------------------------------------
(* Intake and claim. *)

Blocked(status) == status \in {"resolved", "linked"}

\* Mutant: an investigation is never repeated for the same signal.
ShouldInvestigateOnce(c) ==
    /\ ~Blocked(c.status)
    /\ c.last # "never" => c.diagnosed # c.signal

\* should_investigate.  Reactive cases never have investigation_status failed.
ShouldInvestigate(c) ==
    /\ ~Blocked(c.status)
    /\ c.last = "recent" => c.diagnosed # c.signal

\* A task can be reused when nothing refers to its thread.
Free(i) ==
    /\ task[i].at = "idle"
    /\ case.thread # i
    /\ \A j \in Tasks : task[j].seen # i
    /\ \A d \in Decisions : i \notin {decision[d].on, decision[d].seen}

\* last_investigated_at is set: what webhooks read of it is no longer current.
Stamped(tasks) == [j \in Tasks |-> [tasks[j] EXCEPT !.current = FALSE]]

\* The case moved on from what the running investigations were claimed for.
Moved == [j \in Tasks |-> [task[j] EXCEPT !.moved = @ \/ task[j].at \notin {"idle", "claim"}]]

\* The webhook: observe the firing alert, and remember the case if the gate
\* lets it be investigated.
Observe(i) ==
    /\ Free(i)
    /\ case.aliased
    /\ firing # Nothing
    /\ LET now == [case EXCEPT !.signal = firing,
                               !.status = IF @ = "resolved" THEN "investigating" ELSE @]
           tasks == IF case.signal = firing THEN task ELSE Moved
       IN  /\ case' = now
           /\ task' = IF ~ShouldInvestigate(now) THEN tasks
                      ELSE [tasks EXCEPT ![i] = [Idle EXCEPT
                              !.at = "claim", !.signal = now.signal, !.diagnosed = now.diagnosed,
                              !.current = TRUE]]
    /\ UNCHANGED <<mode, firing, thread, decision, balance, crashes>>

\* Mutant: the claim does not compare when the case was last investigated.
ClaimableBySignature(i) ==
    /\ ~Blocked(case.status)
    /\ case.signal = task[i].signal
    /\ case.diagnosed = task[i].diagnosed

\* Compared under the row lock with what the webhook read.
Claimable(i) ==
    /\ ~Blocked(case.status)
    /\ case.signal = task[i].signal
    /\ case.diagnosed = task[i].diagnosed
    /\ task[i].current

Claim(i) ==
    /\ task[i].at = "claim"
    /\ IF Claimable(i)
         THEN /\ case' = [case EXCEPT !.diagnosed = case.signal, !.last = "recent"]
              /\ task' = [Stamped(task) EXCEPT ![i] = [Idle EXCEPT !.at = "queued", !.about = case.signal]]
              /\ thread' = [thread EXCEPT ![i] = NewThread]
              /\ balance' = [balance EXCEPT ![i] = 0]
         ELSE /\ task' = [task EXCEPT ![i] = Idle]
              /\ UNCHANGED <<case, thread, balance>>
    /\ UNCHANGED <<mode, firing, decision, crashes>>

ObserveClean ==
    /\ firing = Nothing
    /\ case.aliased /\ case.status # "resolved"
    /\ case' = [case EXCEPT !.status = "resolved"]
    /\ UNCHANGED <<mode, firing, task, thread, decision, balance, crashes>>

-----------------------------------------------------------------------------
(* The graph, up to the interrupt. *)

At(i, place) == task' = [task EXCEPT ![i].at = place]

Runs(i, place, run) == task' = [task EXCEPT ![i].at = place, ![i].run = run]

Checkpoint(t, place, run) == thread' = [thread EXCEPT ![t] = [at |-> place, run |-> run]]

\* update_case at a proposal.  Of the graph summary only the thread it names is
\* read again; its other fields are for display.
Waiting(t) == [case EXCEPT !.status = "waiting_approval", !.thread = t]

\* run_investigation_graph names its thread before the graph starts.
StartGraph(i) ==
    /\ task[i].at = "queued"
    /\ case' = [case EXCEPT !.thread = i]
    /\ Checkpoint(i, "open", NewRun)
    /\ At(i, "specialist")
    /\ UNCHANGED <<mode, firing, decision, balance, crashes>>

\* link_to_parent_case: the parent takes the case's aliases.
Linked == [case EXCEPT !.status = "linked", !.aliased = FALSE]

\* The structured actions that the proposal's words and the alert lead to.
Proposed(plan) == [NewRun EXCEPT !.plan = plan]

\* The nodes up to the proposal.  The specialist may link its case to a
\* parent; its synthesis becomes a proposal with structured actions.
Specialist(i) ==
    /\ task[i].at = "specialist"
    /\ \E plan \in Plans : Runs(i, "prepare", Proposed(plan))
    /\ \/ UNCHANGED case
       \/ /\ case.status # "linked"
          /\ case' = Linked
    /\ UNCHANGED <<mode, firing, thread, decision, balance, crashes>>

\* The model or a tool fails: the error is reported and nothing is recorded.
SpecialistFails(i) ==
    /\ task[i].at = "specialist"
    /\ task' = [task EXCEPT ![i] = Idle]
    /\ UNCHANGED <<mode, firing, case, thread, decision, balance, crashes>>

PrepareApproval(i) ==
    /\ task[i].at = "prepare"
    /\ case' = Waiting(i)
    /\ At(i, "approval")
    /\ UNCHANGED <<mode, firing, thread, decision, balance, crashes>>

\* Every action is one that the standing grant covers.
Granted(plan) == mode # "disabled" /\ plan = {"acknowledge_icinga"}

\* The envelope of a grant is asked of Icinga: it holds if one problem matches
\* and it is a WARNING, and an unanswered question denies it.
Envelope == BOOLEAN

\* Mutant: the interrupt is skipped whenever execution is enabled.
ApprovalInterruptSkipped(i, envelope) ==
    /\ task[i].at = "approval"
    /\ IF mode # "disabled"
         THEN Checkpoint(i, "executing", task[i].run) /\ At(i, "execute")
         ELSE Checkpoint(i, "interrupted", task[i].run) /\ At(i, "ending")
    /\ UNCHANGED <<mode, firing, case, decision, balance, crashes>>

ApprovalInterrupt(i, envelope) ==
    /\ task[i].at = "approval"
    /\ IF Granted(task[i].run.plan) /\ envelope
         THEN LET run == [task[i].run EXCEPT !.granted = TRUE]
              IN  /\ Checkpoint(i, "executing", run) /\ Runs(i, "execute", run)
                  /\ balance' = [balance EXCEPT ![i] = @ + 1]
         ELSE /\ Checkpoint(i, "interrupted", task[i].run) /\ Runs(i, "ending", NewRun)
              /\ UNCHANGED balance
    /\ UNCHANGED <<mode, firing, case, decision, crashes>>

-----------------------------------------------------------------------------
(* Execution and verification of a run, by the task or by a resume. *)

\* A result's sent is whether a host may have been touched.  A guard changes
\* nothing; a grant asks for its envelope again before it acts.
GuardOutcomes == [state : {"noop_guards_prepared", "execution_failed"}, sent : {FALSE}]

ActionOutcomes(run, envelope) ==
    IF run.granted /\ ~envelope THEN {[state |-> "execution_failed", sent |-> FALSE]}
    ELSE [state : {"executed", "execution_failed"}, sent : {TRUE}]

Outcomes(run, envelope) ==
    IF mode = "disabled" THEN {[state |-> "execution_disabled", sent |-> FALSE]}
    ELSE IF run.plan = {} THEN {[state |-> "approved_no_executable_action", sent |-> FALSE]}
    ELSE IF mode = "noop" THEN GuardOutcomes ELSE ActionOutcomes(run, envelope)

Sent(t, result) == balance' = [balance EXCEPT ![t] = @ - IF result.sent THEN 1 ELSE 0]

\* A guard is confirmed, or rolled back.
GuardVerdicts == {"verified", "verification_failed"}

\* Only the actions that went through are verified: an acknowledgement is, a
\* restart is looked for in Prometheus.  With none, the outcome stays.
Verdicts(run) ==
    IF run.outcome = "executed" /\ run.plan = {"acknowledge_icinga"} THEN {"verified"}
    ELSE IF run.outcome \in {"executed", "noop_guards_prepared"} THEN GuardVerdicts
    ELSE IF run.outcome = "execution_failed" /\ Cardinality(run.plan) > 1
    THEN GuardVerdicts \cup {run.outcome}
    ELSE {run.outcome}

Ended(verdict) == [NewRun EXCEPT !.outcome = verdict]

\* The actions are sent one by one; the checkpoint comes after the last.
TaskExecutes(i, envelope) ==
    /\ task[i].at = "execute"
    /\ \E result \in Outcomes(task[i].run, envelope) :
          /\ Runs(i, "sent", [task[i].run EXCEPT !.outcome = result.state])
          /\ Sent(i, result)
    /\ UNCHANGED <<mode, firing, case, thread, decision, crashes>>

TaskCheckpoints(i) ==
    /\ task[i].at = "sent"
    /\ Checkpoint(i, "verifying", task[i].run)
    /\ At(i, "verify")
    /\ UNCHANGED <<mode, firing, case, decision, balance, crashes>>

TaskVerifies(i) ==
    /\ task[i].at = "verify"
    /\ \E verdict \in Verdicts(task[i].run) :
          Checkpoint(i, "ended", Ended(verdict)) /\ Runs(i, "persist", Ended(verdict))
    /\ UNCHANGED <<mode, firing, case, decision, balance, crashes>>

\* _persist_final_decision: what a decision on thread t does to the case.
FinalStatus(outcome) ==
    IF outcome \in {"verification_failed", "execution_failed", "approved_no_executable_action"}
    THEN "waiting_approval" ELSE "resolved"

Decided(t, outcome) == [case EXCEPT !.thread = t, !.status = FinalStatus(outcome)]

PersistGrant(i) ==
    /\ task[i].at = "persist"
    /\ case' = Decided(case.thread, task[i].run.outcome)
    /\ Runs(i, "read", NewRun)
    /\ UNCHANGED <<mode, firing, thread, decision, balance, crashes>>

\* The end of an interrupted run writes the case once more.
FinishRun(i) ==
    /\ task[i].at = "ending"
    /\ case' = Waiting(i)
    /\ At(i, "read")
    /\ UNCHANGED <<mode, firing, thread, decision, balance, crashes>>

\* _record_reactive_case_investigation: the case is read, and what it said of
\* the graph written back with the diagnosis a moment later.
ReadSummary(i) ==
    /\ task[i].at = "read"
    /\ task' = IF case.aliased THEN [task EXCEPT ![i].at = "record", ![i].seen = case.thread]
               ELSE [task EXCEPT ![i] = Idle]
    /\ UNCHANGED <<mode, firing, case, thread, decision, balance, crashes>>

RecordResult(i) ==
    /\ task[i].at = "record"
    /\ case' = [case EXCEPT !.thread = task[i].seen, !.diagnosed = case.signal,
                            !.last = "recent", !.about = task[i].about]
    /\ task' = [Stamped(task) EXCEPT ![i] = Idle]
    /\ UNCHANGED <<mode, firing, thread, decision, balance, crashes>>

-----------------------------------------------------------------------------
(* Operator decisions. *)

\* The summary is read.  An approval resumes the thread that it names; other
\* decisions only change the records.
Decide(d, choice) ==
    /\ decision[d].at = "new"
    /\ case.thread # Nothing
    /\ IF choice = "approved"
         THEN /\ decision' = [decision EXCEPT ![d].at = "resume", ![d].on = case.thread]
              /\ balance' = [balance EXCEPT ![case.thread] = @ + 1]
         ELSE /\ decision' = [decision EXCEPT ![d].at = "put", ![d].run = Ended(choice),
                                            ![d].seen = case.thread]
              /\ UNCHANGED balance
    /\ UNCHANGED <<mode, firing, case, task, thread, crashes>>

Resumes(d, place, run) == decision' = [decision EXCEPT ![d].at = place, ![d].run = run]

\* Resuming goes on from the last checkpoint, also next to the task or another
\* resume.
Resume(d) ==
    LET t == decision[d].on
    IN  /\ decision[d].at = "resume"
        /\ thread[t].at \in {"executing", "verifying", "ended"}
        /\ Resumes(d, CASE thread[t].at = "executing" -> "execute"
                        [] thread[t].at = "verifying" -> "verify"
                        [] thread[t].at = "ended" -> "read", thread[t].run)
        /\ UNCHANGED <<mode, firing, case, task, thread, balance, crashes>>

\* The interrupted node runs again from its start: a grant whose envelope holds
\* by now replaces the operator's decision.
ResumeInterrupted(d, envelope) ==
    LET t   == decision[d].on
        run == [thread[t].run EXCEPT !.granted = Granted(thread[t].run.plan) /\ envelope]
    IN  /\ decision[d].at = "resume"
        /\ thread[t].at = "interrupted"
        /\ Checkpoint(t, "executing", run) /\ Resumes(d, "execute", run)
        /\ UNCHANGED <<mode, firing, case, task, balance, crashes>>

\* A thread that has not come to its interrupt is run up to it again, without
\* the decision.
ResumeEarly(d, envelope) ==
    LET t == decision[d].on
    IN  /\ decision[d].at = "resume"
        /\ thread[t].at = "open"
        /\ case' = Waiting(t)
        /\ \E plan \in Plans :
              LET run == [Proposed(plan) EXCEPT !.granted = Granted(plan) /\ envelope]
              IN  IF run.granted
                  THEN /\ Checkpoint(t, "executing", run) /\ Resumes(d, "execute", run)
                       /\ balance' = [balance EXCEPT ![t] = @ + 1]
                  ELSE /\ Checkpoint(t, "interrupted", run) /\ Resumes(d, "read", Ended("waiting_approval"))
                       /\ UNCHANGED balance
        /\ UNCHANGED <<mode, firing, task, crashes>>

ResumeExecutes(d, envelope) ==
    /\ decision[d].at = "execute"
    /\ \E result \in Outcomes(decision[d].run, envelope) :
          /\ Resumes(d, "sent", [decision[d].run EXCEPT !.outcome = result.state])
          /\ Sent(decision[d].on, result)
    /\ UNCHANGED <<mode, firing, case, task, thread, crashes>>

ResumeCheckpoints(d) ==
    /\ decision[d].at = "sent"
    /\ Checkpoint(decision[d].on, "verifying", decision[d].run)
    /\ Resumes(d, "verify", decision[d].run)
    /\ UNCHANGED <<mode, firing, case, task, balance, crashes>>

ResumeVerifies(d) ==
    /\ decision[d].at = "verify"
    /\ \E verdict \in Verdicts(decision[d].run) :
          Checkpoint(decision[d].on, "ended", Ended(verdict)) /\ Resumes(d, "read", Ended(verdict))
    /\ UNCHANGED <<mode, firing, case, task, balance, crashes>>

ReadDecided(d) ==
    /\ decision[d].at = "read"
    /\ decision' = [decision EXCEPT ![d].at = "put", ![d].on = Nothing, ![d].seen = case.thread]
    /\ UNCHANGED <<mode, firing, case, task, thread, balance, crashes>>

Done == [at |-> "done", on |-> Nothing, seen |-> Nothing, run |-> NewRun]

\* The summary that was read is written back with the decision.
PersistDecision(d) ==
    /\ decision[d].at = "put"
    /\ case' = Decided(decision[d].seen, decision[d].run.outcome)
    /\ decision' = [decision EXCEPT ![d] = IF decision[d].run.outcome = "acknowledged" THEN Done
                                           ELSE [@ EXCEPT !.at = "apply"]]
    /\ UNCHANGED <<mode, firing, task, thread, balance, crashes>>

\* And once more, with the case's status.
ApplyDecision(d) ==
    /\ decision[d].at = "apply"
    /\ case' = Decided(decision[d].seen, decision[d].run.outcome)
    /\ decision' = [decision EXCEPT ![d] = Done]
    /\ UNCHANGED <<mode, firing, task, thread, balance, crashes>>

-----------------------------------------------------------------------------
(* The monitor, time and crashes. *)

ConditionChanges ==
    /\ firing' \in (Signals \cup {Nothing}) \ {firing}
    /\ UNCHANGED <<mode, case, task, thread, decision, balance, crashes>>

\* Six hours have passed since the last investigation.
CooldownEnds ==
    /\ case.last = "recent"
    /\ case' = [case EXCEPT !.last = "old"]
    /\ task' = Moved
    /\ UNCHANGED <<mode, firing, thread, decision, balance, crashes>>

\* Tasks and requests are lost; the case and the checkpoints are kept.
Crash ==
    /\ crashes < MaxCrashes
    /\ crashes' = crashes + 1
    /\ task' = [i \in Tasks |-> Idle]
    /\ decision' = [d \in Decisions |->
          IF decision[d].at = "new" THEN decision[d] ELSE Done]
    /\ UNCHANGED <<mode, firing, case, thread, balance>>

TaskStep(i) ==
    \/ Claim(i) \/ StartGraph(i) \/ Specialist(i) \/ PrepareApproval(i)
    \/ \E envelope \in Envelope : ApprovalInterrupt(i, envelope) \/ TaskExecutes(i, envelope)
    \/ TaskCheckpoints(i) \/ TaskVerifies(i) \/ PersistGrant(i) \/ FinishRun(i) \/ ReadSummary(i) \/ RecordResult(i)

DecisionStep(d) ==
    \/ Resume(d)
    \/ \E envelope \in Envelope : ResumeInterrupted(d, envelope) \/ ResumeEarly(d, envelope) \/ ResumeExecutes(d, envelope)
    \/ ResumeCheckpoints(d) \/ ResumeVerifies(d) \/ ReadDecided(d) \/ PersistDecision(d) \/ ApplyDecision(d)

Next ==
    \/ \E i \in Tasks : Observe(i) \/ TaskStep(i) \/ SpecialistFails(i)
    \/ \E d \in Decisions : DecisionStep(d)
          \/ \E choice \in {"approved", "rejected", "acknowledged"} : Decide(d, choice)
    \/ ObserveClean
    \/ ConditionChanges
    \/ CooldownEnds
    \/ Crash

Spec == Init /\ [][Next]_vars

\* The monitor repeats a firing alert, asyncio runs what is ready, time passes,
\* and the model answers often enough.
FairSpec ==
    /\ Spec
    /\ WF_vars(\E i \in Tasks : Observe(i))
    /\ \A i \in Tasks : WF_vars(TaskStep(i)) /\ SF_vars(Specialist(i))
    /\ \A d \in Decisions : WF_vars(DecisionStep(d))
    /\ WF_vars(CooldownEnds)

-----------------------------------------------------------------------------
(* Properties. *)

Results == {"pending", "rejected", "acknowledged", "waiting_approval", "execution_disabled", "approved_no_executable_action",
            "noop_guards_prepared", "execution_failed", "executed", "verified", "verification_failed"}

RunStates == [plan : Plans \cup {{}}, granted : BOOLEAN, outcome : Results]

Running == {"queued", "specialist", "prepare", "approval", "execute", "sent", "verify", "persist",
            "ending", "read", "record"}

Threads == Tasks \cup {Nothing}
Signatures == Signals \cup {Nothing}

CaseType ==
    [status : {"investigating", "waiting_approval", "resolved", "linked"},
     signal : Signatures, diagnosed : Signatures, last : {"never", "recent", "old"},
     about : Signatures, aliased : BOOLEAN, thread : Threads]

TaskType ==
    [at : {"idle", "claim"} \cup Running, about : Signatures, seen : Threads, signal : Signatures,
     diagnosed : Signatures, current : BOOLEAN, moved : BOOLEAN, run : RunStates]

ThreadType ==
    [at : {"none", "open", "interrupted", "executing", "verifying", "ended"}, run : RunStates]

DecisionType ==
    [at : {"new", "resume", "execute", "sent", "verify", "read", "put", "apply", "done"},
     on : Threads, seen : Threads, run : RunStates]

\* The type invariant.
TypeOK ==
    /\ mode \in Modes /\ firing \in Signatures
    /\ case \in CaseType
    /\ task \in [Tasks -> TaskType]
    /\ thread \in [Tasks -> ThreadType]
    /\ decision \in [Decisions -> DecisionType]
    /\ balance \in [Tasks -> Int] /\ crashes \in 0..MaxCrashes

\* Every time the actions of a thread are sent to their hosts, an approval of
\* its own (an operator's or the standing grant's) stands for it, whatever
\* resumes, crashes and reruns of the thread happen (approval_interrupt).
ExecutedAsApproved == \A t \in Tasks : balance[t] >= 0

\* With the types of what was read, approved and sent.
ApprovalInv == TypeOK /\ ExecutedAsApproved

\* Two investigations of the case run at once only if the signal changed or the
\* cooldown ended after one of them was claimed (claim_investigation).
ClaimsExclude ==
    \A i, j \in Tasks : i # j /\ {task[i].at, task[j].at} \subseteq Running
                        => task[i].moved \/ task[j].moved

\* An alert that keeps firing is in the end diagnosed as it fires now, unless
\* the case is linked away: claims stranded by failures and crashes, and
\* results of earlier signals, delay it no longer than the cooldown.
EventuallyDiagnosed ==
    \A s \in Signals : <>[](firing = s) => <>[](case.about = s \/ ~case.aliased)

\* A failed execution is not turned into a verified one by verifying the
\* actions that did go through.
FailedStaysFailed ==
    [][\A t \in Tasks : thread[t].run.outcome = "execution_failed" => thread'[t].run.outcome # "verified"]_vars
=============================================================================
