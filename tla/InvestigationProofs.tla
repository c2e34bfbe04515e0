------------------------- MODULE InvestigationProofs -------------------------
(***************************************************************************)
(* Theorems of Investigation, for any tasks, decisions, signals, plans and *)
(* modes and any number of crashes: what is sent to hosts was approved,    *)
(* and two investigations run at once only if the case moved on.           *)
(***************************************************************************)
EXTENDS Investigation, FiniteSetTheorems, TLAPS

\* A decision that resumes a thread has one.
HasThread ==
    \A d \in Decisions :
      decision[d].at \in {"resume", "execute", "sent", "verify"} => decision[d].on \in Tasks

\* The threads that the case, a task or a decision refers to.
Refs ==
    {case.thread} \cup {task[j].seen : j \in Tasks}
    \cup {decision[d].on : d \in Decisions} \cup {decision[d].seen : d \in Decisions}

\* The thread a webhook is about to claim is nobody's.
Reserved == \A i \in Tasks : task[i].at = "claim" => i \notin Refs

\* The approvals of operators that may yet send the actions of a thread.
Owed(t) == {d \in Decisions : decision[d].on = t /\ decision[d].at \in {"resume", "execute"}}

TaskOwes(t) == IF task[t].at = "execute" THEN 1 ELSE 0

\* Whoever may yet send the actions of a thread has an approval that was not used.
Covered ==
    \A t \in Tasks :
      /\ IsFiniteSet(Owed(t))
      /\ Cardinality(Owed(t)) + TaskOwes(t) <= balance[t]

\* A case that nothing happened to since an investigation was claimed is
\* diagnosed for its signal and in its cooldown.
Calm == case.diagnosed = case.signal /\ case.last = "recent"

UnmovedAreCalm == \A j \in Tasks : task[j].at \in Running /\ ~task[j].moved => Calm

\* A webhook that may still claim read the case after it moved on.
ClaimsWait ==
    \A i, j \in Tasks :
      task[i].at = "claim" /\ task[i].current /\ task[j].at \in Running => task[j].moved

ApprovalsInv == HasThread /\ Reserved /\ Covered

ClaimsInv == UnmovedAreCalm /\ ClaimsWait /\ ClaimsExclude

InvestigationInv == TypeOK /\ ApprovalsInv /\ ClaimsInv

-----------------------------------------------------------------------------
(* The operators. *)

\* A task goes to another place.
LEMMA AtType ==
    ASSUME TypeOK, NEW i \in Tasks, NEW place \in {"idle", "claim"} \cup Running, At(i, place)
    PROVE  /\ task' \in [Tasks -> TaskType]
           /\ task'[i] = [task[i] EXCEPT !.at = place]
           /\ \A j \in Tasks \ {i} : task'[j] = task[j]
<1>1. task' = [task EXCEPT ![i] = [task[i] EXCEPT !.at = place]]
  BY DEF At, TypeOK
<1>2. [task[i] EXCEPT !.at = place] \in TaskType
  BY DEF TypeOK, TaskType
<1> HIDE DEF TaskType
<1> QED BY <1>1, <1>2 DEF TypeOK

\* A task goes to another place with another run.
LEMMA RunsType ==
    ASSUME TypeOK, NEW i \in Tasks, NEW place \in {"idle", "claim"} \cup Running,
           NEW run \in RunStates, Runs(i, place, run)
    PROVE  /\ task' \in [Tasks -> TaskType]
           /\ task'[i] = [task[i] EXCEPT !.at = place, !.run = run]
           /\ \A j \in Tasks \ {i} : task'[j] = task[j]
<1>1. task' = [task EXCEPT ![i] = [task[i] EXCEPT !.at = place, !.run = run]]
  BY DEF Runs, TypeOK
<1>2. [task[i] EXCEPT !.at = place, !.run = run] \in TaskType
  BY DEF TypeOK, TaskType
<1> QED BY <1>1, <1>2 DEF TypeOK

\* A thread gets another checkpoint.
LEMMA CheckpointType ==
    ASSUME TypeOK, NEW t \in Tasks, NEW place \in {"open", "interrupted", "executing", "verifying", "ended"},
           NEW run \in RunStates, Checkpoint(t, place, run)
    PROVE  thread' \in [Tasks -> ThreadType]
<1>1. [at |-> place, run |-> run] \in ThreadType
  BY DEF ThreadType
<1> QED BY <1>1 DEF Checkpoint, TypeOK

\* A decision goes to another place with another run.
LEMMA ResumesType ==
    ASSUME TypeOK, NEW d \in Decisions,
           NEW place \in {"new", "resume", "execute", "sent", "verify", "read", "put", "apply", "done"},
           NEW run \in RunStates, Resumes(d, place, run)
    PROVE  /\ decision' \in [Decisions -> DecisionType]
           /\ decision'[d] = [decision[d] EXCEPT !.at = place, !.run = run]
           /\ \A e \in Decisions \ {d} : decision'[e] = decision[e]
<1>1. decision' = [decision EXCEPT ![d] = [decision[d] EXCEPT !.at = place, !.run = run]]
  BY DEF Resumes, TypeOK
<1>2. [decision[d] EXCEPT !.at = place, !.run = run] \in DecisionType
  BY DEF TypeOK, DecisionType
<1> QED BY <1>1, <1>2 DEF TypeOK

\* The case at a proposal, when it is linked and when it is decided.
LEMMA CaseTypes ==
    ASSUME TypeOK
    PROVE  /\ \A t \in Threads : Waiting(t) \in CaseType
           /\ Linked \in CaseType
           /\ \A t \in Threads : \A outcome : Decided(t, outcome) \in CaseType
  BY DEF TypeOK, CaseType, Waiting, Linked, Decided, FinalStatus

\* The runs that the nodes of the graph make.
LEMMA RunTypes ==
    /\ NewRun \in RunStates
    /\ \A plan \in Plans : Proposed(plan) \in RunStates
    /\ \A plan \in Plans, g \in BOOLEAN : [Proposed(plan) EXCEPT !.granted = g] \in RunStates
    /\ \A run \in RunStates, g \in BOOLEAN : [run EXCEPT !.granted = g] \in RunStates
    /\ \A run \in RunStates, o \in Results : [run EXCEPT !.outcome = o] \in RunStates
    /\ \A o \in Results : Ended(o) \in RunStates
  BY DEF RunStates, NewRun, Proposed, Ended, Results

\* What executing and verifying a run result in.
LEMMA ResultTypes ==
    ASSUME NEW run \in RunStates
    PROVE  /\ \A envelope \in Envelope :
                \A result \in Outcomes(run, envelope) : result.state \in Results /\ result.sent \in BOOLEAN
           /\ \A verdict \in Verdicts(run) : verdict \in Results
<1>1. ASSUME NEW envelope \in Envelope, NEW result \in Outcomes(run, envelope)
      PROVE  result.state \in Results /\ result.sent \in BOOLEAN
  <2>1. \/ result \in {[state |-> "execution_disabled", sent |-> FALSE]}
        \/ result \in {[state |-> "approved_no_executable_action", sent |-> FALSE]}
        \/ result \in GuardOutcomes
        \/ result \in {[state |-> "execution_failed", sent |-> FALSE]}
        \/ result \in [state : {"executed", "execution_failed"}, sent : {TRUE}]
    BY <1>1 DEF Outcomes, ActionOutcomes
  <2>2. ASSUME NEW st, result = [state |-> st, sent |-> FALSE]
        PROVE  result.state = st /\ result.sent \in BOOLEAN
    BY <2>2
  <2>3. ASSUME NEW sts, NEW sent, sent \in BOOLEAN, result \in [state : sts, sent : {sent}]
        PROVE  result.state \in sts /\ result.sent \in BOOLEAN
    BY <2>3
  <2> QED BY <2>1, <2>2, <2>3 DEF GuardOutcomes, Results
<1>2. ASSUME NEW verdict \in Verdicts(run)
      PROVE  verdict \in Results
  BY <1>2 DEF Verdicts, GuardVerdicts, Results, RunStates
<1> QED BY <1>1, <1>2

\* Whether a grant covers a plan and its envelope holds.
LEMMA GrantType ==
    ASSUME NEW plan, NEW envelope \in Envelope
    PROVE  (Granted(plan) /\ envelope) \in BOOLEAN
  BY DEF Granted, Envelope

-----------------------------------------------------------------------------
(* The types. *)

LEMMA IntakeTypes ==
    ASSUME TypeOK
    PROVE  /\ Moved \in [Tasks -> TaskType]
           /\ \A tasks \in [Tasks -> TaskType] : Stamped(tasks) \in [Tasks -> TaskType]
           /\ Idle \in TaskType
<1>1. Moved \in [Tasks -> TaskType]
  <2>1. \A j \in Tasks : [task[j] EXCEPT !.moved = @ \/ task[j].at \notin {"idle", "claim"}] \in TaskType
    <3> TAKE j \in Tasks
    <3>1. (task[j].moved \/ task[j].at \notin {"idle", "claim"}) \in BOOLEAN
      OBVIOUS
    <3> QED BY <3>1 DEF TypeOK, TaskType
  <2> QED BY <2>1 DEF Moved
<1>2. \A tasks \in [Tasks -> TaskType] : Stamped(tasks) \in [Tasks -> TaskType]
  BY DEF Stamped, TaskType
<1>3. Idle \in TaskType
  BY RunTypes DEF Idle, TaskType, Signatures, Threads
<1> QED BY <1>1, <1>2, <1>3

LEMMA ObserveType ==
    ASSUME TypeOK, NEW i \in Tasks, Observe(i)
    PROVE  TypeOK'
<1> DEFINE now == [case EXCEPT !.signal = firing,
                               !.status = IF @ = "resolved" THEN "investigating" ELSE @]
           tasks == IF case.signal = firing THEN task ELSE Moved
           claim == [Idle EXCEPT !.at = "claim", !.signal = now.signal, !.diagnosed = now.diagnosed,
                                 !.current = TRUE]
<1>1. now \in CaseType
  BY DEF TypeOK, CaseType
<1>2. tasks \in [Tasks -> TaskType]
  BY IntakeTypes DEF TypeOK
<1>3. claim \in TaskType
  <2>1. now.signal \in Signatures /\ now.diagnosed \in Signatures
    BY <1>1 DEF CaseType
  <2> QED BY <2>1, IntakeTypes DEF TaskType, Idle
<1>4. case' = now /\ task' \in {tasks, [tasks EXCEPT ![i] = claim]}
  BY DEF Observe
<1>5. UNCHANGED <<mode, firing, thread, decision, balance, crashes>>
  BY DEF Observe
<1> HIDE DEF now, tasks, claim
<1>6. task' \in [Tasks -> TaskType]
  BY <1>2, <1>3, <1>4
<1> QED BY <1>1, <1>4, <1>5, <1>6 DEF TypeOK

LEMMA ClaimType ==
    ASSUME TypeOK, NEW i \in Tasks, Claim(i)
    PROVE  TypeOK'
<1> DEFINE claimed == [Idle EXCEPT !.at = "queued", !.about = case.signal]
<1>1. claimed \in TaskType /\ Stamped(task) \in [Tasks -> TaskType] /\ Idle \in TaskType
  BY IntakeTypes DEF TypeOK, TaskType, Idle, CaseType, Running
<1>2. [case EXCEPT !.diagnosed = case.signal, !.last = "recent"] \in CaseType
  BY DEF TypeOK, CaseType
<1>3. NewThread \in ThreadType
  BY RunTypes DEF NewThread, ThreadType
<1>4. \/ /\ case' = [case EXCEPT !.diagnosed = case.signal, !.last = "recent"]
         /\ task' = [Stamped(task) EXCEPT ![i] = claimed]
         /\ thread' = [thread EXCEPT ![i] = NewThread]
         /\ balance' = [balance EXCEPT ![i] = 0]
      \/ task' = [task EXCEPT ![i] = Idle] /\ UNCHANGED <<case, thread, balance>>
  BY DEF Claim
<1>5. UNCHANGED <<mode, firing, decision, crashes>>
  BY DEF Claim
<1> HIDE DEF claimed
<1> QED BY <1>1, <1>2, <1>3, <1>4, <1>5 DEF TypeOK

\* The steps of a task.
LEMMA TaskStepType ==
    ASSUME TypeOK, NEW i \in Tasks, TaskStep(i) \/ SpecialistFails(i)
    PROVE  TypeOK'
<1> USE RunTypes
<1>1. CASE StartGraph(i)
  <2>1. [case EXCEPT !.thread = i] \in CaseType
    BY DEF TypeOK, CaseType, Threads
  <2> QED BY <1>1, <2>1, CheckpointType, AtType DEF StartGraph, TypeOK, Running
<1>2. CASE Specialist(i)
  <2>1. PICK plan \in Plans : Runs(i, "prepare", Proposed(plan))
    BY <1>2 DEF Specialist
  <2>2. task' \in [Tasks -> TaskType]
    BY <2>1, RunsType DEF Running
  <2> QED BY <1>2, <2>2, CaseTypes DEF Specialist, TypeOK
<1>3. CASE SpecialistFails(i)
  BY <1>3, IntakeTypes DEF SpecialistFails, TypeOK
<1>4. CASE PrepareApproval(i) \/ FinishRun(i)
  BY <1>4, CaseTypes, AtType DEF PrepareApproval, FinishRun, TypeOK, Running, Threads
<1>5. ASSUME NEW envelope \in Envelope, ApprovalInterrupt(i, envelope)
      PROVE  TypeOK'
  <2> DEFINE run == [task[i].run EXCEPT !.granted = TRUE]
  <2>1. run \in RunStates /\ task[i].run \in RunStates
    BY DEF TypeOK, TaskType
  <2>2. \/ /\ Checkpoint(i, "executing", run) /\ Runs(i, "execute", run)
           /\ balance' = [balance EXCEPT ![i] = @ + 1]
        \/ /\ Checkpoint(i, "interrupted", task[i].run) /\ Runs(i, "ending", NewRun)
           /\ UNCHANGED balance
    BY <1>5 DEF ApprovalInterrupt
  <2>3. thread' \in [Tasks -> ThreadType] /\ task' \in [Tasks -> TaskType]
    <3> HIDE DEF run
    <3> QED BY <2>1, <2>2, CheckpointType, RunsType DEF Running
  <2>4. balance' \in [Tasks -> Int]
    BY <2>2 DEF TypeOK
  <2> QED BY <1>5, <2>3, <2>4 DEF ApprovalInterrupt, TypeOK
<1>6. ASSUME NEW envelope \in Envelope, TaskExecutes(i, envelope)
      PROVE  TypeOK'
  <2>1. task[i].run \in RunStates
    BY DEF TypeOK, TaskType
  <2>2. PICK result \in Outcomes(task[i].run, envelope) :
           Runs(i, "sent", [task[i].run EXCEPT !.outcome = result.state]) /\ Sent(i, result)
    BY <1>6 DEF TaskExecutes
  <2>3. [task[i].run EXCEPT !.outcome = result.state] \in RunStates
    BY <2>1, <2>2, ResultTypes
  <2>4. task' \in [Tasks -> TaskType]
    BY <2>2, <2>3, RunsType DEF Running
  <2>5. balance' \in [Tasks -> Int]
    BY <2>2 DEF Sent, TypeOK
  <2> QED BY <1>6, <2>4, <2>5 DEF TaskExecutes, TypeOK
<1>7. CASE TaskCheckpoints(i)
  <2>1. task[i].run \in RunStates
    BY DEF TypeOK, TaskType
  <2> QED BY <1>7, <2>1, CheckpointType, AtType DEF TaskCheckpoints, TypeOK, Running
<1>8. CASE TaskVerifies(i)
  <2>1. task[i].run \in RunStates
    BY DEF TypeOK, TaskType
  <2>2. PICK verdict \in Verdicts(task[i].run) :
           Checkpoint(i, "ended", Ended(verdict)) /\ Runs(i, "persist", Ended(verdict))
    BY <1>8 DEF TaskVerifies
  <2>3. Ended(verdict) \in RunStates
    BY <2>1, <2>2, ResultTypes
  <2>4. thread' \in [Tasks -> ThreadType] /\ task' \in [Tasks -> TaskType]
    BY <2>2, <2>3, CheckpointType, RunsType DEF Running
  <2> QED BY <1>8, <2>4 DEF TaskVerifies, TypeOK
<1>9. CASE PersistGrant(i)
  <2>1. case.thread \in Threads
    BY DEF TypeOK, CaseType
  <2> QED BY <1>9, <2>1, CaseTypes, RunsType DEF PersistGrant, TypeOK, Running
<1>10. CASE ReadSummary(i)
  <2>1. [task[i] EXCEPT !.at = "record", !.seen = case.thread] \in TaskType
    <3>1. case.thread \in Threads /\ task[i] \in TaskType
      BY DEF TypeOK, CaseType
    <3> QED BY <3>1 DEF TaskType, Running
  <2>2. task' = [task EXCEPT ![i] = [task[i] EXCEPT !.at = "record", !.seen = case.thread]]
        \/ task' = [task EXCEPT ![i] = Idle]
    BY <1>10 DEF ReadSummary, TypeOK
  <2> QED BY <1>10, <2>1, <2>2, IntakeTypes DEF ReadSummary, TypeOK
<1>11. CASE RecordResult(i)
  <2>1. [case EXCEPT !.thread = task[i].seen, !.diagnosed = case.signal,
                     !.last = "recent", !.about = task[i].about] \in CaseType
    BY DEF TypeOK, CaseType, TaskType
  <2>2. Stamped(task) \in [Tasks -> TaskType] /\ Idle \in TaskType
    BY IntakeTypes DEF TypeOK
  <2> QED BY <1>11, <2>1, <2>2 DEF RecordResult, TypeOK
<1> QED BY <1>1, <1>2, <1>3, <1>4, <1>5, <1>6, <1>7, <1>8, <1>9, <1>10, <1>11, ClaimType DEF TaskStep

\* A decision that resumes: its thread, and the run it goes on with.
LEMMA ResumedTypes ==
    ASSUME TypeOK, HasThread, NEW d \in Decisions,
           decision[d].at \in {"resume", "execute", "sent", "verify"}
    PROVE  /\ decision[d].on \in Tasks /\ decision[d].run \in RunStates
           /\ thread[decision[d].on].run \in RunStates
<1>1. decision[d].on \in Tasks
  BY DEF HasThread
<1>2. decision[d] \in DecisionType /\ thread[decision[d].on] \in ThreadType
  BY <1>1 DEF TypeOK
<1> QED BY <1>1, <1>2 DEF DecisionType, ThreadType

\* The steps of a decision.
LEMMA DecisionStepType ==
    ASSUME TypeOK, HasThread, NEW d \in Decisions, DecisionStep(d)
    PROVE  TypeOK'
<1> DEFINE t == decision[d].on
<1>1. decision[d] \in DecisionType
  BY DEF TypeOK
<1>2. CASE Resume(d)
  <2>1. PICK place \in {"execute", "verify", "read"} : Resumes(d, place, thread[t].run)
    BY <1>2 DEF Resume
  <2>2. thread[t].run \in RunStates
    BY <1>2, ResumedTypes DEF Resume
  <2>3. decision' \in [Decisions -> DecisionType]
    BY <2>1, <2>2, ResumesType
  <2> QED BY <1>2, <2>3 DEF Resume, TypeOK
<1>3. ASSUME NEW envelope \in Envelope, ResumeInterrupted(d, envelope)
      PROVE  TypeOK'
  <2> DEFINE run == [thread[t].run EXCEPT !.granted = Granted(thread[t].run.plan) /\ envelope]
  <2>1. t \in Tasks /\ thread[t].run \in RunStates
    BY <1>3, ResumedTypes DEF ResumeInterrupted
  <2>2. (Granted(thread[t].run.plan) /\ envelope) \in BOOLEAN
    OBVIOUS
  <2>3. run \in RunStates
    BY <2>1, <2>2 DEF RunStates
  <2>4. Checkpoint(t, "executing", run) /\ Resumes(d, "execute", run)
    BY <1>3 DEF ResumeInterrupted
  <2> HIDE DEF run
  <2>5. decision' \in [Decisions -> DecisionType] /\ thread' \in [Tasks -> ThreadType]
    BY <2>1, <2>3, <2>4, CheckpointType, ResumesType
  <2> QED BY <1>3, <2>5 DEF ResumeInterrupted, TypeOK
<1>4. ASSUME NEW envelope \in Envelope, ResumeEarly(d, envelope)
      PROVE  TypeOK'
  <2>1. t \in Tasks
    BY <1>4, ResumedTypes DEF ResumeEarly
  <2>2. PICK plan \in Plans :
           LET run == [Proposed(plan) EXCEPT !.granted = Granted(plan) /\ envelope]
           IN  \/ /\ Checkpoint(t, "executing", run) /\ Resumes(d, "execute", run)
                  /\ balance' = [balance EXCEPT ![t] = @ + 1]
               \/ /\ Checkpoint(t, "interrupted", run) /\ Resumes(d, "read", Ended("waiting_approval"))
                  /\ UNCHANGED balance
    BY <1>4 DEF ResumeEarly
  <2> DEFINE run == [Proposed(plan) EXCEPT !.granted = Granted(plan) /\ envelope]
  <2>3. Proposed(plan) \in RunStates /\ Ended("waiting_approval") \in RunStates
    BY RunTypes DEF Results
  <2>4. (Granted(plan) /\ envelope) \in BOOLEAN
    OBVIOUS
  <2>5. run \in RunStates
    BY <2>3, <2>4 DEF RunStates
  <2>6. \/ /\ Checkpoint(t, "executing", run) /\ Resumes(d, "execute", run)
           /\ balance' = [balance EXCEPT ![t] = @ + 1]
        \/ /\ Checkpoint(t, "interrupted", run) /\ Resumes(d, "read", Ended("waiting_approval"))
           /\ UNCHANGED balance
    BY <2>2
  <2> HIDE DEF run
  <2>7. decision' \in [Decisions -> DecisionType] /\ thread' \in [Tasks -> ThreadType]
    BY <2>1, <2>3, <2>5, <2>6, CheckpointType, ResumesType
  <2>8. balance' \in [Tasks -> Int]
    BY <2>6 DEF TypeOK
  <2>9. case' \in CaseType
    BY <1>4, <2>1, CaseTypes DEF ResumeEarly, Threads
  <2> QED BY <1>4, <2>7, <2>8, <2>9 DEF ResumeEarly, TypeOK
<1>5. ASSUME NEW envelope \in Envelope, ResumeExecutes(d, envelope)
      PROVE  TypeOK'
  <2>1. t \in Tasks /\ decision[d].run \in RunStates
    BY <1>5, ResumedTypes DEF ResumeExecutes
  <2>2. PICK result \in Outcomes(decision[d].run, envelope) :
           Resumes(d, "sent", [decision[d].run EXCEPT !.outcome = result.state]) /\ Sent(t, result)
    BY <1>5 DEF ResumeExecutes
  <2>3. [decision[d].run EXCEPT !.outcome = result.state] \in RunStates
    BY <2>1, <2>2, ResultTypes, RunTypes
  <2>4. decision' \in [Decisions -> DecisionType]
    BY <2>2, <2>3, ResumesType
  <2>5. balance' \in [Tasks -> Int]
    BY <2>1, <2>2 DEF Sent, TypeOK
  <2> QED BY <1>5, <2>4, <2>5 DEF ResumeExecutes, TypeOK
<1>6. CASE ResumeCheckpoints(d)
  <2>1. t \in Tasks /\ decision[d].run \in RunStates
    BY <1>6, ResumedTypes DEF ResumeCheckpoints
  <2>2. decision' \in [Decisions -> DecisionType] /\ thread' \in [Tasks -> ThreadType]
    BY <1>6, <2>1, CheckpointType, ResumesType DEF ResumeCheckpoints
  <2> QED BY <1>6, <2>2 DEF ResumeCheckpoints, TypeOK
<1>7. CASE ResumeVerifies(d)
  <2>1. t \in Tasks /\ decision[d].run \in RunStates
    BY <1>7, ResumedTypes DEF ResumeVerifies
  <2>2. PICK verdict \in Verdicts(decision[d].run) :
           Checkpoint(t, "ended", Ended(verdict)) /\ Resumes(d, "read", Ended(verdict))
    BY <1>7 DEF ResumeVerifies
  <2>3. Ended(verdict) \in RunStates
    BY <2>1, <2>2, ResultTypes, RunTypes
  <2>4. decision' \in [Decisions -> DecisionType] /\ thread' \in [Tasks -> ThreadType]
    BY <2>1, <2>2, <2>3, CheckpointType, ResumesType
  <2> QED BY <1>7, <2>4 DEF ResumeVerifies, TypeOK
<1>8. CASE ReadDecided(d)
  <2>1. [decision[d] EXCEPT !.at = "put", !.on = Nothing, !.seen = case.thread] \in DecisionType
    <3>1. case.thread \in Threads /\ Nothing \in Threads
      BY DEF TypeOK, CaseType, Threads
    <3> QED BY <1>1, <3>1 DEF DecisionType
  <2>2. decision' = [decision EXCEPT ![d] =
                       [decision[d] EXCEPT !.at = "put", !.on = Nothing, !.seen = case.thread]]
    BY <1>8 DEF ReadDecided, TypeOK
  <2> QED BY <1>8, <2>1, <2>2 DEF ReadDecided, TypeOK
<1>9. Done \in DecisionType
  BY RunTypes DEF Done, DecisionType, Threads
<1>10. Decided(decision[d].seen, decision[d].run.outcome) \in CaseType
  BY <1>1, CaseTypes DEF DecisionType
<1>11. CASE PersistDecision(d)
  <2>1. [decision[d] EXCEPT !.at = "apply"] \in DecisionType
    BY <1>1 DEF DecisionType
  <2> QED BY <1>9, <1>10, <1>11, <2>1 DEF PersistDecision, TypeOK
<1>12. CASE ApplyDecision(d)
  BY <1>9, <1>10, <1>12 DEF ApplyDecision, TypeOK
<1> QED BY <1>2, <1>3, <1>4, <1>5, <1>6, <1>7, <1>8, <1>11, <1>12 DEF DecisionStep

LEMMA DecideType ==
    ASSUME TypeOK, NEW d \in Decisions, NEW choice \in {"approved", "rejected", "acknowledged"},
           Decide(d, choice)
    PROVE  TypeOK'
<1>1. /\ decision[d] \in DecisionType /\ case.thread \in Threads
      /\ choice # "approved" => Ended(choice) \in RunStates
  BY RunTypes DEF TypeOK, CaseType, Results
<1>2. CASE choice = "approved"
  <2>1. [decision[d] EXCEPT !.at = "resume", !.on = case.thread] \in DecisionType
    BY DEF TypeOK, CaseType, DecisionType
  <2>2. decision' = [decision EXCEPT ![d] = [decision[d] EXCEPT !.at = "resume", !.on = case.thread]]
        /\ balance' = [balance EXCEPT ![case.thread] = @ + 1]
    BY <1>2 DEF Decide, TypeOK
  <2>3. case.thread \in Tasks
    BY DEF Decide, TypeOK, CaseType, Threads
  <2>4. balance' \in [Tasks -> Int]
    BY <2>2, <2>3 DEF TypeOK
  <2> QED BY <2>1, <2>2, <2>4 DEF Decide, TypeOK
<1>3. CASE choice # "approved"
  <2>1. [decision[d] EXCEPT !.at = "put", !.run = Ended(choice), !.seen = case.thread] \in DecisionType
    BY <1>1, <1>3 DEF DecisionType
  <2>2. decision' = [decision EXCEPT ![d] =
                       [decision[d] EXCEPT !.at = "put", !.run = Ended(choice), !.seen = case.thread]]
        /\ balance' = balance
    BY <1>3 DEF Decide, TypeOK
  <2> QED BY <2>1, <2>2 DEF Decide, TypeOK
<1> QED BY <1>2, <1>3

LEMMA TypeStep ==
    ASSUME TypeOK, HasThread, [Next]_vars
    PROVE  TypeOK'
<1>1. CASE ObserveClean
  BY <1>1 DEF ObserveClean, TypeOK, CaseType
<1>2. CASE ConditionChanges
  BY <1>2 DEF ConditionChanges, TypeOK, Signatures
<1>3. CASE CooldownEnds
  BY <1>3, IntakeTypes DEF CooldownEnds, TypeOK, CaseType
<1>4. CASE Crash
  <2>1. Done \in DecisionType /\ Idle \in TaskType
    BY RunTypes, IntakeTypes DEF Done, DecisionType, Threads
  <2>2. crashes' \in 0..MaxCrashes
    BY <1>4, InvestigationConstants DEF Crash, TypeOK
  <2> QED BY <1>4, <2>1, <2>2 DEF Crash, TypeOK
<1>5. CASE UNCHANGED vars
  BY <1>5 DEF vars, TypeOK
<1> QED BY <1>1, <1>2, <1>3, <1>4, <1>5, ObserveType, TaskStepType, DecisionStepType, DecideType DEF Next

-----------------------------------------------------------------------------
(* The references to threads. *)

\* The case comes to name a thread that was named, or that of a running task.
LEMMA CaseRefs ==
    ASSUME TypeOK, HasThread, [Next]_vars, NEW t \in Tasks, case'.thread = t
    PROVE  t \in Refs \/ task[t].at \notin {"idle", "claim"}
<1> DEFINE Fine(u) == u \in Refs \/ task[u].at \notin {"idle", "claim"}
<1>0. case \in CaseType
  BY DEF TypeOK
<1>1. CASE case'.thread = case.thread
  BY <1>1 DEF Refs
<1>2. ASSUME NEW i \in Tasks, StartGraph(i) \/ PrepareApproval(i) \/ FinishRun(i)
      PROVE  Fine(t)
  <2>1. case'.thread = i
    BY <1>0, <1>2 DEF StartGraph, PrepareApproval, FinishRun, Waiting, CaseType
  <2> QED BY <1>2, <2>1 DEF StartGraph, PrepareApproval, FinishRun
<1>3. ASSUME NEW i \in Tasks, RecordResult(i)
      PROVE  Fine(t)
  <2>1. case'.thread = task[i].seen
    BY <1>0, <1>3 DEF RecordResult, CaseType
  <2> QED BY <2>1 DEF Refs
<1>4. ASSUME NEW d \in Decisions, NEW envelope \in Envelope, ResumeEarly(d, envelope)
      PROVE  Fine(t)
  <2>1. case'.thread = decision[d].on
    BY <1>0, <1>4 DEF ResumeEarly, Waiting, CaseType
  <2> QED BY <2>1 DEF Refs
<1>5. ASSUME NEW d \in Decisions, PersistDecision(d) \/ ApplyDecision(d)
      PROVE  Fine(t)
  <2>1. case'.thread = decision[d].seen
    BY <1>0, <1>5 DEF PersistDecision, ApplyDecision, Decided, CaseType
  <2> QED BY <2>1 DEF Refs
<1>6. ASSUME NEW i \in Tasks, Observe(i) \/ Claim(i) \/ Specialist(i) \/ PersistGrant(i)
      PROVE  case'.thread = case.thread
  BY <1>0, <1>6 DEF Observe, Claim, Specialist, PersistGrant, Linked, Decided, CaseType
<1>7. ASSUME ObserveClean \/ CooldownEnds
      PROVE  case'.thread = case.thread
  BY <1>0, <1>7 DEF ObserveClean, CooldownEnds, CaseType
<1>8. CASE \E i \in Tasks : Observe(i) \/ TaskStep(i) \/ SpecialistFails(i)
  <2>1. PICK i \in Tasks : Observe(i) \/ TaskStep(i) \/ SpecialistFails(i)
    BY <1>8
  <2>2. \/ StartGraph(i) \/ PrepareApproval(i) \/ FinishRun(i) \/ RecordResult(i)
        \/ Observe(i) \/ Claim(i) \/ Specialist(i) \/ PersistGrant(i) \/ UNCHANGED case
    BY <2>1 DEF TaskStep, SpecialistFails, ApprovalInterrupt, TaskExecutes, TaskCheckpoints,
                TaskVerifies, ReadSummary
  <2> QED BY <1>1, <1>2, <1>3, <1>6, <2>2
<1>9. CASE \E d \in Decisions : DecisionStep(d)
  <2>1. PICK d \in Decisions : DecisionStep(d)
    BY <1>9
  <2>2. \/ \E envelope \in Envelope : ResumeEarly(d, envelope)
        \/ PersistDecision(d) \/ ApplyDecision(d) \/ UNCHANGED case
    BY <2>1 DEF DecisionStep, Resume, ResumeInterrupted, ResumeExecutes, ResumeCheckpoints,
                ResumeVerifies, ReadDecided
  <2> QED BY <1>1, <1>4, <1>5, <2>2
<1>10. CASE UNCHANGED case
  BY <1>1, <1>10
<1> QED BY <1>1, <1>7, <1>8, <1>9, <1>10 DEF Next, Decide, ConditionChanges, Crash, vars

\* What a step does to the place of a task, and to the thread it read.
LEMMA TaskSteps ==
    ASSUME TypeOK, HasThread, [Next]_vars, NEW j \in Tasks
    PROVE  /\ task'[j].seen \in {task[j].seen, Nothing, case.thread}
           /\ task'[j].at = "claim" => task[j].at = "claim" \/ Observe(j)
           /\ task'[j].at = "execute" =>
                task[j].at = "execute" \/ \E envelope \in Envelope : ApprovalInterrupt(j, envelope)
<1> DEFINE Kept == task'[j].at = task[j].at /\ task'[j].seen = task[j].seen
<1>0. task \in [Tasks -> TaskType] /\ \A i \in Tasks : task[i].run \in RunStates
  BY DEF TypeOK, TaskType
<1>1. \A i \in Tasks : Moved[i].at = task[i].at /\ Moved[i].seen = task[i].seen
  BY <1>0 DEF Moved, TaskType
<1>2. \A i \in Tasks : Stamped(task)[i].at = task[i].at /\ Stamped(task)[i].seen = task[i].seen
  BY <1>0 DEF Stamped, TaskType
<1>3. Idle.at = "idle" /\ Idle.seen = Nothing
  BY DEF Idle
<1>4. ASSUME NEW i \in Tasks, Observe(i)
      PROVE  Kept \/ (i = j /\ task'[j].seen \in {task[j].seen, Nothing} /\ task'[j].at # "execute")
  <2> DEFINE tasks == IF case.signal = firing THEN task ELSE Moved
             claim(s, g) == [Idle EXCEPT !.at = "claim", !.signal = s, !.diagnosed = g, !.current = TRUE]
  <2>1. \A k \in Tasks : tasks[k].at = task[k].at /\ tasks[k].seen = task[k].seen
    BY <1>1
  <2>2. \A s, g : claim(s, g).at = "claim" /\ claim(s, g).seen = Nothing
    BY DEF Idle
  <2>3. task' = tasks \/ \E s, g : task' = [tasks EXCEPT ![i] = claim(s, g)]
    BY <1>4 DEF Observe
  <2>4. tasks \in [Tasks -> TaskType]
    BY <1>0, IntakeTypes
  <2> HIDE DEF tasks, claim
  <2> QED BY <2>1, <2>2, <2>3, <2>4
<1>5. ASSUME NEW i \in Tasks, Claim(i)
      PROVE  Kept \/ (task'[j].seen = Nothing /\ task'[j].at \in {"idle", "queued"})
  <2> DEFINE claimed == [Idle EXCEPT !.at = "queued", !.about = case.signal]
  <2>1. claimed.at = "queued" /\ claimed.seen = Nothing
    BY DEF Idle
  <2>2. task' = [Stamped(task) EXCEPT ![i] = claimed] \/ task' = [task EXCEPT ![i] = Idle]
    BY <1>5 DEF Claim
  <2>3. Stamped(task) \in [Tasks -> TaskType]
    BY <1>0, IntakeTypes
  <2> HIDE DEF claimed
  <2> QED BY <1>0, <1>2, <1>3, <2>1, <2>2, <2>3
<1>6. ASSUME NEW i \in Tasks, NEW place \in Running \ {"execute"}, At(i, place)
      PROVE  Kept \/ (task'[j].seen = task[j].seen /\ task'[j].at = place)
  <2>1. task'[i] = [task[i] EXCEPT !.at = place] /\ \A k \in Tasks \ {i} : task'[k] = task[k]
    BY <1>6, AtType
  <2> QED BY <1>0, <2>1 DEF TaskType
<1>7. ASSUME NEW i \in Tasks, NEW place \in Running, NEW run \in RunStates, Runs(i, place, run)
      PROVE  Kept \/ (i = j /\ task'[j].seen = task[j].seen /\ task'[j].at = place)
  <2>1. task'[i] = [task[i] EXCEPT !.at = place, !.run = run] /\ \A k \in Tasks \ {i} : task'[k] = task[k]
    BY <1>7, RunsType
  <2> QED BY <1>0, <2>1 DEF TaskType
<1>8. "claim" \notin Running
  BY DEF Running
<1>9. ASSUME NEW i \in Tasks, StartGraph(i) \/ PrepareApproval(i) \/ FinishRun(i) \/ TaskCheckpoints(i)
      PROVE  Kept \/ (task'[j].seen = task[j].seen /\ task'[j].at \in Running \ {"execute"})
  BY <1>6, <1>9 DEF StartGraph, PrepareApproval, FinishRun, TaskCheckpoints, Running
<1>10. ASSUME NEW i \in Tasks,
              Specialist(i) \/ TaskVerifies(i) \/ PersistGrant(i) \/ \E envelope \in Envelope : TaskExecutes(i, envelope)
       PROVE  Kept \/ (task'[j].seen = task[j].seen /\ task'[j].at \in Running \ {"execute"})
  <2>1. \E place \in Running \ {"execute"}, run \in RunStates : Runs(i, place, run)
    <3>1. CASE Specialist(i)
      BY <3>1, RunTypes DEF Specialist, Running
    <3>2. CASE TaskVerifies(i)
      BY <1>0, <3>2, RunTypes, ResultTypes DEF TaskVerifies, Running
    <3>3. CASE PersistGrant(i)
      BY <3>3, RunTypes DEF PersistGrant, Running
    <3>4. ASSUME NEW envelope \in Envelope, TaskExecutes(i, envelope)
          PROVE  \E place \in Running \ {"execute"}, run \in RunStates : Runs(i, place, run)
      BY <1>0, <3>4, RunTypes, ResultTypes DEF TaskExecutes, Running
    <3> QED BY <1>10, <3>1, <3>2, <3>3, <3>4
  <2> QED BY <1>7, <2>1
<1>11. ASSUME NEW i \in Tasks, NEW envelope \in Envelope, ApprovalInterrupt(i, envelope)
       PROVE  Kept \/ (i = j /\ task'[j].seen = task[j].seen /\ task'[j].at \in Running)
  <2>1. \E place \in {"execute", "ending"}, run \in RunStates : Runs(i, place, run)
    BY <1>0, <1>11, RunTypes DEF ApprovalInterrupt
  <2> QED BY <1>7, <2>1 DEF Running
<1>12. ASSUME NEW i \in Tasks, SpecialistFails(i)
       PROVE  Kept \/ (task'[j].seen = Nothing /\ task'[j].at = "idle")
  BY <1>0, <1>3, <1>12 DEF SpecialistFails
<1>13. ASSUME NEW i \in Tasks, ReadSummary(i)
       PROVE  Kept \/ (task'[j].seen \in {Nothing, case.thread} /\ task'[j].at \in {"idle", "record"})
  <2>1. task' = [task EXCEPT ![i] = [task[i] EXCEPT !.at = "record", !.seen = case.thread]]
        \/ task' = [task EXCEPT ![i] = Idle]
    BY <1>0, <1>13 DEF ReadSummary
  <2> QED BY <1>0, <1>3, <2>1 DEF TaskType
<1>14. ASSUME NEW i \in Tasks, RecordResult(i)
       PROVE  Kept \/ (task'[j].seen = Nothing /\ task'[j].at = "idle")
  <2>1. Stamped(task) \in [Tasks -> TaskType]
    BY <1>0, IntakeTypes
  <2> QED BY <1>0, <1>2, <1>3, <1>14, <2>1 DEF RecordResult
<1>15. CASE CooldownEnds
  BY <1>1, <1>15 DEF CooldownEnds
<1>16. CASE Crash
  BY <1>3, <1>16 DEF Crash
<1>17. CASE UNCHANGED task
  BY <1>17
<1>18. \/ UNCHANGED task \/ CooldownEnds \/ Crash
       \/ \E i \in Tasks : Observe(i) \/ TaskStep(i) \/ SpecialistFails(i)
  BY DEF Next, vars, ObserveClean, ConditionChanges, Decide, DecisionStep, Resume, ResumeInterrupted, ResumeEarly,
         ResumeExecutes, ResumeCheckpoints, ResumeVerifies, ReadDecided, PersistDecision, ApplyDecision
<1>19. ASSUME NEW i \in Tasks, Observe(i) \/ TaskStep(i) \/ SpecialistFails(i)
       PROVE  /\ task'[j].seen \in {task[j].seen, Nothing, case.thread}
              /\ task'[j].at = "claim" => task[j].at = "claim" \/ Observe(j)
              /\ task'[j].at = "execute" =>
                   task[j].at = "execute" \/ \E envelope \in Envelope : ApprovalInterrupt(j, envelope)
  BY <1>4, <1>5, <1>8, <1>9, <1>10, <1>11, <1>12, <1>13, <1>14, <1>19 DEF TaskStep
<1> QED BY <1>15, <1>16, <1>17, <1>18, <1>19

\* What a step does to a decision and the thread that it resumes.
LEMMA DecisionSteps ==
    ASSUME TypeOK, HasThread, [Next]_vars, NEW e \in Decisions
    PROVE  /\ decision'[e].on \in {decision[e].on, Nothing, case.thread}
           /\ decision'[e].seen \in {decision[e].seen, Nothing, case.thread}
           /\ decision'[e].at \in {"resume", "execute", "sent", "verify"} => decision'[e].on \in Tasks
           /\ decision'[e].at \in {"resume", "execute"} =>
                 \/ decision[e].at \in {"resume", "execute"} /\ decision'[e].on = decision[e].on
                 \/ Decide(e, "approved") /\ decision'[e].on = case.thread
<1> DEFINE Goal == /\ decision'[e].on \in {decision[e].on, Nothing, case.thread}
                   /\ decision'[e].seen \in {decision[e].seen, Nothing, case.thread}
                   /\ decision'[e].at \in {"resume", "execute", "sent", "verify"} => decision'[e].on \in Tasks
                   /\ decision'[e].at \in {"resume", "execute"} =>
                         \/ decision[e].at \in {"resume", "execute"} /\ decision'[e].on = decision[e].on
                         \/ Decide(e, "approved") /\ decision'[e].on = case.thread
<1>0. decision \in [Decisions -> DecisionType]
  BY DEF TypeOK
<1>1. ASSUME decision'[e] = decision[e]
      PROVE  Goal
  BY <1>1 DEF HasThread
<1>2. ASSUME NEW d \in Decisions, NEW run \in RunStates,
             \/ decision[d].at = "resume" /\ \E place \in {"execute", "verify", "read"} : Resumes(d, place, run)
             \/ decision[d].at = "execute" /\ Resumes(d, "sent", run)
             \/ decision[d].at = "sent" /\ Resumes(d, "verify", run)
             \/ decision[d].at = "verify" /\ Resumes(d, "read", run)
      PROVE  Goal
  <2>1. PICK place \in {"execute", "sent", "verify", "read"} :
           /\ decision[d].at \in {"resume", "execute", "sent", "verify"}
           /\ place = "execute" => decision[d].at = "resume"
           /\ Resumes(d, place, run)
    BY <1>2
  <2>2. /\ decision'[d] = [decision[d] EXCEPT !.at = place, !.run = run]
        /\ \A k \in Decisions \ {d} : decision'[k] = decision[k]
    <3>1. decision' = [decision EXCEPT ![d] = [decision[d] EXCEPT !.at = place, !.run = run]]
      BY <1>0, <2>1 DEF Resumes
    <3> QED BY <1>0, <3>1
  <2>3. decision'[d].at = place /\ decision'[d].on = decision[d].on /\ decision'[d].seen = decision[d].seen
    BY <1>0, <2>2 DEF DecisionType
  <2>4. decision[d].on \in Tasks
    BY <2>1 DEF HasThread
  <2> QED BY <1>1, <2>1, <2>2, <2>3, <2>4
<1>3. ASSUME NEW d \in Decisions, DecisionStep(d), NEW place \in {"resume", "execute", "sent", "verify"},
             decision[d].at = place
      PROVE  Goal
  <2>1. decision[d].run \in RunStates /\ thread[decision[d].on].run \in RunStates
    BY <1>3, ResumedTypes
  <2>2. CASE Resume(d)
    BY <1>2, <2>1, <2>2 DEF Resume
  <2>3. ASSUME NEW envelope \in Envelope, ResumeInterrupted(d, envelope)
        PROVE  Goal
    <3> DEFINE plan == thread[decision[d].on].run.plan
               run == [thread[decision[d].on].run EXCEPT !.granted = Granted(plan) /\ envelope]
    <3>1. (Granted(plan) /\ envelope) \in BOOLEAN
      OBVIOUS
    <3>2. run \in RunStates
      BY <2>1, <3>1 DEF RunStates
    <3>3. decision[d].at = "resume" /\ Resumes(d, "execute", run)
      BY <2>3 DEF ResumeInterrupted
    <3> HIDE DEF run
    <3> QED BY <1>2, <3>2, <3>3
  <2>4. ASSUME NEW envelope \in Envelope, ResumeEarly(d, envelope)
        PROVE  Goal
    <3>1. PICK plan \in Plans :
             LET run == [Proposed(plan) EXCEPT !.granted = Granted(plan) /\ envelope]
             IN  Resumes(d, "execute", run) \/ Resumes(d, "read", Ended("waiting_approval"))
      BY <2>4 DEF ResumeEarly
    <3> DEFINE run == [Proposed(plan) EXCEPT !.granted = Granted(plan) /\ envelope]
    <3>2. (Granted(plan) /\ envelope) \in BOOLEAN /\ Proposed(plan) \in RunStates
      BY RunTypes
    <3>3. run \in RunStates /\ Ended("waiting_approval") \in RunStates
      <4>1. run \in RunStates
        BY <3>2 DEF RunStates
      <4> QED BY <4>1, RunTypes DEF Results
    <3>4. decision[d].at = "resume"
          /\ (Resumes(d, "execute", run) \/ Resumes(d, "read", Ended("waiting_approval")))
      BY <2>4, <3>1 DEF ResumeEarly
    <3> HIDE DEF run
    <3> QED BY <1>2, <3>3, <3>4
  <2>5. ASSUME NEW envelope \in Envelope, ResumeExecutes(d, envelope)
        PROVE  Goal
    <3>1. \E run \in RunStates : Resumes(d, "sent", run)
      BY <2>1, <2>5, ResultTypes, RunTypes DEF ResumeExecutes
    <3> QED BY <1>2, <2>5, <3>1 DEF ResumeExecutes
  <2>6. CASE ResumeCheckpoints(d)
    BY <1>2, <2>1, <2>6 DEF ResumeCheckpoints
  <2>7. CASE ResumeVerifies(d)
    <3>1. \E run \in RunStates : Resumes(d, "read", run)
      BY <2>1, <2>7, ResultTypes, RunTypes DEF ResumeVerifies
    <3> QED BY <1>2, <2>7, <3>1 DEF ResumeVerifies
  <2> QED BY <1>3, <2>2, <2>3, <2>4, <2>5, <2>6, <2>7 DEF DecisionStep, ReadDecided, PersistDecision, ApplyDecision
<1>4. ASSUME NEW d \in Decisions, ReadDecided(d) \/ PersistDecision(d) \/ ApplyDecision(d)
      PROVE  Goal
  <2>1. \A k \in Decisions \ {d} : decision'[k] = decision[k]
    BY <1>0, <1>4 DEF ReadDecided, PersistDecision, ApplyDecision
  <2>2. /\ decision'[d].at \notin {"resume", "execute", "sent", "verify"}
        /\ decision'[d].on \in {decision[d].on, Nothing}
        /\ decision'[d].seen \in {decision[d].seen, Nothing, case.thread}
    BY <1>0, <1>4 DEF ReadDecided, PersistDecision, ApplyDecision, DecisionType, Done
  <2> QED BY <1>1, <2>1, <2>2
<1>5. ASSUME NEW d \in Decisions, NEW choice \in {"approved", "rejected", "acknowledged"}, Decide(d, choice)
      PROVE  Goal
  <2>1. \A k \in Decisions \ {d} : decision'[k] = decision[k]
    BY <1>0, <1>5 DEF Decide
  <2>2. case.thread \in Tasks
    BY <1>5 DEF Decide, TypeOK, CaseType, Threads
  <2>3. CASE choice = "approved"
    <3>1. decision'[d].at = "resume" /\ decision'[d].on = case.thread /\ decision'[d].seen = decision[d].seen
      BY <1>0, <1>5, <2>3 DEF Decide, DecisionType
    <3> QED BY <1>1, <1>5, <2>1, <2>2, <2>3, <3>1
  <2>4. CASE choice # "approved"
    <3>1. decision'[d].at = "put" /\ decision'[d].on = decision[d].on /\ decision'[d].seen = case.thread
      BY <1>0, <1>5, <2>4 DEF Decide, DecisionType
    <3> QED BY <1>1, <2>1, <3>1
  <2> QED BY <2>3, <2>4
<1>6. CASE Crash
  <2>1. decision'[e] = decision[e] \/ decision'[e] = Done
    BY <1>6 DEF Crash
  <2> QED BY <1>1, <2>1 DEF Done
<1>7. CASE UNCHANGED decision
  BY <1>1, <1>7
<1>8. UNCHANGED decision \/ Crash
      \/ \E d \in Decisions : DecisionStep(d) \/ \E choice \in {"approved", "rejected", "acknowledged"} : Decide(d, choice)
  BY DEF Next, vars, ObserveClean, ConditionChanges, CooldownEnds, Observe, TaskStep, SpecialistFails,
         Claim, StartGraph, Specialist, PrepareApproval, ApprovalInterrupt, TaskExecutes, TaskCheckpoints,
         TaskVerifies, PersistGrant, FinishRun, ReadSummary, RecordResult
<1>9. ASSUME NEW d \in Decisions, DecisionStep(d)
      PROVE  decision[d].at \in {"resume", "execute", "sent", "verify"}
             \/ ReadDecided(d) \/ PersistDecision(d) \/ ApplyDecision(d)
  BY <1>9 DEF DecisionStep, Resume, ResumeInterrupted, ResumeEarly, ResumeExecutes, ResumeCheckpoints, ResumeVerifies
<1> HIDE DEF Goal
<1>10. Goal
  BY <1>3, <1>4, <1>5, <1>6, <1>7, <1>8, <1>9 DEF Goal
<1> QED BY <1>10 DEF Goal

LEMMA ReservedStep ==
    ASSUME TypeOK, HasThread, Reserved, [Next]_vars
    PROVE  HasThread' /\ Reserved'
<1>1. HasThread'
  BY DecisionSteps DEF HasThread
<1>2. ASSUME NEW t \in Tasks, t \in Refs'
      PROVE  t \in Refs \/ task[t].at \notin {"idle", "claim"}
  <2>1. t # Nothing
    BY InvestigationConstants
  <2>2. CASE case'.thread = t
    BY <2>2, CaseRefs
  <2>3. ASSUME NEW j \in Tasks, task'[j].seen = t
        PROVE  t \in Refs
    BY <2>1, <2>3, TaskSteps DEF Refs
  <2>4. ASSUME NEW d \in Decisions, decision'[d].on = t \/ decision'[d].seen = t
        PROVE  t \in Refs
    BY <2>1, <2>4, DecisionSteps DEF Refs
  <2> QED BY <1>2, <2>2, <2>3, <2>4 DEF Refs
<1>3. ASSUME NEW t \in Tasks, task'[t].at = "claim"
      PROVE  t \notin Refs'
  <2>1. CASE task[t].at = "claim"
    BY <1>2, <2>1 DEF Reserved
  <2>2. CASE Observe(t)
    <3>1. t \notin Refs /\ task[t].at = "idle"
      BY <2>2 DEF Observe, Free, Refs
    <3> QED BY <1>2, <3>1
  <2> QED BY <1>3, <2>1, <2>2, TaskSteps
<1> QED BY <1>1, <1>3 DEF Reserved

-----------------------------------------------------------------------------
(* The approvals. *)

\* The approval of a thread changes with the steps of its task and of the
\* decisions on it.
LEMMA BalanceSteps ==
    ASSUME TypeOK, HasThread, [Next]_vars, NEW t \in Tasks
    PROVE  \/ balance'[t] >= balance[t]
           \/ Claim(t) /\ balance'[t] = 0
           \/ /\ balance'[t] >= balance[t] - 1
              /\ \/ task[t].at = "execute" /\ task'[t].at = "sent"
                 \/ \E d \in Decisions : /\ decision[d].at = "execute" /\ decision[d].on = t
                                         /\ decision'[d].at = "sent"
<1> DEFINE Goal == \/ balance'[t] >= balance[t]
                   \/ Claim(t) /\ balance'[t] = 0
                   \/ /\ balance'[t] >= balance[t] - 1
                      /\ \/ task[t].at = "execute" /\ task'[t].at = "sent"
                         \/ \E d \in Decisions : /\ decision[d].at = "execute" /\ decision[d].on = t
                                                 /\ decision'[d].at = "sent"
<1>0. balance \in [Tasks -> Int]
  BY DEF TypeOK
<1>1. ASSUME UNCHANGED balance
      PROVE  Goal
  BY <1>0, <1>1
<1>2. ASSUME NEW u, balance' = [balance EXCEPT ![u] = @ + 1]
      PROVE  Goal
  BY <1>0, <1>2
<1>3. ASSUME NEW u, u # t, NEW x, balance' = [balance EXCEPT ![u] = x]
      PROVE  Goal
  BY <1>0, <1>3
<1>4. ASSUME NEW i \in Tasks, Claim(i)
      PROVE  Goal
  <2>1. balance' = [balance EXCEPT ![i] = 0] \/ UNCHANGED balance
    BY <1>4 DEF Claim
  <2> QED BY <1>0, <1>1, <1>3, <1>4, <2>1
<1>5. ASSUME NEW u, NEW result, Sent(u, result)
      PROVE  balance'[t] >= balance[t] \/ (u = t /\ balance'[t] >= balance[t] - 1)
  BY <1>0, <1>5 DEF Sent
<1>6. ASSUME NEW i \in Tasks, NEW envelope \in Envelope, TaskExecutes(i, envelope)
      PROVE  Goal
  <2>1. task[i].run \in RunStates
    BY DEF TypeOK, TaskType
  <2>2. PICK result \in Outcomes(task[i].run, envelope) :
           Runs(i, "sent", [task[i].run EXCEPT !.outcome = result.state]) /\ Sent(i, result)
    BY <1>6 DEF TaskExecutes
  <2>3. task'[i].at = "sent"
    BY <2>2 DEF Runs, TypeOK, TaskType
  <2> QED BY <1>5, <1>6, <2>2, <2>3 DEF TaskExecutes
<1>7. ASSUME NEW d \in Decisions, NEW envelope \in Envelope, ResumeExecutes(d, envelope)
      PROVE  Goal
  <2>1. PICK result \in Outcomes(decision[d].run, envelope) :
           /\ Resumes(d, "sent", [decision[d].run EXCEPT !.outcome = result.state])
           /\ Sent(decision[d].on, result)
    BY <1>7 DEF ResumeExecutes
  <2>2. decision'[d].at = "sent"
    BY <2>1 DEF Resumes, TypeOK, DecisionType
  <2> QED BY <1>5, <1>7, <2>1, <2>2 DEF ResumeExecutes
<1>8. ASSUME NEW i \in Tasks, NEW envelope \in Envelope, ApprovalInterrupt(i, envelope)
      PROVE  Goal
  BY <1>1, <1>2, <1>8 DEF ApprovalInterrupt
<1>9. ASSUME NEW d \in Decisions, NEW envelope \in Envelope, ResumeEarly(d, envelope)
      PROVE  Goal
  BY <1>1, <1>2, <1>9 DEF ResumeEarly
<1>10. ASSUME NEW d \in Decisions, NEW choice, Decide(d, choice)
       PROVE  Goal
  BY <1>1, <1>2, <1>10 DEF Decide
<1>11. ASSUME NEW i \in Tasks, TaskStep(i)
       PROVE  Goal
  BY <1>1, <1>4, <1>6, <1>8, <1>11 DEF TaskStep, StartGraph, Specialist, PrepareApproval, TaskCheckpoints,
         TaskVerifies, PersistGrant, FinishRun, ReadSummary, RecordResult
<1>12. ASSUME NEW d \in Decisions, DecisionStep(d)
       PROVE  Goal
  BY <1>1, <1>7, <1>9, <1>12 DEF DecisionStep, Resume, ResumeInterrupted, ResumeCheckpoints, ResumeVerifies,
         ReadDecided, PersistDecision, ApplyDecision
<1> HIDE DEF Goal
<1>13. \/ UNCHANGED balance \/ (\E i \in Tasks : TaskStep(i)) \/ \E d \in Decisions : DecisionStep(d)
       \/ \E d \in Decisions : \E choice : Decide(d, choice)
  BY DEF Next, vars, Observe, SpecialistFails, ObserveClean, ConditionChanges, CooldownEnds, Crash
<1>14. Goal
  <2>1. CASE \E i \in Tasks : TaskStep(i)
    BY <1>11, <2>1
  <2>2. CASE \E d \in Decisions : DecisionStep(d)
    BY <1>12, <2>2
  <2>3. CASE \E d \in Decisions : \E choice : Decide(d, choice)
    BY <1>10, <2>3
  <2> QED BY <1>1, <1>13, <2>1, <2>2, <2>3
<1> QED BY <1>14 DEF Goal

\* A thread's approvals go on covering what may yet be sent for it.
LEMMA CoveredStep ==
    ASSUME TypeOK, HasThread, Reserved, Covered, [Next]_vars
    PROVE  Covered'
<1> SUFFICES ASSUME NEW t \in Tasks
             PROVE  /\ IsFiniteSet(Owed(t)')
                    /\ Cardinality(Owed(t)') + TaskOwes(t)' <= balance'[t]
  BY DEF Covered
<1>1. /\ IsFiniteSet(Owed(t)) /\ Cardinality(Owed(t)) \in Nat
      /\ Cardinality(Owed(t)) + TaskOwes(t) <= balance[t]
      /\ balance[t] \in Int /\ balance'[t] \in Int
  BY FS_CardinalityType, TypeStep DEF Covered, TypeOK
<1>2. \A e \in Owed(t)' : e \in Owed(t) \/ (Decide(e, "approved") /\ case.thread = t)
  BY DecisionSteps DEF Owed
<1>3. TaskOwes(t)' <= TaskOwes(t)
      \/ (TaskOwes(t) = 0 /\ TaskOwes(t)' = 1 /\ \E envelope \in Envelope : ApprovalInterrupt(t, envelope))
  BY TaskSteps DEF TaskOwes
<1>4. TaskOwes(t) \in {0, 1} /\ TaskOwes(t)' \in {0, 1}
  BY DEF TaskOwes
<1>5. ASSUME NEW d \in Decisions, Decide(d, "approved"), case.thread = t
      PROVE  /\ IsFiniteSet(Owed(t)')
             /\ Cardinality(Owed(t)') + TaskOwes(t)' <= balance'[t]
  <2>1. balance'[t] = balance[t] + 1 /\ task' = task
    BY <1>5 DEF Decide, TypeOK
  <2>2. \A e \in Decisions \ {d} : decision'[e] = decision[e]
    BY <1>5 DEF Decide, TypeOK
  <2>3. Owed(t)' \subseteq Owed(t) \cup {d}
    BY <2>2 DEF Owed
  <2>4. IsFiniteSet(Owed(t) \cup {d}) /\ Cardinality(Owed(t) \cup {d}) <= Cardinality(Owed(t)) + 1
        /\ Cardinality(Owed(t) \cup {d}) \in Nat
    BY <1>1, FS_AddElement, FS_CardinalityType
  <2>5. IsFiniteSet(Owed(t)') /\ Cardinality(Owed(t)') <= Cardinality(Owed(t) \cup {d}) /\ Cardinality(Owed(t)') \in Nat
    BY <2>3, <2>4, FS_Subset, FS_CardinalityType
  <2>6. TaskOwes(t)' = TaskOwes(t)
    BY <2>1 DEF TaskOwes
  <2> QED BY <1>1, <1>4, <2>1, <2>4, <2>5, <2>6
<1>6. ASSUME ~(\E d \in Decisions : Decide(d, "approved") /\ case.thread = t)
      PROVE  /\ IsFiniteSet(Owed(t)')
             /\ Cardinality(Owed(t)') + TaskOwes(t)' <= balance'[t]
  <2>1. Owed(t)' \subseteq Owed(t)
    BY <1>2, <1>6 DEF Owed
  <2>2. IsFiniteSet(Owed(t)') /\ Cardinality(Owed(t)') <= Cardinality(Owed(t)) /\ Cardinality(Owed(t)') \in Nat
    BY <1>1, <2>1, FS_Subset, FS_CardinalityType
  <2>3. CASE Claim(t) /\ balance'[t] = 0
    <3>1. t \notin Refs
      BY <2>3 DEF Claim, Reserved
    <3>2. Owed(t) = {}
      BY <3>1 DEF Owed, Refs
    <3>3. Owed(t)' = {} /\ Cardinality({}) = 0
      BY <2>1, <3>2, FS_EmptySet
    <3>4. task'[t].at # "execute"
      BY <2>3, TaskSteps DEF Claim, ApprovalInterrupt
    <3> QED BY <2>2, <2>3, <3>3, <3>4 DEF TaskOwes
  <2>4. ASSUME NEW envelope \in Envelope, ApprovalInterrupt(t, envelope)
        PROVE  Cardinality(Owed(t)') + TaskOwes(t)' <= balance'[t]
    <3>1. TaskOwes(t) = 0
      BY <2>4 DEF ApprovalInterrupt, TaskOwes
    <3>2. CASE balance' = [balance EXCEPT ![t] = @ + 1]
      BY <1>1, <1>4, <2>2, <3>1, <3>2 DEF TypeOK
    <3>3. CASE UNCHANGED balance /\ Runs(t, "ending", NewRun)
      <4>1. task'[t].at = "ending"
        BY <3>3 DEF Runs, TypeOK, TaskType
      <4> QED BY <1>1, <2>2, <3>1, <3>3, <4>1 DEF TaskOwes
    <3> QED BY <2>4, <3>2, <3>3 DEF ApprovalInterrupt
  <2>5. CASE TaskOwes(t)' <= TaskOwes(t) /\ balance'[t] >= balance[t]
    BY <1>1, <1>4, <2>2, <2>5
  <2>6. CASE balance'[t] >= balance[t] - 1 /\ task[t].at = "execute" /\ task'[t].at = "sent"
    <3>1. TaskOwes(t) = 1 /\ TaskOwes(t)' = 0
      BY <2>6 DEF TaskOwes
    <3> QED BY <1>1, <2>2, <2>6, <3>1
  <2>7. ASSUME NEW d \in Decisions, decision[d].at = "execute", decision[d].on = t, decision'[d].at = "sent",
               balance'[t] >= balance[t] - 1, TaskOwes(t)' <= TaskOwes(t)
        PROVE  Cardinality(Owed(t)') + TaskOwes(t)' <= balance'[t]
    <3>1. d \in Owed(t) /\ d \notin Owed(t)'
      BY <2>7 DEF Owed
    <3>2. Owed(t)' \subseteq Owed(t) \ {d}
      BY <2>1, <3>1
    <3>3. IsFiniteSet(Owed(t) \ {d}) /\ Cardinality(Owed(t) \ {d}) = Cardinality(Owed(t)) - 1
      BY <1>1, <3>1, FS_RemoveElement
    <3>4. Cardinality(Owed(t)') <= Cardinality(Owed(t)) - 1
      BY <3>2, <3>3, FS_Subset
    <3> QED BY <1>1, <1>4, <2>2, <2>7, <3>4
  <2> QED BY <1>3, <2>2, <2>3, <2>4, <2>5, <2>6, <2>7, BalanceSteps
<1> QED BY <1>5, <1>6

-----------------------------------------------------------------------------
(* The claims. *)

\* What a step that neither observes nor claims does to a task: it starts no
\* run, and one that goes on has moved if it had.
Steady(j) ==
    /\ task'[j].at \in Running => task[j].at \in Running /\ (task[j].moved => task'[j].moved)
    /\ task'[j].at = "claim" => task[j].at = "claim" /\ (task'[j].current => task[j].current)

\* The tasks after Moved and Stamped.
LEMMA MarkedTasks ==
    ASSUME TypeOK, NEW j \in Tasks
    PROVE  /\ Moved[j].at = task[j].at /\ Moved[j].current = task[j].current
           /\ task[j].at \in Running => Moved[j].moved
           /\ Stamped(task)[j].at = task[j].at /\ Stamped(task)[j].moved = task[j].moved
           /\ Stamped(task)[j].current = FALSE
<1>1. task[j] \in TaskType
  BY DEF TypeOK
<1>2. /\ Moved[j] = [task[j] EXCEPT !.moved = task[j].moved \/ task[j].at \notin {"idle", "claim"}]
      /\ Stamped(task)[j] = [task[j] EXCEPT !.current = FALSE]
  BY DEF Moved, Stamped
<1>3. task[j].at \in Running => task[j].at \notin {"idle", "claim"}
  BY DEF Running
<1> QED BY <1>1, <1>2, <1>3 DEF TaskType

LEMMA TasksSteady ==
    ASSUME TypeOK, HasThread, [Next]_vars, NEW j \in Tasks,
           ~(\E i \in Tasks : Observe(i) \/ Claim(i))
    PROVE  Steady(j)
<1>0. task[j] \in TaskType /\ task \in [Tasks -> TaskType] /\ \A i \in Tasks : task[i].run \in RunStates
  BY DEF TypeOK, TaskType
<1>1. ASSUME task'[j] = task[j]
      PROVE  Steady(j)
  BY <1>1 DEF Steady
<1>2. ASSUME task'[j].at = "idle"
      PROVE  Steady(j)
  BY <1>2 DEF Steady, Running
<1>3. ASSUME NEW i \in Tasks, task[i].at \in Running, NEW place \in Running, At(i, place)
      PROVE  Steady(j)
  <2>1. task'[i] = [task[i] EXCEPT !.at = place] /\ \A k \in Tasks \ {i} : task'[k] = task[k]
    BY <1>3, AtType
  <2>2. CASE j = i
    <3>1. task'[j].at = place /\ task'[j].moved = task[j].moved
      BY <1>0, <2>1, <2>2 DEF TaskType
    <3> QED BY <1>3, <2>2, <3>1 DEF Steady, Running
  <2> QED BY <1>1, <2>1, <2>2
<1>4. ASSUME NEW i \in Tasks, task[i].at \in Running, NEW place \in Running, NEW run \in RunStates,
             Runs(i, place, run)
      PROVE  Steady(j)
  <2>1. task'[i] = [task[i] EXCEPT !.at = place, !.run = run] /\ \A k \in Tasks \ {i} : task'[k] = task[k]
    <3>1. task' = [task EXCEPT ![i] = [task[i] EXCEPT !.at = place, !.run = run]]
      BY <1>0, <1>4 DEF Runs
    <3> QED BY <1>0, <3>1
  <2>2. CASE j = i
    <3>1. task'[j].at = place /\ task'[j].moved = task[j].moved
      BY <1>0, <2>1, <2>2 DEF TaskType
    <3> QED BY <1>4, <2>2, <3>1 DEF Steady, Running
  <2> QED BY <1>1, <2>1, <2>2
<1>5. Idle.at = "idle"
  BY DEF Idle
<1>6. ASSUME NEW i \in Tasks, StartGraph(i) \/ PrepareApproval(i) \/ FinishRun(i) \/ TaskCheckpoints(i)
      PROVE  Steady(j)
  BY <1>3, <1>6 DEF StartGraph, PrepareApproval, FinishRun, TaskCheckpoints, Running
<1>7. ASSUME NEW i \in Tasks, Specialist(i) \/ TaskVerifies(i) \/ PersistGrant(i)
      PROVE  Steady(j)
  <2>1. task[i].at \in Running
    BY <1>7 DEF Specialist, TaskVerifies, PersistGrant, Running
  <2>2. \E place \in Running, run \in RunStates : Runs(i, place, run)
    <3>1. CASE Specialist(i)
      BY <3>1, RunTypes DEF Specialist, Running
    <3>2. CASE TaskVerifies(i)
      BY <1>0, <3>2, RunTypes, ResultTypes DEF TaskVerifies, Running
    <3>3. CASE PersistGrant(i)
      BY <3>3, RunTypes DEF PersistGrant, Running
    <3> QED BY <1>7, <3>1, <3>2, <3>3
  <2> QED BY <1>4, <2>1, <2>2
<1>8. ASSUME NEW i \in Tasks, NEW envelope \in Envelope, TaskExecutes(i, envelope) \/ ApprovalInterrupt(i, envelope)
      PROVE  Steady(j)
  <2>1. task[i].at \in Running
    BY <1>8 DEF TaskExecutes, ApprovalInterrupt, Running
  <2>2. \E place \in Running, run \in RunStates : Runs(i, place, run)
    <3>1. CASE TaskExecutes(i, envelope)
      BY <1>0, <3>1, RunTypes, ResultTypes DEF TaskExecutes, Running
    <3>2. CASE ApprovalInterrupt(i, envelope)
      BY <1>0, <3>2, RunTypes DEF ApprovalInterrupt, Running
    <3> QED BY <1>8, <3>1, <3>2
  <2> QED BY <1>4, <2>1, <2>2
<1>9. ASSUME NEW i \in Tasks, ReadSummary(i)
      PROVE  Steady(j)
  <2>1. task' = [task EXCEPT ![i] = [task[i] EXCEPT !.at = "record", !.seen = case.thread]]
        \/ task' = [task EXCEPT ![i] = Idle]
    BY <1>0, <1>9 DEF ReadSummary
  <2>2. CASE j = i
    <3>1. task'[j].at = "idle" \/ (task'[j].at = "record" /\ task'[j].moved = task[j].moved)
      <4>1. task'[j] = [task[j] EXCEPT !.at = "record", !.seen = case.thread] \/ task'[j] = Idle
        BY <1>0, <2>1, <2>2
      <4> QED BY <1>0, <1>5, <4>1 DEF TaskType
    <3>2. task[j].at \in Running
      BY <1>9, <2>2 DEF ReadSummary, Running
    <3> QED BY <1>2, <3>1, <3>2 DEF Steady
  <2> QED BY <1>0, <1>1, <2>1, <2>2
<1>10. ASSUME NEW i \in Tasks, RecordResult(i)
       PROVE  Steady(j)
  <2>1. task' = [Stamped(task) EXCEPT ![i] = Idle] /\ Stamped(task) \in [Tasks -> TaskType]
    BY <1>0, <1>10, IntakeTypes DEF RecordResult
  <2>2. task'[j] = Stamped(task)[j] \/ task'[j] = Idle
    BY <2>1
  <2> QED BY <1>2, <1>5, <2>2, MarkedTasks DEF Steady
<1>11. ASSUME NEW i \in Tasks, SpecialistFails(i)
       PROVE  Steady(j)
  BY <1>0, <1>1, <1>2, <1>5, <1>11 DEF SpecialistFails
<1>12. CASE CooldownEnds
  BY <1>12, MarkedTasks DEF CooldownEnds, Steady
<1>13. CASE Crash
  BY <1>2, <1>5, <1>13 DEF Crash
<1>14. CASE UNCHANGED task
  BY <1>1, <1>14
<1>15. \/ UNCHANGED task \/ CooldownEnds \/ Crash
       \/ \E i \in Tasks : TaskStep(i) \/ SpecialistFails(i)
  BY DEF Next, vars, ObserveClean, ConditionChanges, Decide, DecisionStep, Resume, ResumeInterrupted, ResumeEarly,
         ResumeExecutes, ResumeCheckpoints, ResumeVerifies, ReadDecided, PersistDecision, ApplyDecision
<1> QED BY <1>6, <1>7, <1>8, <1>9, <1>10, <1>11, <1>12, <1>13, <1>14, <1>15 DEF TaskStep

\* Only an observation of another signal and the end of the cooldown end the
\* calm of a case, and both mark the running investigations.
LEMMA CalmStays ==
    ASSUME TypeOK, HasThread, [Next]_vars, Calm, ~(\E i \in Tasks : Observe(i) \/ Claim(i)), ~CooldownEnds
    PROVE  Calm'
<1>0. case \in CaseType
  BY DEF TypeOK
<1>1. ASSUME NEW i \in Tasks, StartGraph(i) \/ Specialist(i) \/ PrepareApproval(i) \/ FinishRun(i)
             \/ PersistGrant(i) \/ RecordResult(i)
      PROVE  Calm'
  BY <1>0, <1>1 DEF StartGraph, Specialist, PrepareApproval, FinishRun, PersistGrant, RecordResult,
         Linked, Waiting, Decided, CaseType, Calm
<1>2. ASSUME NEW d \in Decisions, PersistDecision(d) \/ ApplyDecision(d) \/ \E envelope \in Envelope : ResumeEarly(d, envelope)
      PROVE  Calm'
  BY <1>0, <1>2 DEF PersistDecision, ApplyDecision, ResumeEarly, Waiting, Decided, CaseType, Calm
<1>3. CASE ObserveClean
  BY <1>0, <1>3 DEF ObserveClean, CaseType, Calm
<1>4. CASE UNCHANGED case
  BY <1>4 DEF Calm
<1>5. ASSUME NEW i \in Tasks, TaskStep(i)
      PROVE  Calm'
  BY <1>1, <1>4, <1>5 DEF TaskStep, ApprovalInterrupt, TaskExecutes, TaskCheckpoints, TaskVerifies, ReadSummary
<1>6. ASSUME NEW d \in Decisions, DecisionStep(d)
      PROVE  Calm'
  BY <1>2, <1>4, <1>6 DEF DecisionStep, Resume, ResumeInterrupted, ResumeExecutes, ResumeCheckpoints,
         ResumeVerifies, ReadDecided
<1>7. \/ UNCHANGED case \/ ObserveClean
      \/ (\E i \in Tasks : TaskStep(i)) \/ \E d \in Decisions : DecisionStep(d)
  BY DEF Next, vars, ConditionChanges, Decide, Crash, SpecialistFails
<1> QED BY <1>3, <1>4, <1>5, <1>6, <1>7

\* An observation claims nothing, keeps the calm it finds or marks the running
\* investigations, and waits to claim only a case that is not calm.
LEMMA ObserveClaims ==
    ASSUME TypeOK, ClaimsInv, NEW i \in Tasks, Observe(i)
    PROVE  ClaimsInv'
<1> DEFINE now == [case EXCEPT !.signal = firing,
                               !.status = IF @ = "resolved" THEN "investigating" ELSE @]
           tasks == IF case.signal = firing THEN task ELSE Moved
           claim == [Idle EXCEPT !.at = "claim", !.signal = now.signal, !.diagnosed = now.diagnosed,
                                 !.current = TRUE]
<1>0. case \in CaseType /\ task \in [Tasks -> TaskType] /\ tasks \in [Tasks -> TaskType]
  BY IntakeTypes DEF TypeOK
<1>1. /\ case' = now
      /\ task' = tasks \/ (ShouldInvestigate(now) /\ task' = [tasks EXCEPT ![i] = claim])
  BY DEF Observe
<1>2. now.signal = firing /\ now.diagnosed = case.diagnosed /\ now.last = case.last
  BY <1>0 DEF CaseType
<1>3. \A j \in Tasks : /\ tasks[j].at = task[j].at /\ tasks[j].current = task[j].current
                       /\ task[j].at \in Running /\ task[j].moved => tasks[j].moved
                       /\ task[j].at \in Running /\ case.signal # firing => tasks[j].moved
  BY MarkedTasks
<1>4. claim.at = "claim"
  BY DEF Idle
<1>5. "claim" \notin Running
  BY DEF Running
<1>6. ShouldInvestigate(now) => ~(now.diagnosed = now.signal /\ now.last = "recent")
  BY DEF ShouldInvestigate
<1> HIDE DEF now, tasks, claim
<1>7. \A j \in Tasks :
        /\ task'[j].at \in Running => task[j].at \in Running /\ task'[j].at = tasks[j].at /\ task'[j].moved = tasks[j].moved
        /\ task'[j].at = "claim" => (task[j].at = "claim" /\ task'[j].current = task[j].current) \/ ShouldInvestigate(now)
  BY <1>0, <1>1, <1>3, <1>4, <1>5
<1>8. UnmovedAreCalm'
  BY <1>1, <1>2, <1>3, <1>7 DEF ClaimsInv, UnmovedAreCalm, Calm
<1>9. ClaimsWait'
  <2>1. ASSUME ShouldInvestigate(now), NEW j \in Tasks, task'[j].at \in Running
        PROVE  task'[j].moved
    BY <1>1, <1>6, <1>8, <2>1 DEF UnmovedAreCalm, Calm
  <2>2. ASSUME NEW k \in Tasks, task[k].at = "claim", task[k].current, NEW j \in Tasks, task'[j].at \in Running
        PROVE  task'[j].moved
    BY <1>3, <1>7, <2>2 DEF ClaimsInv, ClaimsWait
  <2> QED BY <1>7, <2>1, <2>2 DEF ClaimsWait
<1>10. ClaimsExclude'
  BY <1>3, <1>7 DEF ClaimsInv, ClaimsExclude
<1> QED BY <1>8, <1>9, <1>10 DEF ClaimsInv

\* A claim that goes through finds only investigations that moved on, makes the
\* case calm and is the last for what the other webhooks read.
LEMMA ClaimClaims ==
    ASSUME TypeOK, ClaimsInv, NEW i \in Tasks, Claim(i)
    PROVE  ClaimsInv'
<1> DEFINE claimed == [Idle EXCEPT !.at = "queued", !.about = case.signal]
<1>0. case \in CaseType /\ task \in [Tasks -> TaskType] /\ Stamped(task) \in [Tasks -> TaskType]
  BY IntakeTypes DEF TypeOK
<1>1. "claim" \notin Running /\ "idle" \notin Running /\ Idle.at = "idle"
  BY DEF Running, Idle
<1>2. CASE ~Claimable(i)
  <2>1. task' = [task EXCEPT ![i] = Idle] /\ case' = case
    BY <1>2 DEF Claim
  <2>2. \A j \in Tasks : task'[j] = task[j] \/ task'[j].at = "idle"
    BY <1>0, <1>1, <2>1
  <2> QED BY <1>1, <2>1, <2>2 DEF ClaimsInv, UnmovedAreCalm, ClaimsWait, ClaimsExclude, Calm
<1>3. CASE Claimable(i)
  <2>1. /\ case' = [case EXCEPT !.diagnosed = case.signal, !.last = "recent"]
        /\ task' = [Stamped(task) EXCEPT ![i] = claimed]
    BY <1>3 DEF Claim
  <2>2. Calm'
    BY <1>0, <2>1 DEF Calm, CaseType
  <2>3. claimed.at = "queued"
    BY DEF Idle
  <2> HIDE DEF claimed
  <2>4. /\ task'[i].at = "queued"
        /\ \A j \in Tasks \ {i} : /\ task'[j].at = task[j].at /\ task'[j].moved = task[j].moved
                                  /\ task'[j].current = FALSE
    BY <1>0, <2>1, <2>3, MarkedTasks
  <2>5. \A j \in Tasks : task[j].at \in Running => task[j].moved
    BY <1>3 DEF Claim, Claimable, ClaimsInv, ClaimsWait
  <2>6. ClaimsWait'
    BY <2>4 DEF ClaimsWait
  <2>7. ClaimsExclude'
    BY <2>4, <2>5 DEF ClaimsExclude
  <2> QED BY <2>2, <2>6, <2>7 DEF ClaimsInv, UnmovedAreCalm
<1> QED BY <1>2, <1>3

LEMMA ClaimsStep ==
    ASSUME TypeOK, HasThread, ClaimsInv, [Next]_vars
    PROVE  ClaimsInv'
<1>1. CASE \E i \in Tasks : Observe(i) \/ Claim(i)
  BY <1>1, ObserveClaims, ClaimClaims
<1>2. CASE ~(\E i \in Tasks : Observe(i) \/ Claim(i))
  <2>1. \A j \in Tasks : Steady(j)
    BY <1>2, TasksSteady
  <2>2. ClaimsWait' /\ ClaimsExclude'
    BY <2>1 DEF ClaimsInv, ClaimsWait, ClaimsExclude, Steady
  <2>3. CASE CooldownEnds
    <3>1. \A j \in Tasks : task'[j].at \in Running => task'[j].moved
      BY <2>3, MarkedTasks DEF CooldownEnds
    <3> QED BY <2>2, <3>1 DEF ClaimsInv, UnmovedAreCalm
  <2>4. CASE ~CooldownEnds
    <3>1. Calm => Calm'
      BY <1>2, <2>4, CalmStays
    <3> QED BY <2>1, <2>2, <3>1 DEF ClaimsInv, UnmovedAreCalm, Steady
  <2> QED BY <2>3, <2>4
<1> QED BY <1>1, <1>2

-----------------------------------------------------------------------------
(* The theorems. *)

\* The invariant of an investigation: types, threads that decisions resume,
\* threads about to be claimed, approvals and claims.
THEOREM InvestigationInvariant == Spec => []InvestigationInv
<1>1. Init => InvestigationInv
  <2> SUFFICES ASSUME Init PROVE InvestigationInv
    OBVIOUS
  <2>1. TypeOK
    <3>1. NewCase \in CaseType
      BY DEF NewCase, CaseType, Signatures, Threads
    <3>2. NewThread \in ThreadType
      BY RunTypes DEF NewThread, ThreadType
    <3>3. [at |-> "new", on |-> Nothing, seen |-> Nothing, run |-> NewRun] \in DecisionType
      BY RunTypes DEF DecisionType, Threads
    <3>4. Idle \in TaskType
      BY RunTypes DEF Idle, TaskType, Signatures, Threads
    <3> QED BY <3>1, <3>2, <3>3, <3>4, InvestigationConstants DEF Init, TypeOK, Signatures
  <2>2. HasThread /\ Reserved /\ ClaimsInv
    BY DEF Init, HasThread, Reserved, ClaimsInv, UnmovedAreCalm, ClaimsWait, ClaimsExclude, Idle, Running
  <2>3. Covered
    <3> SUFFICES ASSUME NEW t \in Tasks
                 PROVE  IsFiniteSet(Owed(t)) /\ Cardinality(Owed(t)) + TaskOwes(t) <= balance[t]
      BY DEF Covered
    <3>1. Owed(t) = {} /\ TaskOwes(t) = 0 /\ balance[t] = 0
      BY DEF Init, Owed, TaskOwes, Idle
    <3> QED BY <3>1, FS_EmptySet
  <2> QED BY <2>1, <2>2, <2>3 DEF InvestigationInv, ApprovalsInv
<1>2. InvestigationInv /\ [Next]_vars => InvestigationInv'
  BY TypeStep, ReservedStep, CoveredStep, ClaimsStep DEF InvestigationInv, ApprovalsInv
<1> QED BY <1>1, <1>2, PTL DEF Spec

\* Whatever is sent to hosts for a thread was approved for it, each time anew,
\* by an operator or by the standing grant, through resumes next to the task,
\* resumes before the interrupt, crashes and reused threads
\* (approval_interrupt, resume_investigation_graph).
THEOREM ApprovalInvariant == Spec => []ApprovalInv
<1>1. InvestigationInv => ApprovalInv
  <2> SUFFICES ASSUME InvestigationInv, NEW t \in Tasks PROVE balance[t] >= 0
    BY DEF InvestigationInv, ApprovalInv, ExecutedAsApproved
  <2>1. IsFiniteSet(Owed(t)) /\ Cardinality(Owed(t)) + TaskOwes(t) <= balance[t] /\ balance[t] \in Int
    BY DEF InvestigationInv, ApprovalsInv, Covered, TypeOK
  <2>2. Cardinality(Owed(t)) \in Nat /\ TaskOwes(t) \in {0, 1}
    BY <2>1, FS_CardinalityType DEF TaskOwes
  <2> QED BY <2>1, <2>2
<1> QED BY <1>1, InvestigationInvariant, PTL

\* Two investigations of a case run at once only if its signal changed or its
\* cooldown ended after one of them was claimed (claim_investigation,
\* should_investigate).
THEOREM ClaimsExcludeEachOther == Spec => []ClaimsExclude
<1>1. InvestigationInv => ClaimsExclude
  BY DEF InvestigationInv, ClaimsInv
<1> QED BY <1>1, InvestigationInvariant, PTL
===============================================================================
