------------------------- MODULE KnowledgeArtifacts -------------------------
(***************************************************************************)
(* The knowledge loop of one case: proposals of learning artifacts and     *)
(* requests for context, both delivered through the outbox, and the review *)
(* of artifacts at the console (src/app/knowledge/lhp.py, promotion.py,    *)
(* src/app/cases/service.py, postgres.py and the console in main.py).      *)
(*                                                                         *)
(* What an artifact says is the learning event it was proposed with; a     *)
(* retrieval is the set of documents it cites.  Each store call is one     *)
(* transaction, and so is a write of the case under case_write_guard.      *)
(***************************************************************************)
EXTENDS Sequences, FiniteSets

CONSTANTS
    Requests,       \* <<handoff, outcome>> of the proposals that may be asked for
    Outcome,        \* outcomes of the case, to be recorded in any order
    Question,       \* objective keys that context is asked for
    Citation,       \* documents of the knowledge export
    Summaries,      \* types proposed with an outcome, in order
    Guarded,        \* outcomes whose metadata call for a guardrail proposal too
    Decisions,      \* ReviewStatus values an operator may give
    Nothing,        \* no handoff, no outcome
    Worker,         \* outbox workers
    Reviewer        \* review requests in progress

VARIABLES
    outcomes,   \* outcome_records of the case, oldest first
    proposal,   \* outbox rows knowledge_artifact_proposed, by idempotency key
    question,   \* outbox rows knowledge_context_requested
    worker,     \* what each worker is doing
    place,      \* what is at knowledge_candidate_dir, and the events found there
    artifact,   \* knowledge_artifacts of the case, by type
    review,     \* what each review request has read
    case        \* trace_ids and knowledge_citations of the case

vars == <<outcomes, proposal, question, worker, place, artifact, review, case>>

\* review_status, and the status it gives an artifact.
ReviewStatus == {"pending", "approved", "rejected", "superseded", "deprecated", "published"}

\* The types proposed without an outcome, and after the summaries of one.
Gap == "learning_gap_recorded"
Guardrail == "schema_tool_guardrail_improvement_proposal"
Types == {Gap, Guardrail} \cup {Summaries[i] : i \in DOMAIN Summaries}

\* The idempotency key of a proposal, without its constant prefix.
KeyOf(request) ==
    CASE request[1] # Nothing -> request[1]
      [] request[1] = Nothing /\ request[2] # Nothing -> request[2]
      [] OTHER -> "case"

\* _learning_event_id of the outcome that was selected.
EventId(handoff, outcome) ==
    CASE outcome # Nothing -> outcome
      [] outcome = Nothing /\ handoff # Nothing -> handoff
      [] OTHER -> "gap"

Keys == {KeyOf(request) : request \in Requests}
Handoffs == {request[1] : request \in Requests} \cup {Nothing}
Events == {EventId(h, o) : h \in Handoffs, o \in Outcome \cup {Nothing}}

Absent == [event |-> Nothing, status |-> "absent", review |-> "absent", judged |-> Nothing]

Idle == [at |-> "idle"]

Init ==
    /\ outcomes = <<>>
    /\ proposal = [k \in Keys |-> [status |-> "none", handoff |-> Nothing, outcome |-> Nothing]]
    /\ question = [q \in Question |-> [status |-> "none", refs |-> {}]]
    /\ worker = [w \in Worker |-> Idle]
    /\ place \in [is : {"directory", "missing"}, holds : {{}}]
    /\ artifact = [t \in Types |-> Absent]
    /\ review = [r \in Reviewer |-> Idle]
    /\ case = [traces |-> {}, citations |-> {}]

(***************************************************************************)
(* Requests.                                                               *)
(***************************************************************************)
\* The verifier or the console records an outcome.
RecordOutcome(o) ==
    /\ o \notin {outcomes[i] : i \in DOMAIN outcomes}
    /\ outcomes' = Append(outcomes, o)
    /\ UNCHANGED <<proposal, question, worker, place, artifact, review, case>>

\* The first request with a key enqueues its intent; what a later one asks for
\* is lost.
RequestProposal(request) ==
    /\ proposal[KeyOf(request)].status = "none"
    /\ proposal' = [proposal EXCEPT ![KeyOf(request)] =
                      [status |-> "pending", handoff |-> request[1], outcome |-> request[2]]]
    /\ UNCHANGED <<outcomes, question, worker, place, artifact, review, case>>

RequestContext(q) ==
    /\ question[q].status = "none"
    /\ question' = [question EXCEPT ![q].status = "pending"]
    /\ UNCHANGED <<outcomes, proposal, worker, place, artifact, review, case>>

(***************************************************************************)
(* Proposing artifacts: build_lhp_knowledge_artifact_handler.              *)
(***************************************************************************)
\* A worker claims a row that waits or has failed.
ClaimProposal(w, k) ==
    /\ worker[w] = Idle
    /\ proposal[k].status \in {"pending", "failed"}
    /\ proposal' = [proposal EXCEPT ![k].status = "in_progress"]
    /\ worker' = [worker EXCEPT ![w] = [at |-> "gather", key |-> k]]
    /\ UNCHANGED <<outcomes, question, place, artifact, review, case>>

\* _select_outcome: the one asked for, or else the latest.
SelectedOutcome(wanted) ==
    CASE wanted \in {outcomes[i] : i \in DOMAIN outcomes} -> wanted
      [] wanted \notin {outcomes[i] : i \in DOMAIN outcomes} /\ outcomes # <<>> -> outcomes[Len(outcomes)]
      [] OTHER -> Nothing

\* _guardrail_applicable, of the outcome's metadata.
Guardrails(outcome) == IF outcome \in Guarded THEN <<Guardrail>> ELSE <<>>

\* build_knowledge_artifact_proposals, in the order they are stored.
Proposed(outcome) ==
    IF outcome = Nothing THEN <<Gap>> ELSE Summaries \o Guardrails(outcome)

\* The case is read, the outcome selected and the artifacts built in memory.
Gather(w) ==
    /\ worker[w].at = "gather"
    /\ LET row == proposal[worker[w].key]
           outcome == SelectedOutcome(row.outcome) IN
         worker' = [worker EXCEPT ![w] =
                      [at |-> "write", key |-> worker[w].key, todo |-> Proposed(outcome),
                       event |-> EventId(row.handoff, outcome)]]
    /\ UNCHANGED <<outcomes, proposal, question, place, artifact, review, case>>

\* Mutant: the candidate is written once the artifacts are stored.
WrittenLast(event) == place

\* write_lesson_candidate_event.  A path that is no directory is taken for the
\* file itself: the first event creates it, and every later one replaces it.
Written(event) ==
    IF place.is = "directory" THEN [place EXCEPT !.holds = @ \cup {event}]
                              ELSE [is |-> "file", holds |-> {event}]

\* The candidate event exists before any artifact refers to it.
WriteCandidate(w) ==
    /\ worker[w].at = "write"
    /\ place' = Written(worker[w].event)
    /\ worker' = [worker EXCEPT ![w].at = "record"]
    /\ UNCHANGED <<outcomes, proposal, question, artifact, review, case>>

\* Mutant: a conflict leaves the review as it is.
StoredKeepingReview(old, event) ==
    IF old = Absent THEN [event |-> event, status |-> "proposed", review |-> "pending", judged |-> Nothing]
                    ELSE [old EXCEPT !.event = event]

\* An artifact of a type the case already has replaces its content, and its
\* review starts over.
Stored(old, event) ==
    [event |-> event, status |-> "proposed", review |-> "pending", judged |-> Nothing]

\* The next artifact, in a transaction of its own.
RecordArtifact(w) ==
    /\ worker[w].at = "record" /\ worker[w].todo # <<>>
    /\ LET t == Head(worker[w].todo) IN
         artifact' = [artifact EXCEPT ![t] = Stored(@, worker[w].event)]
    /\ worker' = [worker EXCEPT ![w].todo = Tail(@)]
    /\ UNCHANGED <<outcomes, proposal, question, place, review, case>>

SettleProposal(w) ==
    /\ worker[w].at = "record" /\ worker[w].todo = <<>>
    /\ proposal' = [proposal EXCEPT ![worker[w].key].status = "succeeded"]
    /\ worker' = [worker EXCEPT ![w] = Idle]
    /\ UNCHANGED <<outcomes, question, place, artifact, review, case>>

(***************************************************************************)
(* Context: build_lhp_knowledge_context_handler.                           *)
(***************************************************************************)
ClaimContext(w, q) ==
    /\ worker[w] = Idle
    /\ question[q].status \in {"pending", "failed"}
    /\ question' = [question EXCEPT ![q].status = "in_progress"]
    /\ worker' = [worker EXCEPT ![w] = [at |-> "retrieve", question |-> q]]
    /\ UNCHANGED <<outcomes, proposal, place, artifact, review, case>>

\* Whatever the export has on the case at this time.
Retrieve(w) ==
    /\ worker[w].at = "retrieve"
    /\ \E refs \in SUBSET Citation :
         worker' = [worker EXCEPT ![w] = [at |-> "trace", question |-> worker[w].question, refs |-> refs]]
    /\ UNCHANGED <<outcomes, proposal, question, place, artifact, review, case>>

\* record_trace; the id of a trace is that of its references.
RecordTrace(w) ==
    /\ worker[w].at = "trace"
    /\ case' = [case EXCEPT !.traces = @ \cup {worker[w].refs}]
    /\ worker' = [worker EXCEPT ![w].at = "cite"]
    /\ UNCHANGED <<outcomes, proposal, question, place, artifact, review>>

\* Citations the case has are kept, new ones added.
Cited(refs) == case.citations \cup refs

\* record_knowledge_citations.
RecordCitations(w) ==
    /\ worker[w].at = "cite"
    /\ LET refs == worker[w].refs IN
         case' = [traces |-> case.traces \cup {refs}, citations |-> Cited(refs)]
    /\ worker' = [worker EXCEPT ![w].at = "answered"]
    /\ UNCHANGED <<outcomes, proposal, question, place, artifact, review>>

SettleContext(w) ==
    /\ worker[w].at = "answered"
    /\ question' = [question EXCEPT ![worker[w].question] =
                      [status |-> "succeeded", refs |-> worker[w].refs]]
    /\ worker' = [worker EXCEPT ![w] = Idle]
    /\ UNCHANGED <<outcomes, proposal, place, artifact, review, case>>

(***************************************************************************)
(* Failure.                                                                *)
(***************************************************************************)
\* The handler raises, at any of its awaits: what it did stays done.
Fail(w) ==
    /\ worker[w] # Idle
    /\ IF "key" \in DOMAIN worker[w]
         THEN /\ proposal' = [proposal EXCEPT ![worker[w].key].status = "failed"]
              /\ UNCHANGED question
         ELSE /\ question' = [question EXCEPT ![worker[w].question].status = "failed"]
              /\ UNCHANGED proposal
    /\ worker' = [worker EXCEPT ![w] = Idle]
    /\ UNCHANGED <<outcomes, place, artifact, review, case>>

\* The process dies; intents of these types are not claimed again.
Crash(w) ==
    /\ worker[w] # Idle
    /\ worker' = [worker EXCEPT ![w] = Idle]
    /\ UNCHANGED <<outcomes, proposal, question, place, artifact, review, case>>

(***************************************************************************)
(* Review: review_lhp_knowledge_artifact.                                  *)
(***************************************************************************)
\* What is written back: the artifact as it was read, with the decision.
\* Taking a decision back to pending leaves the status.
Reviewed(read, decision) ==
    [event |-> read.event, review |-> decision, judged |-> read.event,
     status |-> IF decision = "pending" THEN read.status ELSE decision]

ReadForReview(r, t, decision) ==
    /\ review[r] = Idle
    /\ artifact[t] # Absent
    /\ review' = [review EXCEPT ![r] =
                    [at |-> "read", type |-> t, result |-> Reviewed(artifact[t], decision)]]
    /\ UNCHANGED <<outcomes, proposal, question, worker, place, artifact, case>>

WriteReview(r) ==
    /\ review[r].at = "read"
    /\ artifact' = [artifact EXCEPT ![review[r].type] = review[r].result]
    /\ review' = [review EXCEPT ![r] = Idle]
    /\ UNCHANGED <<outcomes, proposal, question, worker, place, case>>

(***************************************************************************)
(* Specification.                                                          *)
(***************************************************************************)
Work(w) ==
    \/ \E k \in Keys : ClaimProposal(w, k)
    \/ Gather(w) \/ WriteCandidate(w) \/ RecordArtifact(w) \/ SettleProposal(w)
    \/ \E q \in Question : ClaimContext(w, q)
    \/ Retrieve(w) \/ RecordTrace(w) \/ RecordCitations(w) \/ SettleContext(w)
    \/ Fail(w) \/ Crash(w)

Next ==
    \/ \E o \in Outcome : RecordOutcome(o)
    \/ \E request \in Requests : RequestProposal(request)
    \/ \E q \in Question : RequestContext(q)
    \/ \E w \in Worker : Work(w)
    \/ \E r \in Reviewer, t \in Types, decision \in Decisions : ReadForReview(r, t, decision)
    \/ \E r \in Reviewer : WriteReview(r)

Spec == Init /\ [][Next]_vars

(***************************************************************************)
(* Properties.                                                             *)
(***************************************************************************)
RowStatus == {"none", "pending", "in_progress", "failed", "succeeded"}

Row == [event : Events, status : {"proposed"} \cup (Decisions \ {"pending"}), review : {"pending"} \cup Decisions,
        judged : Events \cup {Nothing}]

ReviewState == {Idle} \cup [at : {"read"}, type : Types, result : Row]

WorkerState ==
    {Idle}
    \cup [at : {"gather"}, key : Keys]
    \cup [at : {"write", "record"}, key : Keys, todo : Seq(Types), event : Events]
    \cup [at : {"retrieve"}, question : Question]
    \cup [at : {"trace", "cite", "answered"}, question : Question, refs : SUBSET Citation]

\* The type invariant of the knowledge loop's rows and workers.
TypeOK ==
    /\ outcomes \in Seq(Outcome)
    /\ proposal \in [Keys -> [status : RowStatus, handoff : Handoffs,
                              outcome : {request[2] : request \in Requests} \cup {Nothing}]]
    /\ question \in [Question -> [status : RowStatus, refs : SUBSET Citation]]
    /\ place \in [is : {"directory", "missing", "file"}, holds : SUBSET Events]
    /\ artifact \in [Types -> Row \cup {Absent}]
    /\ review \in [Reviewer -> ReviewState]
    /\ worker \in [Worker -> WorkerState]
    /\ case \in [traces : SUBSET SUBSET Citation, citations : SUBSET Citation]

\* An artifact that carries a decision has the content which the review that
\* decided had read, however proposals, retries and other reviews overwrite it
\* in between: record_knowledge_artifact starts the review over, and a review
\* writes the whole artifact back.
ApprovedAsRead ==
    \A t \in Types : artifact[t].status \in Decisions => artifact[t].judged = artifact[t].event

\* Whatever failed, crashed or was repeated, the candidate event that an
\* artifact refers to is there for its reviewer, provided the directory was.
CandidateExists ==
    place.is = "directory" =>
        \A t \in Types : artifact[t] # Absent => artifact[t].event \in place.holds

\* What an answered request for context found stays with the case: its trace
\* and its citations survive every other answer and retry.
ContextIsKept ==
    \A q \in Question : question[q].status = "succeeded" =>
        question[q].refs \in case.traces /\ question[q].refs \subseteq case.citations

\* What the rows of the knowledge loop refer to exists: the candidate events of
\* artifacts, the trace and the citations of answers.
ReferencesHold == TypeOK /\ CandidateExists /\ ContextIsKept
=============================================================================
