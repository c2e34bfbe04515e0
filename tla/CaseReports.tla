----------------------------- MODULE CaseReports -----------------------------
(***************************************************************************)
(* The Discord card of one reactive case: reports of its facts and updates *)
(* of its investigations as rows of the outbox, the outbox loop and the    *)
(* immediate attempts that deliver them (src/app/cases/outbox.py,          *)
(* handlers.py, reporting.py), the spool that retains updates while the    *)
(* database is away (report_spool.py), and the card with its identity file *)
(* (src/app/case_cards.py, src/app/discord.py).                            *)
(*                                                                         *)
(* Both owners of the card are on: NOC_CASESERVICE_REACTIVE_REPORT and     *)
(* NOC_CASE_OUTBOX_ENABLED.  Facts are report-state signatures, and the    *)
(* row of the report of facts f is f itself, as in the key report:case:f.  *)
(* Delivering a card is one step, for it holds the card's file lock.       *)
(***************************************************************************)
EXTENDS Integers, FiniteSets

CONSTANTS
    Facts,              \* report-state signatures
    Updates,            \* finished investigations
    Other,              \* pending rows of intent types that have no handler here
    Limit,              \* rows of a batch, NOC_CASE_OUTBOX_LIMIT
    Verbosities,        \* LOG_LEVEL_DISCORD of a process, chosen at its start
    Nothing,
    MaxObservations, MaxTransitions, MaxFaults, MaxCrashes, MaxEvents

\* The verbosity above which reports, and updates, are not sent.
FactsLevel == 1
UpdateLevel == 2

ASSUME CaseReportsConstants ==
    /\ Facts # {}
    /\ Verbosities \subseteq 0..3 /\ Verbosities # {}
    /\ Limit \in Nat \ {0}
    /\ {MaxObservations, MaxTransitions, MaxFaults, MaxCrashes, MaxEvents} \subseteq Nat
    /\ Facts \cap Updates = {} /\ (Facts \cup Updates) \cap Other = {}
    /\ Nothing \notin Facts \cup Updates \cup Other

Rows == Facts \cup Updates \cup Other

Workers == {"loop", "task"}

VARIABLES
    facts,      \* the case's current signature
    reported,   \* last_reported_signature
    row,        \* side_effect_outbox
    fresh,      \* rows an immediate attempt is still to be made for
    spool,      \* retained updates
    quarantine, \* retained updates set aside
    tick,       \* what the outbox loop is doing with the spool
    batch,      \* the rows the loop is still to try
    worker,     \* the handlers under way
    card,       \* the Discord message the file names, and what it shows
    file,       \* the card's identity file
    verbosity,
    now,        \* the clock: advances with every row made
    used        \* observations, transitions, faults and crashes so far

vars == <<facts, reported, row, fresh, spool, quarantine, tick, batch, worker, card, file,
          verbosity, now, used>>

NoRow == [status |-> "none", made |-> 0, rev |-> 0, note |-> "none"]

Resting == [at |-> "rest", row |-> Nothing, shows |-> Nothing, stamp |-> Nothing]

NoCard == [alive |-> FALSE, facts |-> Nothing, of |-> Nothing, rev |-> 0]

NoFile == [facts |-> Nothing, of |-> Nothing, rev |-> 0, recent |-> FALSE]

\* The facts the case was opened with: one signature is as good as another.
Init ==
    /\ facts = CHOOSE f \in Facts : TRUE
    /\ reported = Nothing
    /\ row = [r \in Rows |-> [NoRow EXCEPT !.status = IF r \in Other THEN "pending" ELSE "none"]]
    /\ fresh = {}
    /\ spool = {}
    /\ quarantine = {}
    /\ tick = "replay"
    /\ batch = {}
    /\ worker = [w \in Workers |-> Resting]
    /\ card = NoCard
    /\ file = NoFile
    /\ verbosity \in Verbosities
    /\ now = 1
    /\ used = [observations |-> 0, transitions |-> 0, faults |-> 0, crashes |-> 0]

\* All of them together are bounded too.
Use(what, bound) ==
    /\ used[what] < bound
    /\ used.observations + used.transitions + used.faults + used.crashes < MaxEvents
    /\ used' = [used EXCEPT ![what] = @ + 1]

Fault == Use("faults", MaxFaults)

-----------------------------------------------------------------------------
(* Rows and their requests. *)

NewRow(rev) == [NoRow EXCEPT !.status = "pending", !.made = now, !.rev = rev]

\* request_report of facts f: a row that exists is returned as it is, unless it
\* was suppressed at a verbosity that now lets it through.
Requested(f, rev) ==
    IF row[f].status = "none" THEN [row EXCEPT ![f] = NewRow(rev)]
    ELSE IF row[f].note = "suppressed" /\ FactsLevel >= verbosity
      THEN [row EXCEPT ![f] = [@ EXCEPT !.status = "pending", !.note = "none"]]
    ELSE row

ShouldReport(f) == reported # f

\* An observation of the case: its report is requested and tried at once.
Observe(f) ==
    /\ Use("observations", MaxObservations)
    /\ facts' = f
    /\ IF ShouldReport(f)
         THEN /\ row' = Requested(f, now)
              /\ now' = IF row[f].status = "none" THEN now + 1 ELSE now
              /\ fresh' = IF row'[f].status = "pending" THEN fresh \cup {f} ELSE fresh
         ELSE UNCHANGED <<row, now, fresh>>
    /\ UNCHANGED <<reported, spool, quarantine, tick, batch, worker, card, file, verbosity>>

\* A transition that no observation makes (an operator, a handoff) changes the
\* signature and requests nothing.
Transition(f) ==
    /\ f # facts
    /\ Use("transitions", MaxTransitions)
    /\ facts' = f
    /\ UNCHANGED <<reported, row, fresh, spool, quarantine, tick, batch, worker, card, file,
                   verbosity, now>>

Unsent(u) == row[u].status = "none" /\ u \notin spool \cup quarantine

\* send_investigation_card: the update is queued and tried at once.
Finish(u) ==
    /\ Unsent(u)
    /\ UpdateLevel >= verbosity
    /\ row' = [row EXCEPT ![u] = NewRow(now)]
    /\ now' = now + 1
    /\ fresh' = fresh \cup {u}
    /\ UNCHANGED <<facts, reported, spool, quarantine, tick, batch, worker, card, file,
                   verbosity, used>>

\* The database fails, before or after it committed the row: the update is
\* retained on disk.
FinishRetained(u) ==
    /\ Unsent(u)
    /\ UpdateLevel >= verbosity
    /\ Fault
    /\ spool' = spool \cup {u}
    /\ row' \in {[row EXCEPT ![u] = NewRow(now)], [row EXCEPT ![u].made = now, ![u].rev = now]}
    /\ now' = now + 1
    /\ UNCHANGED <<facts, reported, fresh, quarantine, tick, batch, worker, card, file, verbosity>>

-----------------------------------------------------------------------------
(* The outbox loop: replay what was retained, then work off a batch. *)

\* The loop is between two batches.
Between == worker["loop"].at = "rest" /\ batch = {}

\* Mutant: the file is removed before its row is stored.
ReplayUnlinksFirst(u) ==
    /\ Between /\ tick = "replay" /\ u \in spool
    /\ spool' = spool \ {u}
    /\ tick' = "unlink"
    /\ UNCHANGED <<facts, reported, row, fresh, quarantine, batch, worker, card, file,
                   verbosity, now, used>>

\* The row has a unique key, so a record that was enqueued before is harmless.
Replay(u) ==
    /\ Between /\ tick = "replay" /\ u \in spool
    /\ row' = [row EXCEPT ![u].status = IF @ = "none" THEN "pending" ELSE @]
    /\ tick' = "unlink"
    /\ UNCHANGED <<facts, reported, fresh, spool, quarantine, batch, worker, card, file,
                   verbosity, now, used>>

Unlink(u) ==
    /\ tick = "unlink" /\ u \in spool
    /\ row[u].status # "none"
    /\ spool' = spool \ {u}
    /\ tick' = "replay"
    /\ UNCHANGED <<facts, reported, row, fresh, quarantine, batch, worker, card, file,
                   verbosity, now, used>>

\* A record that cannot be read, or that violates the database's integrity.
Quarantine(u) ==
    /\ Between /\ tick = "replay" /\ u \in spool
    /\ Fault
    /\ spool' = spool \ {u}
    /\ quarantine' = quarantine \cup {u}
    /\ UNCHANGED <<facts, reported, row, fresh, tick, batch, worker, card, file, verbosity, now>>

Orphaned(r) == row[r].status = "claimed" /\ \A w \in Workers : worker[w].row # r

\* Mutant: claims are never recovered.
RecoveredNever == row

\* _due_intents gives the claims that have expired back.
Recovered == [r \in Rows |-> IF row[r].status = "expired" THEN [row[r] EXCEPT !.status = "pending"]
                             ELSE row[r]]

\* Pending rows come first, then the failed ones that are due, oldest first.
Ahead(rows, r, s) ==
    \/ rows[r].status = "pending" /\ rows[s].status = "due"
    \/ rows[r].status = rows[s].status /\ rows[r].made < rows[s].made

\* The first Limit rows that are to be tried.
DueBatch ==
    LET due == {r \in Rows : Recovered[r].status \in {"pending", "due"}}
    IN  {r \in due : Cardinality({s \in due : Ahead(Recovered, s, r)}) < Limit}

\* The rows of a type that has no handler are skipped.
Handled(rows) == rows \ Other

\* The replay has come to its end.
StartBatch ==
    /\ Between /\ tick = "replay" /\ spool = {}
    /\ Handled(DueBatch) # {}
    /\ row' = Recovered
    /\ batch' = Handled(DueBatch)
    /\ UNCHANGED <<facts, reported, fresh, spool, quarantine, tick, worker, card, file, verbosity,
                   now, used>>

\* The database failed the replay, and has come back.
StartBatchAfterFailedReplay ==
    /\ Between /\ tick = "replay" /\ spool # {}
    /\ Fault
    /\ row' = Recovered
    /\ batch' = Handled(DueBatch)
    /\ UNCHANGED <<facts, reported, fresh, spool, quarantine, tick, worker, card, file, verbosity,
                   now>>

\* next_attempt_at, a minute after the failure, has come.
BackoffEnds(r) ==
    /\ row[r].status = "failed"
    /\ row' = [row EXCEPT ![r].status = "due"]
    /\ UNCHANGED <<facts, reported, fresh, spool, quarantine, tick, batch, worker, card, file,
                   verbosity, now, used>>

\* Ten minutes after a claim; a handler that runs ends after three.
ClaimExpires(r) ==
    /\ Orphaned(r)
    /\ row' = [row EXCEPT ![r].status = "expired"]
    /\ UNCHANGED <<facts, reported, fresh, spool, quarantine, tick, batch, worker, card, file,
                   verbosity, now, used>>

-----------------------------------------------------------------------------
(* The report handler. *)

Goes(w, place) == worker' = [worker EXCEPT ![w].at = place]

\* The handler returns: the row is completed with a note.
Returns(w, r, note) ==
    worker' = [worker EXCEPT ![w] = [Resting EXCEPT !.at = "complete", !.row = r, !.stamp = note]]

\* Render the case as it is, send, and stamp these facts as reported when the
\* card has arrived.
Sends(w, r, place, stamp) ==
    worker' = [worker EXCEPT ![w] = [at |-> place, row |-> r, shows |-> facts, stamp |-> stamp]]

LoadReport(w, r) ==
    /\ IF FactsLevel < verbosity THEN Returns(w, r, "suppressed") ELSE Sends(w, r, "send", r)
    /\ row' = [row EXCEPT ![r].status = "claimed"]
    /\ UNCHANGED now

\* The report of the current facts was delivered, or superseded.
Prerequisite == row[facts].status = "done" /\ row[facts].note # "suppressed"

\* Mutant: a case that was never reported needs no report.
NeedsFactsIfReported == reported \notin {facts, Nothing}

\* The facts the case has now were not the last that were reported.
NeedsFacts == reported # facts

\* An update is preceded by the facts it rests on, in a card of their own when
\* the verbosity lets reports through.
LoadUpdate(w, r) ==
    \/ /\ \/ UpdateLevel < verbosity /\ Returns(w, r, "suppressed")
          \/ UpdateLevel >= verbosity /\ ~NeedsFacts /\ Sends(w, r, "send", Nothing)
          \/ /\ UpdateLevel >= verbosity /\ FactsLevel < verbosity /\ NeedsFacts
             /\ Sends(w, r, "send", facts)
          \/ /\ FactsLevel >= verbosity /\ NeedsFacts /\ Prerequisite
             /\ Sends(w, r, "refresh", facts)
       /\ row' = [row EXCEPT ![r].status = "claimed"]
       /\ UNCHANGED now
    \/ /\ FactsLevel >= verbosity /\ NeedsFacts /\ ~Prerequisite
       /\ worker' = [worker EXCEPT ![w] = [Resting EXCEPT !.at = "fail", !.row = r]]
       /\ row' = [Requested(facts, row[r].rev) EXCEPT ![r].status = "claimed"]
       /\ now' = IF row[facts].status = "none" THEN now + 1 ELSE now

\* Mutant: the claim does not compare what it read.
ClaimUnchecked(w, r) ==
    /\ worker[w].at = "rest"
    /\ IF r \in Facts THEN LoadReport(w, r) ELSE LoadUpdate(w, r)
    /\ batch' = IF w = "loop" THEN batch \ {r} ELSE batch
    /\ fresh' = fresh \ {r}
    /\ UNCHANGED <<facts, reported, spool, quarantine, tick, card, file, verbosity, used>>

\* A worker claims a row and the handler reads the case.  The claim compares
\* status and token: a row claimed since it was read is no candidate any more.
Claim(w, r) ==
    /\ worker[w].at = "rest"
    /\ IF r \in Facts THEN LoadReport(w, r) ELSE LoadUpdate(w, r)
    /\ batch' = batch \ {r}
    /\ fresh' = fresh \ {r}
    /\ UNCHANGED <<facts, reported, spool, quarantine, tick, card, file, verbosity, used>>

\* What is left of a batch keeps its order: nothing else writes its rows.
ClaimNext == \E r \in batch : (\A s \in batch : ~Ahead(row, s, r)) /\ Claim("loop", r)

\* The immediate attempt, with the intent as it was stored.
Attempt(r) == r \in fresh /\ Claim("task", r)

-----------------------------------------------------------------------------
(* deliver_case_card *)

\* What the handler sends: the facts alone first, then the row's own content.
Payload(w) == [facts |-> worker[w].shows,
               of |-> IF worker[w].at = "refresh" THEN worker[w].shows ELSE worker[w].row]

\* Mutant: a card of an older revision is not told apart.
SupersededNever(rev) == FALSE

\* The file records a card of a later revision.
Superseded(rev) == file # NoFile /\ rev < file.rev

Unchanged(p) == file # NoFile /\ file.recent /\ <<file.facts, file.of>> = <<p.facts, p.of>>

Shown(p, rev) == [alive |-> TRUE, facts |-> p.facts, of |-> p.of, rev |-> rev]

Recorded(p, rev) == [facts |-> p.facts, of |-> p.of, rev |-> rev, recent |-> TRUE]

\* The transport edits the message of the file, or creates one: Discord accepts
\* it and the answer arrives, is lost or comes too late, or Discord refuses it.
\* A message created without an answer is not the one the file will name.
Transport(p, rev, answer) ==
    \/ /\ answer = "ok"
       /\ card' = Shown(p, rev)
       /\ file' = Recorded(p, rev)
       /\ UNCHANGED used
    \/ /\ answer = "lost"
       /\ Fault
       /\ card' = IF file # NoFile /\ card.alive THEN Shown(p, rev) ELSE card
       /\ UNCHANGED file
    \/ /\ answer = "refused"
       /\ Fault
       /\ UNCHANGED <<card, file>>

\* Content Discord confirmed within six hours is not sent again, unless forced.
Deliver(p, rev, force, answer) ==
    \/ /\ ~Superseded(rev)
       /\ Unchanged(p) /\ ~force
       /\ answer = "ok"
       /\ file' = [file EXCEPT !.rev = rev]
       /\ card' = IF card.alive THEN [card EXCEPT !.rev = rev] ELSE card
       /\ UNCHANGED used
    \/ /\ ~Superseded(rev)
       /\ ~Unchanged(p) \/ force
       /\ Transport(p, rev, answer)
    \/ /\ Superseded(rev)
       /\ answer = "superseded"
       /\ UNCHANGED <<card, file, used>>

Proceeds(w, answer, place) ==
    CASE answer = "ok" -> Goes(w, place)
      [] answer = "superseded" -> Returns(w, worker[w].row, "superseded")
      [] OTHER -> Goes(w, "fail")

Answers == {"ok", "lost", "refused", "superseded"}

\* The facts, refreshed at the update's own revision.
SendFacts(w) ==
    /\ worker[w].at = "refresh"
    /\ \E answer \in Answers :
         /\ Deliver(Payload(w), row[worker[w].row].rev, TRUE, answer)
         /\ Proceeds(w, answer, "stampfirst")
    /\ UNCHANGED <<facts, reported, row, fresh, spool, quarantine, tick, batch, verbosity, now>>

Send(w) ==
    /\ worker[w].at = "send"
    /\ \E answer \in Answers :
         /\ Deliver(Payload(w), row[worker[w].row].rev, FALSE, answer)
         /\ Proceeds(w, answer, "stamp")
    /\ UNCHANGED <<facts, reported, row, fresh, spool, quarantine, tick, batch, verbosity, now>>

-----------------------------------------------------------------------------
(* What was delivered is recorded. *)

\* mark_reported, and on to the update the facts precede.
StampFirst(w) ==
    /\ worker[w].at = "stampfirst"
    /\ reported' = worker[w].stamp
    /\ worker' = [worker EXCEPT ![w].at = "send", ![w].stamp = Nothing]
    /\ UNCHANGED <<facts, row, fresh, spool, quarantine, tick, batch, card, file, verbosity,
                   now, used>>

Stamp(w) ==
    /\ worker[w].at = "stamp"
    /\ reported' = IF worker[w].stamp = Nothing THEN reported ELSE worker[w].stamp
    /\ Returns(w, worker[w].row, "delivered")
    /\ UNCHANGED <<facts, row, fresh, spool, quarantine, tick, batch, card, file, verbosity,
                   now, used>>

Complete(w) ==
    /\ worker[w].at = "complete"
    /\ row' = [row EXCEPT ![worker[w].row] = [@ EXCEPT !.status = "done", !.note = worker[w].stamp]]
    /\ worker' = [worker EXCEPT ![w] = Resting]
    /\ UNCHANGED <<facts, reported, fresh, spool, quarantine, tick, batch, card, file,
                   verbosity, now, used>>

Fail(w) ==
    /\ worker[w].at = "fail"
    /\ row' = [row EXCEPT ![worker[w].row].status = "failed"]
    /\ worker' = [worker EXCEPT ![w] = Resting]
    /\ UNCHANGED <<facts, reported, fresh, spool, quarantine, tick, batch, card, file,
                   verbosity, now, used>>

\* A call of the handler fails, or its three minutes are over.
HandlerFails(w) ==
    /\ worker[w].at \in {"refresh", "stampfirst", "send", "stamp"}
    /\ Fault
    /\ Goes(w, "fail")
    /\ UNCHANGED <<facts, reported, row, fresh, spool, quarantine, tick, batch, card, file,
                   verbosity, now>>

\* The database fails a claim: the loop gives its batch up, the attempt is over.
ClaimFails ==
    /\ Fault
    /\ \/ batch # {} /\ batch' = {} /\ UNCHANGED fresh
       \/ \E i \in fresh : fresh' = fresh \ {i} /\ UNCHANGED batch
    /\ UNCHANGED <<facts, reported, row, spool, quarantine, tick, worker, card, file, verbosity,
                   now>>

\* The database fails the completion: the claim stays, and the loop gives the
\* rest of its batch up.
CompletionLost(w) ==
    /\ worker[w].at \in {"complete", "fail"}
    /\ Fault
    /\ worker' = [worker EXCEPT ![w] = Resting]
    /\ batch' = IF w = "loop" THEN {} ELSE batch
    /\ UNCHANGED <<facts, reported, row, fresh, spool, quarantine, tick, card, file, verbosity, now>>

-----------------------------------------------------------------------------
(* The environment. *)

DeleteCard ==
    /\ card.alive
    /\ Fault
    /\ card' = NoCard
    /\ UNCHANGED <<facts, reported, row, fresh, spool, quarantine, tick, batch, worker, file,
                   verbosity, now>>

\* Six hours since Discord confirmed the card.
RefreshDue ==
    /\ file.recent
    /\ Use("transitions", MaxTransitions)
    /\ file' = [file EXCEPT !.recent = FALSE]
    /\ UNCHANGED <<facts, reported, row, fresh, spool, quarantine, tick, batch, worker, card,
                   verbosity, now>>

\* The process stops at any point and starts again, perhaps with another verbosity.
Restart ==
    /\ Use("crashes", MaxCrashes)
    /\ worker' = [w \in Workers |-> Resting]
    /\ fresh' = {}
    /\ tick' = "replay"
    /\ batch' = {}
    /\ verbosity' \in Verbosities
    /\ UNCHANGED <<facts, reported, row, spool, quarantine, card, file, now>>

-----------------------------------------------------------------------------

Input ==
    \/ \E f \in Facts : Observe(f) \/ Transition(f)
    \/ \E u \in Updates : Finish(u) \/ FinishRetained(u)
    \/ DeleteCard \/ RefreshDue \/ Restart

LoopStep ==
    \/ StartBatch \/ ClaimNext
    \/ \E u \in Updates : Replay(u) \/ Unlink(u)

LoopFault == ClaimFails \/ StartBatchAfterFailedReplay \/ \E u \in Updates : Quarantine(u)

HandlerStep(w) ==
    SendFacts(w) \/ Send(w) \/ StampFirst(w) \/ Stamp(w)
    \/ Complete(w) \/ Fail(w)

HandlerFault(w) == HandlerFails(w) \/ CompletionLost(w)

TaskStep == \E r \in Rows : Attempt(r)

TimePasses(r) == BackoffEnds(r) \/ ClaimExpires(r)

Next ==
    \/ Input \/ LoopStep \/ LoopFault \/ TaskStep
    \/ \E w \in Workers : HandlerStep(w) \/ HandlerFault(w)
    \/ \E r \in Rows : TimePasses(r)

Spec == Init /\ [][Next]_vars

\* The loop ticks, its handlers and the background tasks run, and time passes;
\* no investigation, observation or fault is due.
FairSpec ==
    /\ Spec
    /\ WF_vars(LoopStep) /\ WF_vars(TaskStep)
    /\ \A w \in Workers : WF_vars(HandlerStep(w))
    /\ \A r \in Facts \cup Updates : WF_vars(TimePasses(r))

-----------------------------------------------------------------------------
(* Properties *)

Statuses == {"none", "pending", "claimed", "expired", "failed", "due", "done"}

Outcomes == {"suppressed", "superseded", "delivered"}

Places == {"rest", "refresh", "stampfirst", "send", "stamp", "complete", "fail"}

RowType == [status : Statuses, made : Nat, rev : Nat, note : Outcomes \cup {"none"}]

WorkerType == [at : Places, row : Rows \cup {Nothing}, shows : Facts \cup {Nothing},
               stamp : Facts \cup {Nothing} \cup Outcomes]

CardType == [alive : BOOLEAN, facts : Facts \cup {Nothing}, of : Rows \cup {Nothing}, rev : Nat]

FileType == [facts : Facts \cup {Nothing}, of : Rows \cup {Nothing}, rev : Nat, recent : BOOLEAN]

StateOK ==
    /\ facts \in Facts /\ reported \in Facts \cup {Nothing}
    /\ row \in [Rows -> RowType]
    /\ spool \subseteq Updates /\ quarantine \subseteq Updates
    /\ tick \in {"replay", "unlink"}
    /\ worker \in [Workers -> WorkerType]
    /\ card \in CardType /\ file \in FileType
    /\ verbosity \in Verbosities /\ now \in Nat

\* What is about to be tried may be claimed, and a noted row is a settled one.
RowsOK ==
    /\ \A r \in Rows : /\ row[r].rev <= now /\ row[r].made <= now
                       /\ row[r].note # "none" <=> row[r].status = "done"
    /\ fresh \subseteq {r \in Facts \cup Updates : row[r].status = "pending"}
    /\ batch \subseteq {r \in Facts \cup Updates : row[r].status \in {"pending", "due"}}

\* A handler that runs has claimed its row, and it alone.
HandlersOK ==
    /\ \A w \in Workers : worker[w].at # "rest" => /\ worker[w].row \in Facts \cup Updates
                                                  /\ row[worker[w].row].status = "claimed"
    /\ \A v, w \in Workers :
         v # w /\ worker[v].at # "rest" /\ worker[w].at # "rest" => worker[v].row # worker[w].row

\* What it shows and stamps is made of the case's facts, or is how it ended.
ContentsOK ==
    \A w \in Workers :
        /\ worker[w].at \in {"refresh", "stampfirst"} => worker[w].stamp \in Facts
        /\ worker[w].at \in {"refresh", "stampfirst", "send", "stamp"} => worker[w].shows \in Facts
        /\ worker[w].at \in {"send", "stamp"} => worker[w].stamp \in Facts \cup {Nothing}
        /\ worker[w].at = "complete" => worker[w].stamp \in Outcomes

\* Every claimed row is worked on by at most one worker, and everything else
\* has its type (src/app/cases/outbox.py:83-93).
TypeOK == StateOK /\ RowsOK /\ HandlersOK /\ ContentsOK

\* "Its terminal update waits in the outbox until that first case report has
\* been delivered, then edits the same card" (README.md:355-356): a card comes to
\* show an update only when facts were reported, unless the verbosity excludes
\* them and the update brings them along (handlers.py:133-171).
FactsFirst ==
    [][ (card'.of \in Updates /\ card'.of # card.of /\ FactsLevel >= verbosity)
        => reported # Nothing ]_vars

\* An update that was queued or retained is never lost: it stays in the outbox,
\* the spool or the quarantine, through failing databases and crashes between
\* storing its row and removing its file (report_spool.py:142-176).
UpdateIsKept ==
    \A u \in Updates : row[u].made > 0 => row[u].status # "none" \/ u \in spool \cup quarantine

\* "Event revisions prevent delayed outbox reports from replacing newer triage
\* results" (README.md:338): the card, while it exists, is never of an older
\* revision than any report or update that was recorded as delivered
\* (case_cards.py:91-102).
DeliveredStays ==
    card.alive => \A r \in Rows : row[r].note = "delivered" => card.rev >= row[r].rev

\* Why: what was delivered is recorded in the file, and the card, while it
\* exists, is not behind the file, although an answer may be lost.
DeliveredInv ==
    /\ card.alive => card.rev >= file.rev
    /\ \A r \in Rows : row[r].note = "delivered" => row[r].rev <= file.rev
    /\ \A w \in Workers :
         worker[w].at = "stamp" \/ (worker[w].at = "complete" /\ worker[w].stamp = "delivered")
            => row[worker[w].row].rev <= file.rev

\* Why FactsFirst holds: an update is sent once the facts are stamped.
FactsInv ==
    \A w \in Workers :
        worker[w].at = "send" /\ worker[w].row \in Updates /\ FactsLevel >= verbosity
            => reported # Nothing

Settled(u) == (row[u].status = "done") \/ u \in quarantine

\* "failed sends are retried by the existing worker" (README.md:342), and claims
\* of a lost worker are recovered: every finished investigation's update is in
\* the end delivered, superseded, suppressed or set aside.
UpdateIsSettled == \A u \in Updates : (row[u].made > 0) ~> Settled(u)

=============================================================================
