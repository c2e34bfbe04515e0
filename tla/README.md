# NOC agent: a TLA+ model of its case pipeline

The NOC agent receives alerts (Alertmanager, Icinga 2, mail, a proactive sweep),
keeps one *case* per incident in Postgres, investigates it with an LLM graph,
hands work to other loops, verifies the outcome and tells the operators, on
Discord, what they need to know and nothing twice.  What makes it hard is not
any one computation but that several workers, callbacks and operators act on the
same rows, with an `await` between reading and writing, and that any of them may
crash, time out or be retried between two steps.  This directory models those
parts, checks them with TLC on small instances, and proves the most important
results with TLAPS for every value of the constants.

## Inventory

Paths are relative to `src/app/`.

| component | state it keeps | operations | what is hard |
|---|---|---|---|
| attention policy (`cases/attention.py`) | none (pure) | `attention_due`, `attention_level` | a generation may be announced again only when worse or, if critical, after the reminder interval; a recovery must close a firing message |
| attention delivery (`cases/attention_scheduler.py`, `attention_handler.py`, `postgres.py` attention tables) | `case_attention_delivery`, `case_attention_lease` | scan, enqueue, reopen, check, lease, re-check, send, complete, release | reads go stale between awaits; leases expire; answers are lost; a message is sent before it is committed |
| outbox processor (`cases/outbox.py`) | `side_effect_outbox` rows with status, claim token, attempts | requeue expired, list due, claim, run handler under a deadline, settle | duplicate claims, late settlement, batch limits, retries that starve |
| report handler and cards (`cases/handlers.py`, `case_cards.py`, `cases/report_spool.py`, `discord.py`) | the file with card id, revision and content; spool and quarantine | facts report, card update, create, edit, refresh, retain, replay, quarantine | crash between send and save; spooled reports overtaken by newer ones; an update that must wait for the facts |
| case service (`cases/service.py`, `cases/graph_memory.py`) | `cases`, aliases, events | observe firing/clean, ack, suppress, link, graph write, report request | acknowledgement covers one severity of one generation; writes by actors that do not maintain the generation |
| loop handoff protocol and verifier (`cases/lhp.py`, `service.py`, `verifier.py`, `handlers.py`, `outbox_reconcile.py`) | handoffs, objectives, deliveries, callback events | create, deliver, callback, cancel, check, verify, resolve | objectives pass before the work is reported done; cancel races delivery and the verifier; two transactions to verify and resolve |
| case correlation (`cases/correlation*.py`) | meta-cases and the membership of their children | group a storm, attach, detach, mark independent | two rows per transaction, one transaction per child; links and correlation wait for each other |
| proactive loop (`proactive/`) | lock file, ledger of attempts and cost per day, acknowledgements, investigation stamps; in memory, carried hotspots and the last digest | cycle: scan, merge, suppress, gate, investigate, report; acknowledge, pause, run once | crashes between charging and running an investigation, orphaned locks, scans that see only part, digests that fail |
| investigation graph (`graph/`, `graph_runtime.py`, `cases/graph_memory.py`) | checkpointed threads; claim and summary on the case | claim, diagnose, interrupt for approval, resume, execute, verify, persist | claims stranded by crashes; approvals too early, twice or during execution; actions sent before they are checkpointed; a case that moves on meanwhile |
| webhooks and control API (`main.py`) | none of their own | dispatch to the services above | idempotency of callbacks |
| MCP runtime and tools (`mcp_runtime.py`, `tools/mcp_client.py`) | per source: lock, registered client, tools, state; per client: owner task, command queue, session, back-off | connect, probe, refresh, reset, call a tool, disconnect | callers time out while the owner goes on; answers lost; tools that outlive their client |
| mail poller (`mail.py`, `mail_notifications.py`) | mailbox flags, drafts, the announcement's state and lock file | poll, fetch, draft, announce outage and recovery | racing polls; a crash between post and state; a read flag without a draft |
| models and their credit (`model_config.py`, `model_metrics.py`, `agents/triage.py`, `quota.py`) | record of the last run, credit caches | fall back along a chain, report health, probe credit | overlapping runs, cached answers |
| knowledge loop (`knowledge/`) | outbox rows, `knowledge_artifacts`, candidate events, traces and citations | propose, retrieve, record, review | writes that fail half-way and are repeated; a review of what a retry overwrites |
| Discord bot, agents and prompts, schema and configuration, proactive outputs | none that a protocol depends on | | not modelled; the reasons are in `PROJECT.json`, `components` |

Interactions: monitors and operators write cases through the case service (one
guarded transaction per write).  The scheduler reads cases and the attention
ledger and enqueues intents into the outbox; workers (one loop per API process,
plus background tasks of the webhook handlers) claim intents and run handlers;
handlers read cases again, take the attention lease, send, and commit ledger, row
and lease in one transaction.  Handoffs are created with their objectives and an
outbox intent; the delivery handler opens the external issue under a per-handoff
guard; callbacks move the handoff; the verifier checks objectives, marks the
handoff verified and resolves the case.  The reactive webhook claims an investigation
on the case and starts a graph thread in the background; the thread writes its
diagnosis back, stops at an interrupt for an operator, and is resumed by the decision
endpoint.  Reports, case updates, handoffs and knowledge requests are all rows of the one outbox.

What makes each part correct:

* attention: no two sends at once for a case, nothing stale sent, nothing
  acknowledged announced, every committed delivery a legitimate successor of the
  one before, nothing due left unsent for ever;
* outbox: one live claim per row, a settled delivery stays settled;
* handoffs: only the verifier verifies, a case is resolved only after every
  objective passed the required number of times, a terminal handoff causes no
  external effect, an implemented handoff is eventually decided;
* proactive: one cycle at a time, no investigation beyond the daily limits whatever
  crashes, nothing resolved that was not looked at, a channel that shows the truth in
  the end;
* investigations: one at a time per signal, no claim stranded for ever, no action sent
  without an approval of its own;
* cards: an update follows the facts, is not lost, and is not replaced by older content;
* identity: one case per monitored thing, both sides of a membership agree;
* services: a probe or call does not wait for ever, the source comes back, outages
  and their ends are announced, health tells the truth, a decision is about the content it was given for.

## Modules

| module | models |
|---|---|
| `AttentionPolicy` | `cases/attention.py` as operators |
| `CaseAttention` | scheduler, outbox row life cycle for report intents, attention handler, first facts report, lease, commit; monitors and operators as environment |
| `AttentionPromise` | abstract specification: the legal series of deliveries of a case |
| `CaseAttentionProofs` | proofs |
| `LoopHandoff` | the loop handoff protocol on one case: requests, updates, cancellation, delivery of the external issue, console results, the verifier |
| `HandoffLifecycle` | abstract specification: the life of a handoff |
| `LoopHandoffProofs` | proofs |
| `ProactiveLoop` | the proactive loop: lock file, ledger and gate, scan, merge, acknowledgements, investigation, digest; crashes, restarts, operators and time |
| `ProactiveLoopProofs` | proofs |
| `CaseReports` | the Discord card of a case: outbox batches, claims, retries and recovery, the facts and update handlers, spool, card and its identity file |
| `CaseReportsProofs` | proofs |
| `Investigation` | claim, graph thread, interrupt, approval, execution, verification and the writes of both to the case |
| `InvestigationProofs` | proofs |
| `CaseIdentity` | which case an observation belongs to: aliases, creation, links, meta-cases, with the row locks of Postgres |
| `McpRuntime` | one MCP source with its clients, probes, tool calls, start and stop |
| `McpRuntimeProofs` | proofs |
| `KnowledgeArtifacts` | artifact proposals, context requests and reviews of one case |
| `CasesProofs` | proofs of `CaseIdentity` and of `KnowledgeArtifacts` |
| `MailPoller` | the shared mailbox and its announcements |
| `ModelRuns`, `ModelCredit` | the chain of models, its runs and health; the credit probes and their caches |
| `ModelProofs` | proofs of both |
| `MCCaseAttention`, `MCLoopHandoff`, `MCProactiveLoop`, `MCCaseReports`, `MCInvestigation`, `MCMcpRuntime` | instances for TLC |
| `MCCases` | instance of `CaseIdentity` and `KnowledgeArtifacts`, a scope of them per initial state |
| `MCServices` | instance of `MailPoller`, `ModelRuns` and `ModelCredit`, one of them per initial state |

Modules that share an instance share no state; the initial state picks which of them a
behaviour is about, so one run costs the sum of their state spaces and not the product.
Several properties are conjunctions of related invariants, each defined and commented
by itself where it belongs (`ApprovalInv == TypeOK /\ ExecutedAsApproved`).

### Correspondence of `CaseAttention`

State: `cases` is the row of table `cases` reduced to what the policy reads;
`attention` the last row of `case_attention_delivery` per case; `lease` that of
`case_attention_lease`; `outbox` maps an intent (which is its own idempotency
key) to status, claim token, and the note left by the handler.  Per worker, `pc`
is the await it is at and `intent`, `snap`, `seen`, `leaseToken`, `result` are
the locals alive there, `timer` the deadline it runs under.

| action | code |
|---|---|
| `ScanCandidate`, `EnqueueAttention`, `ReopenIntent` | `enqueue_due_attention`: candidates, `get_attention`, `enqueue_outbox`, reopening a withheld intent |
| `RequestReport` | `CaseService.request_report` |
| `RequeueExpiredClaim`, `TakeIntent`, `ClaimIntent` | `_due_intents`, `process_intent` up to the claim |
| `CheckCase`, `CheckAttention`, `ClaimAttention`, `StartDeadline`, `RecheckCase`, `RecheckAttention`, `Withhold`, `Sent`, `Superseded`, `SendDirect`, `ReleaseAttention` | the attention handler and the facts report handler, one action per await |
| `SettleIntent`, `CompleteAttention` | the end of `process_intent` |
| `Abort`, `Crash`, `Tick` | exceptions and deadlines, process death, time |
| `ObserveFiring` ... `LinkChild` | the writers of a case, one guarded transaction each |

Data is abstracted: a status the policy does not tell apart is one value, a
severity one of four, the age of a delivery one bit, message text is absent.
`uuid4` tokens are natural numbers; `NewToken` picks one that nobody it could be
confused with holds, so TLC can reuse tokens.  The snapshot of a scan is taken
per case; the code reads a batch and walks it, so a later member of the batch is
older when used, which is what an arbitrary delay between `ScanCandidate` and
`EnqueueAttention` gives.

### Correspondence of `LoopHandoff`

State: `case` is the row of `cases` reduced to status, handoff status, whether the
last observation was clean, and `last_handoff_at` (`stamp`, a counter);
`handoff`, `occurrence` and `updated` are columns of `case_handoffs`,
`objective` of `verification_objectives`, `intent` the status of the delivery
intent, `delivery` that of `handoff_transport_deliveries`, `outcomes` the number
of outcome records.  `issue` is the external tracker.  `sighting` is the copy of the case
the proactive loop holds.  `cancel`, `console`, `wpc`/`wtarget`/`wresult` and
`vpc`/`todo`/`vcount`/... are the locals of cancellations, console requests,
delivery workers and verifiers.  `passes` and `since` are histories:
of all passes recorded, and of those recorded since the last failure that could not be written over.

| action | code |
|---|---|
| `ObserveHotspot`, `ObserveClean` | `_update_unhealthy`, `_record_clean` |
| `RequestHandoff` | `_maybe_request_disk_lhp_handoff`, `request_lhp_handoff`, `create_handoff_with_objectives` |
| `RecordUpdate` | the engineering callback and the console's update, down to `append_handoff_update` |
| `StartCancel`, `CommitCancel`, `AbortCancel` | `cancel_lhp_handoff`, one transaction under `handoff_delivery_guard` |
| `ClaimDelivery`, `SettleDelivery`, `CrashDelivery` | `OutboxProcessor`; an intent of this type is never requeued |
| `EnterGuard`, `ReadHandoff`, `RecordDelivery`, `RecheckHandoff`, `OpenIssue`, `FailDelivery` | `build_engineering_lhp_handoff_handler`, one action per await |
| `ReadForConsole`, `WriteFromConsole`, `LoseConsole` | `loop_console_verification_result`, and its failure between reading and writing |
| `ListDue`, `CheckObjective`, `WriteResult` | `CaseVerifier.run_once` and `default_verification_check` |
| `ReadTouched`, `ReadObjectives`, `MarkVerified`, `ResolveCase` | `_maybe_verify_handoff` |
| `AbortRun` | a run that raises, or a process that dies |

Locks.  Delivery and cancellation hold `handoff_delivery_guard`, one transaction
around everything they do.  Callbacks, the console and the verifier do not take
the guard.  What keeps them out of a delivery are Postgres row locks:
`_record_handoff_delivery` inserts a row that references case and handoff, and a
foreign-key check share-locks both until the guard's transaction ends, while
every writer of a handoff selects them `FOR UPDATE` first.  `CaseFree` and
`CaseShared` are these two kinds of lock.  The in-memory store has neither, and is
not modelled.

### Correspondence of `ProactiveLoop`

State: `lock`, `ledger`, `acks` and `cooled` are the files `proactive.lock`,
`ledger-<day>.json`, `suppressions.json` and `investigations.json`; `carriedDeep`,
`lastEffective`, `signature`, `stale`, `deepDue` and `paused` are attributes of
`ProactiveLoop` (times are reduced to whether they have passed); `cycle` holds the
locals of a running `run_once` per caller, the timer or the run-once endpoint.
`firing`, `claimed` and `board` are outside: the conditions that hold, the cases
whose investigation is claimed or recent, and what the channel shows.  `paid` and
`forgot` are histories.

| action | code |
|---|---|
| `StartCycle` | `run_once` up to the scan: `acquire_lock`, `load_ledger`, `_should_deep_scan`; the gate is evaluated later but on this ledger |
| `Scan` | `scan`, complete, with a failed query (`degraded`), or with a rule that raised |
| `Merge` | `_shadow_observe_hotspots`, `_merge_with_carried` |
| `ApplySuppressions` | `_apply_suppressions` with its pruning |
| `SelectFresh`, `ReserveAttempt`, `ClaimCase`, `GraphEnds` | `_investigate` and the investigator, one action per await |
| `CloseCycle`, `PostDigest`, `FinishCycle` | the rest of `run_once`: stamps, `update_ledger`, `_report_decision`, `_safe_report`, `release_lock` |
| `FailCycle` | an exception that ends the cycle |
| `Restart`, `Crash` | `stop` and a new process; a death that leaves the lock file |
| `Ack`, `Unack`, `SetPaused` | the control endpoints |
| `AckExpires`, `CooldownEnds`, `Midnight`, `DeepScanDue`, `ReassertDue`, `LockAges` | time |

A hotspot is one value for fingerprint and severity, and the rules are the set of
conditions that hold.  A cost is counted in investigations, as the code charges a
flat estimate.  `main.py` builds the loop with the case service in control, so the
runs set `Control`; the theorems hold for both modes.

### Correspondence of `CaseReports`

State: `row` is `side_effect_outbox` for the rows of one case (`Facts` by their
signature, `Updates` by their investigation, `Other` for pending rows of types that
nobody here handles); `reported` is `last_reported_signature`; `spool` and `quarantine` are
the two directories of `report_spool.py`; `batch`, `tick` and `worker` are the locals of the
outbox loop and of an immediate attempt; `card` is the Discord message and `file` its
identity file.

| action | code |
|---|---|
| `Observe`, `Transition` | a firing observation whose report is requested; `report_case_transition` |
| `Finish`, `FinishRetained` | the end of an investigation, with the database and without it |
| `Replay`, `Unlink`, `Quarantine` | `drain_spool`, row first, file second |
| `StartBatch`, `StartBatchAfterFailedReplay` | `_due_intents`: recovery of expired claims, pending rows up to the limit, then failed ones |
| `ClaimNext`, `Attempt`, `ClaimFails` | the claim in `process_intent`, by the loop or right after the request |
| `SendFacts`, `Send`, `Stamp`, `Complete` | the report handlers: delivery under the card's lock, `record_report_delivery`, settlement |
| `HandlerFails`, `CompletionLost`, `BackoffEnds`, `ClaimExpires` | failures and time |
| `DeleteCard`, `RefreshDue`, `Restart` | an operator deletes the message, an unchanged card ages, a new process with another verbosity |

A batch is the set of rows the loop is still to try; `ClaimNext` takes them in the order of
`list_outbox`, `Ahead`, which no step in between can change for them.
Claiming a row and loading its case are one step (nothing in between is read again), and
a delivery is one step because it holds the card's file lock.  A delivery whose create
was accepted but not answered leaves a stray message, as the repository's README.md:390-392
admits; the card is then the one the retry creates.  A late report renders the current
facts but stamps its own signature, and the row of a signature that returns (A, B, A)
has succeeded long ago and is not sent again: both are in the model.

### Correspondence of `Investigation`

State: `case` keeps status, signal, what the last diagnosis was about, the age of the
last claim, and the thread the summary names; `task` holds the locals of the background
`investigate_alert` runs, `thread` what is checkpointed, `decision` the locals of decision
requests.  `balance` is a history: approvals of a thread less the times its actions were sent.

| action | code |
|---|---|
| `Observe`, `Claim` | the webhook's read of the case and `claim_investigation` |
| `StartGraph`, `Specialist`, `SpecialistFails`, `PrepareApproval`, `ApprovalInterrupt` | the nodes of the graph up to the interrupt, with the writes of `graph_memory.py` |
| `TaskExecutes`, `TaskCheckpoints`, `TaskVerifies`, `PersistGrant` | execution under the standing grant |
| `FinishRun`, `ReadSummary`, `RecordResult` | the end of `investigate_alert` |
| `Decide`, `ResumeInterrupted`, `ResumeEarly`, `ResumeExecutes`, `ResumeCheckpoints`, `ResumeVerifies`, `ReadDecided`, `PersistDecision`, `ApplyDecision` | the decision endpoint, one action per await |
| `ObserveClean`, `ConditionChanges`, `CooldownEnds`, `Crash` | the environment |

The value a resume passes in reaches only the first superstep, so an approval that comes
before the interrupt runs up to it again; its case is nevertheless persisted as
approved.  Two resumes of one interrupt both execute, each on an approval of its own.
Whether the evidence envelope accepts an action is chosen freely.  Task names are reused,
which bounds their number.

### Correspondence of `CaseIdentity`

State: `cases` and `meta` are rows of the table of either kind, `alias` the aliases in force,
`job` what each process that talks to the database is doing, with the row locks it
holds.  A transaction that locks two rows takes the first in one step and the second,
with all it does, in the next, so that two may wait for each other.

| action | code |
|---|---|
| `Observe`, `Write` | `observe_*`: find the case by alias, then one guarded write; a case that recovered is reopened |
| `LookUp`, `Insert` | `create_atomic_case`: under an advisory lock of the first alias only, with the unique index as the last resort |
| `StartLink`, `Lock`, `Link` | `link_child_case`, child before parent, with the move of the aliases |
| `PutSummary` | a write of the investigation to the case |
| `Correlate`, `Attach` | `create_meta_case`: the meta-case, then a transaction per child |
| `Detach`, `MarkIndependent` | `detach_child_case`, and an action of the child's own |
| `DeadlockVictim` | Postgres aborts one transaction of a circle |

### Correspondence of `McpRuntime`

State: `client` are the `HyruleMCPClient` objects with owner task, queue, session and
back-off; `source` is one source's entry in the registry (client, tools, state); `lock` its
lock; `ask` what each caller is waiting for; `execs` counts executions at the server.  The
actions above `Released` are the owner task (`_owner_loop` and the calls it makes), those up
to `Disconnected` the runtime (`connect_tools`, `live_health`, `_reset_timed_out_source`,
`disconnect`), those from `TakeTool` on a tool call, the client that it revives and its own
retry.  The two sources never meet.  The inner ten-second time-out of a health
command cannot fire before the outer one, and the branch for configuration errors cannot be
reached after start; neither is an action.  The queue's capacity of 100 is never
reached by these callers.  Objects nobody refers to are reused, which bounds their number.

### Correspondence of `KnowledgeArtifacts`

State: `proposal` and `question` are outbox rows, `artifact` is `knowledge_artifacts` by
type (a case has one artifact per type), `place` the candidate directory, `worker` and `review`
the locals of handlers and of review requests, `case` the traces and citations.  The
actions are those of `build_lhp_knowledge_artifact_handler` (`ClaimProposal` to
`SettleProposal`), `build_lhp_knowledge_context_handler` (`ClaimContext` to `SettleContext`), and
`review_lhp_knowledge_artifact` (`ReadForReview`, `WriteReview`), with `Fail` and `Crash` at any
await.  Which documents a retrieval finds is chosen freely.

### Correspondence of `MailPoller`, `ModelRuns` and `ModelCredit`

`MailPoller`: two polls, the loop's and a requested one, whose IMAP sessions interleave;
`flag` and `draft` are the mailbox and the draft directory, `file` and `lock` the
announcement's files, `shown` the channel.  The outside (`imap`, `discord`) changes at any
time, shutdowns and crashes are bounded.  `torn` is a history of a crash between a post
and the write of the state.

`ModelRuns`: `ActiveChain` is `load_model_config`'s, as the set of its positions in `Chain`; a run
keeps the positions it has still to try, smallest first (`StartRun`, `Succeed`, `Fail`), the record of the last run is `last`, and `HasRecentFailure` and `Readiness` are what
`/health/model` answers.  `ModelCredit`: `Probe` is each provider's query, `Check` the two
endpoints that refresh and share the caches.  Times are ages, cut off where the code stops
telling them apart; steps of the wall clock are left out.

## Runs

| run | instance | shows |
|---|---|---|
| `attention_failures` | 1 case, 2 workers, 3 events among acknowledgement, reminder, report request, stall, fault | types; sends exclude each other; what is sent is current; acknowledged before the lease means silent; ledger and outbox agree; a delivered intent is final |
| `attention_liveness` | 1 case, 1 worker, 2 events of every kind, fair | the promise, for every writer of a case; a due message is delivered or stops being due |
| `handoff_delivery` | 2 handoffs of one key, 2 workers, 2 faults, fair | one active handoff per objective key; no issue is opened for a handoff that is over, although callbacks take no guard; a delivery waiting for guard and locks is settled, unless its worker died |
| `handoff_verification` | 1 handoff, alert and health objectives, 2 passes, 1 verifier and 1 console request, 3 observations, 1 fault | types; every count is covered by recorded passes, also when verifier and console write over each other; an objective passes on passes recorded after its last failure; the handoff keeps the protocol |
| `proactive_cycles` | 2 hotspots (one deep), timer and run-once, 1 investigation a day, 2 days, 3 events of every kind, fair | types; the daily budget; clean deep findings are kept; the channel ends up with the truth |
| `investigation_claims` | 2 tasks, 2 signals, 1 crash, fair | investigations exclude each other unless the case moved on; a lasting signal is diagnosed |
| `investigation_approvals` | 1 thread, 2 decisions, 1 crash, every plan and mode | types; no action is sent without an approval of its own |
| `partial_failure` | the same | violated: see Findings |
| `case_reports` | signatures A and B, 1 update, 1 alien row, limit 3, 3 events: at most one observation, one transition, two faults and one crash, fair | types; an update follows the facts, is kept, is not replaced by older content, and is settled in the end |
| `cases` | 3 sources, 3 cases and 2 meta-cases, 2 workers; or 2 proposals, 2 questions, 2 workers, 1 reviewer | one case per source; memberships agree; only links deadlock; a decision is about what was read; references hold |
| `mcp_runtime` | 2 clients, 1 prober, 1 call, fair | types; executed at most twice; replies are of what was executed; the registered client runs; waits end; the source recovers |
| `services` | 1 message, 2 polls, 1 stop; 3 models, 2 runs; 3 providers | announcements converge, mail is read; health is that of the last run; short credit shows |

Bounds of the attention runs.  One case suffices because leases, ledger and intents of different cases
never meet (an intent names its case, and the lease is per case); two workers
give every race for one row and one lease, and the symmetry of workers is sound
since no action chooses among them.  The times are 3, 1 and 1 ticks for the
lease (120 s), the handler deadline (60 s) and the latency of the lease call,
the smallest that satisfy the ordering the code relies on and let the answer to the claim be
late while the lease runs; the liveness run has 2, 1 and 0.  `MaxEvents` bounds
everything the environment does, faults included; three events reach an
expired claim whose late owner meets a second worker.  `Token` has four values, one
more than ever held at once.

Bounds of the handoff runs.  Handoffs of different cases never meet.  Two
handoffs are needed where they compete for the case or for a key, one where a
single life is followed.  `MaxStamp` bounds requests, updates and cancellations
(the verifier's own moves are not bounded): it starts at 1, 4 is two requests and a
callback or cancellation that meets their delivery, 5 takes one handoff from its
request to "implemented".  Three observations request a
handoff, let its alert pass and be unknown again, or come back after the case was resolved.  The
console answers "pass" or "fail" (an "unknown" or "pending" answer is treated as the failure is,
and the theorems cover every answer), while the verifier holds what it read before or after.  Two required passes tell a
row of passes from a sum of them (the code's default is 3, and nothing depends
on the number).  Two faults let a delivery fail and its retry crash.  With these bounds
used up nothing can happen, so deadlock is not checked.  Two writers of one objective, the verifier
and the console, are what it takes for them to write over each other; the theorems cover any number of both.

Bounds of the proactive run.  One deep and one cheap hotspot are the two ways in
which a cycle may not see a condition; one of them is eligible for investigation.
Two callers compete for the lock, the second day meets a cycle that began on the
first, and one attempt a day makes the second one a violation.  `MaxEvents`
counts everything but time and the cycles' own steps; three events reach a
condition, a failure and a crash in any order.  Cycles are not bounded.

Bounds of the case runs.  `case_reports`: two signatures are an old and a new one, one
update meets both; `Limit` is 3 because pending rows that nobody
here handles come first and stay (`outbox.py:53`): once they fill the batch no failed row is
retried, a starvation the code allows and the run excludes.  `MaxEvents` lets three of its five
events happen, of any kind: two faults are a replay that fails after a report was retained, and
a fault of a retry.  `investigation_claims` and `investigation_approvals` split what is too
large together: two claims need two tasks but no decision, two approvals need one thread.  `cases`: three cases are the fewest in which
a source linked away could get a second case; storms of two and of three sources share children; two
workers make any pair wait.  Links and groups together, and three workers, are too large
for TLC; without links no condition ends, so that what is left of the intake is a
creation next to the groups.  The alias that q and r share is the race of two
fingerprints of one thing.  In the knowledge scopes the two requests are the verifier's and
the console's, and only approvals are given; the theorems cover every decision.

Bounds of the service runs.  Two clients are the registered one and the one a call
still holds; one prober is the health endpoint, which the lock serialises.  One
message, with a poll of each kind, meets every order of fetch and stop.  Times of 1
tell "within" from "beyond" a window or a cache's life.


Fairness of `ProactiveLoop`.  A cycle's next step is weakly fair, as for every
coroutine.  The timer's cycle is strongly fair: the timer goes on for ever, and a
run-once cycle only keeps it out for a while.  The passing of the deep scan and re-assert
intervals and the ageing of a dead lock are weakly fair.  Failures are events, so
finitely many of them happen: the digest converges once sends stop failing.

Fairness of `LoopHandoff`.  Verifiers and workers are strongly fair, as their
loops go on for ever and other actors only hold them up for a while (a lock, an
error, another worker's claim); a cancellation in progress is weakly fair.  Of monitors,
operators and the other loop nothing is assumed.  Faults are bounded by
`MaxFaults`.

Fairness (`Fairness` in `CaseAttention`).  `Progress` is weakly fair: an event
loop resumes a coroutine whose await finished, and every await has a deadline.
Scanning, taking a due intent and requeueing are strongly fair: each round of the
loop does all three and other steps may disable them in between.  `Tick` is
strongly fair: time passes.  `CommitInTime` is strongly fair: a commit after a
send is not for ever later than the rest of the lease.  Faults are bounded by
`MaxEvents`, so a fair behaviour has finitely many.

Fairness of the other modules.  `CaseReports`: the loop ticks, handlers and background tasks
run, back-offs end and claims expire; no observation, investigation or fault is
assumed, and faults are bounded.  `Investigation`: the monitor repeats a firing alert (Alertmanager's
repeat interval), ready tasks run, the cooldown ends, and a specialist that is asked again
and again answers once (strong fairness, the only assumption on the model).
`McpRuntime`: tasks that can go on do; the source's lock, handed out in order, is obtained by a
prober that keeps asking (strong); nothing is assumed of the server before `calm`.
`MailPoller`: the loop polls for ever, and a message that is offered to a fetch again and
again is once not refused (strong).  The safety runs of `CaseIdentity`, `KnowledgeArtifacts`,
`ModelRuns` and `ModelCredit` state none.

## Findings

* `partial_failure`: `verify_remediation` looks only at the actions that went through and
  replaces `execution_failed` by `verified` when those are up, so a case of whose two
  actions one failed is resolved; `tests/test_standing_grant.py:231` says that a failed
  execution keeps the case actionable.

Behaviour met while modelling, which the models contain and no run is spent on:

* Objectives that all pass before the other loop reports "implemented" make
  `mark_handoff_verified` raise; passed objectives are not due any more, so the handoff stays
  implemented for ever.  For the same reason an alert that fires again after its
  objective passed does not hold up the resolution of the case.
* Two verifiers may record two outcomes for one handoff, and a verifier writes its result
  over one that the console entered meanwhile.  Run and theorems show what these races
  cannot do: verify without the recorded passes, or out of order.  What they can do is count
  over a failure: the console reads one pass, the verifier records a failure, the console writes
  the second pass, and the objective has passed.  The plan's "Resolution requires all required
  objectives to pass for 3 consecutive checks"
  (`docs/plans/2026-06-22T19-54-22Z-loop-handoff-protocol-v1-noc-engineering-knowledge-via-caseservice.md:523`)
  therefore holds only where no two writers overlap, and `PassedSinceFailure` says what does hold.
* A deep hotspot first found by a deep scan in which some query failed is dropped, and
  reported as resolved, by the cheap cycle after it; `CarriedIsKept` holds of clean deep
  scans.  Acknowledging the last reported hotspot makes the next cycle post the
  all-clear while it is in force.  After a restart, conditions that ended meanwhile never get one.
* A linked case is reopened to `waiting_approval` by the very run that linked it
  (`nodes.py:216`), and the write at the end of a run overrides a recovery or a decision
  that came meanwhile.
* The status of a link's parent is not checked: two cases linked to each other leave their
  aliases at a linked case, which is not investigated until it recovers.  No
  code closes a meta-case, and one whose `create_meta_case` failed half-way stays with
  fewer children.
* Recording an artifact again, by a retry or a second proposal, sets a finished review
  back to pending; two proposals of one case mix their artifacts; a worker that dies
  leaves its intent in progress for ever.  A candidate directory that does not exist
  becomes a file with the last event only.
* A message marked as read by a fetch is lost when its draft fails.  A crash between an
  announcement and the write of its state breaks the announcement after it.
* After a probe failed and succeeded again the state of an MCP source is ready, but its
  tools are those of the client before; with a `health_url` a stuck client is not seen at
  all, which is why `Recovers` excludes it.
* The degraded gauge of the models is overwritten by `load_model_config` in the scrape that
  reads it (`model_metrics.py:63`); errors in the configuration file make `/health/model` answer 503
  although models are available.

## Proofs

The theorems below hold for every value of the constants, under the named assumptions of
the modules, which TLC evaluates in the runs.  Each rests on an inductive invariant, whose
parts TLC checked on the run's instance before they were proved.  The proofs go action by
action; where many actions write alike, a lemma states the form of what they write
(`DeliverForm`, `RequestedForm`, `HandoffMoves`) and another that any write of this form keeps
the invariant (`RowStep`, `HandlerMoves`).

### The handoff protocol (`LoopHandoffProofs`)

Assumptions: objectives belong to handoffs and have a kind (`ObjectiveAssumption`),
and the bounds are naturals with at least one required pass (`BoundAssumption`).

* `HandoffTypeCorrect`: `TypeOK` is inductive, with the two clauses
  that a result about to be written is a result.
* `LocksAndHandoffs`: `KnownInv`, whoever works on a handoff works on a
  requested one, and `LockInv`, while a cancellation holds its locks its handoff may
  still be cancelled and no delivery is past its record.  Lemma `HandoffMoves` derives
  from them the only ways in which a step changes a handoff.
* `HandoffsAreUnique`, `IssuesAreForActiveHandoffs`: from `HandoffMoves`,
  and for the second from the fact that no handoff changes while a delivery is past
  its record.
* `EvidenceHolds`: `EvidenceInv` is inductive because it covers the
  copies as well as the table: a count read, held for any time and written back
  incremented is still covered, since evidence only grows.
* `PassesFollowTheFailure`: `PassedSinceFailure`, for any number of verifiers and console
  requests.  `SinceInv` says that everybody who will write an objective back holds a count covered by the
  passes recorded since the last failure.  A failure takes that cover away, but only if
  nobody else holds a count (`Alone`), so that nobody is left who could write one back without it.
  "Consecutive passes" without that exception is false as soon as two writers overlap (see
  Findings), and follows from the theorem where there is one.
* `KeepsLifecycle`: `Spec => Lifecycle`, the refinement of
  `HandoffLifecycle` with phase and proven handoffs computed from the tables.

Only model-checked: `DeliverySettles` (liveness).

### The proactive loop (`ProactiveLoopProofs`)

Assumptions: deep and eligible hotspots are hotspots, the timer is a caller
(`HotspotAssumption`, `CallerAssumption`), and the limits are naturals
(`LimitAssumption`).

* `LoopInvariant`: `Inv` is inductive.  `WithinDailyBudget` alone is
  not: the cap can only be respected by the cycle to come if its remaining slots fit
  into what the ledger leaves (`BudgetInv`), which needs that there is only one
  cycle (`CycleInv`: whoever is in a cycle holds the lock, and nobody else is); and a
  refund keeps the ledger above the graphs run only because the attempt that is given
  back was charged and has not been run (`BudgetInv` too).
* `BudgetHolds`, `CarriedHolds`, `LoopTypeCorrect`: `WithinDailyBudget`, `CarriedIsKept` and
  `TypeOK` follow.  That attempts stay natural numbers is part of `TypeOK` and rests
  on the same argument.

Only model-checked: `DigestConverges` (liveness).

### The attention pipeline (`CaseAttentionProofs`)

Assumptions: tokens are positive naturals (`TokenAssumption`), monitors report
known severities (`SeverityAssumption`), and
`ClaimLatency + HandlerTimeout < LeaseTtl` (`TimingAssumption`): the code has
60 s against 120 s, and the database's `command_timeout` bounds the rest.
Everything is proved for any number of cases, workers, events and ticks.

* `TypeCorrect`: `TypeOK` is inductive as it stands; the part
  that is not typing is `WorkingOK`, that a worker's row is never deleted.
* `LeaseInvariant`, `SendsExclude`, `SendsAreCurrent`.  Neither
  property is inductive: nothing in "two workers are sending" says who holds the
  lease.  `LeaseInv` adds that a worker under a deadline owns the lease of its case
  and the ledger has not moved (`LeaseOwned`), that the lease outlasts the deadline,
  the one still to start included (`LeaseOutlasts`, the place the timing assumption
  is used), and that a token has one holder (`LeaseTokenUnique`).
* `AckedIsSilent`: `AckedBeforeLeaseIsSilent`.  `AckInv` follows each generation that was
  acknowledged when a lease was taken: the case has either left it or is still acknowledged in it,
  and so has the copy that the re-check reads, so that what is sent is of another generation.
* `RowsInvariant`, `DeliveredForGood`: `DeliveredIsFinal`.  A worker about to reopen a row
  may hold an old read of it.  `RowsInv` says why this is harmless: a row that still has the
  claim token which was read is the row that was read, or has been reopened and not claimed since, and
  nobody ever read it as delivered.
* `LedgerAgrees`: `LedgerMatchesOutbox`.  A commit writes ledger and row in one transaction and
  is refused when the ledger has moved; that no other step adds or removes a delivered row
  is the theorem before.
* `KeepsPromise`: `Spec => Promise`, the refinement of
  `AttentionPromise` under the identity mapping of `attention`.  `PromiseInv` carries a
  fact from the re-check to the commit: ledger and reads lag behind the case's
  generation (`LedgerLags`, `ReadLags`), and a message being sent either follows the
  ledger legitimately or has been overtaken (`SendFollows`), in which case the commit
  refuses it.

Only model-checked: `EventuallyAnnounced` (liveness and `ENABLED` are beyond the prover).

### The reports and the card (`CaseReportsProofs`)

Assumption `CaseReportsConstants`: there are facts, rows of different kinds differ, the batch limit is
positive, verbosities are those of `Verbosity`, bounds are naturals.

* `ReportsInvariant`, `ReportsTyped`: `ReportsInv` is inductive.  `TypeOK` carries what makes
  claims exclusive: what the loop or an attempt is about to claim is pending or due
  (`RowsOK`), a handler that runs has a claimed row of its own (`HandlersOK`), so that recovering
  orphans and requesting a suppressed report again never touch a row that is worked on.
* `UpdatesAreKept`: `UpdateIsKept`, as a record leaves the spool only for its row or the
  quarantine.
* `DeliveredNeverReplaced`: `DeliveredStays`.  Rows are compared with the card's file, not with
  the card, so the invariant goes through the file (`DeliveredInv`): the card is not behind its
  file even when the answer to an edit is lost, and what was or is about to be recorded as
  delivered is not ahead of the file.
* `FactsComeFirst`: `FactsFirst`, an action property.  An update is only sent once facts are
  stamped (`FactsInv`), a stamp is never taken back, and a card comes to show what the
  delivery carries or stays.

Only model-checked: `UpdateIsSettled` (liveness).

### Case identity (`CasesProofs`)

Assumption `IdentityConstants`: `CaseIdentityConstants`, identifiers of cases and meta-cases are
distinct numbers, and the first alias of a source is not one of its others.

* `IdentityInvariant`, `OneCasePerSourceAlways`: a source gets no second case because the first
  alias of every case leads somewhere for ever (`FirstAliasLeads`): links move
  aliases, nothing removes them, and a creation takes the first alias under its lock.
* `MembershipInvariant`: `MembershipInv`, types included; what jobs refer to exists (`Refers`).
* `OnlyLinksDeadlock`: `LinksCauseDeadlocks`.  A worker that waits holds the first row in its
  lock order and nothing else (`HoldsFirst`); around a circle of transactions that lock in
  the order of identifiers there would be no smallest such row.

### Investigations (`InvestigationProofs`)

Assumption `InvestigationConstants`: modes and plans are those of the code and there are some.

* `InvestigationInvariant`, `ApprovalInvariant`: `ApprovalInv`.  The balance of a thread covers not
  only what was sent but everyone who may yet send (`Covered`, with the cardinality of the
  decisions under way), and a thread that a webhook is about to claim is nobody's
  (`Reserved`), so that a late decision never falls on a new investigation.
* `ClaimsExcludeEachOther`: `ClaimsExclude`.  A case nothing happened to since a claim is diagnosed for
  its signal and in its cooldown (`UnmovedAreCalm`), and a webhook that may still claim has read
  it after it moved on (`ClaimsWait`).

Only model-checked: `EventuallyDiagnosed` (liveness).  `FailedStaysFailed` is violated.

### The MCP runtime (`McpRuntimeProofs`)

Assumption `RolesAreDistinct`: calls, probers and the boot task are different tasks.

* `RuntimeInvariant`, `RegistryInvariant`: the registered client runs its owner.  It needs that a
  task which connects a client is alone with it and holds the source's lock (`ConnectsAlone`,
  `LockHeld`), and that a call only revives a client which is not registered (`RevivesOthers`).
* `NoThirdExecution`: `ExecutedAtMostTwice`.  The command of a call is in one place only, a queue or
  an owner; what it may have executed by then is bounded by that place and by where the caller
  has come to (`CallBudget`), so the retry of the owner and that of the caller do not multiply.

Only model-checked: `WaitEnds`, `Recovers` (liveness).

### The knowledge loop (`CasesProofs`)

Assumption, stated in each theorem: what an operator may decide is a review status, and
the types proposed with an outcome are strings (`Admitted`).

* `DecisionIsAboutContent`: `ApprovedAsRead`.  Proposals and retries
  write over the artifact under review, and the review writes back all it read; the
  invariant adds that a review in progress judges what it read (`ReviewsAsRead`).
* `KnowledgeReferencesHold`: `ReferencesHold`, types included.  What a row is about to refer
  to must exist before it does: `CandidateAhead` speaks of workers about to record an
  artifact and of reviews about to write one back, `ContextAhead` of answers not yet
  settled; both survive failures since nothing of what they speak of is ever removed.

### The models (`ModelProofs`)

Assumptions: there is a configured model and the window is a natural (`RunsConstants`); the
providers are the three known ones, thresholds and the lifetime of an answer are naturals, and a key's
limit, where it has one, is positive (`CreditConstants`).

* `RunsInvariant`: `RunsInv`.  The record of successes and failures is that of the last run that
  ended (`RecordIsOfTheLastRun`): when that one failed, its failure is as old as the run and no
  success is younger.  A run keeps positions of a chain that is fixed by the credentials.
* `CreditInvariant`: `CreditInv`.  A provider short for some time is found so by a probe, and an answer
  that was cached in that time says so (`ShortIsSeen`), so that one older than its lifetime
  has been replaced by one that does.

### Model-checked only

Liveness under fairness, wherever a run checks it, with the two properties of `MailPoller`.
Every invariant and every safety property of a passing run is a theorem.

## Not modelled, and the plan

Reads and writes that are one step here and several awaits in the code, where nothing a property
speaks of can come between: finding a report row and enqueueing it (`EnqueueAtt`); the case of a
requested report, which is the current one instead of a copy (`RequestRep`); the guard and the
two rows of a cancellation (`StartCancel`; deadlocks with a delivery are faults); summary
and case at the end of a run and of a grant (`PersistDec`, `PersistGrant`), the two reads of
a decision (`Decide`); claim and load of the case (`Claim` of `CaseReports`); the aliases of a source
in a correlation, whose event fingerprint is the set of sources (`Correlate`).  A lookup takes no locks on
alias rows (`LookUp`): where it meets a link that moves them, the code may end in a unique
violation or a deadlock on them, which fails the creation.

`McpRuntime`: an owner does not die by itself, so `check_health`'s branch for a registered client
whose owner is not running is missing from `FullProbe`; waiting for a disconnected
owner and closing are one step (`Disconnected`, `ConnectGivesUp`), and a second caller that waits for
`_reconnect_lock` is not told from one that comes later (`Revive`).  `MailPoller`: a crash or a
shutdown ends both polls, as if one process ran them, and `notify_start` does not fail.
`ModelCredit`: a disabled OpenRouter probe is cached as "not configured", where the code answers
the same without its cache.

Left out of the attention model: legacy reminders (used only while attention is
disabled), and the other report rows, which are in `CaseReports`.  Message text,
embeds and logging are out of scope everywhere.

Left out of the handoff model: objective types the default checker answers
"unknown" for ever, dry-run mode, `next_check_at` and the limit of the due list
(an objective is due at any time), the callback inbox (it stores
the answer of an update that is already applied), and the in-memory store.

Left out of the proactive model: auto-snooze (it acts on LOW hotspots that may change
nothing, and no rule yields one), prefixes of fingerprints as acknowledgement ids,
acknowledgements made through another worker process, memory, lessons, insight
records, candidate issue and heartbeat (written, not read), and cycles longer than the
two hours after which a lock counts as stale.

Left out of the report model: the path without a case service with its three attempts, and
the loss of an update when database and spool fail at once.  Left out of `CaseIdentity`:
`record_alias`, the in-memory store (one process that serialises everything), and liveness.
Left out of `McpRuntime`: tool schemas and the tool lists of the specialists.  Left out of the
knowledge loop: ranking, and the shadow handler, which writes the same candidate event
and nothing else.  Left out of `ModelCredit`: prices, usage counters and the key's value in
the cache's key.

Not modelled at all: the Discord bot (command parsing around the control API), agents and prompts
(calls of a model), schema and configuration (declarations), proactive outputs (written,
not read).

Next: operator feedback and the retention of cases; acknowledgements of hotspots through
another process (`suppressions.py:71`).  Theorems to come: an abstract
specification of the card's series of contents that `CaseReports` implements.
