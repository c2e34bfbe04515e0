---------------------------- MODULE CaseAttention ----------------------------
(***************************************************************************)
(* Delivery of incident attention: the case projection (cases), the last   *)
(* attention delivered per case (attention, table case_attention_delivery),*)
(* the per-case delivery lease (lease, table case_attention_lease), the    *)
(* durable outbox of report intents (outbox, table side_effect_outbox) and *)
(* the workers that run process_case_outbox_once or an immediate           *)
(* process_intent.  Several workers run at once: one outbox loop per API   *)
(* process plus the background tasks of the webhook handlers.              *)
(*                                                                         *)
(* Every await of the code that reads or writes the store is a step of its *)
(* own, so all a worker knows in between is what it has read: a case       *)
(* (seen), a row of the outbox (snap), a lease token (leaseToken).         *)
(*                                                                         *)
(* Time is a Tick that counts down the lease and the deadlines of the      *)
(* workers.  A claim on an outbox row is found expired at any moment once  *)
(* its holder is gone, and as an event of the environment (a stalled       *)
(* process) while it is not; a failed row is due again at any moment.      *)
(***************************************************************************)
EXTENDS AttentionPolicy

CONSTANTS Case,           \* case ids of reactive (alertmanager, icinga2) cases
          Worker,         \* concurrent outbox workers
          Token,          \* uuid4 values, for claims and leases
          Observed,       \* severities a monitor reports
          LeaseTtl,       \* lifetime of a delivery lease (120 s)
          HandlerTimeout, \* asyncio.timeout around re-check and send (60 s)
          ClaimLatency,   \* longest wait for the answer to claim_attention
          MaxEvents,      \* bound on what the environment does
          Happens         \* the kinds of events of an instance

ASSUME TokenAssumption  == Token \subseteq Nat \ {0}
ASSUME SeverityAssumption == Observed \subseteq Severity
ASSUME TimingAssumption ==
    /\ LeaseTtl \in Nat /\ HandlerTimeout \in Nat /\ ClaimLatency \in Nat
    /\ MaxEvents \in Nat
    /\ ClaimLatency + HandlerTimeout < LeaseTtl

VARIABLES cases,      \* [Case -> CaseRecord]
          attention,  \* [Case -> Delivery]
          lease,      \* [Case -> Lease]
          outbox,     \* intent |-> row, for the intents enqueued so far
          pc,         \* where a worker is
          intent,     \* the intent it works on
          snap,       \* the outbox row as it read or claimed it
          seen,       \* the case as it read it
          leaseToken, \* the lease it was granted
          result,     \* what its handler concluded
          timer,      \* ticks left of the deadline it runs under
          ackSeen,    \* history: generation acknowledged when the lease was granted
          verbosity,  \* LOG_LEVEL_DISCORD
          events      \* environment events so far

storeVars  == <<cases, attention, lease, outbox>>
workerVars == <<pc, intent, snap, seen, leaseToken, result, timer, ackSeen>>
vars == <<storeVars, workerVars, verbosity, events>>

-----------------------------------------------------------------------------
(***************************************************************************)
(* Intents.  An attention intent is the request it carries.  A facts       *)
(* intent reports the current facts of a case; its key is the report state *)
(* signature, here the fields of the case the signature hashes.            *)
(***************************************************************************)
AttentionIntent == [type : {"attention"}, case : Case, kind : RequestKind,
                    generation : Nat, phase : Phase, severity : Severity, sequence : Nat]

FactsIntent == [type : {"facts"}, case : Case, generation : Nat,
                status : CaseStatus, severity : Severity, positive : BOOLEAN]

Intent == AttentionIntent \cup FactsIntent

ReportIntent(c, case) ==
    [type |-> "facts", case |-> c, generation |-> case.generation,
     status |-> case.status, severity |-> case.severity, positive |-> case.positive]

\* The attention sequence a delivery of the intent starts from.
ExpectedSequence(k) == IF k.type = "attention" THEN k.sequence ELSE 0

NoToken == 0

Note == {"none", "delivered", "reported", "attention_no_longer_due",
         "attention_verbosity", "verbosity"}

Row == [status : {"pending", "in_progress", "failed", "succeeded"},
        token  : Token \cup {NoToken},
        note   : Note,
        level  : Nat]

NewRow == [status |-> "pending", token |-> NoToken, note |-> "none", level |-> 0]

Lease == [token : Token \cup {NoToken}, intent : Intent \cup {NoRequest},
          claim : Token \cup {NoToken}, ttl : Nat]

NoLease == [token |-> NoToken, intent |-> NoRequest, claim |-> NoToken, ttl |-> 0]

PC == {"idle", "enqueue", "reopen", "claim", "check", "check_attention", "lease",
       "leased", "recheck", "recheck_attention", "send", "direct", "release", "finish"}

\* Points at which a worker runs under a deadline, and holds a granted lease.
Timed == {"leased", "recheck", "recheck_attention", "send"}

Put(f, k, v) == [x \in DOMAIN f \cup {k} |-> IF x = k THEN v ELSE f[x]]

\* uuid4: a token that differs from every one another worker still holds, for
\* a claim on the same intent or a lease on the same case.  Tokens nobody holds
\* are never compared again, so TLC may reuse them.
Fresh(used) == Token \ (used \cup {NoToken})

NewToken(used) == CHOOSE t \in Fresh(used) : TRUE

ClaimsHeld(w) == {snap[v].token : v \in {u \in Worker \ {w} : intent[u] = intent[w]}}

LeasesHeld(w) == {leaseToken[v] : v \in {u \in Worker \ {w} : pc[u] # "idle" /\ intent[u].case = intent[w].case}}

NoCase == [status |-> "linked", severity |-> "UNKNOWN", generation |-> 0,
           ack |-> NoAck, quiet |-> TRUE, positive |-> FALSE]

\* A worker between two case ids only knows which case it scans.
Scanning(c) == [type |-> "scan", case |-> c]

\* A case as _create_from_unhealthy leaves it.
NewCase(severity) ==
    [status |-> "investigating", severity |-> severity, generation |-> 0,
     ack |-> NoAck, quiet |-> FALSE, positive |-> FALSE]

Init ==
    /\ \E severity \in [Case -> Observed] : cases = [c \in Case |-> NewCase(severity[c])]
    /\ attention = [c \in Case |-> NoDelivery]
    /\ lease = [c \in Case |-> NoLease]
    /\ outbox = [k \in {} |-> NewRow]
    /\ pc = [w \in Worker |-> "idle"]
    /\ intent = [w \in Worker |-> NoRequest]
    /\ snap = [w \in Worker |-> NewRow]
    /\ seen = [w \in Worker |-> NoCase]
    /\ leaseToken = [w \in Worker |-> NoToken]
    /\ result = [w \in Worker |-> "none"]
    /\ timer = [w \in Worker |-> 0]
    /\ ackSeen = [w \in Worker |-> {}]
    /\ verbosity = 1
    /\ events = 0

-----------------------------------------------------------------------------
(***************************************************************************)
(* The environment: monitors, operators, the investigation graph, the loop *)
(* handoff protocol.  Each of these is one guarded transaction on the case *)
(* row (_serialize_case_write, case_write_guard, SELECT ... FOR UPDATE).   *)
(***************************************************************************)
Event(kind) ==
    /\ kind \in Happens
    /\ events < MaxEvents
    /\ events' = events + 1

WriteCase(kind, c, case) ==
    /\ Event(kind)
    /\ cases' = [cases EXCEPT ![c] = case]
    /\ UNCHANGED <<attention, lease, outbox, workerVars, verbosity>>

\* The acknowledgement covers the incident at the acknowledged severity, not a
\* recurrence and not a worse severity.
Renewed(case, severity) ==
    \/ case.status \in {"resolved", "recovered_pending"}
    \/ case.ack # NoAck /\ SeverityRank[severity] > SeverityRank[case.ack]

ObserveFiring(c, severity) ==
    LET case    == cases[c]
        renewed == Renewed(case, severity)
    IN WriteCase("firing", c, [case EXCEPT
           !.status     = IF @ \in {"resolved", "recovered_pending"} THEN "investigating" ELSE @,
           !.severity   = severity,
           !.generation = IF renewed THEN @ + 1 ELSE @,
           !.ack        = IF renewed THEN NoAck ELSE @,
           !.positive   = FALSE])

\* A clean observation that is not positive evidence leaves all of this alone.
ObserveClean(c) ==
    WriteCase("clean", c, [cases[c] EXCEPT !.status = "resolved", !.positive = TRUE])

Ack(c) == WriteCase("ack", c, [cases[c] EXCEPT !.ack = cases[c].severity])

\* suppress, or attachment to a meta-case that covers the child.
Suppress(c) == WriteCase("suppress", c, [cases[c] EXCEPT !.quiet = TRUE])

\* The suppression deadline passes, or the child is detached from its meta-case.
Unsuppress(c) == WriteCase("suppress", c, [cases[c] EXCEPT !.quiet = FALSE])

\* The investigation graph writes a status (a new handoff writes a firing one):
\* neither the generation nor the resolution reason follows.
GraphUpdateCase(c, status) == WriteCase("graph", c, [cases[c] EXCEPT !.status = status])

\* A verified handoff outcome, or an operator decision, resolves the case.
ResolveWithOutcome(c) ==
    WriteCase("graph", c, [cases[c] EXCEPT !.status = "resolved", !.positive = FALSE])

LinkChild(c) ==
    /\ cases[c].status # "linked"
    /\ WriteCase("link", c, [cases[c] EXCEPT !.status = "linked", !.positive = FALSE])

\* The reminder interval since delivered_at is over.
ReminderElapses(c) ==
    /\ Event("reminder")
    /\ attention[c].sequence > 0
    /\ ~attention[c].aged
    /\ attention' = [attention EXCEPT ![c].aged = TRUE]
    /\ UNCHANGED <<cases, lease, outbox, workerVars, verbosity>>

\* A deployment changes LOG_LEVEL_DISCORD.
SetVerbosity(v) ==
    /\ Event("verbosity")
    /\ v # verbosity
    /\ verbosity' = v
    /\ UNCHANGED <<storeVars, workerVars>>

Environment ==
    \/ \E c \in Case :
          \/ \E s \in Observed : ObserveFiring(c, s)
          \/ ObserveClean(c)
          \/ Ack(c)
          \/ Suppress(c)
          \/ Unsuppress(c)
          \/ \E s \in CaseStatus : GraphUpdateCase(c, s)
          \/ ResolveWithOutcome(c)
          \/ LinkChild(c)
          \/ ReminderElapses(c)
    \/ \E v \in Verbosity : SetVerbosity(v)

-----------------------------------------------------------------------------
(***************************************************************************)
(* Worker steps.  Goto moves on; Done returns to the loop and forgets      *)
(* everything read on the way.                                             *)
(***************************************************************************)
Goto(w, label) == pc' = [pc EXCEPT ![w] = label]

Done(w) ==
    /\ pc' = [pc EXCEPT ![w] = "idle"]
    /\ intent' = [intent EXCEPT ![w] = NoRequest]
    /\ snap' = [snap EXCEPT ![w] = NewRow]
    /\ seen' = [seen EXCEPT ![w] = NoCase]
    /\ leaseToken' = [leaseToken EXCEPT ![w] = NoToken]
    /\ result' = [result EXCEPT ![w] = "none"]
    /\ timer' = [timer EXCEPT ![w] = 0]
    /\ ackSeen' = [ackSeen EXCEPT ![w] = {}]

\* update_outbox_if_status with expected_claim_token: compare and set one row.
Matches(k, status, token) ==
    k \in DOMAIN outbox /\ outbox[k].status = status /\ outbox[k].token = token

(***************************************************************************)
(* Enqueueing.                                                             *)
(***************************************************************************)

\* list_attention_candidates returns the case as it is now.
ScanCandidate(w, c) ==
    /\ pc[w] = "idle"
    /\ AttentionDue(c, cases[c], attention[c]) # NoRequest
    /\ Goto(w, "enqueue")
    /\ intent' = [intent EXCEPT ![w] = Scanning(c)]
    /\ seen' = [seen EXCEPT ![w] = cases[c]]
    /\ UNCHANGED <<storeVars, snap, leaseToken, result, timer, ackSeen, verbosity, events>>

\* Mutant: an intent withheld because it was not due stays consumed.
EligibleAgainForVerbosityOnly(k, row) ==
    /\ row.status = "succeeded"
    /\ \/ row.note = "attention_verbosity" /\ AttentionLevel(k.severity) >= verbosity
       \/ row.note = "verbosity" /\ row.level >= verbosity

\* A succeeded intent whose message was withheld, for a reason that is over.
EligibleAgain(k, row) ==
    /\ row.status = "succeeded"
    /\ \/ row.note = "attention_no_longer_due"
       \/ row.note = "attention_verbosity" /\ AttentionLevel(k.severity) >= verbosity
       \/ row.note = "verbosity" /\ row.level >= verbosity

\* enqueue_outbox: insert, or hand back the row that is already there.
Enqueue(w, k) ==
    /\ outbox' = IF k \in DOMAIN outbox THEN outbox ELSE Put(outbox, k, NewRow)
    /\ IF k \in DOMAIN outbox /\ EligibleAgain(k, outbox[k])
       THEN /\ Goto(w, "reopen")
            /\ intent' = [intent EXCEPT ![w] = k]
            /\ snap' = [snap EXCEPT ![w] = outbox[k]]
            /\ UNCHANGED <<seen, leaseToken, result, timer, ackSeen>>
       ELSE Done(w)

EnqueueAttention(w) ==
    LET c == intent[w].case
        k == AttentionDue(c, seen[w], attention[c])
    IN /\ pc[w] = "enqueue"
       /\ IF k = NoRequest THEN Done(w) /\ UNCHANGED outbox ELSE Enqueue(w, k)
       /\ UNCHANGED <<cases, attention, lease, verbosity, events>>

\* request_report, for the facts of the case at this moment.
RequestReport(w, c) ==
    /\ pc[w] = "idle"
    /\ Event("report")
    /\ Enqueue(w, ReportIntent(c, cases[c]))
    /\ UNCHANGED <<cases, attention, lease, verbosity>>

\* An attention intent is reopened only if its claim token is the one read;
\* request_report compares the status alone.
ReopenIntent(w) ==
    LET k == intent[w]
        token == IF k.type = "attention" THEN snap[w].token ELSE outbox[k].token
    IN /\ pc[w] = "reopen"
       /\ outbox' = IF Matches(k, "succeeded", token)
                    THEN [outbox EXCEPT ![k] = [snap[w] EXCEPT !.status = "pending", !.note = "none",
                                                               !.level = 0]]
                    ELSE outbox
       /\ Done(w)
       /\ UNCHANGED <<cases, attention, lease, verbosity, events>>

(***************************************************************************)
(* Claiming an intent.                                                     *)
(***************************************************************************)

\* _due_intents puts a report row whose claim has expired back to pending.  The
\* ten minutes outlast a handler (180 s), unless its process stalls.
RequeueExpiredClaim(k) ==
    /\ \E w \in Worker : pc[w] = "idle"
    /\ outbox[k].status = "in_progress"
    /\ \/ /\ \A w \in Worker : ~(intent[w] = k /\ snap[w].token = outbox[k].token)
          /\ UNCHANGED events
       \/ Event("stall")
    /\ outbox' = [outbox EXCEPT ![k].status = "pending"]
    /\ UNCHANGED <<cases, attention, lease, workerVars, verbosity>>

TakeIntent(w, k) ==
    /\ pc[w] = "idle"
    /\ outbox[k].status \in {"pending", "failed"}
    /\ Goto(w, "claim")
    /\ intent' = [intent EXCEPT ![w] = k]
    /\ snap' = [snap EXCEPT ![w] = outbox[k]]
    /\ UNCHANGED <<storeVars, seen, leaseToken, result, timer, ackSeen, verbosity, events>>

ClaimIntent(w) ==
    LET claimed == [snap[w] EXCEPT !.status = "in_progress", !.token = NewToken(ClaimsHeld(w))]
    IN /\ pc[w] = "claim"
       /\ Fresh(ClaimsHeld(w)) # {}
       /\ IF Matches(intent[w], snap[w].status, snap[w].token)
          THEN /\ outbox' = [outbox EXCEPT ![intent[w]] = claimed]
               /\ snap' = [snap EXCEPT ![w] = claimed]
               /\ Goto(w, "check")
               /\ UNCHANGED <<intent, seen, leaseToken, result, timer, ackSeen>>
          ELSE Done(w) /\ UNCHANGED outbox
       /\ UNCHANGED <<cases, attention, lease, verbosity, events>>

(***************************************************************************)
(* The handler of a report intent.  Attention intents: eligibility, lease, *)
(* eligibility again, send.  Facts intents: the first report of a case     *)
(* takes the same lease; once attention has been delivered it is a quiet   *)
(* edit of the card and takes none.                                        *)
(***************************************************************************)

\* get_case.
CheckCase(w) ==
    /\ pc[w] = "check"
    /\ Goto(w, "check_attention")
    /\ seen' = [seen EXCEPT ![w] = cases[intent[w].case]]
    /\ UNCHANGED <<storeVars, intent, snap, leaseToken, result, timer, ackSeen, verbosity, events>>

\* The handler returns what it did, or raises ("error"); no deadline runs any more.
Return(w, label, outcome) ==
    /\ Goto(w, label)
    /\ result' = [result EXCEPT ![w] = outcome]
    /\ timer' = [timer EXCEPT ![w] = 0]

\* Of the case read for a check nothing but the verdict is used later.
Forget(w) == seen' = [seen EXCEPT ![w] = NoCase]

\* get_attention, and the decision taken on the two reads.
CheckAttention(w) ==
    LET k == intent[w]
        previous == attention[k.case]
    IN /\ pc[w] = "check_attention"
       /\ \/ /\ k.type = "attention"
             /\ AttentionDue(k.case, seen[w], previous) = k
             /\ Goto(w, "lease") /\ UNCHANGED <<result, timer>>
          \/ /\ k.type = "attention"
             /\ AttentionDue(k.case, seen[w], previous) # k
             /\ Return(w, "finish", "attention_no_longer_due")
          \/ /\ k.type = "facts"
             /\ Goto(w, IF previous.sequence = 0 THEN "lease" ELSE "direct")
             /\ UNCHANGED <<result, timer>>
       /\ Forget(w)
       /\ UNCHANGED <<storeVars, intent, snap, leaseToken, ackSeen, verbosity, events>>

\* Mutants: the lease is taken over before it expires; or without looking at
\* what has been delivered since.
MayLeaseUnexpired(w) ==
    LET k == intent[w]
    IN /\ Matches(k, "in_progress", snap[w].token)
       /\ attention[k.case].sequence = ExpectedSequence(k)

MayLeaseLate(w) ==
    LET k == intent[w]
    IN /\ Matches(k, "in_progress", snap[w].token)
       /\ lease[k.case].ttl = 0

\* claim_attention: the row is still claimed by this worker, nothing has been
\* delivered since, and no unexpired lease exists.
MayLease(w) ==
    LET k == intent[w]
    IN /\ Matches(k, "in_progress", snap[w].token)
       /\ attention[k.case].sequence = ExpectedSequence(k)
       /\ lease[k.case].ttl = 0

GrantLease(w) ==
    LET c     == intent[w].case
        token == NewToken(LeasesHeld(w))
    IN /\ Fresh(LeasesHeld(w)) # {}
       /\ lease' = [lease EXCEPT ![c] = [token |-> token, intent |-> intent[w],
                                         claim |-> snap[w].token, ttl |-> LeaseTtl]]
       /\ leaseToken' = [leaseToken EXCEPT ![w] = token]
       /\ timer' = [timer EXCEPT ![w] = ClaimLatency]
       /\ ackSeen' = [ackSeen EXCEPT ![w] = IF cases[c].ack # NoAck THEN {cases[c].generation} ELSE {}]
       /\ Goto(w, "leased")
       /\ UNCHANGED result

ClaimAttention(w) ==
    /\ pc[w] = "lease"
    /\ IF MayLease(w)
       THEN GrantLease(w)
       ELSE Return(w, "finish", "error") /\ UNCHANGED <<lease, leaseToken, ackSeen>>
    /\ UNCHANGED <<cases, attention, outbox, intent, snap, seen, verbosity, events>>

\* The token arrives and asyncio.timeout(60) starts.
StartDeadline(w) ==
    /\ pc[w] = "leased"
    /\ Goto(w, "recheck")
    /\ timer' = [timer EXCEPT ![w] = HandlerTimeout]
    /\ UNCHANGED <<storeVars, intent, snap, seen, leaseToken, result, ackSeen, verbosity, events>>

\* Mutant: no second look at the case under the lease.
RecheckCaseSkipped(w) ==
    /\ pc[w] = "recheck"
    /\ Goto(w, "send")
    /\ UNCHANGED <<storeVars, intent, snap, seen, leaseToken, result, timer, ackSeen, verbosity, events>>

\* get_case under the lease; a facts report needs no more than that.
RecheckCase(w) ==
    /\ pc[w] = "recheck"
    /\ Goto(w, IF intent[w].type = "attention" THEN "recheck_attention" ELSE "send")
    /\ seen' = [seen EXCEPT ![w] = cases[intent[w].case]]
    /\ UNCHANGED <<storeVars, intent, snap, leaseToken, result, timer, ackSeen, verbosity, events>>

RecheckAttention(w) ==
    LET k == intent[w]
    IN /\ pc[w] = "recheck_attention"
       /\ IF AttentionDue(k.case, seen[w], attention[k.case]) = k
          THEN Goto(w, "send") /\ UNCHANGED <<result, timer>>
          ELSE Return(w, "release", "attention_no_longer_due")
       /\ Forget(w)
       /\ UNCHANGED <<storeVars, intent, snap, leaseToken, ackSeen, verbosity, events>>

\* attention_level of the request; _case_report_level of the case just read.
LevelOf(w) == AttentionLevel(IF intent[w].type = "attention" THEN intent[w].severity
                                                             ELSE seen[w].severity)

\* The message is below the configured verbosity and is not sent.
Withhold(w) ==
    /\ pc[w] = "send"
    /\ LevelOf(w) < verbosity
    /\ Return(w, "release", IF intent[w].type = "attention" THEN "attention_verbosity" ELSE "verbosity")
    /\ UNCHANGED <<storeVars, intent, snap, seen, leaseToken, ackSeen, verbosity, events>>

\* The transport confirms the message.
Sent(w) ==
    /\ pc[w] = "send"
    /\ LevelOf(w) >= verbosity
    /\ Return(w, "finish", "delivered")
    /\ UNCHANGED <<storeVars, intent, snap, seen, leaseToken, ackSeen, verbosity, events>>

\* A facts card is superseded by a newer revision of itself: done, nothing announced.
Superseded(w) ==
    /\ pc[w] = "send"
    /\ intent[w].type = "facts"
    /\ LevelOf(w) >= verbosity
    /\ Return(w, "release", "reported")
    /\ UNCHANGED <<storeVars, intent, snap, seen, leaseToken, ackSeen, verbosity, events>>

\* The quiet edit: deliver reads the case again, then sends or withholds.
SendDirect(w) ==
    LET case == cases[intent[w].case]
    IN /\ pc[w] = "direct"
       /\ seen' = [seen EXCEPT ![w] = case]
       /\ Return(w, "finish", IF AttentionLevel(case.severity) < verbosity THEN "verbosity" ELSE "reported")
       /\ UNCHANGED <<storeVars, intent, snap, leaseToken, ackSeen, verbosity, events>>

(***************************************************************************)
(* A read, the lease call or the transport raises, or a deadline fires     *)
(* (60 s around the send, 180 s around the handler).  An answer of         *)
(* claim_attention that is lost leaves a lease nobody will release.        *)
(***************************************************************************)
Abort(w) ==
    /\ Event("fault")
    /\ \/ /\ pc[w] \in {"check", "check_attention", "lease", "leased", "direct"}
          /\ Return(w, "finish", "error")
       \/ /\ pc[w] \in {"recheck", "recheck_attention", "send"}
          /\ Return(w, "release", "error")
    /\ UNCHANGED <<storeVars, intent, snap, seen, leaseToken, ackSeen, verbosity>>

\* The finally block: delete the lease if it is still ours; the call itself may fail.
ReleaseAttention(w) ==
    LET c == intent[w].case
    IN /\ pc[w] = "release"
       /\ Goto(w, "finish")
       /\ \/ /\ lease' = [lease EXCEPT ![c] = IF @.token = leaseToken[w] THEN NoLease ELSE @]
             /\ UNCHANGED events
          \/ Event("fault") /\ UNCHANGED lease
       /\ UNCHANGED <<cases, attention, outbox, intent, snap, seen, leaseToken, result, timer, ackSeen,
                      verbosity>>

(***************************************************************************)
(* The processor records what the handler returned.                        *)
(***************************************************************************)

\* Mutants: the row is written whatever became of the claim; or dropped once settled.
SettleRowUnfenced(w, row) == outbox' = [outbox EXCEPT ![intent[w]] = row]

SettleRowDropped(w, row) == outbox' = [k \in DOMAIN outbox \ {intent[w]} |-> outbox[k]]

\* update_outbox_if_status on the claimed row, expected in_progress under our token.
SettleRow(w, row) ==
    outbox' = IF Matches(intent[w], "in_progress", snap[w].token)
              THEN [outbox EXCEPT ![intent[w]] = row] ELSE outbox

\* The handler returned without a delivery, or raised.
SettleIntent(w) ==
    /\ pc[w] = "finish"
    /\ result[w] # "delivered"
    /\ SettleRow(w, IF result[w] = "error"
                    THEN [snap[w] EXCEPT !.status = "failed"]
                    ELSE [snap[w] EXCEPT !.status = "succeeded", !.note = result[w],
                             !.level = IF result[w] = "verbosity" THEN AttentionLevel(seen[w].severity) ELSE 0])
    /\ Done(w)
    /\ UNCHANGED <<cases, attention, lease, verbosity, events>>

\* complete_attention: one transaction over row, ledger and lease.
MayComplete(w) ==
    LET k == intent[w]
    IN /\ Matches(k, "in_progress", snap[w].token)
       /\ attention[k.case].sequence = ExpectedSequence(k)
       /\ lease[k.case].token = leaseToken[w]
       /\ lease[k.case].intent = k
       /\ lease[k.case].claim = snap[w].token
       /\ lease[k.case].ttl > 0

\* What is announced: the request, or for a facts report the case as it was read.
DeliveryOf(w) ==
    LET k == intent[w]
    IN [sequence   |-> ExpectedSequence(k) + 1,
        generation |-> IF k.type = "attention" THEN k.generation ELSE seen[w].generation,
        phase      |-> IF k.type = "attention" THEN k.phase ELSE "firing",
        severity   |-> IF k.type = "attention" THEN k.severity ELSE seen[w].severity,
        aged       |-> FALSE]

\* Mutant: the ledger and the lease are written, the outbox row is not.
CompleteDeliveryOnly(w) ==
    LET c == intent[w].case
    IN /\ attention' = [attention EXCEPT ![c] = DeliveryOf(w)]
       /\ lease' = [lease EXCEPT ![c] = NoLease]
       /\ UNCHANGED outbox

\* The receipt of a "new" message superseded by a newer card carries an older
\* delivery time, so such a delivery may already be due a reminder.
CompleteDelivery(w) ==
    LET c == intent[w].case
    IN \E aged \in BOOLEAN :
        /\ aged => intent[w].type = "attention" /\ intent[w].kind = "new"
        /\ attention' = [attention EXCEPT ![c] = [DeliveryOf(w) EXCEPT !.aged = aged]]
        /\ outbox' = [outbox EXCEPT ![intent[w]] = [snap[w] EXCEPT !.status = "succeeded", !.note = "delivered"]]
        /\ lease' = [lease EXCEPT ![c] = NoLease]

CompleteAttention(w) ==
    /\ pc[w] = "finish"
    /\ result[w] = "delivered"
    /\ IF MayComplete(w) THEN CompleteDelivery(w) ELSE UNCHANGED <<attention, outbox, lease>>
    /\ Done(w)
    /\ UNCHANGED <<cases, verbosity, events>>

\* The worker dies, is cancelled, or loses the store: its row stays claimed, its
\* lease stays granted.
Crash(w) ==
    /\ Event("fault")
    /\ pc[w] # "idle"
    /\ Done(w)
    /\ UNCHANGED <<storeVars, verbosity>>

\* One unit of time.  A deadline that is up fires before time goes on.
Tick ==
    /\ \A w \in Worker : pc[w] \in Timed => timer[w] > 0
    /\ lease' = [c \in Case |-> [lease[c] EXCEPT !.ttl = IF @ > 0 THEN @ - 1 ELSE 0]]
    /\ timer' = [w \in Worker |-> IF pc[w] \in Timed THEN timer[w] - 1 ELSE timer[w]]
    /\ UNCHANGED <<cases, attention, outbox, pc, intent, snap, seen, leaseToken, result, ackSeen,
                   verbosity, events>>

Handler(w) ==
    \/ CheckCase(w) \/ CheckAttention(w) \/ ClaimAttention(w) \/ StartDeadline(w)
    \/ RecheckCase(w) \/ RecheckAttention(w)
    \/ Withhold(w) \/ Sent(w) \/ Superseded(w) \/ SendDirect(w)
    \/ ReleaseAttention(w)

WorkerStep(w) ==
    \/ \E c \in Case : ScanCandidate(w, c) \/ RequestReport(w, c)
    \/ EnqueueAttention(w) \/ ReopenIntent(w)
    \/ \E k \in DOMAIN outbox : TakeIntent(w, k)
    \/ ClaimIntent(w)
    \/ Handler(w)
    \/ Abort(w)
    \/ SettleIntent(w) \/ CompleteAttention(w)
    \/ Crash(w)

Next ==
    \/ Environment
    \/ \E w \in Worker : WorkerStep(w)
    \/ \E k \in DOMAIN outbox : RequeueExpiredClaim(k)
    \/ Tick

Spec == Init /\ [][Next]_vars

-----------------------------------------------------------------------------
(***************************************************************************)
(* Fairness.  Workers go on, time passes, every round of the outbox loop   *)
(* scans the candidates, requeues expired claims and takes what is due;    *)
(* the commit after a send, with a minute of the lease left, is not always *)
(* too late.  Strong fairness where another step may intervene.            *)
(***************************************************************************)
Progress(w) == \/ EnqueueAttention(w) \/ ReopenIntent(w) \/ ClaimIntent(w)
               \/ Handler(w) \/ SettleIntent(w) \/ CompleteAttention(w)

TakeDue(c) ==
    LET k == AttentionDue(c, cases[c], attention[c])
    IN k \in DOMAIN outbox /\ \E w \in Worker : TakeIntent(w, k)

CommitInTime(w) == MayComplete(w) /\ CompleteAttention(w)

Requeue == \E k \in DOMAIN outbox : RequeueExpiredClaim(k)

Fairness ==
    /\ \A w \in Worker : WF_vars(Progress(w)) /\ SF_vars(CommitInTime(w))
    /\ \A c \in Case : SF_vars(\E w \in Worker : ScanCandidate(w, c)) /\ SF_vars(TakeDue(c))
    /\ SF_vars(Requeue)
    /\ SF_vars(Tick)

FairSpec == Spec /\ Fairness

-----------------------------------------------------------------------------
(***************************************************************************)
(* Properties.                                                             *)
(***************************************************************************)

StoreOK ==
    /\ cases \in [Case -> CaseRecord]
    /\ attention \in [Case -> Delivery]
    /\ lease \in [Case -> Lease]
    /\ DOMAIN outbox \subseteq Intent
    /\ outbox \in [DOMAIN outbox -> Row]

LocalsOK ==
    /\ pc \in [Worker -> PC]
    /\ intent \in [Worker -> Intent \cup {NoRequest} \cup {Scanning(c) : c \in Case}]
    /\ snap \in [Worker -> Row]
    /\ seen \in [Worker -> CaseRecord]
    /\ leaseToken \in [Worker -> Token \cup {NoToken}]
    /\ result \in [Worker -> Note \cup {"error"}]
    /\ timer \in [Worker -> Nat]
    /\ ackSeen \in [Worker -> SUBSET Nat]

\* A worker between claim and settlement works on an intent of the outbox.
WorkingOK ==
    \A w \in Worker :
        /\ pc[w] = "enqueue" => intent[w] \in {Scanning(c) : c \in Case}
        /\ pc[w] \notin {"idle", "enqueue"} => intent[w] \in DOMAIN outbox

\* The type of every variable, and rows are never deleted under a worker.
TypeOK ==
    /\ StoreOK
    /\ LocalsOK
    /\ WorkingOK
    /\ verbosity \in Verbosity
    /\ events \in Nat

(***************************************************************************)
(* Two workers never send for the same case at the same time, whichever    *)
(* intents they hold: the 60 s deadline ends the send before the 120 s     *)
(* lease does, even if the answer of claim_attention was slow.             *)
(***************************************************************************)
SendExclusion ==
    \A w, v \in Worker :
        pc[w] = "send" /\ pc[v] = "send" /\ intent[w].case = intent[v].case => w = v

(***************************************************************************)
(* What is sent is still the next message of its case: nothing has been    *)
(* delivered since it became due, although the eligibility was read in two *)
(* steps, before the send, while other workers commit.                     *)
(***************************************************************************)
SendIsCurrent ==
    \A w \in Worker :
        pc[w] = "send" => attention[intent[w].case].sequence = ExpectedSequence(intent[w])

(***************************************************************************)
(* An incident that was acknowledged before the delivery took its lease    *)
(* is not announced as firing by that delivery: the re-check under the     *)
(* lease sees the acknowledgement, or a newer generation.                  *)
(***************************************************************************)
AckedBeforeLeaseIsSilent ==
    \A w \in Worker :
        pc[w] = "send" /\ intent[w].type = "attention" /\ intent[w].phase = "firing"
            => intent[w].generation \notin ackSeen[w]

(***************************************************************************)
(* Why: an acknowledgement of a generation goes only when the generation   *)
(* does, and the case as it is re-checked was read after the lease.        *)
(***************************************************************************)
Silenced(case, generation) ==
    generation <= case.generation /\ (case.generation = generation => case.ack # NoAck)

AckInv ==
    \A w \in Worker : \A g \in ackSeen[w] :
        /\ pc[w] \in Timed \cup {"release", "finish"}
        /\ Silenced(cases[intent[w].case], g)
        /\ pc[w] = "recheck_attention" => Silenced(seen[w], g)
        /\ pc[w] = "send" /\ intent[w].type = "attention" /\ intent[w].phase = "firing"
              => intent[w].generation # g

(***************************************************************************)
(* Why the sends exclude each other: the lease of a worker under a         *)
(* deadline is its own, nothing is delivered behind its back, and the      *)
(* lease outlasts the deadline (the one to come included while the answer  *)
(* of claim_attention is under way); a lease token has one holder.         *)
(***************************************************************************)
LeaseOwned ==
    \A w \in Worker :
        pc[w] \in Timed =>
            /\ leaseToken[w] # NoToken
            /\ lease[intent[w].case].token = leaseToken[w]
            /\ attention[intent[w].case].sequence = ExpectedSequence(intent[w])

LeaseOutlasts ==
    \A w \in Worker :
        /\ pc[w] \in Timed => lease[intent[w].case].ttl > timer[w]
        /\ pc[w] = "leased" => lease[intent[w].case].ttl > timer[w] + HandlerTimeout

LeaseTokenUnique ==
    \A w \in Worker :
        leaseToken[w] # NoToken =>
            /\ pc[w] \in Timed \cup {"release", "finish"}
            /\ \A v \in Worker :
                 leaseToken[v] = leaseToken[w] /\ intent[v].case = intent[w].case => v = w

LeaseInv == LeaseOwned /\ LeaseOutlasts /\ LeaseTokenUnique

Delivered(k) ==
    k \in DOMAIN outbox /\ k.type = "attention" /\ outbox[k].note = "delivered"

(***************************************************************************)
(* The ledger and the outbox agree: the delivered attention intents of a   *)
(* case are one for each step of its ledger after the first (the first may *)
(* be a facts report), whatever expired, was retried or was reopened.      *)
(***************************************************************************)
LedgerMatchesOutbox ==
    \A c \in Case :
        LET sent == {k \in DOMAIN outbox : k.case = c /\ Delivered(k)}
        IN /\ \A k \in sent : k.sequence < attention[c].sequence
           /\ \A k, l \in sent : k.sequence = l.sequence => k = l
           /\ \A n \in 1 .. attention[c].sequence - 1 : \E k \in sent : k.sequence = n

(***************************************************************************)
(* A delivered attention intent is never reopened, retried or rewritten,   *)
(* by no late settlement, claim, requeue or stale reopening.               *)
(***************************************************************************)
DeliveredStays == \A k \in DOMAIN outbox : Delivered(k) => k \in DOMAIN outbox' /\ outbox'[k] = outbox[k]

DeliveredIsFinal == [][DeliveredStays]_vars

(***************************************************************************)
(* Why: a delivered row is a succeeded one and nobody has read it; a row   *)
(* that its reader finds under the same token is the row it read, or has   *)
(* only been reopened, since a claim takes a token no reader knows.        *)
(***************************************************************************)
ReadBack(w) ==
    pc[w] = "reopen" /\ intent[w].type = "attention" =>
        /\ snap[w].status = "succeeded"
        /\ outbox[intent[w]].token = snap[w].token
              => outbox[intent[w]] = snap[w] \/ outbox[intent[w]].status = "pending"

RowsInv ==
    /\ \A k \in DOMAIN outbox : outbox[k].note = "delivered" => outbox[k].status = "succeeded"
    /\ \A w \in Worker :
          /\ snap[w].note # "delivered"
          /\ pc[w] = "claim" => snap[w].status \in {"pending", "failed"}
          /\ ReadBack(w)

\* The deliveries committed per case are those the promise allows.
Abs == INSTANCE AttentionPromise

Promise == Abs!Spec

(***************************************************************************)
(* Why the deliveries keep the promise.  The ledger and every read lag     *)
(* behind the generation of the case; a re-check reads a case that is not  *)
(* older than the ledger; and a message on its way either is a legitimate  *)
(* successor of the ledger or has been overtaken.                          *)
(***************************************************************************)
LedgerLags ==
    \A c \in Case :
        /\ attention[c].generation <= cases[c].generation
        /\ attention[c].sequence = 0 => attention[c] = NoDelivery

ReadLags(w) ==
    /\ pc[w] = "idle" => seen[w].generation = 0
    /\ pc[w] # "idle" => seen[w].generation <= cases[intent[w].case].generation
    /\ pc[w] = "recheck_attention" => /\ intent[w].type = "attention"
                                     /\ attention[intent[w].case].generation <= seen[w].generation
    /\ result[w] = "delivered" => pc[w] = "finish"

SendFollows(w) ==
    pc[w] = "send" \/ result[w] = "delivered" =>
        LET previous == attention[intent[w].case]
            delivery == DeliveryOf(w)
        IN /\ delivery.generation <= cases[intent[w].case].generation
           /\ delivery.sequence <= previous.sequence + 1
           /\ delivery.sequence = previous.sequence + 1 => Abs!Successor(previous, delivery)

PromiseInv == LedgerLags /\ \A w \in Worker : ReadLags(w) /\ SendFollows(w)

(***************************************************************************)
(* A message that is due and loud enough is delivered, or stops being due: *)
(* no crash, lost lease, expired claim, withheld attempt or failed send    *)
(* leaves it undelivered forever.                                          *)
(***************************************************************************)
Owed(c) ==
    LET k == AttentionDue(c, cases[c], attention[c])
    IN k # NoRequest /\ AttentionLevel(k.severity) >= verbosity

EventuallyAnnounced == \A c \in Case : Owed(c) ~> ~Owed(c)
=============================================================================
