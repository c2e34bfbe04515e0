--------------------------- MODULE AttentionPolicy ---------------------------
(***************************************************************************)
(* The attention policy of app/cases/attention.py: given what is stored    *)
(* about a case and the last attention delivered for it, is a message to   *)
(* the operators due, and which one?  The policy is a pure function; the   *)
(* scheduler evaluates it to enqueue an intent and the delivery handler    *)
(* evaluates it again, twice, before it sends anything.                    *)
(*                                                                         *)
(* Only what the policy tells apart is kept of a case:                     *)
(*   status   "investigating" stands for every status the policy treats    *)
(*            as firing (new, handoff_requested, blocked, ...), "linked"   *)
(*            for the silent terminal ones (closed, expired, linked);      *)
(*   ack      NoAck, or the severity the acknowledgement covers;           *)
(*   quiet    suppressed, snoozed, or covered by a meta-case;              *)
(*   positive resolution_reason is "positive_clean_observation".           *)
(* The age of a delivery is kept as one bit, aged: at least the reminder   *)
(* interval (six hours or more) has passed since delivered_at.             *)
(***************************************************************************)
EXTENDS Naturals

Severity == {"UNKNOWN", "LOW", "MEDIUM", "HIGH"}

SeverityRank == [s \in Severity |-> CASE s = "HIGH"   -> 3
                                      [] s = "MEDIUM" -> 2
                                      [] s = "LOW"    -> 1
                                      [] OTHER        -> 0]

\* Verbosity levels: INFO = 1, WARNING = 2, ERROR = 3 (DEBUG admits what INFO does).
Verbosity == 1..3

AttentionLevel(severity) == CASE severity = "HIGH"   -> 3
                              [] severity = "MEDIUM" -> 2
                              [] OTHER               -> 1

NoAck == "none"

CaseStatus == {"investigating", "resolved", "recovered_pending", "linked"}

CaseRecord == [status     : CaseStatus,
               severity   : Severity,
               generation : Nat,
               ack        : Severity \cup {NoAck},
               quiet      : BOOLEAN,
               positive   : BOOLEAN]

Phase == {"firing", "recovered"}

\* AttentionDelivery, with "nothing delivered yet" as the record of sequence 0.
Delivery == [sequence   : Nat,
             generation : Nat,
             phase      : Phase \cup {"none"},
             severity   : Severity,
             aged       : BOOLEAN]

NoDelivery == [sequence |-> 0, generation |-> 0, phase |-> "none",
               severity |-> "UNKNOWN", aged |-> FALSE]

RequestKind == {"new", "recurrence", "escalation", "recovery", "reminder"}

PhaseOf(case) == IF case.status = "resolved" THEN "recovered" ELSE "firing"

Silent(case) == case.status \in {"linked", "recovered_pending"} \/ case.quiet

\* The kind of message the state of the case calls for, "none" if none.
RecoveredKind(case, previous) ==
    IF case.positive /\ previous.phase = "firing" THEN "recovery" ELSE "none"

FiringKind(case, previous) ==
    IF case.ack # NoAck THEN "none"
    ELSE IF previous.phase = "none" THEN "new"
    ELSE IF previous.phase = "recovered" THEN "recurrence"
    ELSE IF SeverityRank[case.severity] > SeverityRank[previous.severity] THEN "escalation"
    ELSE IF case.generation # previous.generation THEN "recurrence"
    ELSE IF case.severity = "HIGH" /\ previous.aged THEN "reminder"
    ELSE "none"

AttentionKind(case, previous) ==
    IF Silent(case) THEN "none"
    ELSE IF PhaseOf(case) = "recovered" THEN RecoveredKind(case, previous)
    ELSE FiringKind(case, previous)

(***************************************************************************)
(* The request is its own idempotency key: the key is built from exactly   *)
(* these fields.  A recovery is announced at the severity of the firing    *)
(* message it closes.                                                      *)
(***************************************************************************)
NoRequest == [type |-> "none"]

\* Mutant: a recovery is announced at the severity of the case when it ends.
AttentionRequestAtCaseSeverity(c, case, previous, kind) ==
    [type       |-> "attention",
     case       |-> c,
     kind       |-> kind,
     generation |-> case.generation,
     phase      |-> PhaseOf(case),
     severity   |-> case.severity,
     sequence   |-> previous.sequence]

AttentionRequest(c, case, previous, kind) ==
    [type       |-> "attention",
     case       |-> c,
     kind       |-> kind,
     generation |-> case.generation,
     phase      |-> PhaseOf(case),
     severity   |-> IF kind = "recovery" THEN previous.severity ELSE case.severity,
     sequence   |-> previous.sequence]

AttentionDue(c, case, previous) ==
    IF AttentionKind(case, previous) = "none"
    THEN NoRequest
    ELSE AttentionRequest(c, case, previous, AttentionKind(case, previous))
=============================================================================
