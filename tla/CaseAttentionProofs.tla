------------------------- MODULE CaseAttentionProofs --------------------------
(***************************************************************************)
(* Theorems of CaseAttention: types, mutual exclusion of deliveries, and   *)
(* that the committed deliveries are those AttentionPromise allows.        *)
(***************************************************************************)
EXTENDS CaseAttention, TLAPS

-----------------------------------------------------------------------------
(***************************************************************************)
(* Proofs about CaseAttention, for any sets of cases and workers, any      *)
(* tokens, any number of events and any deadlines that satisfy             *)
(* TimingAssumption.                                                       *)
(***************************************************************************)

-----------------------------------------------------------------------------
(* The policy. *)

\* attention_due yields nothing or a well-formed request for the case.
LEMMA DueType ==
    ASSUME NEW c \in Case, NEW case \in CaseRecord, NEW previous \in Delivery
    PROVE  /\ AttentionDue(c, case, previous) # NoRequest
                => /\ AttentionDue(c, case, previous) \in AttentionIntent
                   /\ AttentionDue(c, case, previous).sequence = previous.sequence
                   /\ AttentionDue(c, case, previous).case = c
                   /\ AttentionDue(c, case, previous).generation = case.generation
                   /\ AttentionDue(c, case, previous).type = "attention"
<1>1. AttentionKind(case, previous) \in RequestKind \cup {"none"}
  BY DEF AttentionKind, RecoveredKind, FiringKind, RequestKind
<1>2. CASE AttentionKind(case, previous) = "none"
  BY <1>2 DEF AttentionDue
<1>3. CASE AttentionKind(case, previous) # "none"
  <2>1. AttentionDue(c, case, previous)
          = AttentionRequest(c, case, previous, AttentionKind(case, previous))
    BY <1>3 DEF AttentionDue
  <2>2. AttentionRequest(c, case, previous, AttentionKind(case, previous)) \in AttentionIntent
    BY <1>1, <1>3 DEF AttentionRequest, AttentionIntent, CaseRecord, Delivery, PhaseOf, Phase
  <2> QED
    BY <2>1, <2>2 DEF AttentionRequest
<1> QED
  BY <1>2, <1>3

-----------------------------------------------------------------------------
(* Type correctness. *)

LEMMA InitType == Init => TypeOK
<1> SUFFICES ASSUME Init PROVE TypeOK
  OBVIOUS
<1> USE DEF Init
<1>1. NoCase \in CaseRecord /\ NewRow \in Row /\ NoDelivery \in Delivery /\ NoLease \in Lease
  BY DEF NoCase, CaseRecord, CaseStatus, Severity, NoAck, NewRow, Row, Note, NoToken,
         NoDelivery, Delivery, NoLease, Lease
<1>2. cases \in [Case -> CaseRecord]
  <2>1. ASSUME NEW severity \in Observed PROVE NewCase(severity) \in CaseRecord
    BY SeverityAssumption DEF NewCase, CaseRecord, CaseStatus
  <2> QED
    BY <2>1
<1>3. StoreOK
  BY <1>1, <1>2 DEF StoreOK
<1>4. LocalsOK
  BY <1>1 DEF LocalsOK, PC, Note, NoToken
<1>5. WorkingOK
  BY DEF WorkingOK
<1> QED
  BY <1>3, <1>4, <1>5 DEF TypeOK, Verbosity

\* A write to one case row leaves everything else typed.
LEMMA WriteCaseType ==
    ASSUME TypeOK, NEW kind, NEW c \in Case, NEW case \in CaseRecord, WriteCase(kind, c, case)
    PROVE  TypeOK'
BY DEF TypeOK, StoreOK, LocalsOK, WorkingOK, WriteCase, Event, workerVars

\* Every guarded case transaction.
LEMMA CaseWritesType ==
    ASSUME TypeOK, NEW c \in Case,
           \/ \E s \in Observed : ObserveFiring(c, s)
           \/ ObserveClean(c) \/ Ack(c) \/ Suppress(c) \/ Unsuppress(c)
           \/ \E s \in CaseStatus : GraphUpdateCase(c, s)
           \/ ResolveWithOutcome(c) \/ LinkChild(c)
    PROVE  TypeOK'
<1>1. cases[c] \in CaseRecord
  BY DEF TypeOK, StoreOK
<1>2. ASSUME NEW s \in Observed, ObserveFiring(c, s) PROVE TypeOK'
  <2> DEFINE st  == IF cases[c].status \in {"resolved", "recovered_pending"} THEN "investigating"
                                                                          ELSE cases[c].status
             gen == IF Renewed(cases[c], s) THEN cases[c].generation + 1 ELSE cases[c].generation
             ack == IF Renewed(cases[c], s) THEN NoAck ELSE cases[c].ack
  <2>1. st \in CaseStatus /\ gen \in Nat /\ ack \in Severity \cup {NoAck} /\ s \in Severity
    BY <1>1, SeverityAssumption DEF CaseRecord, CaseStatus
  <2>2. WriteCase("firing", c, [cases[c] EXCEPT !.status = st, !.severity = s, !.generation = gen,
                                                !.ack = ack, !.positive = FALSE])
    BY <1>2 DEF ObserveFiring
  <2> HIDE DEF st, gen, ack
  <2>3. [cases[c] EXCEPT !.status = st, !.severity = s, !.generation = gen,
                         !.ack = ack, !.positive = FALSE] \in CaseRecord
    BY <1>1, <2>1 DEF CaseRecord
  <2> QED
    BY <2>2, <2>3, WriteCaseType
<1>3. CASE ObserveClean(c)
  BY <1>1, <1>3, WriteCaseType DEF ObserveClean, CaseRecord, CaseStatus
<1>4. CASE Ack(c)
  BY <1>1, <1>4, WriteCaseType DEF Ack, CaseRecord
<1>5. CASE Suppress(c) \/ Unsuppress(c)
  BY <1>1, <1>5, WriteCaseType DEF Suppress, Unsuppress, CaseRecord
<1>6. ASSUME NEW s \in CaseStatus, GraphUpdateCase(c, s) PROVE TypeOK'
  BY <1>1, <1>6, WriteCaseType DEF GraphUpdateCase, CaseRecord
<1>7. CASE ResolveWithOutcome(c)
  BY <1>1, <1>7, WriteCaseType DEF ResolveWithOutcome, CaseRecord, CaseStatus
<1>8. CASE LinkChild(c)
  BY <1>1, <1>8, WriteCaseType DEF LinkChild, CaseRecord, CaseStatus
<1> QED
  BY <1>2, <1>3, <1>4, <1>5, <1>6, <1>7, <1>8

\* Returning to the loop keeps the locals typed.
LEMMA DoneType ==
    ASSUME LocalsOK, WorkingOK, NEW w \in Worker, Done(w), DOMAIN outbox \subseteq DOMAIN outbox'
    PROVE  LocalsOK' /\ WorkingOK'
<1>1. NoCase \in CaseRecord /\ NewRow \in Row
  BY DEF NoCase, CaseRecord, CaseStatus, Severity, NoAck, NewRow, Row, Note, NoToken
<1>2. LocalsOK'
  BY <1>1 DEF LocalsOK, Done, PC, Note, NoToken
<1>3. WorkingOK'
  BY DEF LocalsOK, WorkingOK, Done
<1> QED
  BY <1>2, <1>3

\* The intent of a worker that works on one.
LEMMA IntentType ==
    ASSUME TypeOK, NEW w \in Worker, pc[w] \notin {"idle", "enqueue"}
    PROVE  /\ intent[w] \in Intent /\ intent[w].case \in Case
           /\ intent[w] \in DOMAIN outbox
           /\ intent[w].type \in {"attention", "facts"}
           /\ intent[w].type = "attention" => intent[w] \in AttentionIntent
           /\ intent[w].type = "facts" => intent[w] \in FactsIntent
BY DEF TypeOK, WorkingOK, StoreOK, Intent, AttentionIntent, FactsIntent

\* What a worker would commit is a delivery.
LEMMA DeliveryType ==
    ASSUME TypeOK, NEW w \in Worker, pc[w] \notin {"idle", "enqueue"}
    PROVE  DeliveryOf(w) \in Delivery
BY IntentType DEF DeliveryOf, ExpectedSequence, Delivery, AttentionIntent, FactsIntent, Phase, TypeOK, LocalsOK,
   CaseRecord

LEMMA NextType == TypeOK /\ [Next]_vars => TypeOK'
<1> SUFFICES ASSUME TypeOK, [Next]_vars PROVE TypeOK'
  OBVIOUS
<1>1. ASSUME NEW c \in Case, ReminderElapses(c) PROVE TypeOK'
  <2>1. [attention[c] EXCEPT !.aged = TRUE] \in Delivery
    BY DEF TypeOK, StoreOK, Delivery
  <2> QED
    BY <1>1, <2>1 DEF ReminderElapses, Event, TypeOK, StoreOK, LocalsOK, WorkingOK, workerVars
<1>2. ASSUME NEW v \in Verbosity, SetVerbosity(v) PROVE TypeOK'
  BY <1>2 DEF SetVerbosity, Event, TypeOK, StoreOK, LocalsOK, WorkingOK, storeVars, workerVars
<1>3. ASSUME NEW w \in Worker, NEW c \in Case, ScanCandidate(w, c) PROVE TypeOK'
  BY <1>3 DEF ScanCandidate, Goto, PC, TypeOK, StoreOK, LocalsOK, WorkingOK, storeVars
<1>4. ASSUME NEW w \in Worker, NEW k \in Intent, Enqueue(w, k), UNCHANGED <<cases, attention, lease>>
      PROVE  StoreOK' /\ LocalsOK' /\ WorkingOK'
  <2>1. StoreOK' /\ DOMAIN outbox \subseteq DOMAIN outbox' /\ k \in DOMAIN outbox'
    BY <1>4 DEF Enqueue, Put, TypeOK, StoreOK, Row, NewRow, Note, NoToken
  <2>2. CASE Done(w)
    BY <2>1, <2>2, DoneType DEF TypeOK
  <2>3. CASE k \in DOMAIN outbox /\ ~Done(w)
    BY <1>4, <2>1, <2>3 DEF Enqueue, Goto, PC, TypeOK, StoreOK, LocalsOK, WorkingOK
  <2> QED
    BY <1>4, <2>1, <2>2, <2>3 DEF Enqueue
<1>5. ASSUME NEW w \in Worker, EnqueueAttention(w) PROVE TypeOK'
  <2>1. intent[w].case \in Case
    BY <1>5 DEF EnqueueAttention, TypeOK, WorkingOK, Scanning
  <2>2. CASE AttentionDue(intent[w].case, seen[w], attention[intent[w].case]) = NoRequest
    BY <1>5, <2>2, DoneType DEF EnqueueAttention, TypeOK, StoreOK
  <2>3. CASE AttentionDue(intent[w].case, seen[w], attention[intent[w].case]) # NoRequest
    <3>1. AttentionDue(intent[w].case, seen[w], attention[intent[w].case]) \in Intent
      BY <2>1, <2>3, DueType DEF TypeOK, StoreOK, LocalsOK, Intent
    <3> QED
      BY <1>5, <2>3, <3>1, <1>4 DEF EnqueueAttention, TypeOK
  <2> QED
    BY <2>2, <2>3
<1>6. ASSUME NEW w \in Worker, NEW c \in Case, RequestReport(w, c) PROVE TypeOK'
  <2>1. ReportIntent(c, cases[c]) \in Intent
    BY DEF ReportIntent, Intent, FactsIntent, TypeOK, StoreOK, CaseRecord
  <2> QED
    BY <1>6, <2>1, <1>4 DEF RequestReport, Event, TypeOK
<1>7. ASSUME NEW w \in Worker, ReopenIntent(w) PROVE TypeOK'
  <2>0. [snap[w] EXCEPT !.status = "pending", !.note = "none", !.level = 0] \in Row
    BY DEF TypeOK, LocalsOK, Row, Note
  <2>1. StoreOK' /\ DOMAIN outbox \subseteq DOMAIN outbox'
    BY <1>7, <2>0 DEF ReopenIntent, TypeOK, StoreOK
  <2> QED
    BY <1>7, <2>1, DoneType DEF ReopenIntent, TypeOK
<1>8. ASSUME NEW k \in DOMAIN outbox, RequeueExpiredClaim(k) PROVE TypeOK'
  <2>1. StoreOK' /\ DOMAIN outbox \subseteq DOMAIN outbox'
    BY <1>8 DEF RequeueExpiredClaim, TypeOK, StoreOK, Row
  <2> QED
    BY <1>8, <2>1 DEF RequeueExpiredClaim, Event, TypeOK, LocalsOK, WorkingOK, workerVars
<1>9. ASSUME NEW w \in Worker, NEW k \in DOMAIN outbox, TakeIntent(w, k) PROVE TypeOK'
  BY <1>9 DEF TakeIntent, Goto, PC, TypeOK, StoreOK, LocalsOK, WorkingOK, storeVars
<1>10. ASSUME NEW w \in Worker, ClaimIntent(w) PROVE TypeOK'
  <2> DEFINE claimed == [snap[w] EXCEPT !.status = "in_progress", !.token = NewToken(ClaimsHeld(w))]
  <2>1. NewToken(ClaimsHeld(w)) \in Token
    BY <1>10 DEF ClaimIntent, NewToken, Fresh
  <2>2. claimed \in Row
    BY <2>1 DEF TypeOK, LocalsOK, Row
  <2>3. StoreOK' /\ DOMAIN outbox \subseteq DOMAIN outbox'
    BY <1>10, <2>2 DEF ClaimIntent, Matches, TypeOK, StoreOK
  <2>4. CASE Done(w)
    BY <1>10, <2>3, <2>4, DoneType DEF ClaimIntent, TypeOK
  <2>5. CASE Goto(w, "check") /\ snap' = [snap EXCEPT ![w] = claimed]
             /\ UNCHANGED <<intent, seen, leaseToken, result, timer, ackSeen>>
    BY <1>10, <2>2, <2>3, <2>5 DEF ClaimIntent, Goto, PC, TypeOK, LocalsOK, WorkingOK
  <2> QED
    BY <1>10, <2>4, <2>5 DEF ClaimIntent
<1>11. ASSUME NEW w \in Worker, CheckCase(w) \/ StartDeadline(w) \/ RecheckCase(w) PROVE TypeOK'
  <2>1. pc[w] \notin {"idle", "enqueue"}
    BY <1>11 DEF CheckCase, StartDeadline, RecheckCase
  <2>2. cases[intent[w].case] \in CaseRecord
    BY <2>1, IntentType DEF TypeOK, StoreOK
  <2> QED
    BY <1>11, <2>1, <2>2, TimingAssumption
    DEF CheckCase, StartDeadline, RecheckCase, Goto, PC, TypeOK, StoreOK, LocalsOK, WorkingOK, storeVars
<1>12. NoCase \in CaseRecord /\ NoLease \in Lease
  BY DEF NoCase, CaseRecord, CaseStatus, Severity, NoAck, NoLease, Lease, NoToken
<1>13. ASSUME NEW w \in Worker, CheckAttention(w) \/ RecheckAttention(w) PROVE TypeOK'
  BY <1>12, <1>13
  DEF CheckAttention, RecheckAttention, Return, Forget, Goto, PC, Note, TypeOK, StoreOK, LocalsOK, WorkingOK,
      storeVars
<1>14. ASSUME NEW w \in Worker, ClaimAttention(w) PROVE TypeOK'
  <2>1. intent[w] \in Intent /\ intent[w].case \in Case /\ snap[w].token \in Token \cup {NoToken}
        /\ cases[intent[w].case].generation \in Nat
    BY <1>14, IntentType DEF ClaimAttention, TypeOK, StoreOK, LocalsOK, Row, CaseRecord
  <2>2. CASE GrantLease(w)
    <3> DEFINE token == NewToken(LeasesHeld(w))
               granted == [token |-> token, intent |-> intent[w], claim |-> snap[w].token, ttl |-> LeaseTtl]
    <3>1. token \in Token
      BY <2>2 DEF GrantLease, NewToken, Fresh
    <3>2. granted \in Lease
      BY <2>1, <3>1, TimingAssumption DEF Lease
    <3>3. lease' = [lease EXCEPT ![intent[w].case] = granted]
      BY <2>2 DEF GrantLease
    <3>4. StoreOK'
      BY <1>14, <3>2, <3>3 DEF ClaimAttention, TypeOK, StoreOK
    <3>5. LocalsOK'
      BY <1>14, <2>1, <2>2, <3>1, TimingAssumption DEF ClaimAttention, GrantLease, Goto, PC, TypeOK, LocalsOK
    <3> QED
      BY <1>14, <2>2, <3>4, <3>5 DEF ClaimAttention, GrantLease, Goto, TypeOK, LocalsOK, WorkingOK
  <2>3. CASE Return(w, "finish", "error") /\ UNCHANGED <<lease, leaseToken, ackSeen>>
    BY <1>14, <2>3 DEF ClaimAttention, Return, Goto, PC, Note, TypeOK, StoreOK, LocalsOK, WorkingOK
  <2> QED
    BY <1>14, <2>2, <2>3 DEF ClaimAttention
<1>15. ASSUME NEW w \in Worker, Withhold(w) \/ Sent(w) \/ Superseded(w) PROVE TypeOK'
  BY <1>15 DEF Withhold, Sent, Superseded, Return, Goto, PC, Note, TypeOK, StoreOK, LocalsOK, WorkingOK, storeVars
<1>16. ASSUME NEW w \in Worker, SendDirect(w) PROVE TypeOK'
  <2>1. cases[intent[w].case] \in CaseRecord
    BY <1>16, IntentType DEF SendDirect, TypeOK, StoreOK
  <2> QED
    BY <1>16, <2>1 DEF SendDirect, Return, Goto, PC, Note, TypeOK, StoreOK, LocalsOK, WorkingOK, storeVars
<1>17. ASSUME NEW w \in Worker, Abort(w) PROVE TypeOK'
  BY <1>17 DEF Abort, Event, Return, Goto, PC, Note, TypeOK, StoreOK, LocalsOK, WorkingOK, storeVars
<1>18. ASSUME NEW w \in Worker, ReleaseAttention(w) PROVE TypeOK'
  <2>1. StoreOK'
    BY <1>12, <1>18 DEF ReleaseAttention, TypeOK, StoreOK
  <2> QED
    BY <1>18, <2>1 DEF ReleaseAttention, Event, Goto, PC, TypeOK, StoreOK, LocalsOK, WorkingOK
<1>19. ASSUME NEW w \in Worker, SettleIntent(w) PROVE TypeOK'
  <2>1. snap[w] \in Row /\ result[w] \in Note \cup {"error"}
    BY DEF TypeOK, LocalsOK
  <2>2. ASSUME NEW n \in Note, NEW l \in Nat
        PROVE [snap[w] EXCEPT !.status = "succeeded", !.note = n, !.level = l] \in Row
    BY <2>1 DEF Row
  <2>3. [snap[w] EXCEPT !.status = "failed"] \in Row
    BY <2>1 DEF Row
  <2>4. AttentionLevel(seen[w].severity) \in Nat
    BY DEF AttentionLevel
  <2>5. PICK row \in Row : SettleRow(w, row)
    BY <1>19, <2>1, <2>2, <2>3, <2>4 DEF SettleIntent
  <2>6. StoreOK' /\ DOMAIN outbox \subseteq DOMAIN outbox'
    BY <1>19, <2>5 DEF SettleIntent, SettleRow, TypeOK, StoreOK
  <2> QED
    BY <1>19, <2>6, DoneType DEF SettleIntent, TypeOK
<1>20. ASSUME NEW w \in Worker, CompleteAttention(w) PROVE TypeOK'
  <2>1. ASSUME NEW aged \in BOOLEAN PROVE [DeliveryOf(w) EXCEPT !.aged = aged] \in Delivery
    BY <1>20, DeliveryType DEF CompleteAttention, Delivery
  <2>2. [snap[w] EXCEPT !.status = "succeeded", !.note = "delivered"] \in Row
    BY DEF TypeOK, LocalsOK, Row, Note
  <2>3. CASE CompleteDelivery(w)
    <3>1. PICK aged \in BOOLEAN :
            /\ attention' = [attention EXCEPT ![intent[w].case] = [DeliveryOf(w) EXCEPT !.aged = aged]]
            /\ outbox' = [outbox EXCEPT ![intent[w]]
                            = [snap[w] EXCEPT !.status = "succeeded", !.note = "delivered"]]
            /\ lease' = [lease EXCEPT ![intent[w].case] = NoLease]
      BY <2>3 DEF CompleteDelivery
    <3>2. StoreOK' /\ DOMAIN outbox \subseteq DOMAIN outbox'
      BY <1>12, <1>20, <2>1, <2>2, <3>1 DEF CompleteAttention, TypeOK, StoreOK
    <3> QED
      BY <1>20, <3>2, DoneType DEF CompleteAttention, TypeOK
  <2>4. CASE UNCHANGED <<attention, outbox, lease>>
    BY <1>20, <2>4, DoneType DEF CompleteAttention, TypeOK, StoreOK
  <2> QED
    BY <1>20, <2>3, <2>4 DEF CompleteAttention
<1>21. ASSUME NEW w \in Worker, Crash(w) PROVE TypeOK'
  BY <1>21, DoneType DEF Crash, Event, TypeOK, StoreOK, storeVars
<1>22. CASE Tick
  <2>1. ASSUME NEW c \in Case PROVE [lease[c] EXCEPT !.ttl = IF @ > 0 THEN @ - 1 ELSE 0] \in Lease
    BY DEF TypeOK, StoreOK, Lease
  <2>2. StoreOK'
    BY <1>22, <2>1 DEF Tick, TypeOK, StoreOK
  <2>3. LocalsOK'
    BY <1>22 DEF Tick, TypeOK, LocalsOK
  <2> QED
    BY <1>22, <2>2, <2>3 DEF Tick, TypeOK, WorkingOK
<1>23. CASE UNCHANGED vars
  BY <1>23 DEF vars, storeVars, workerVars, TypeOK, StoreOK, LocalsOK, WorkingOK
<1>24. CASE Environment
  BY <1>1, <1>2, <1>24, CaseWritesType DEF Environment
<1>25. ASSUME NEW w \in Worker, WorkerStep(w) PROVE TypeOK'
  BY <1>3, <1>5, <1>6, <1>7, <1>9, <1>10, <1>11, <1>13, <1>14, <1>15, <1>16, <1>17, <1>18, <1>19, <1>20,
     <1>21, <1>25
  DEF WorkerStep, Handler
<1> QED
  BY <1>8, <1>22, <1>23, <1>24, <1>25 DEF Next

(***************************************************************************)
(* Type correctness of every behaviour of the attention pipeline; rows of  *)
(* the outbox are never deleted under a worker.                            *)
(***************************************************************************)
THEOREM TypeCorrect == Spec => []TypeOK
BY InitType, NextType, PTL DEF Spec

-----------------------------------------------------------------------------
(***************************************************************************)
(* Mutual exclusion of deliveries: at most one worker sends for a case,    *)
(* and what it sends is still the next message of that case.  LeaseInv is  *)
(* inductive relative to TypeOK.                                           *)
(***************************************************************************)

LEMMA InitLease == Init => LeaseInv
BY DEF Init, LeaseInv, LeaseOwned, LeaseOutlasts, LeaseTokenUnique, Timed, NoToken

\* A worker that neither holds nor takes a lease may do what it likes to itself.
LEMMA LeaseIdleStep ==
    ASSUME TypeOK, LeaseInv, NEW w \in Worker, pc'[w] \notin Timed, leaseToken'[w] = NoToken,
           UNCHANGED <<lease, attention>>,
           \A v \in Worker \ {w} : /\ pc'[v] = pc[v] /\ intent'[v] = intent[v]
                                   /\ leaseToken'[v] = leaseToken[v] /\ timer'[v] = timer[v]
    PROVE  LeaseInv'
<1>1. LeaseOwned'
  BY DEF LeaseInv, LeaseOwned, ExpectedSequence
<1>2. LeaseOutlasts'
  BY DEF LeaseInv, LeaseOutlasts, Timed
<1>3. LeaseTokenUnique'
  BY DEF LeaseInv, LeaseTokenUnique
<1> QED
  BY <1>1, <1>2, <1>3 DEF LeaseInv

\* A worker that moves on under its lease, or stops being under a deadline.
LEMMA LeaseKeepStep ==
    ASSUME TypeOK, LeaseInv, NEW w \in Worker, NEW label,
           Goto(w, label), UNCHANGED <<lease, attention, intent, leaseToken>>,
           timer' \in [Worker -> Nat],
           \A v \in Worker \ {w} : timer'[v] = timer[v],
           \/ label \in {"release", "finish"}
           \/ leaseToken[w] = NoToken /\ label \notin Timed
           \/ /\ pc[w] \in Timed /\ label \in Timed \ {"leased"}
              /\ timer'[w] <= IF pc[w] = "leased" THEN timer[w] + HandlerTimeout ELSE timer[w]
    PROVE  LeaseInv'
<1>1. \A v \in Worker : pc'[v] = IF v = w THEN label ELSE pc[v]
  BY DEF Goto, TypeOK, LocalsOK
<1>2. LeaseOwned'
  BY <1>1 DEF LeaseInv, LeaseOwned, LeaseTokenUnique, ExpectedSequence, Timed
<1>3. LeaseTokenUnique'
  BY <1>1 DEF LeaseInv, LeaseOwned, LeaseTokenUnique, Timed
<1>4. LeaseOutlasts'
  <2> SUFFICES ASSUME NEW v \in Worker, pc'[v] \in Timed
               PROVE  /\ lease[intent[v].case].ttl > timer'[v]
                      /\ pc'[v] = "leased" => lease[intent[v].case].ttl > timer'[v] + HandlerTimeout
    BY <1>1 DEF LeaseOutlasts, Timed
  <2>1. CASE v # w
    BY <1>1, <2>1 DEF LeaseInv, LeaseOutlasts
  <2>2. CASE v = w
    <3>1. pc[w] \in Timed /\ label \in Timed \ {"leased"}
      BY <1>1, <2>2 DEF LeaseInv, LeaseTokenUnique, Timed
    <3>2. timer[w] \in Nat /\ timer'[w] \in Nat /\ lease[intent[w].case].ttl \in Nat
      <4>1. intent[w].case \in Case
        BY <3>1, IntentType DEF Timed
      <4> QED
        BY <4>1 DEF TypeOK, StoreOK, LocalsOK, Lease
    <3> QED
      BY <1>1, <2>2, <3>1, <3>2, TimingAssumption DEF LeaseInv, LeaseOutlasts, Timed
  <2> QED
    BY <2>1, <2>2
<1> QED
  BY <1>2, <1>3, <1>4 DEF LeaseInv

\* What a worker returning to the loop leaves of itself.
LEMMA DoneForgets ==
    ASSUME TypeOK, NEW w \in Worker, Done(w)
    PROVE  /\ pc'[w] = "idle" /\ leaseToken'[w] = NoToken /\ result'[w] = "none"
           /\ \A v \in Worker \ {w} : /\ pc'[v] = pc[v] /\ intent'[v] = intent[v] /\ snap'[v] = snap[v]
                                      /\ seen'[v] = seen[v] /\ leaseToken'[v] = leaseToken[v]
                                      /\ result'[v] = result[v] /\ timer'[v] = timer[v]
                                      /\ ackSeen'[v] = ackSeen[v]
BY DEF Done, TypeOK, LocalsOK

LEMMA NextLease == TypeOK /\ TypeOK' /\ LeaseInv /\ [Next]_vars => LeaseInv'
<1> SUFFICES ASSUME TypeOK, TypeOK', LeaseInv, [Next]_vars PROVE LeaseInv'
  OBVIOUS
<1>1. CASE UNCHANGED <<lease, pc, intent, leaseToken, timer>>
           /\ \A c \in Case : attention'[c].sequence = attention[c].sequence
  <2>1. \A w \in Worker : pc[w] \in Timed => intent[w].case \in Case
    BY IntentType DEF Timed
  <2> QED
    BY <1>1, <2>1 DEF LeaseInv, LeaseOwned, LeaseOutlasts, LeaseTokenUnique, ExpectedSequence
<1>2. CASE Environment
  <2>1. ASSUME NEW c \in Case, ReminderElapses(c) PROVE LeaseInv'
    <3>1. \A d \in Case : attention'[d].sequence = attention[d].sequence
      BY <2>1 DEF ReminderElapses, TypeOK, StoreOK, Delivery
    <3> QED
      BY <1>1, <2>1, <3>1 DEF ReminderElapses, workerVars
  <2>2. CASE UNCHANGED <<attention, lease, workerVars>>
    BY <1>1, <2>2 DEF workerVars
  <2> QED
    BY <1>2, <2>1, <2>2 DEF Environment, ObserveFiring, ObserveClean, Ack, Suppress, Unsuppress,
       GraphUpdateCase, ResolveWithOutcome, LinkChild, WriteCase, SetVerbosity, storeVars
<1>3. ASSUME NEW w \in Worker, Done(w), UNCHANGED <<lease, attention>> PROVE LeaseInv'
  BY <1>3, DoneForgets, LeaseIdleStep DEF Timed
<1>4. ASSUME NEW w \in Worker,
             \/ \E c \in Case : ScanCandidate(w, c) \/ RequestReport(w, c)
             \/ \E k \in DOMAIN outbox : TakeIntent(w, k)
             \/ EnqueueAttention(w) \/ ReopenIntent(w) \/ ClaimIntent(w)
             \/ CheckCase(w) \/ CheckAttention(w) \/ SendDirect(w)
      PROVE  LeaseInv'
  <2>1. leaseToken[w] = NoToken
    BY <1>4 DEF LeaseInv, LeaseTokenUnique, Timed, ScanCandidate, RequestReport, TakeIntent, EnqueueAttention,
       ReopenIntent, ClaimIntent, CheckCase, CheckAttention, SendDirect
  <2>2. UNCHANGED <<lease, attention>>
    BY <1>4 DEF ScanCandidate, RequestReport, TakeIntent, EnqueueAttention,
       ReopenIntent, ClaimIntent, CheckCase, CheckAttention, SendDirect, storeVars
  <2>3. CASE Done(w)
    BY <1>3, <2>2, <2>3
  <2>4. CASE ~Done(w)
    <3>1. /\ UNCHANGED leaseToken /\ pc'[w] \notin Timed
          /\ \A v \in Worker \ {w} : pc'[v] = pc[v] /\ intent'[v] = intent[v] /\ timer'[v] = timer[v]
      BY <1>4, <2>4 DEF ScanCandidate, RequestReport, TakeIntent, EnqueueAttention, Enqueue, Goto, Return,
         ReopenIntent, ClaimIntent, CheckCase, CheckAttention, SendDirect, Timed, TypeOK, LocalsOK
    <3> QED
      BY <2>1, <2>2, <3>1, LeaseIdleStep
  <2> QED
    BY <2>3, <2>4
<1>5. ASSUME NEW w \in Worker, GrantLease(w), MayLease(w), pc[w] = "lease", UNCHANGED <<attention, intent>>
      PROVE  LeaseInv'
  <2> DEFINE c == intent[w].case
             token == NewToken(LeasesHeld(w))
  <2>1. c \in Case /\ token \notin LeasesHeld(w) /\ token # NoToken
    BY <1>5, IntentType DEF GrantLease, NewToken, Fresh
  <2>2. /\ pc' = [pc EXCEPT ![w] = "leased"]
        /\ leaseToken' = [leaseToken EXCEPT ![w] = token]
        /\ timer' = [timer EXCEPT ![w] = ClaimLatency]
        /\ lease'[c].token = token /\ lease'[c].ttl = LeaseTtl
        /\ \A d \in Case \ {c} : lease'[d] = lease[d]
    BY <1>5, <2>1 DEF GrantLease, Goto, TypeOK, StoreOK
  <2>3. lease[c].ttl = 0 /\ attention[c].sequence = ExpectedSequence(intent[w])
    BY <1>5 DEF MayLease
  <2> HIDE DEF c, token
  <2>4. ASSUME NEW v \in Worker, v # w, pc[v] \in Timed PROVE intent[v].case \in Case \ {c}
    <3>1. intent[v].case \in Case /\ lease[intent[v].case].ttl > timer[v] /\ timer[v] \in Nat
      BY <2>4, IntentType DEF Timed, LeaseInv, LeaseOutlasts, TypeOK, LocalsOK
    <3> QED
      BY <2>3, <3>1
  <2>5. LeaseOwned'
    <3> SUFFICES ASSUME NEW v \in Worker, pc'[v] \in Timed
                 PROVE  /\ leaseToken'[v] # NoToken
                        /\ lease'[intent[v].case].token = leaseToken'[v]
                        /\ attention[intent[v].case].sequence = ExpectedSequence(intent[v])
      BY <1>5 DEF LeaseOwned, ExpectedSequence
    <3>1. CASE v = w
      BY <2>1, <2>2, <2>3, <3>1 DEF TypeOK, LocalsOK, c
    <3>2. CASE v # w
      BY <2>2, <2>4, <3>2 DEF TypeOK, LocalsOK, LeaseInv, LeaseOwned
    <3> QED
      BY <3>1, <3>2
  <2>6. LeaseOutlasts'
    <3> SUFFICES ASSUME NEW v \in Worker, pc'[v] \in Timed
                 PROVE  /\ lease'[intent[v].case].ttl > timer'[v]
                        /\ pc'[v] = "leased" => lease'[intent[v].case].ttl > timer'[v] + HandlerTimeout
      BY <1>5 DEF LeaseOutlasts, Timed
    <3>1. CASE v = w
      BY <2>1, <2>2, <3>1, TimingAssumption DEF TypeOK, LocalsOK, c
    <3>2. CASE v # w
      BY <2>2, <2>4, <3>2 DEF TypeOK, LocalsOK, LeaseInv, LeaseOutlasts
    <3> QED
      BY <3>1, <3>2
  <2>7. \A v \in Worker \ {w} : pc[v] # "idle" /\ intent[v].case = c => leaseToken[v] # token
    BY <2>1 DEF LeasesHeld, c
  <2>8. LeaseTokenUnique'
    BY <1>5, <2>1, <2>2, <2>7 DEF LeaseInv, LeaseTokenUnique, Timed, TypeOK, LocalsOK, c
  <2> QED
    BY <2>5, <2>6, <2>8 DEF LeaseInv
<1>6. ASSUME NEW w \in Worker, ClaimAttention(w) PROVE LeaseInv'
  <2>1. CASE MayLease(w)
    BY <1>5, <1>6, <2>1 DEF ClaimAttention
  <2>2. CASE ~MayLease(w)
    <3>1. \A v \in Worker \ {w} : timer'[v] = timer[v]
      BY <1>6, <2>2 DEF ClaimAttention, Return, TypeOK, LocalsOK
    <3> QED
      BY <1>6, <2>2, <3>1, LeaseKeepStep DEF ClaimAttention, Return, TypeOK, LocalsOK
  <2> QED
    BY <2>1, <2>2
<1>7. ASSUME NEW w \in Worker,
             \/ StartDeadline(w) \/ RecheckCase(w) \/ RecheckAttention(w)
             \/ Withhold(w) \/ Sent(w) \/ Superseded(w) \/ Abort(w)
      PROVE  LeaseInv'
  <2>1. UNCHANGED <<lease, attention, intent, leaseToken>>
    BY <1>7 DEF StartDeadline, RecheckCase, RecheckAttention, Withhold, Sent, Superseded, Abort, storeVars
  <2>2. timer' \in [Worker -> Nat] /\ \A v \in Worker \ {w} : timer'[v] = timer[v]
    BY <1>7, TimingAssumption DEF StartDeadline, RecheckCase, RecheckAttention, Withhold, Sent, Superseded, Abort,
       Return, TypeOK, LocalsOK
  <2>3. CASE StartDeadline(w)
    BY <2>1, <2>2, <2>3, LeaseKeepStep, TimingAssumption DEF StartDeadline, Timed, TypeOK, LocalsOK
  <2>4. CASE RecheckCase(w)
    <3>1. PICK label \in {"recheck_attention", "send"} : Goto(w, label)
      BY <2>4 DEF RecheckCase
    <3> QED
      BY <2>1, <2>2, <2>4, <3>1, LeaseKeepStep DEF RecheckCase, Timed, TypeOK, LocalsOK
  <2>5. CASE RecheckAttention(w)
    BY <2>1, <2>2, <2>5, LeaseKeepStep DEF RecheckAttention, Return, Timed, TypeOK, LocalsOK
  <2>6. CASE Withhold(w) \/ Sent(w) \/ Superseded(w) \/ Abort(w)
    BY <2>1, <2>2, <2>6, LeaseKeepStep DEF Withhold, Sent, Superseded, Abort, Return
  <2> QED
    BY <1>7, <2>3, <2>4, <2>5, <2>6
<1>8. ASSUME NEW w \in Worker, NEW v \in Worker, v # w, pc[v] \in Timed, intent[v].case = intent[w].case
      PROVE  lease[intent[w].case].token # leaseToken[w]
  BY <1>8 DEF LeaseInv, LeaseOwned, LeaseTokenUnique
<1>9. ASSUME NEW w \in Worker, ReleaseAttention(w) PROVE LeaseInv'
  <2>1. intent[w].case \in Case /\ \A v \in Worker : pc[v] \in Timed => intent[v].case \in Case
    BY <1>9, IntentType DEF ReleaseAttention, Timed
  <2>2. pc' = [pc EXCEPT ![w] = "finish"] /\ UNCHANGED <<attention, intent, leaseToken, timer>>
    BY <1>9 DEF ReleaseAttention, Goto
  <2>3. ASSUME NEW v \in Worker, pc'[v] \in Timed
        PROVE  pc'[v] = pc[v] /\ lease'[intent[v].case] = lease[intent[v].case]
    BY <1>8, <1>9, <2>1, <2>2, <2>3 DEF ReleaseAttention, Timed, TypeOK, StoreOK, LocalsOK
  <2>4. LeaseOwned'
    BY <2>2, <2>3 DEF LeaseInv, LeaseOwned, ExpectedSequence
  <2>5. LeaseOutlasts'
    BY <2>2, <2>3 DEF LeaseInv, LeaseOutlasts, Timed
  <2>6. LeaseTokenUnique'
    BY <2>2 DEF LeaseInv, LeaseTokenUnique, TypeOK, LocalsOK
  <2> QED
    BY <2>4, <2>5, <2>6 DEF LeaseInv
<1>10. ASSUME NEW w \in Worker, CompleteAttention(w) PROVE LeaseInv'
  <2>1. CASE ~MayComplete(w)
    BY <1>3, <1>10, <2>1 DEF CompleteAttention
  <2>2. CASE MayComplete(w)
    <3>1. intent[w].case \in Case /\ \A v \in Worker : pc[v] \in Timed => intent[v].case \in Case
      BY <1>10, IntentType DEF CompleteAttention, Timed
    <3>2. lease[intent[w].case].token = leaseToken[w]
      BY <2>2 DEF MayComplete
    <3>3. Done(w) /\ \A d \in Case \ {intent[w].case} : lease'[d] = lease[d] /\ attention'[d] = attention[d]
      BY <1>10, <2>2 DEF CompleteAttention, CompleteDelivery, TypeOK, StoreOK
    <3>4. ASSUME NEW v \in Worker, pc'[v] \in Timed
          PROVE  /\ v # w /\ pc'[v] = pc[v]
                 /\ lease'[intent[v].case] = lease[intent[v].case]
                 /\ attention'[intent[v].case] = attention[intent[v].case]
      BY <1>8, <3>1, <3>2, <3>3, <3>4, DoneForgets DEF Timed
    <3>5. LeaseOwned'
      BY <3>3, <3>4, DoneForgets DEF LeaseInv, LeaseOwned, ExpectedSequence
    <3>6. LeaseOutlasts'
      BY <3>3, <3>4, DoneForgets DEF LeaseInv, LeaseOutlasts, Timed
    <3>7. LeaseTokenUnique'
      BY <3>3, DoneForgets DEF LeaseInv, LeaseTokenUnique
    <3> QED
      BY <3>5, <3>6, <3>7 DEF LeaseInv
  <2> QED
    BY <2>1, <2>2
<1>11. CASE Tick
  <2>1. \A w \in Worker : pc[w] \in Timed => intent[w].case \in Case
    BY IntentType DEF Timed
  <2>2. \A c \in Case : /\ lease'[c].token = lease[c].token /\ lease[c].ttl \in Nat
                        /\ lease'[c].ttl = IF lease[c].ttl > 0 THEN lease[c].ttl - 1 ELSE 0
    BY <1>11 DEF Tick, TypeOK, StoreOK, Lease
  <2>3. \A w \in Worker : /\ timer[w] \in Nat
                          /\ pc[w] \in Timed => timer[w] > 0 /\ timer'[w] = timer[w] - 1
    BY <1>11 DEF Tick, TypeOK, LocalsOK
  <2>4. UNCHANGED <<attention, pc, intent, leaseToken>>
    BY <1>11 DEF Tick
  <2>5. LeaseOwned'
    BY <2>1, <2>2, <2>4 DEF LeaseInv, LeaseOwned, ExpectedSequence
  <2>6. LeaseOutlasts'
    BY <2>1, <2>2, <2>3, <2>4, TimingAssumption DEF LeaseInv, LeaseOutlasts, Timed
  <2>7. LeaseTokenUnique'
    BY <2>4 DEF LeaseInv, LeaseTokenUnique
  <2> QED
    BY <2>5, <2>6, <2>7 DEF LeaseInv
<1>12. ASSUME NEW w \in Worker, SettleIntent(w) \/ Crash(w) PROVE LeaseInv'
  BY <1>3, <1>12 DEF SettleIntent, Crash, storeVars
<1>13. ASSUME NEW k \in DOMAIN outbox, RequeueExpiredClaim(k) PROVE LeaseInv'
  BY <1>1, <1>13 DEF RequeueExpiredClaim, workerVars
<1>14. CASE UNCHANGED vars
  BY <1>1, <1>14 DEF vars, storeVars, workerVars
<1>15. ASSUME NEW w \in Worker, WorkerStep(w) PROVE LeaseInv'
  BY <1>4, <1>6, <1>7, <1>9, <1>10, <1>12, <1>15 DEF WorkerStep, Handler
<1> QED
  BY <1>2, <1>11, <1>13, <1>14, <1>15 DEF Next

\* The lease of a worker under a deadline is its own, current and unexpired.
THEOREM LeaseInvariant == Spec => []LeaseInv
<1>1. Init => LeaseInv
  BY InitLease
<1>2. TypeOK /\ TypeOK' /\ LeaseInv /\ [Next]_vars => LeaseInv'
  BY NextLease
<1> QED
  BY <1>1, <1>2, TypeCorrect, PTL DEF Spec

(***************************************************************************)
(* Two workers never send for the same case at the same time.              *)
(***************************************************************************)
THEOREM SendsExclude == Spec => []SendExclusion
<1>1. LeaseInv => SendExclusion
  BY DEF LeaseInv, LeaseOwned, LeaseTokenUnique, SendExclusion, Timed
<1> QED
  BY <1>1, LeaseInvariant, PTL

(***************************************************************************)
(* A message is only sent while it is still the next one of its case.      *)
(***************************************************************************)
THEOREM SendsAreCurrent == Spec => []SendIsCurrent
<1>1. LeaseInv => SendIsCurrent
  BY DEF LeaseInv, LeaseOwned, SendIsCurrent, Timed
<1> QED
  BY <1>1, LeaseInvariant, PTL

-----------------------------------------------------------------------------
(***************************************************************************)
(* The deliveries that CaseAttention commits are those AttentionPromise    *)
(* allows.  PromiseInv is inductive relative to TypeOK and LeaseInv.       *)
(***************************************************************************)

\* A request that is due on a case not older than the ledger is a legitimate successor.
LEMMA DueFollows ==
    ASSUME NEW c \in Case, NEW case \in CaseRecord, NEW p \in Delivery,
           p.generation <= case.generation,
           AttentionDue(c, case, p) # NoRequest,
           NEW d,
           d.sequence = AttentionDue(c, case, p).sequence + 1,
           d.generation = AttentionDue(c, case, p).generation,
           d.phase = AttentionDue(c, case, p).phase,
           d.severity = AttentionDue(c, case, p).severity
    PROVE  Abs!Successor(p, d)
<1> DEFINE kind == AttentionKind(case, p)
<1>1. kind # "none" /\ AttentionDue(c, case, p) = AttentionRequest(c, case, p, kind)
  BY DEF AttentionDue
<1>2. /\ d.sequence = p.sequence + 1
      /\ d.generation = case.generation
      /\ d.phase = PhaseOf(case)
      /\ d.severity = IF kind = "recovery" THEN p.severity ELSE case.severity
  BY <1>1 DEF AttentionRequest
<1>3. d.phase \in Phase
  BY <1>2 DEF PhaseOf, Phase
<1>4. CASE PhaseOf(case) = "recovered"
  <2>1. kind = "recovery" /\ p.phase = "firing"
    BY <1>1, <1>4 DEF AttentionKind, RecoveredKind
  <2> QED
    BY <1>2, <1>3, <1>4, <2>1 DEF Abs!Successor, Abs!Phase, Phase, Delivery, CaseRecord
<1>5. CASE PhaseOf(case) = "firing"
  <2>1. kind = FiringKind(case, p)
    BY <1>1, <1>5 DEF AttentionKind
  <2>2. p.phase = "firing" /\ case.generation = p.generation
          => \/ SeverityRank[case.severity] > SeverityRank[p.severity]
             \/ case.severity = "HIGH" /\ p.aged
    BY <1>1, <2>1 DEF FiringKind
  <2>3. d.severity = case.severity
    BY <1>2, <2>1 DEF FiringKind
  <2>4. Abs!SeverityRank = SeverityRank
    BY DEF Abs!SeverityRank, SeverityRank, Abs!Severity, Severity
  <2> QED
    BY <1>2, <1>3, <1>5, <2>2, <2>3, <2>4 DEF Abs!Successor, Abs!Phase, Phase, Delivery, CaseRecord
<1> QED
  BY <1>4, <1>5 DEF PhaseOf

LEMMA InitPromise == Init => PromiseInv
<1> SUFFICES ASSUME Init PROVE PromiseInv
  OBVIOUS
<1>1. LedgerLags
  BY DEF Init, LedgerLags, NewCase, NoDelivery
<1>2. \A w \in Worker : ReadLags(w) /\ SendFollows(w)
  BY DEF Init, ReadLags, SendFollows, NoCase
<1> QED
  BY <1>1, <1>2 DEF PromiseInv

\* A step of one worker that writes neither a case nor the ledger.
LEMMA PromiseWorkerStep ==
    ASSUME TypeOK, PromiseInv, NEW w \in Worker, UNCHANGED <<cases, attention>>,
           \A v \in Worker \ {w} : /\ pc'[v] = pc[v] /\ intent'[v] = intent[v]
                                   /\ seen'[v] = seen[v] /\ result'[v] = result[v],
           ReadLags(w)', SendFollows(w)'
    PROVE  PromiseInv'
<1>1. LedgerLags'
  BY DEF PromiseInv, LedgerLags
<1>2. ASSUME NEW v \in Worker, v # w PROVE ReadLags(v)' /\ SendFollows(v)'
  <2>1. ReadLags(v)'
    BY <1>2 DEF PromiseInv, ReadLags
  <2>2. SendFollows(v)'
    BY <1>2 DEF PromiseInv, SendFollows, DeliveryOf, ExpectedSequence
  <2> QED
    BY <2>1, <2>2
<1> QED
  BY <1>1, <1>2 DEF PromiseInv

\* A worker at rest, or with nothing under way but what it has read.
LEMMA PromiseQuietStep ==
    ASSUME TypeOK, PromiseInv, NEW w \in Worker, UNCHANGED <<cases, attention>>,
           \A v \in Worker \ {w} : /\ pc'[v] = pc[v] /\ intent'[v] = intent[v]
                                   /\ seen'[v] = seen[v] /\ result'[v] = result[v],
           pc'[w] \notin {"recheck_attention", "send"}, result'[w] # "delivered",
           pc'[w] # "idle" => seen'[w].generation <= cases[intent'[w].case].generation,
           pc'[w] = "idle" => seen'[w].generation = 0
    PROVE  PromiseInv'
<1>1. ReadLags(w)' /\ SendFollows(w)'
  BY DEF ReadLags, SendFollows
<1> QED
  BY <1>1, PromiseWorkerStep

\* Case writes never take the generation back.
LEMMA GenerationGrows ==
    ASSUME TypeOK, Environment
    PROVE  /\ UNCHANGED workerVars
           /\ \A c \in Case : cases[c].generation <= cases'[c].generation
<1>1. ASSUME NEW c \in Case, NEW s \in Observed, ObserveFiring(c, s)
      PROVE  \A d \in Case : cases[d].generation <= cases'[d].generation
  <2>1. cases[c] \in CaseRecord /\ cases[c].generation \in Nat
    BY DEF TypeOK, StoreOK, CaseRecord
  <2>2. cases'[c].generation = IF Renewed(cases[c], s) THEN cases[c].generation + 1 ELSE cases[c].generation
    BY <1>1, <2>1 DEF ObserveFiring, WriteCase, TypeOK, StoreOK, CaseRecord
  <2>3. \A d \in Case \ {c} : cases'[d] = cases[d] /\ cases[d].generation \in Nat
    BY <1>1 DEF ObserveFiring, WriteCase, TypeOK, StoreOK, CaseRecord
  <2> QED
    BY <2>1, <2>2, <2>3
<1>2. ASSUME NEW c \in Case,
             \/ ObserveClean(c) \/ Ack(c) \/ Suppress(c) \/ Unsuppress(c)
             \/ \E s \in CaseStatus : GraphUpdateCase(c, s)
             \/ ResolveWithOutcome(c) \/ LinkChild(c)
      PROVE  \A d \in Case : cases[d].generation <= cases'[d].generation
  <2>1. cases[c] \in CaseRecord /\ \A d \in Case : cases[d].generation \in Nat
    BY DEF TypeOK, StoreOK, CaseRecord
  <2>2. ASSUME NEW r, cases' = [cases EXCEPT ![c] = r], r.generation = cases[c].generation
        PROVE  \A d \in Case : cases[d].generation <= cases'[d].generation
    BY <2>1, <2>2 DEF TypeOK, StoreOK
  <2>3. CASE ObserveClean(c) \/ ResolveWithOutcome(c)
    BY <2>1, <2>2, <2>3 DEF ObserveClean, ResolveWithOutcome, WriteCase, CaseRecord
  <2>4. CASE Ack(c)
    BY <2>1, <2>2, <2>4 DEF Ack, WriteCase, CaseRecord
  <2>5. CASE Suppress(c) \/ Unsuppress(c)
    BY <2>1, <2>2, <2>5 DEF Suppress, Unsuppress, WriteCase, CaseRecord
  <2>6. CASE \E s \in CaseStatus : GraphUpdateCase(c, s)
    BY <2>1, <2>2, <2>6 DEF GraphUpdateCase, WriteCase, CaseRecord
  <2>7. CASE LinkChild(c)
    BY <2>1, <2>2, <2>7 DEF LinkChild, WriteCase, CaseRecord
  <2> QED
    BY <1>2, <2>3, <2>4, <2>5, <2>6, <2>7
<1>3. ASSUME UNCHANGED cases PROVE \A d \in Case : cases[d].generation <= cases'[d].generation
  BY <1>3 DEF TypeOK, StoreOK, CaseRecord
<1>4. UNCHANGED workerVars
  BY DEF Environment, ObserveFiring, ObserveClean, Ack, Suppress, Unsuppress, GraphUpdateCase,
     ResolveWithOutcome, LinkChild, WriteCase, ReminderElapses, SetVerbosity
<1> QED
  BY <1>1, <1>2, <1>3, <1>4 DEF Environment, ReminderElapses, SetVerbosity, storeVars

\* The environment touches the ledger only by letting a delivery age.
LEMMA LedgerAges ==
    ASSUME TypeOK, Environment
    PROVE  \/ UNCHANGED attention
           \/ \E c \in Case : attention[c].sequence > 0 /\ attention' = [attention EXCEPT ![c].aged = TRUE]
BY DEF Environment, ObserveFiring, ObserveClean, Ack, Suppress, Unsuppress, GraphUpdateCase,
   ResolveWithOutcome, LinkChild, WriteCase, ReminderElapses, SetVerbosity, storeVars

LEMMA NextPromise == TypeOK /\ TypeOK' /\ LeaseInv /\ PromiseInv /\ [Next]_vars => PromiseInv'
<1> SUFFICES ASSUME TypeOK, TypeOK', LeaseInv, PromiseInv, [Next]_vars PROVE PromiseInv'
  OBVIOUS
<1>0. \A c \in Case : /\ cases[c].generation \in Nat /\ cases'[c].generation \in Nat
                      /\ attention[c].generation \in Nat /\ attention[c].sequence \in Nat
  BY DEF TypeOK, StoreOK, CaseRecord, Delivery
<1>1. CASE Environment
  <2>1. UNCHANGED <<pc, intent, seen, result>> /\ \A c \in Case : cases[c].generation <= cases'[c].generation
    BY <1>1, GenerationGrows DEF workerVars
  <2>2. ASSUME NEW c \in Case
        PROVE  /\ attention'[c].generation = attention[c].generation
               /\ attention'[c].sequence = attention[c].sequence
               /\ attention'[c].phase = attention[c].phase
               /\ attention'[c].severity = attention[c].severity
               /\ attention[c].aged => attention'[c].aged
               /\ attention'[c] = attention[c] \/ attention[c].sequence > 0
    <3>1. CASE UNCHANGED attention
      BY <3>1
    <3>2. ASSUME NEW d \in Case, attention[d].sequence > 0, attention' = [attention EXCEPT ![d].aged = TRUE]
          PROVE  /\ attention'[c] = IF c = d THEN [attention[c] EXCEPT !.aged = TRUE] ELSE attention[c]
                 /\ attention[c] \in Delivery
      BY <3>2 DEF TypeOK, StoreOK
    <3> QED
      BY <1>1, <3>1, <3>2, LedgerAges DEF Delivery
  <2>3a. ASSUME NEW c \in Case PROVE attention'[c].generation <= cases'[c].generation
    <3>1. attention[c].generation <= cases[c].generation
      BY DEF PromiseInv, LedgerLags
    <3> QED
      BY <1>0, <2>1, <2>2, <3>1
  <2>3b. ASSUME NEW c \in Case PROVE attention'[c].sequence = 0 => attention'[c] = NoDelivery
    BY <1>0, <2>2 DEF PromiseInv, LedgerLags
  <2>3. LedgerLags'
    BY <2>3a, <2>3b DEF LedgerLags
  <2>4. ASSUME NEW w \in Worker PROVE ReadLags(w)'
    <3>1. pc[w] # "idle" => intent[w].case \in Case
      BY IntentType DEF TypeOK, WorkingOK, Scanning
    <3>2. seen[w].generation \in Nat
      BY DEF TypeOK, LocalsOK, CaseRecord
    <3>3. ReadLags(w)
      BY DEF PromiseInv
    <3>4. pc[w] # "idle" => seen[w].generation <= cases'[intent[w].case].generation
      <4> SUFFICES ASSUME pc[w] # "idle" PROVE seen[w].generation <= cases'[intent[w].case].generation
        OBVIOUS
      <4>1. seen[w].generation <= cases[intent[w].case].generation
        BY <3>3 DEF ReadLags
      <4> QED
        BY <1>0, <2>1, <3>1, <3>2, <4>1
    <3> QED
      BY <2>1, <2>2, <3>1, <3>3, <3>4 DEF ReadLags
  <2>5. ASSUME NEW w \in Worker PROVE SendFollows(w)'
    <3> SUFFICES ASSUME pc[w] = "send" \/ result[w] = "delivered" PROVE SendFollows(w)'
      BY <2>1 DEF SendFollows
    <3>1. intent[w].case \in Case
      BY IntentType DEF PromiseInv, ReadLags
    <3>2. DeliveryOf(w)' = DeliveryOf(w)
      BY <2>1 DEF DeliveryOf, ExpectedSequence
    <3>3. DeliveryOf(w) \in Delivery
      BY DeliveryType DEF PromiseInv, ReadLags
    <3>4. DeliveryOf(w).generation <= cases'[intent[w].case].generation
      <4>1. DeliveryOf(w).generation <= cases[intent[w].case].generation
        BY DEF PromiseInv, SendFollows
      <4>2. DeliveryOf(w).generation \in Nat
        BY <3>3 DEF Delivery
      <4>3. cases[intent[w].case].generation <= cases'[intent[w].case].generation
        BY <2>1, <3>1
      <4>4. cases[intent[w].case].generation \in Nat /\ cases'[intent[w].case].generation \in Nat
        BY <1>0, <3>1
      <4> QED
        BY <4>1, <4>2, <4>3, <4>4
    <3>5. Abs!Successor(attention[intent[w].case], DeliveryOf(w))
            => Abs!Successor(attention'[intent[w].case], DeliveryOf(w))
      BY <2>2, <3>1 DEF Abs!Successor
    <3> QED
      BY <2>1, <2>2, <3>1, <3>2, <3>4, <3>5 DEF PromiseInv, SendFollows
  <2> QED
    BY <2>3, <2>4, <2>5 DEF PromiseInv
<1>2. ASSUME NEW w \in Worker, Done(w), UNCHANGED <<cases, attention>> PROVE PromiseInv'
  <2>1. seen'[w].generation = 0
    BY <1>2 DEF Done, NoCase, TypeOK, LocalsOK
  <2> QED
    BY <1>2, <2>1, DoneForgets, PromiseQuietStep
<1>3. ASSUME NEW w \in Worker PROVE seen[w].generation \in Nat
  BY DEF TypeOK, LocalsOK, CaseRecord
<1>4. ASSUME NEW w \in Worker,
             \/ \E c \in Case : ScanCandidate(w, c) \/ RequestReport(w, c)
             \/ \E k \in DOMAIN outbox : TakeIntent(w, k)
             \/ EnqueueAttention(w) \/ ReopenIntent(w) \/ ClaimIntent(w)
      PROVE  PromiseInv'
  <2>1. UNCHANGED <<cases, attention>>
    BY <1>4 DEF ScanCandidate, RequestReport, TakeIntent, EnqueueAttention, ReopenIntent, ClaimIntent, storeVars
  <2>2. CASE Done(w)
    BY <1>2, <2>1, <2>2
  <2>3. CASE ~Done(w)
    <3>1. /\ pc'[w] \notin {"idle", "recheck_attention", "send", "finish"} /\ result' = result
          /\ \A v \in Worker \ {w} : pc'[v] = pc[v] /\ intent'[v] = intent[v] /\ seen'[v] = seen[v]
      BY <1>4, <2>3 DEF ScanCandidate, RequestReport, TakeIntent, EnqueueAttention, Enqueue, Goto, Return,
         ReopenIntent, ClaimIntent, TypeOK, LocalsOK
    <3>2. result[w] # "delivered"
      BY <1>4 DEF PromiseInv, ReadLags, ScanCandidate, RequestReport, TakeIntent, EnqueueAttention,
         ReopenIntent, ClaimIntent
    <3>3. seen'[w].generation <= cases[intent'[w].case].generation
      <4>1. ASSUME NEW c \in Case, ScanCandidate(w, c) PROVE seen'[w] = cases[c] /\ intent'[w].case = c
        BY <4>1 DEF ScanCandidate, Scanning, TypeOK, LocalsOK
      <4>2. ASSUME NEW c \in Case, RequestReport(w, c)
            PROVE  seen'[w].generation = 0 /\ intent'[w].case = c
        BY <2>3, <4>2 DEF RequestReport, Enqueue, ReportIntent, PromiseInv, ReadLags, TypeOK, LocalsOK
      <4>3. ASSUME NEW k \in DOMAIN outbox, TakeIntent(w, k)
            PROVE  seen'[w].generation = 0 /\ intent'[w] = k /\ k.case \in Case
        BY <4>3 DEF TakeIntent, PromiseInv, ReadLags, TypeOK, LocalsOK, StoreOK, Intent, AttentionIntent, FactsIntent
      <4>4. ASSUME EnqueueAttention(w) PROVE seen' = seen /\ intent'[w].case = intent[w].case /\ pc[w] # "idle"
        <5>1. intent[w].case \in Case
          BY <4>4 DEF EnqueueAttention, TypeOK, WorkingOK, Scanning
        <5>2. AttentionDue(intent[w].case, seen[w], attention[intent[w].case]) # NoRequest
          BY <2>3, <4>4 DEF EnqueueAttention
        <5>3. AttentionDue(intent[w].case, seen[w], attention[intent[w].case]).case = intent[w].case
          BY <5>1, <5>2, DueType DEF TypeOK, LocalsOK, StoreOK
        <5> QED
          BY <2>3, <4>4, <5>2, <5>3 DEF EnqueueAttention, Enqueue, TypeOK, LocalsOK
      <4>5. ASSUME ReopenIntent(w) \/ ClaimIntent(w) PROVE seen' = seen /\ intent' = intent /\ pc[w] # "idle"
        BY <2>3, <4>5 DEF ReopenIntent, ClaimIntent
      <4>6. pc[w] # "idle" => seen[w].generation <= cases[intent[w].case].generation
        BY DEF PromiseInv, ReadLags
      <4> QED
        BY <1>0, <1>4, <4>1, <4>2, <4>3, <4>4, <4>5, <4>6
    <3> QED
      BY <2>1, <3>1, <3>2, <3>3, PromiseQuietStep
  <2> QED
    BY <2>2, <2>3
<1>5. ASSUME NEW w \in Worker,
             \/ CheckCase(w) \/ CheckAttention(w) \/ SendDirect(w) \/ StartDeadline(w) \/ ClaimAttention(w)
             \/ Abort(w) \/ Withhold(w) \/ Superseded(w) \/ ReleaseAttention(w)
      PROVE  PromiseInv'
  <2>1. UNCHANGED <<cases, attention, intent>>
    BY <1>5 DEF CheckCase, CheckAttention, SendDirect, StartDeadline, ClaimAttention, Abort, Withhold, Superseded,
       ReleaseAttention, storeVars
  <2>2. pc[w] \notin {"idle", "enqueue", "finish"} /\ intent[w].case \in Case
    BY <1>5, IntentType DEF CheckCase, CheckAttention, SendDirect, StartDeadline, ClaimAttention, Abort, Withhold,
       Superseded, ReleaseAttention
  <2>3. result[w] # "delivered" /\ seen[w].generation <= cases[intent[w].case].generation
    BY <2>2 DEF PromiseInv, ReadLags
  <2>4. \A v \in Worker \ {w} : pc'[v] = pc[v] /\ seen'[v] = seen[v] /\ result'[v] = result[v]
    BY <1>5 DEF CheckCase, CheckAttention, SendDirect, StartDeadline, ClaimAttention, GrantLease, Abort, Withhold,
       Superseded, ReleaseAttention, Forget, Return, Goto, TypeOK, LocalsOK
  <2>5. pc'[w] \notin {"idle", "recheck_attention", "send"} /\ result'[w] # "delivered"
    BY <1>5, <2>3 DEF CheckCase, CheckAttention, SendDirect, StartDeadline, ClaimAttention, GrantLease, Abort,
       Withhold, Superseded, ReleaseAttention, Return, Goto, TypeOK, LocalsOK
  <2>6. seen'[w].generation \in {0, seen[w].generation, cases[intent[w].case].generation}
    BY <1>5 DEF CheckCase, CheckAttention, SendDirect, StartDeadline, ClaimAttention, Abort, Withhold,
       Superseded, ReleaseAttention, Forget, NoCase, TypeOK, LocalsOK
  <2>7. seen'[w].generation <= cases[intent[w].case].generation
    BY <1>0, <2>2, <2>3, <2>6
  <2> QED
    BY <2>1, <2>4, <2>5, <2>7, PromiseQuietStep
<1>6. ASSUME NEW w \in Worker, RecheckCase(w) PROVE PromiseInv'
  <2>1. /\ UNCHANGED <<cases, attention, intent, result>> /\ pc[w] = "recheck"
        /\ seen'[w] = cases[intent[w].case]
        /\ pc'[w] = IF intent[w].type = "attention" THEN "recheck_attention" ELSE "send"
        /\ \A v \in Worker \ {w} : pc'[v] = pc[v] /\ seen'[v] = seen[v]
    BY <1>6 DEF RecheckCase, Goto, storeVars, TypeOK, LocalsOK
  <2>2. /\ intent[w].case \in Case /\ intent[w].type \in {"attention", "facts"}
        /\ result[w] # "delivered"
    BY <2>1, IntentType DEF PromiseInv, ReadLags
  <2>3. attention[intent[w].case].generation <= cases[intent[w].case].generation
    BY <2>2 DEF PromiseInv, LedgerLags
  <2>4. ReadLags(w)'
    BY <1>0, <2>1, <2>2, <2>3 DEF ReadLags
  <2>5. CASE intent[w].type = "attention"
    BY <2>1, <2>2, <2>5, <2>4, PromiseWorkerStep DEF SendFollows
  <2>6. CASE intent[w].type = "facts"
    <3>1. attention[intent[w].case].sequence = 0
      BY <2>1, <2>6 DEF LeaseInv, LeaseOwned, Timed, ExpectedSequence
    <3>2. attention[intent[w].case] = NoDelivery
      BY <2>2, <3>1 DEF PromiseInv, LedgerLags
    <3>3. DeliveryOf(w)' = [sequence |-> 1, generation |-> cases[intent[w].case].generation, phase |-> "firing",
                            severity |-> cases[intent[w].case].severity, aged |-> FALSE]
      BY <2>1, <2>6 DEF DeliveryOf, ExpectedSequence
    <3>4. Abs!Successor(NoDelivery, DeliveryOf(w)')
      BY <1>0, <2>2, <3>3 DEF Abs!Successor, Abs!Phase, NoDelivery
    <3>5. SendFollows(w)'
      BY <1>0, <2>1, <2>2, <3>2, <3>3, <3>4 DEF SendFollows, NoDelivery
    <3> QED
      BY <2>1, <2>4, <3>5, PromiseWorkerStep
  <2> QED
    BY <2>2, <2>5, <2>6
<1>7. ASSUME NEW w \in Worker, RecheckAttention(w) PROVE PromiseInv'
  <2>1. /\ UNCHANGED <<cases, attention, intent>> /\ pc[w] = "recheck_attention"
        /\ seen'[w].generation = 0
        /\ \A v \in Worker \ {w} : pc'[v] = pc[v] /\ seen'[v] = seen[v] /\ result'[v] = result[v]
    BY <1>7 DEF RecheckAttention, Goto, Return, Forget, NoCase, storeVars, TypeOK, LocalsOK
  <2>2. intent[w].case \in Case /\ result[w] # "delivered" /\ intent[w].type = "attention"
    BY <2>1, IntentType DEF PromiseInv, ReadLags
  <2>3. CASE AttentionDue(intent[w].case, seen[w], attention[intent[w].case]) # intent[w]
    <3>1. pc'[w] = "release" /\ result'[w] = "attention_no_longer_due"
      BY <1>7, <2>3 DEF RecheckAttention, Goto, Return, TypeOK, LocalsOK
    <3> QED
      BY <1>0, <2>1, <2>2, <3>1, PromiseQuietStep
  <2>4. CASE AttentionDue(intent[w].case, seen[w], attention[intent[w].case]) = intent[w]
    <3>1. pc'[w] = "send" /\ result' = result
      BY <1>7, <2>4 DEF RecheckAttention, Goto, TypeOK, LocalsOK
    <3>2. ReadLags(w)'
      BY <1>0, <2>1, <2>2, <3>1 DEF ReadLags
    <3>3. seen[w] \in CaseRecord /\ attention[intent[w].case] \in Delivery
      BY <2>2 DEF TypeOK, LocalsOK, StoreOK
    <3>4. attention[intent[w].case].generation <= seen[w].generation
      BY <2>1 DEF PromiseInv, ReadLags
    <3>5. intent[w] # NoRequest
      BY <2>2 DEF NoRequest
    <3>6. /\ DeliveryOf(w)'.sequence = intent[w].sequence + 1
          /\ DeliveryOf(w)'.generation = intent[w].generation
          /\ DeliveryOf(w)'.phase = intent[w].phase
          /\ DeliveryOf(w)'.severity = intent[w].severity
      BY <2>1, <2>2 DEF DeliveryOf, ExpectedSequence
    <3>7. Abs!Successor(attention[intent[w].case], DeliveryOf(w)')
      BY <2>2, <2>4, <3>3, <3>4, <3>5, <3>6, DueFollows
    <3>8. intent[w].sequence = attention[intent[w].case].sequence /\ intent[w].generation = seen[w].generation
      BY <2>2, <2>4, <3>3, <3>5, DueType
    <3>9. seen[w].generation <= cases[intent[w].case].generation
      BY <2>1 DEF PromiseInv, ReadLags
    <3>10. SendFollows(w)'
      BY <1>0, <2>1, <2>2, <3>6, <3>7, <3>8, <3>9 DEF SendFollows
    <3> QED
      BY <2>1, <3>1, <3>2, <3>10, PromiseWorkerStep
  <2> QED
    BY <2>3, <2>4
<1>8. ASSUME NEW w \in Worker, Sent(w) PROVE PromiseInv'
  <2>1. /\ UNCHANGED <<cases, attention, intent, seen>> /\ pc[w] = "send" /\ pc'[w] = "finish"
        /\ \A v \in Worker \ {w} : pc'[v] = pc[v] /\ result'[v] = result[v]
    BY <1>8 DEF Sent, Goto, Return, storeVars, TypeOK, LocalsOK
  <2>2. ReadLags(w)'
    BY <2>1 DEF PromiseInv, ReadLags
  <2>3. SendFollows(w)'
    BY <2>1 DEF PromiseInv, SendFollows, DeliveryOf, ExpectedSequence
  <2> QED
    BY <2>1, <2>2, <2>3, PromiseWorkerStep
<1>9. ASSUME NEW w \in Worker, CompleteAttention(w) PROVE PromiseInv'
  <2>1. CASE ~MayComplete(w)
    BY <1>2, <1>9, <2>1 DEF CompleteAttention
  <2>2. CASE MayComplete(w)
    <3> DEFINE c == intent[w].case
               previous == attention[c]
    <3>1. c \in Case /\ pc[w] = "finish" /\ result[w] = "delivered" /\ Done(w) /\ UNCHANGED cases
      BY <1>9, IntentType DEF CompleteAttention
    <3>2. PICK aged \in BOOLEAN : attention' = [attention EXCEPT ![c] = [DeliveryOf(w) EXCEPT !.aged = aged]]
      BY <1>9, <2>2 DEF CompleteAttention, CompleteDelivery
    <3>3. DeliveryOf(w) \in Delivery
      BY <3>1, DeliveryType
    <3>4. /\ attention'[c].sequence = DeliveryOf(w).sequence
          /\ attention'[c].generation = DeliveryOf(w).generation
          /\ \A d \in Case \ {c} : attention'[d] = attention[d]
      BY <3>1, <3>2, <3>3 DEF Delivery, TypeOK, StoreOK
    <3>5. DeliveryOf(w).sequence = previous.sequence + 1
      BY <2>2 DEF MayComplete, DeliveryOf
    <3>6. DeliveryOf(w).generation <= cases[c].generation
      BY <3>1 DEF PromiseInv, SendFollows
    <3> HIDE DEF c, previous
    <3>7. LedgerLags'
      <4>1. attention'[c].sequence # 0
        BY <1>0, <3>1, <3>4, <3>5 DEF previous
      <4> QED
        BY <3>1, <3>4, <3>6, <4>1 DEF PromiseInv, LedgerLags
    <3>8. ReadLags(w)' /\ SendFollows(w)'
      <4>1. pc'[w] = "idle" /\ result'[w] = "none" /\ seen'[w].generation = 0
        BY <3>1, DoneForgets DEF Done, NoCase, TypeOK, LocalsOK
      <4> QED
        BY <4>1 DEF ReadLags, SendFollows
    <3>9. ASSUME NEW v \in Worker, v # w PROVE ReadLags(v)' /\ SendFollows(v)'
      <4>1. pc'[v] = pc[v] /\ intent'[v] = intent[v] /\ seen'[v] = seen[v] /\ result'[v] = result[v]
        BY <3>1, <3>9, DoneForgets
      <4>2. pc[v] \in Timed => intent[v].case # c
        BY <2>2, <3>9 DEF LeaseInv, LeaseOwned, LeaseTokenUnique, MayComplete, c
      <4>3. pc[v] \notin {"idle", "enqueue"} => intent[v].case \in Case
        BY IntentType
      <4>4. ReadLags(v)'
        BY <3>1, <3>4, <4>1, <4>2, <4>3 DEF PromiseInv, ReadLags, Timed
      <4>5. DeliveryOf(v)' = DeliveryOf(v)
        BY <4>1 DEF DeliveryOf, ExpectedSequence
      <4>6. CASE intent[v].case # c
        BY <3>1, <3>4, <4>1, <4>3, <4>5, <4>6 DEF PromiseInv, ReadLags, SendFollows
      <4>7. CASE intent[v].case = c
        <5> SUFFICES ASSUME result[v] = "delivered" PROVE SendFollows(v)'
          BY <4>1, <4>2, <4>4, <4>7 DEF SendFollows, Timed
        <5>1. /\ DeliveryOf(v).generation <= cases[c].generation
              /\ DeliveryOf(v).sequence <= previous.sequence + 1
          BY <4>7 DEF PromiseInv, SendFollows, previous
        <5>2. DeliveryOf(v).sequence \in Nat /\ previous.sequence \in Nat
          <6>1. DeliveryOf(v) \in Delivery
            BY DeliveryType DEF PromiseInv, ReadLags
          <6> QED
            BY <1>0, <3>1, <6>1 DEF Delivery, previous
        <5>3. DeliveryOf(v).sequence < attention'[c].sequence + 1
          BY <3>4, <3>5, <5>1, <5>2
        <5> QED
          BY <3>1, <3>4, <3>5, <4>1, <4>5, <4>7, <5>1, <5>2, <5>3 DEF SendFollows
      <4> QED
        BY <4>4, <4>6, <4>7
    <3> QED
      BY <3>7, <3>8, <3>9 DEF PromiseInv
  <2> QED
    BY <2>1, <2>2
<1>10. CASE UNCHANGED <<cases, attention, pc, intent, seen, result>>
  BY <1>10 DEF PromiseInv, LedgerLags, ReadLags, SendFollows, DeliveryOf, ExpectedSequence
<1>11. ASSUME NEW w \in Worker, SettleIntent(w) \/ Crash(w) PROVE PromiseInv'
  BY <1>2, <1>11 DEF SettleIntent, Crash, storeVars
<1>12. ASSUME NEW w \in Worker, WorkerStep(w) PROVE PromiseInv'
  BY <1>4, <1>5, <1>6, <1>7, <1>8, <1>9, <1>11, <1>12 DEF WorkerStep, Handler
<1>13. CASE Tick \/ (\E k \in DOMAIN outbox : RequeueExpiredClaim(k)) \/ UNCHANGED vars
  BY <1>10, <1>13 DEF Tick, RequeueExpiredClaim, vars, storeVars, workerVars
<1> QED
  BY <1>1, <1>12, <1>13 DEF Next

\* What is read, sent and recorded never runs ahead of the case, nor behind the ledger.
THEOREM PromiseInvariant == Spec => []PromiseInv
<1>1. Init => PromiseInv
  BY InitPromise
<1>2. TypeOK /\ TypeOK' /\ LeaseInv /\ PromiseInv /\ [Next]_vars => PromiseInv'
  BY NextPromise
<1> QED
  BY <1>1, <1>2, TypeCorrect, LeaseInvariant, PTL DEF Spec

\* Only a commit and the passing of time write the ledger, as the promise allows.
LEMMA StepKeepsPromise ==
    TypeOK /\ TypeOK' /\ PromiseInv /\ [Next]_vars => [Abs!Next]_attention
<1> SUFFICES ASSUME TypeOK, TypeOK', PromiseInv, [Next]_vars PROVE Abs!Next \/ UNCHANGED attention
  OBVIOUS
<1>1. ASSUME NEW c \in Case, Abs!Age(c) \/ Abs!Deliver(c) PROVE Abs!Next
  BY <1>1 DEF Abs!Next
<1>2. CASE Environment
  BY <1>1, <1>2, LedgerAges DEF Abs!Age
<1>3. ASSUME NEW w \in Worker, CompleteAttention(w), MayComplete(w) PROVE Abs!Next
  <2> DEFINE c == intent[w].case
  <2>1. c \in Case /\ pc[w] = "finish" /\ result[w] = "delivered"
    BY <1>3, IntentType DEF CompleteAttention
  <2>2. PICK aged \in BOOLEAN : attention' = [attention EXCEPT ![c] = [DeliveryOf(w) EXCEPT !.aged = aged]]
    BY <1>3 DEF CompleteAttention, CompleteDelivery
  <2>3. DeliveryOf(w) \in Delivery
    BY <2>1, DeliveryType
  <2>4. /\ attention'[c] = [DeliveryOf(w) EXCEPT !.aged = aged]
        /\ \A d \in Case \ {c} : attention'[d] = attention[d]
    BY <2>1, <2>2 DEF TypeOK, StoreOK
  <2>5. DeliveryOf(w).sequence = attention[c].sequence + 1
    BY <1>3 DEF MayComplete, DeliveryOf
  <2>6. Abs!Successor(attention[c], DeliveryOf(w))
    BY <2>1, <2>5 DEF PromiseInv, SendFollows
  <2>7. Abs!Successor(attention[c], attention'[c])
    BY <2>3, <2>4, <2>6 DEF Abs!Successor, Delivery
  <2>8. attention' \in [Case -> Abs!Delivery]
    BY DEF TypeOK, StoreOK, Delivery, Abs!Delivery, Phase, Abs!Phase, Severity, Abs!Severity
  <2> QED
    BY <1>1, <2>1, <2>4, <2>7, <2>8 DEF Abs!Deliver
<1>4. ASSUME NEW w \in Worker, WorkerStep(w) PROVE Abs!Next \/ UNCHANGED attention
  BY <1>3, <1>4 DEF WorkerStep, Handler, ScanCandidate, RequestReport, EnqueueAttention, ReopenIntent, TakeIntent,
     ClaimIntent, CheckCase, CheckAttention, ClaimAttention, StartDeadline, RecheckCase, RecheckAttention, Withhold,
     Sent, Superseded, SendDirect, ReleaseAttention, Abort, SettleIntent, CompleteAttention, Crash, storeVars
<1>5. CASE Tick \/ (\E k \in DOMAIN outbox : RequeueExpiredClaim(k)) \/ UNCHANGED vars
  BY <1>5 DEF Tick, RequeueExpiredClaim, vars, storeVars
<1> QED
  BY <1>2, <1>4, <1>5 DEF Next

(***************************************************************************)
(* The workers, however many, with their crashes, retries and stale reads, *)
(* implement the promise: every committed delivery is a legitimate         *)
(* successor of the one before.                                            *)
(***************************************************************************)
THEOREM KeepsPromise == Spec => Promise
<1>1. Init => Abs!Init
  BY DEF Init, Abs!Init, NoDelivery, Abs!NoDelivery
<1>2. TypeOK /\ TypeOK' /\ PromiseInv /\ [Next]_vars => [Abs!Next]_attention
  BY StepKeepsPromise
<1> QED
  BY <1>1, <1>2, TypeCorrect, PromiseInvariant, PTL DEF Spec, Promise, Abs!Spec

-----------------------------------------------------------------------------
(***************************************************************************)
(* Acknowledgements.  AckInv is inductive relative to TypeOK: what was     *)
(* acknowledged when the lease was granted stays silenced in the case row, *)
(* hence in every later read of it.                                        *)
(***************************************************************************)

LEMMA InitAck == Init => AckInv
BY DEF Init, AckInv

\* An acknowledged generation stays acknowledged as long as it is the current one.
LEMMA SilencedStays ==
    ASSUME TypeOK, Environment
    PROVE  \A c \in Case : \A g \in Nat : Silenced(cases[c], g) => Silenced(cases'[c], g)
<1> DEFINE Stays == \A c \in Case : \A g \in Nat : Silenced(cases[c], g) => Silenced(cases'[c], g)
<1>0. \A d \in Case : cases[d] \in CaseRecord
  BY DEF TypeOK, StoreOK
<1>1. ASSUME NEW c \in Case, NEW r, cases' = [cases EXCEPT ![c] = r],
             \A g \in Nat : Silenced(cases[c], g) => Silenced(r, g)
      PROVE  Stays
  BY <1>1 DEF TypeOK, StoreOK
<1>2. ASSUME NEW c \in Case, NEW s \in Observed, ObserveFiring(c, s) PROVE Stays
  <2> DEFINE st  == IF cases[c].status \in {"resolved", "recovered_pending"} THEN "investigating"
                                                                          ELSE cases[c].status
             gen == IF Renewed(cases[c], s) THEN cases[c].generation + 1 ELSE cases[c].generation
             ack == IF Renewed(cases[c], s) THEN NoAck ELSE cases[c].ack
             r   == [cases[c] EXCEPT !.status = st, !.severity = s, !.generation = gen,
                                     !.ack = ack, !.positive = FALSE]
  <2>1. cases' = [cases EXCEPT ![c] = r]
    BY <1>2 DEF ObserveFiring, WriteCase
  <2>2. r.generation = gen /\ r.ack = ack
    BY <1>0 DEF CaseRecord
  <2>3. cases[c].generation \in Nat
    BY <1>0 DEF CaseRecord
  <2>4. ASSUME NEW g \in Nat, Silenced(cases[c], g) PROVE Silenced(r, g)
    <3>1. CASE Renewed(cases[c], s)
      BY <2>2, <2>3, <2>4, <3>1 DEF Silenced
    <3>2. CASE ~Renewed(cases[c], s)
      BY <2>2, <2>3, <2>4, <3>2 DEF Silenced
    <3> QED
      BY <3>1, <3>2
  <2> HIDE DEF r, Stays
  <2> QED
    BY <1>1, <2>1, <2>4
<1>3. ASSUME NEW c \in Case, Ack(c) PROVE Stays
  <2>1. cases' = [cases EXCEPT ![c] = [cases[c] EXCEPT !.ack = cases[c].severity]]
    BY <1>3 DEF Ack, WriteCase
  <2>2. cases[c].severity # NoAck
    BY <1>0 DEF CaseRecord, Severity, NoAck
  <2>3. \A g \in Nat : Silenced(cases[c], g) => Silenced([cases[c] EXCEPT !.ack = cases[c].severity], g)
    BY <1>0, <2>2 DEF Silenced, CaseRecord
  <2> QED
    BY <1>1, <2>1, <2>3
<1>4. ASSUME NEW c \in Case, NEW r, cases' = [cases EXCEPT ![c] = r],
             r.generation = cases[c].generation, r.ack = cases[c].ack
      PROVE  Stays
  <2>1. \A g \in Nat : Silenced(cases[c], g) => Silenced(r, g)
    BY <1>4 DEF Silenced
  <2> QED
    BY <1>1, <1>4, <2>1
<1>5. ASSUME NEW c \in Case, ObserveClean(c) \/ ResolveWithOutcome(c) \/ LinkChild(c) PROVE Stays
  BY <1>0, <1>4, <1>5 DEF ObserveClean, ResolveWithOutcome, LinkChild, WriteCase, CaseRecord
<1>6. ASSUME NEW c \in Case, Suppress(c) \/ Unsuppress(c) \/ \E s \in CaseStatus : GraphUpdateCase(c, s)
      PROVE  Stays
  BY <1>0, <1>4, <1>6 DEF Suppress, Unsuppress, GraphUpdateCase, WriteCase, CaseRecord
<1>7. ASSUME UNCHANGED cases PROVE Stays
  BY <1>7
<1> HIDE DEF Stays
<1>8. Stays
  BY <1>2, <1>3, <1>5, <1>6, <1>7 DEF Environment, ReminderElapses, SetVerbosity, storeVars
<1> QED
  BY <1>8 DEF Stays

\* A step of one worker, the cases untouched.
LEMMA AckWorkerStep ==
    ASSUME TypeOK, AckInv, NEW w \in Worker, UNCHANGED cases,
           \A v \in Worker \ {w} : /\ pc'[v] = pc[v] /\ intent'[v] = intent[v]
                                   /\ seen'[v] = seen[v] /\ ackSeen'[v] = ackSeen[v],
           \A g \in ackSeen'[w] :
               /\ pc'[w] \in Timed \cup {"release", "finish"}
               /\ Silenced(cases[intent'[w].case], g)
               /\ pc'[w] = "recheck_attention" => Silenced(seen'[w], g)
               /\ pc'[w] = "send" /\ intent'[w].type = "attention" /\ intent'[w].phase = "firing"
                     => intent'[w].generation # g
    PROVE  AckInv'
<1>1. ASSUME NEW v \in Worker, v # w, NEW g \in ackSeen'[v]
      PROVE  /\ pc'[v] \in Timed \cup {"release", "finish"}
             /\ Silenced(cases'[intent'[v].case], g)
             /\ pc'[v] = "recheck_attention" => Silenced(seen'[v], g)
             /\ pc'[v] = "send" /\ intent'[v].type = "attention" /\ intent'[v].phase = "firing"
                   => intent'[v].generation # g
  BY <1>1 DEF AckInv
<1> QED
  BY <1>1 DEF AckInv

\* A request to announce a firing incident is due only on a case whose
\* generation it carries and that is not acknowledged.
LEMMA FiringIsUnacked ==
    ASSUME NEW c \in Case, NEW case \in CaseRecord, NEW p \in Delivery, NEW g \in Nat, Silenced(case, g),
           AttentionDue(c, case, p) # NoRequest, AttentionDue(c, case, p).phase = "firing"
    PROVE  AttentionDue(c, case, p).generation # g
<1> DEFINE kind == AttentionKind(case, p)
<1>1. kind # "none" /\ AttentionDue(c, case, p) = AttentionRequest(c, case, p, kind)
  BY DEF AttentionDue
<1>2. PhaseOf(case) = "firing" /\ AttentionDue(c, case, p).generation = case.generation
  BY <1>1 DEF AttentionRequest
<1>3. kind = FiringKind(case, p)
  BY <1>1, <1>2 DEF AttentionKind
<1>4. case.ack = NoAck
  BY <1>1, <1>3 DEF FiringKind
<1> QED
  BY <1>2, <1>4 DEF Silenced

LEMMA NextAck == TypeOK /\ TypeOK' /\ AckInv /\ [Next]_vars => AckInv'
<1> SUFFICES ASSUME TypeOK, TypeOK', AckInv, [Next]_vars PROVE AckInv'
  OBVIOUS
<1>0. ASSUME NEW w \in Worker PROVE ackSeen[w] \subseteq Nat
  BY DEF TypeOK, LocalsOK
<1>1. CASE Environment
  <2>1. UNCHANGED <<pc, intent, seen, ackSeen>>
    BY <1>1, GenerationGrows DEF workerVars
  <2>2. ASSUME NEW w \in Worker, NEW g \in ackSeen[w] PROVE Silenced(cases'[intent[w].case], g)
    <3>1. pc[w] \notin {"idle", "enqueue"} /\ Silenced(cases[intent[w].case], g)
      BY DEF AckInv, Timed
    <3> QED
      BY <1>0, <1>1, <3>1, SilencedStays, IntentType
  <2> QED
    BY <2>1, <2>2 DEF AckInv
<1>2. CASE UNCHANGED <<cases, pc, intent, seen, ackSeen>>
  BY <1>2 DEF AckInv
<1>3. ASSUME NEW w \in Worker, Done(w), UNCHANGED cases PROVE AckInv'
  <2>1. ackSeen'[w] = {}
    BY <1>3 DEF Done, TypeOK, LocalsOK
  <2> QED
    BY <1>3, <2>1, DoneForgets, AckWorkerStep
<1>4. ASSUME NEW w \in Worker,
             \/ \E c \in Case : ScanCandidate(w, c) \/ RequestReport(w, c)
             \/ \E k \in DOMAIN outbox : TakeIntent(w, k)
             \/ EnqueueAttention(w) \/ ReopenIntent(w) \/ ClaimIntent(w)
             \/ CheckCase(w) \/ CheckAttention(w) \/ SendDirect(w)
      PROVE  AckInv'
  <2>1. ackSeen[w] = {}
    BY <1>4 DEF AckInv, Timed, ScanCandidate, RequestReport, TakeIntent, EnqueueAttention,
       ReopenIntent, ClaimIntent, CheckCase, CheckAttention, SendDirect
  <2>2. UNCHANGED cases
    BY <1>4 DEF ScanCandidate, RequestReport, TakeIntent, EnqueueAttention,
       ReopenIntent, ClaimIntent, CheckCase, CheckAttention, SendDirect, storeVars
  <2>3. CASE Done(w)
    BY <1>3, <2>2, <2>3
  <2>4. CASE ~Done(w)
    <3>1. /\ UNCHANGED ackSeen
          /\ \A v \in Worker \ {w} : pc'[v] = pc[v] /\ intent'[v] = intent[v] /\ seen'[v] = seen[v]
      BY <1>4, <2>4 DEF ScanCandidate, RequestReport, TakeIntent, EnqueueAttention, Enqueue, Goto, Return,
         Forget, ReopenIntent, ClaimIntent, CheckCase, CheckAttention, SendDirect, TypeOK, LocalsOK
    <3> QED
      BY <2>1, <2>2, <3>1, AckWorkerStep
  <2> QED
    BY <2>3, <2>4
<1>5. ASSUME NEW w \in Worker, ClaimAttention(w) PROVE AckInv'
  <2> DEFINE c == intent[w].case
  <2>1. pc[w] = "lease" /\ UNCHANGED <<cases, intent, seen>>
    BY <1>5 DEF ClaimAttention
  <2>2. CASE GrantLease(w)
    <3>1. /\ pc' = [pc EXCEPT ![w] = "leased"]
          /\ ackSeen' = [ackSeen EXCEPT ![w] = IF cases[c].ack # NoAck THEN {cases[c].generation} ELSE {}]
      BY <2>2 DEF GrantLease, Goto
    <3>2. pc'[w] = "leased" /\ \A v \in Worker \ {w} : pc'[v] = pc[v] /\ ackSeen'[v] = ackSeen[v]
      BY <3>1 DEF TypeOK, LocalsOK
    <3>3. ackSeen'[w] = IF cases[c].ack # NoAck THEN {cases[c].generation} ELSE {}
      BY <3>1 DEF TypeOK, LocalsOK
    <3>4. cases[c].generation \in Nat
      BY <2>1, IntentType DEF TypeOK, StoreOK, CaseRecord
    <3>5. \A g \in ackSeen'[w] : Silenced(cases[c], g)
      BY <3>3, <3>4 DEF Silenced
    <3> QED
      BY <2>1, <3>2, <3>5, AckWorkerStep DEF Timed
  <2>3. CASE Return(w, "finish", "error") /\ UNCHANGED ackSeen
    <3>1. ackSeen[w] = {}
      BY <2>1 DEF AckInv, Timed
    <3> QED
      BY <2>1, <2>3, <3>1, AckWorkerStep DEF Return, Goto, TypeOK, LocalsOK
  <2> QED
    BY <1>5, <2>2, <2>3 DEF ClaimAttention
<1>6. ASSUME NEW w \in Worker, StartDeadline(w) \/ Withhold(w) \/ Sent(w) \/ Superseded(w) \/ Abort(w)
                               \/ ReleaseAttention(w)
      PROVE  AckInv'
  <2>1. /\ UNCHANGED <<cases, intent, seen, ackSeen>>
        /\ pc'[w] \in {"recheck", "release", "finish"}
        /\ \A v \in Worker \ {w} : pc'[v] = pc[v]
    BY <1>6 DEF StartDeadline, Withhold, Sent, Superseded, Abort, ReleaseAttention, Return, Goto, storeVars,
       TypeOK, LocalsOK
  <2>2. \A g \in ackSeen[w] : Silenced(cases[intent[w].case], g)
    BY DEF AckInv
  <2> QED
    BY <2>1, <2>2, AckWorkerStep DEF Timed
<1>7. ASSUME NEW w \in Worker, RecheckCase(w) PROVE AckInv'
  <2>1. /\ UNCHANGED <<cases, intent, ackSeen>>
        /\ pc'[w] = IF intent[w].type = "attention" THEN "recheck_attention" ELSE "send"
        /\ seen'[w] = cases[intent[w].case]
        /\ \A v \in Worker \ {w} : pc'[v] = pc[v] /\ seen'[v] = seen[v]
    BY <1>7 DEF RecheckCase, Goto, storeVars, TypeOK, LocalsOK
  <2>2. \A g \in ackSeen[w] : Silenced(cases[intent[w].case], g)
    BY DEF AckInv
  <2> QED
    BY <2>1, <2>2, AckWorkerStep DEF Timed
<1>8. ASSUME NEW w \in Worker, RecheckAttention(w) PROVE AckInv'
  <2> DEFINE k == intent[w]
  <2>1. /\ UNCHANGED <<cases, intent, ackSeen>> /\ pc[w] = "recheck_attention"
        /\ pc'[w] = "send" => AttentionDue(k.case, seen[w], attention[k.case]) = k
        /\ pc'[w] \in {"send", "release"}
        /\ \A v \in Worker \ {w} : pc'[v] = pc[v] /\ seen'[v] = seen[v]
    BY <1>8 DEF RecheckAttention, Forget, Return, Goto, storeVars, TypeOK, LocalsOK
  <2>2. k.case \in Case /\ k \in Intent /\ seen[w] \in CaseRecord /\ attention[k.case] \in Delivery
    BY <2>1, IntentType DEF TypeOK, LocalsOK, StoreOK
  <2>3. ASSUME NEW g \in ackSeen[w], pc'[w] = "send", k.type = "attention", k.phase = "firing"
        PROVE  k.generation # g
    <3>1. Silenced(seen[w], g) /\ g \in Nat
      BY <1>0, <2>1 DEF AckInv
    <3>2. AttentionDue(k.case, seen[w], attention[k.case]) # NoRequest
      BY <2>1, <2>3 DEF NoRequest
    <3>3. AttentionDue(k.case, seen[w], attention[k.case]) = k
      BY <2>1, <2>3
    <3> QED
      BY <2>2, <2>3, <3>1, <3>2, <3>3, FiringIsUnacked
  <2>4. \A g \in ackSeen[w] : Silenced(cases[k.case], g)
    BY DEF AckInv
  <2> QED
    BY <2>1, <2>3, <2>4, AckWorkerStep DEF Timed
<1>9. ASSUME NEW w \in Worker, SettleIntent(w) \/ CompleteAttention(w) \/ Crash(w) PROVE AckInv'
  BY <1>3, <1>9 DEF SettleIntent, CompleteAttention, Crash, storeVars
<1>10. ASSUME NEW w \in Worker, WorkerStep(w) PROVE AckInv'
  BY <1>4, <1>5, <1>6, <1>7, <1>8, <1>9, <1>10 DEF WorkerStep, Handler
<1>11. ASSUME NEW k \in DOMAIN outbox, RequeueExpiredClaim(k) PROVE AckInv'
  BY <1>2, <1>11 DEF RequeueExpiredClaim, workerVars
<1>12. CASE Tick \/ UNCHANGED vars
  BY <1>2, <1>12 DEF Tick, vars, storeVars, workerVars
<1> QED
  BY <1>1, <1>10, <1>11, <1>12 DEF Next

(***************************************************************************)
(* A delivery never announces as firing an incident that was acknowledged  *)
(* before it took its lease.                                               *)
(***************************************************************************)
THEOREM AckedIsSilent == Spec => []AckedBeforeLeaseIsSilent
<1>1. Init => AckInv
  BY InitAck
<1>2. TypeOK /\ TypeOK' /\ AckInv /\ [Next]_vars => AckInv'
  BY NextAck
<1>3. AckInv => AckedBeforeLeaseIsSilent
  BY DEF AckInv, AckedBeforeLeaseIsSilent
<1> QED
  BY <1>1, <1>2, <1>3, TypeCorrect, PTL DEF Spec

-----------------------------------------------------------------------------
(***************************************************************************)
(* The rows of the outbox.  RowsInv is inductive relative to TypeOK: every *)
(* write compares the row with what its writer read, and no reader is left *)
(* with a row that has been delivered meanwhile.                           *)
(***************************************************************************)

LEMMA InitRows == Init => RowsInv
BY DEF Init, RowsInv, ReadBack, NewRow

\* A step of one worker (or of none) that leaves the rows that exist alone.
LEMMA RowsReadStep ==
    ASSUME TypeOK, RowsInv, NEW w \in Worker,
           DOMAIN outbox \subseteq DOMAIN outbox',
           \A k \in DOMAIN outbox : outbox'[k] = outbox[k],
           \A k \in DOMAIN outbox' \ DOMAIN outbox : outbox'[k] = NewRow,
           \A v \in Worker \ {w} : pc'[v] = pc[v] /\ intent'[v] = intent[v] /\ snap'[v] = snap[v],
           snap'[w].note # "delivered",
           pc'[w] = "claim" => snap'[w].status \in {"pending", "failed"},
           ReadBack(w)'
    PROVE  RowsInv'
<1>1. \A k \in DOMAIN outbox' : outbox'[k].note = "delivered" => outbox'[k].status = "succeeded"
  BY DEF RowsInv, NewRow
<1>2. ASSUME NEW v \in Worker \ {w} PROVE ReadBack(v)'
  <2>1. pc[v] = "reopen" => intent[v] \in DOMAIN outbox
    BY IntentType
  <2> QED
    BY <2>1 DEF RowsInv, ReadBack
<1> QED
  BY <1>1, <1>2 DEF RowsInv

\* A step of one worker that writes one row and is not about to reopen: what
\* it writes, a worker about to reopen that row has either not read, or finds pending.
LEMMA RowsWriteStep ==
    ASSUME TypeOK, RowsInv, NEW w \in Worker, NEW k \in DOMAIN outbox, NEW row,
           outbox' = [outbox EXCEPT ![k] = row],
           row.note = "delivered" => row.status = "succeeded",
           \A v \in Worker \ {w} : pc'[v] = pc[v] /\ intent'[v] = intent[v] /\ snap'[v] = snap[v],
           snap'[w].note # "delivered", pc'[w] \notin {"claim", "reopen"},
           \/ row.status = "pending"
           \/ outbox[k].status = "in_progress" /\ row.token = outbox[k].token
           \/ \A v \in Worker \ {w} : intent[v] = k => snap[v].token # row.token
    PROVE  RowsInv'
<1>1. \A l \in DOMAIN outbox' : outbox'[l].note = "delivered" => outbox'[l].status = "succeeded"
  BY DEF RowsInv
<1>2. ASSUME NEW v \in Worker, v # w PROVE ReadBack(v)'
  <2> SUFFICES ASSUME pc[v] = "reopen", intent[v].type = "attention"
               PROVE  /\ snap[v].status = "succeeded"
                      /\ outbox'[intent[v]].token = snap[v].token
                            => outbox'[intent[v]] = snap[v] \/ outbox'[intent[v]].status = "pending"
    BY <1>2 DEF ReadBack
  <2>1. intent[v] \in DOMAIN outbox
    BY IntentType
  <2>2. /\ snap[v].status = "succeeded"
        /\ outbox[intent[v]].token = snap[v].token
              => outbox[intent[v]] = snap[v] \/ outbox[intent[v]].status = "pending"
    BY DEF RowsInv, ReadBack
  <2>3. CASE intent[v] # k
    BY <2>1, <2>2, <2>3
  <2>4. CASE intent[v] = k
    BY <1>2, <2>1, <2>2, <2>4
  <2> QED
    BY <2>3, <2>4
<1>3. ReadBack(w)'
  BY DEF ReadBack
<1> QED
  BY <1>1, <1>2, <1>3 DEF RowsInv

\* The locals of a worker that returned to the loop.
LEMMA DoneRows ==
    ASSUME TypeOK, NEW w \in Worker, Done(w)
    PROVE  /\ pc'[w] = "idle" /\ snap'[w].note # "delivered"
           /\ \A v \in Worker \ {w} : pc'[v] = pc[v] /\ intent'[v] = intent[v] /\ snap'[v] = snap[v]
BY DEF Done, NewRow, TypeOK, LocalsOK

\* A settlement writes the row its worker claimed, and never says delivered.
LEMMA SettleForm ==
    ASSUME TypeOK, RowsInv, NEW w \in Worker, SettleIntent(w)
    PROVE  \/ UNCHANGED outbox
           \/ \E row \in Row :
                /\ intent[w] \in DOMAIN outbox
                /\ outbox[intent[w]].status = "in_progress" /\ outbox[intent[w]].token = row.token
                /\ row.note # "delivered"
                /\ outbox' = [outbox EXCEPT ![intent[w]] = row]
<1> DEFINE level == IF result[w] = "verbosity" THEN AttentionLevel(seen[w].severity) ELSE 0
           failed == [snap[w] EXCEPT !.status = "failed"]
           settled == [snap[w] EXCEPT !.status = "succeeded", !.note = result[w], !.level = level]
           row == IF result[w] = "error" THEN failed ELSE settled
<1>1. snap[w] \in Row /\ result[w] \in Note \cup {"error"} /\ level \in Nat
  BY DEF TypeOK, LocalsOK, AttentionLevel
<1>2. SettleRow(w, row) /\ result[w] # "delivered"
  BY DEF SettleIntent
<1> HIDE DEF level
<1>3. failed \in Row /\ failed.token = snap[w].token /\ failed.note # "delivered"
  BY <1>1 DEF Row, RowsInv
<1>4. result[w] # "error" => settled \in Row /\ settled.token = snap[w].token /\ settled.note # "delivered"
  BY <1>1, <1>2 DEF Row
<1>5. row \in Row /\ row.token = snap[w].token /\ row.note # "delivered"
  BY <1>3, <1>4
<1> HIDE DEF row
<1> QED
  BY <1>2, <1>5 DEF SettleRow, Matches

\* A commit writes the delivery of the intent its worker claimed.
LEMMA CompleteForm ==
    ASSUME TypeOK, NEW w \in Worker, CompleteAttention(w)
    PROVE  \/ UNCHANGED <<attention, outbox>>
           \/ LET k == intent[w]
                  row == [snap[w] EXCEPT !.status = "succeeded", !.note = "delivered"]
              IN /\ k \in DOMAIN outbox /\ k.case \in Case
                 /\ outbox[k].status = "in_progress" /\ outbox[k].token = snap[w].token
                 /\ attention[k.case].sequence = ExpectedSequence(k)
                 /\ attention'[k.case].sequence = ExpectedSequence(k) + 1
                 /\ \A c \in Case \ {k.case} : attention'[c] = attention[c]
                 /\ row.status = "succeeded" /\ row.note = "delivered" /\ row.token = snap[w].token
                 /\ outbox' = [outbox EXCEPT ![k] = row]
<1>1. CASE MayComplete(w) /\ CompleteDelivery(w)
  <2>1. /\ intent[w] \in DOMAIN outbox /\ intent[w].case \in Case
        /\ DeliveryOf(w) \in Delivery /\ snap[w] \in Row
    BY IntentType, DeliveryType DEF CompleteAttention, TypeOK, LocalsOK
  <2>2. PICK aged \in BOOLEAN :
          /\ attention' = [attention EXCEPT ![intent[w].case] = [DeliveryOf(w) EXCEPT !.aged = aged]]
          /\ outbox' = [outbox EXCEPT ![intent[w]]
                          = [snap[w] EXCEPT !.status = "succeeded", !.note = "delivered"]]
    BY <1>1 DEF CompleteDelivery
  <2>3. /\ attention'[intent[w].case].sequence = ExpectedSequence(intent[w]) + 1
        /\ \A c \in Case \ {intent[w].case} : attention'[c] = attention[c]
    BY <2>1, <2>2 DEF TypeOK, StoreOK, DeliveryOf
  <2> QED
    BY <1>1, <2>1, <2>2, <2>3 DEF MayComplete, Matches, Row
<1>2. CASE UNCHANGED <<attention, outbox, lease>>
  BY <1>2
<1> QED
  BY <1>1, <1>2 DEF CompleteAttention

\* A claim takes the row its worker read, under a token no other reader knows.
LEMMA ClaimForm ==
    ASSUME TypeOK, RowsInv, NEW w \in Worker, ClaimIntent(w)
    PROVE  \/ Done(w) /\ UNCHANGED outbox
           \/ \E row \in Row :
                /\ intent[w] \in DOMAIN outbox
                /\ outbox[intent[w]].status \in {"pending", "failed"}
                /\ row.note # "delivered"
                /\ \A v \in Worker \ {w} : intent[v] = intent[w] => snap[v].token # row.token
                /\ outbox' = [outbox EXCEPT ![intent[w]] = row]
                /\ snap' = [snap EXCEPT ![w] = row]
                /\ pc' = [pc EXCEPT ![w] = "check"]
                /\ UNCHANGED intent
<1> DEFINE row == [snap[w] EXCEPT !.status = "in_progress", !.token = NewToken(ClaimsHeld(w))]
<1>1. NewToken(ClaimsHeld(w)) \in Token /\ NewToken(ClaimsHeld(w)) \notin ClaimsHeld(w)
  BY DEF ClaimIntent, NewToken, Fresh
<1>2. snap[w] \in Row
  BY DEF TypeOK, LocalsOK
<1>3. row \in Row /\ row.note # "delivered" /\ row.token = NewToken(ClaimsHeld(w))
  BY <1>1, <1>2 DEF Row, RowsInv
<1>4. \A v \in Worker \ {w} : intent[v] = intent[w] => snap[v].token # row.token
  BY <1>1, <1>3 DEF ClaimsHeld
<1> HIDE DEF row
<1>5. \/ Done(w) /\ UNCHANGED outbox
      \/ /\ Matches(intent[w], snap[w].status, snap[w].token)
         /\ outbox' = [outbox EXCEPT ![intent[w]] = row]
         /\ snap' = [snap EXCEPT ![w] = row] /\ Goto(w, "check") /\ UNCHANGED intent
  BY DEF ClaimIntent, row
<1>6. snap[w].status \in {"pending", "failed"}
  BY DEF ClaimIntent, RowsInv
<1> QED
  BY <1>3, <1>4, <1>5, <1>6 DEF Matches, Goto

\* A reopening writes a row that has not been delivered.
LEMMA ReopenForm ==
    ASSUME TypeOK, RowsInv, NEW w \in Worker, ReopenIntent(w)
    PROVE  \/ UNCHANGED outbox
           \/ \E row \in Row :
                /\ intent[w] \in DOMAIN outbox
                /\ row.note # "delivered" /\ row.status = "pending"
                /\ intent[w].type = "attention" => outbox[intent[w]].note # "delivered"
                /\ outbox' = [outbox EXCEPT ![intent[w]] = row]
<1> DEFINE token == IF intent[w].type = "attention" THEN snap[w].token ELSE outbox[intent[w]].token
           row == [snap[w] EXCEPT !.status = "pending", !.note = "none", !.level = 0]
<1>1. row \in Row /\ row.note # "delivered" /\ row.status = "pending"
  BY DEF TypeOK, LocalsOK, Row, Note
<1> HIDE DEF row
<1>2. \/ UNCHANGED outbox
      \/ Matches(intent[w], "succeeded", token) /\ outbox' = [outbox EXCEPT ![intent[w]] = row]
  BY DEF ReopenIntent, row
<1>3. ASSUME Matches(intent[w], "succeeded", token), intent[w].type = "attention"
      PROVE  outbox[intent[w]].note # "delivered"
  <2>1. outbox[intent[w]] = snap[w]
    BY <1>3 DEF Matches, RowsInv, ReadBack, ReopenIntent
  <2> QED
    BY <2>1 DEF RowsInv
<1> QED
  BY <1>1, <1>2, <1>3 DEF Matches

\* Enqueueing reads the row that is there, or inserts one.
LEMMA EnqueueForm ==
    ASSUME TypeOK, NEW w \in Worker, NEW k, Enqueue(w, k)
    PROVE  /\ DOMAIN outbox \subseteq DOMAIN outbox'
           /\ \A l \in DOMAIN outbox : outbox'[l] = outbox[l]
           /\ \A l \in DOMAIN outbox' \ DOMAIN outbox : outbox'[l] = NewRow
           /\ \/ Done(w)
              \/ /\ k \in DOMAIN outbox /\ outbox[k].status = "succeeded" /\ outbox[k].note # "delivered"
                 /\ pc' = [pc EXCEPT ![w] = "reopen"]
                 /\ intent' = [intent EXCEPT ![w] = k]
                 /\ snap' = [snap EXCEPT ![w] = outbox[k]]
<1>1. /\ DOMAIN outbox \subseteq DOMAIN outbox'
      /\ \A l \in DOMAIN outbox : outbox'[l] = outbox[l]
      /\ \A l \in DOMAIN outbox' \ DOMAIN outbox : outbox'[l] = NewRow
  <2>1. CASE k \in DOMAIN outbox
    BY <2>1 DEF Enqueue
  <2>2. CASE k \notin DOMAIN outbox
    BY <2>2 DEF Enqueue, Put
  <2> QED
    BY <2>1, <2>2
<1>2. CASE k \in DOMAIN outbox /\ EligibleAgain(k, outbox[k])
  BY <1>1, <1>2 DEF Enqueue, EligibleAgain, Goto
<1>3. CASE ~(k \in DOMAIN outbox /\ EligibleAgain(k, outbox[k]))
  BY <1>1, <1>3 DEF Enqueue
<1> QED
  BY <1>2, <1>3

LEMMA NextRows == TypeOK /\ TypeOK' /\ RowsInv /\ [Next]_vars => RowsInv'
<1> SUFFICES ASSUME TypeOK, TypeOK', RowsInv, [Next]_vars PROVE RowsInv'
  OBVIOUS
<1>1. CASE UNCHANGED <<outbox, pc, intent, snap>>
  BY <1>1 DEF RowsInv, ReadBack
<1>2. ASSUME NEW w \in Worker, Done(w), UNCHANGED outbox PROVE RowsInv'
  BY <1>2, DoneRows, RowsReadStep DEF ReadBack
<1>3. ASSUME NEW w \in Worker, NEW k, Enqueue(w, k) PROVE RowsInv'
  <2>1. CASE Done(w)
    BY <1>3, <2>1, EnqueueForm, DoneRows, RowsReadStep DEF ReadBack
  <2>2. CASE ~Done(w)
    <3>1. /\ k \in DOMAIN outbox /\ outbox[k].status = "succeeded" /\ outbox[k].note # "delivered"
          /\ pc'[w] = "reopen" /\ intent'[w] = k /\ snap'[w] = outbox[k]
          /\ \A v \in Worker \ {w} : pc'[v] = pc[v] /\ intent'[v] = intent[v] /\ snap'[v] = snap[v]
          /\ outbox'[k] = outbox[k]
      BY <1>3, <2>2, EnqueueForm DEF TypeOK, LocalsOK
    <3>2. ReadBack(w)'
      BY <3>1 DEF ReadBack
    <3> QED
      BY <1>3, <3>1, <3>2, EnqueueForm, RowsReadStep
  <2> QED
    BY <2>1, <2>2
<1>4. ASSUME NEW w \in Worker, NEW c \in Case, ScanCandidate(w, c) \/ RequestReport(w, c) PROVE RowsInv'
  <2>1. CASE ScanCandidate(w, c)
    BY <2>1, RowsReadStep DEF ScanCandidate, Goto, storeVars, TypeOK, LocalsOK, RowsInv, ReadBack
  <2>2. CASE RequestReport(w, c)
    BY <1>3, <2>2 DEF RequestReport
  <2> QED
    BY <1>4, <2>1, <2>2
<1>5. ASSUME NEW w \in Worker, EnqueueAttention(w) PROVE RowsInv'
  BY <1>2, <1>3, <1>5 DEF EnqueueAttention
<1>6. ASSUME NEW w \in Worker, NEW k \in DOMAIN outbox, TakeIntent(w, k) PROVE RowsInv'
  <2>1. /\ outbox[k].status \in {"pending", "failed"} /\ outbox' = outbox
        /\ pc'[w] = "claim" /\ intent'[w] = k /\ snap'[w] = outbox[k]
        /\ \A v \in Worker \ {w} : pc'[v] = pc[v] /\ intent'[v] = intent[v] /\ snap'[v] = snap[v]
    BY <1>6 DEF TakeIntent, Goto, storeVars, TypeOK, LocalsOK
  <2>2. snap'[w].note # "delivered"
    BY <2>1 DEF RowsInv
  <2> QED
    BY <2>1, <2>2, RowsReadStep DEF ReadBack
<1>7. ASSUME NEW w \in Worker, ClaimIntent(w) PROVE RowsInv'
  <2>1. CASE Done(w) /\ UNCHANGED outbox
    BY <1>2, <2>1
  <2>2. ASSUME NEW row \in Row,
               /\ intent[w] \in DOMAIN outbox
               /\ outbox[intent[w]].status \in {"pending", "failed"}
               /\ row.note # "delivered"
               /\ \A v \in Worker \ {w} : intent[v] = intent[w] => snap[v].token # row.token
               /\ outbox' = [outbox EXCEPT ![intent[w]] = row]
               /\ snap' = [snap EXCEPT ![w] = row]
               /\ pc' = [pc EXCEPT ![w] = "check"]
               /\ UNCHANGED intent
        PROVE  RowsInv'
    <3>1. /\ pc'[w] = "check" /\ snap'[w] = row
          /\ \A v \in Worker \ {w} : pc'[v] = pc[v] /\ intent'[v] = intent[v] /\ snap'[v] = snap[v]
      BY <2>2 DEF TypeOK, LocalsOK
    <3>2. snap'[w].note # "delivered" /\ pc'[w] \notin {"claim", "reopen"}
      BY <2>2, <3>1
    <3>3. \A v \in Worker \ {w} : intent[v] = intent[w] => snap[v].token # row.token
      BY <2>2
    <3>4. /\ intent[w] \in DOMAIN outbox /\ outbox' = [outbox EXCEPT ![intent[w]] = row]
          /\ row.note = "delivered" => row.status = "succeeded"
      BY <2>2
    <3>5. \A v \in Worker \ {w} : pc'[v] = pc[v] /\ intent'[v] = intent[v] /\ snap'[v] = snap[v]
      BY <3>1
    <3> QED
      BY <3>2, <3>3, <3>4, <3>5, RowsWriteStep
  <2> QED
    BY <1>7, <2>1, <2>2, ClaimForm
<1>8. ASSUME NEW w \in Worker, ReopenIntent(w) PROVE RowsInv'
  <2>1. Done(w)
    BY <1>8 DEF ReopenIntent
  <2>2. ASSUME NEW row \in Row, intent[w] \in DOMAIN outbox, row.note # "delivered", row.status = "pending",
               outbox' = [outbox EXCEPT ![intent[w]] = row]
        PROVE  RowsInv'
    BY <2>1, <2>2, DoneRows, RowsWriteStep
  <2> QED
    BY <1>2, <1>8, <2>1, <2>2, ReopenForm
<1>9. ASSUME NEW w \in Worker, SettleIntent(w) PROVE RowsInv'
  <2>1. Done(w)
    BY <1>9 DEF SettleIntent
  <2>2. ASSUME NEW row \in Row, intent[w] \in DOMAIN outbox, outbox[intent[w]].status = "in_progress",
               outbox[intent[w]].token = row.token, row.note # "delivered",
               outbox' = [outbox EXCEPT ![intent[w]] = row]
        PROVE  RowsInv'
    BY <2>1, <2>2, DoneRows, RowsWriteStep
  <2> QED
    BY <1>2, <1>9, <2>1, <2>2, SettleForm
<1>10. ASSUME NEW w \in Worker, CompleteAttention(w) PROVE RowsInv'
  <2>1. Done(w)
    BY <1>10 DEF CompleteAttention
  <2> DEFINE row == [snap[w] EXCEPT !.status = "succeeded", !.note = "delivered"]
  <2>2. CASE /\ intent[w] \in DOMAIN outbox /\ outbox[intent[w]].status = "in_progress"
             /\ outbox[intent[w]].token = snap[w].token
             /\ row.status = "succeeded" /\ row.token = snap[w].token
             /\ outbox' = [outbox EXCEPT ![intent[w]] = row]
    <3>1. /\ snap'[w].note # "delivered" /\ pc'[w] \notin {"claim", "reopen"}
          /\ \A v \in Worker \ {w} : pc'[v] = pc[v] /\ intent'[v] = intent[v] /\ snap'[v] = snap[v]
      BY <2>1, DoneRows
    <3>2. outbox[intent[w]].status = "in_progress" /\ row.token = outbox[intent[w]].token
      BY <2>2
    <3>3. /\ intent[w] \in DOMAIN outbox /\ outbox' = [outbox EXCEPT ![intent[w]] = row]
          /\ row.note = "delivered" => row.status = "succeeded"
      BY <2>2
    <3> HIDE DEF row
    <3> QED
      BY <3>1, <3>2, <3>3, RowsWriteStep
  <2> QED
    BY <1>2, <1>10, <2>1, <2>2, CompleteForm
<1>11. ASSUME NEW w \in Worker, Crash(w) PROVE RowsInv'
  BY <1>2, <1>11 DEF Crash, storeVars
<1>12. ASSUME NEW w \in Worker, Handler(w) \/ Abort(w) PROVE RowsInv'
  <2>1. UNCHANGED <<outbox, intent, snap>>
    BY <1>12 DEF Handler, Abort, CheckCase, CheckAttention, ClaimAttention, StartDeadline, RecheckCase,
       RecheckAttention, Withhold, Sent, Superseded, SendDirect, ReleaseAttention, storeVars
  <2>2. \A v \in Worker : pc'[v] = pc[v] \/ pc'[v] \notin {"claim", "reopen"}
    BY <1>12 DEF Handler, Abort, CheckCase, CheckAttention, ClaimAttention, GrantLease, StartDeadline,
       RecheckCase, RecheckAttention, Withhold, Sent, Superseded, SendDirect, ReleaseAttention, Return, Goto,
       TypeOK, LocalsOK
  <2> QED
    BY <2>1, <2>2 DEF RowsInv, ReadBack
<1>13. ASSUME NEW w \in Worker, WorkerStep(w) PROVE RowsInv'
  BY <1>4, <1>5, <1>6, <1>7, <1>8, <1>9, <1>10, <1>11, <1>12, <1>13 DEF WorkerStep
<1>14. ASSUME NEW k \in DOMAIN outbox, RequeueExpiredClaim(k) PROVE RowsInv'
  <2>1. /\ outbox[k] \in Row /\ outbox[k].status = "in_progress" /\ UNCHANGED <<pc, intent, snap>>
        /\ outbox' = [outbox EXCEPT ![k].status = "pending"]
    BY <1>14 DEF RequeueExpiredClaim, workerVars, TypeOK, StoreOK
  <2>2. \A l \in DOMAIN outbox' : outbox'[l].note = "delivered" => outbox'[l].status = "succeeded"
    BY <2>1 DEF RowsInv, Row
  <2>3. ASSUME NEW v \in Worker PROVE ReadBack(v)'
    <3>1. pc[v] = "reopen" => intent[v] \in DOMAIN outbox
      BY IntentType
    <3> QED
      BY <2>1, <3>1 DEF RowsInv, ReadBack, Row
  <2> QED
    BY <2>1, <2>2, <2>3 DEF RowsInv
<1>15. CASE Environment
  BY <1>1, <1>15, GenerationGrows DEF workerVars, Environment, ObserveFiring, ObserveClean, Ack, Suppress,
     Unsuppress, GraphUpdateCase, ResolveWithOutcome, LinkChild, WriteCase, ReminderElapses, SetVerbosity,
     storeVars
<1>16. CASE Tick \/ UNCHANGED vars
  BY <1>1, <1>16 DEF Tick, vars, storeVars, workerVars
<1> QED
  BY <1>13, <1>14, <1>15, <1>16 DEF Next

THEOREM RowsInvariant == Spec => []RowsInv
<1>1. Init => RowsInv
  BY InitRows
<1>2. TypeOK /\ TypeOK' /\ RowsInv /\ [Next]_vars => RowsInv'
  BY NextRows
<1> QED
  BY <1>1, <1>2, TypeCorrect, PTL DEF Spec

-----------------------------------------------------------------------------
(***************************************************************************)
(* What a step does to the delivered intents: it leaves them all as they   *)
(* are, and only a commit adds one, the next of its case.                  *)
(***************************************************************************)

\* A write to a row that is not delivered keeps the delivered ones.
LEMMA WriteKeepsDelivered ==
    ASSUME TypeOK, RowsInv, NEW k \in DOMAIN outbox, NEW row, outbox' = [outbox EXCEPT ![k] = row],
           ~Delivered(k)
    PROVE  /\ DeliveredStays
           /\ k.type = "attention" /\ row.note = "delivered" => Delivered(k)'
           /\ \A l \in DOMAIN outbox' : Delivered(l)' => Delivered(l)
                                           \/ (l = k /\ k.type = "attention" /\ row.note = "delivered")
<1>1. outbox'[k] = row /\ DOMAIN outbox' = DOMAIN outbox
  OBVIOUS
<1>2. \A l \in DOMAIN outbox \ {k} : outbox'[l] = outbox[l]
  OBVIOUS
<1>3. DeliveredStays
  BY <1>1, <1>2 DEF DeliveredStays, Delivered
<1>4. k.type = "attention" /\ row.note = "delivered" => Delivered(k)'
  BY <1>1 DEF Delivered
<1>5. ASSUME NEW l \in DOMAIN outbox', Delivered(l)'
      PROVE  Delivered(l) \/ (l = k /\ k.type = "attention" /\ row.note = "delivered")
  <2>1. CASE l = k
    BY <1>1, <1>5, <2>1 DEF Delivered
  <2>2. CASE l # k
    <3>1. l \in DOMAIN outbox /\ outbox'[l] = outbox[l]
      BY <1>1, <1>2, <2>2
    <3> QED
      BY <1>5, <3>1 DEF Delivered
  <2> QED
    BY <2>1, <2>2
<1> QED
  BY <1>3, <1>4, <1>5

LEMMA RowsStep ==
    ASSUME TypeOK, RowsInv, [Next]_vars
    PROVE  /\ DeliveredStays
           /\ \/ /\ \A k \in DOMAIN outbox' : Delivered(k)' => Delivered(k)
                 /\ \/ \A c \in Case : attention'[c].sequence = attention[c].sequence
                    \/ \E c \in Case : /\ attention[c].sequence = 0 /\ attention'[c].sequence = 1
                                       /\ \A d \in Case \ {c} : attention'[d] = attention[d]
              \/ \E k \in DOMAIN outbox :
                    /\ k.type = "attention" /\ ~Delivered(k) /\ Delivered(k)'
                    /\ \A l \in DOMAIN outbox' : Delivered(l)' => Delivered(l) \/ l = k
                    /\ attention[k.case].sequence = k.sequence
                    /\ attention'[k.case].sequence = k.sequence + 1
                    /\ \A c \in Case \ {k.case} : attention'[c] = attention[c]
<1> DEFINE Same == /\ DeliveredStays
                   /\ \A k \in DOMAIN outbox' : Delivered(k)' => Delivered(k)
                   /\ \A c \in Case : attention'[c].sequence = attention[c].sequence
           First == /\ DeliveredStays
                    /\ \A k \in DOMAIN outbox' : Delivered(k)' => Delivered(k)
                    /\ \E c \in Case : /\ attention[c].sequence = 0 /\ attention'[c].sequence = 1
                                       /\ \A d \in Case \ {c} : attention'[d] = attention[d]
           More == /\ DeliveredStays
                   /\ \E k \in DOMAIN outbox :
                        /\ k.type = "attention" /\ ~Delivered(k) /\ Delivered(k)'
                        /\ \A l \in DOMAIN outbox' : Delivered(l)' => Delivered(l) \/ l = k
                        /\ attention[k.case].sequence = k.sequence
                        /\ attention'[k.case].sequence = k.sequence + 1
                        /\ \A c \in Case \ {k.case} : attention'[c] = attention[c]
<1>1. ASSUME DOMAIN outbox \subseteq DOMAIN outbox',
             \A k \in DOMAIN outbox : outbox'[k] = outbox[k],
             \A k \in DOMAIN outbox' \ DOMAIN outbox : outbox'[k] = NewRow,
             UNCHANGED attention
      PROVE  Same
  BY <1>1 DEF DeliveredStays, Delivered, NewRow
<1>2. ASSUME UNCHANGED <<outbox, attention>> PROVE Same
  BY <1>2 DEF DeliveredStays, Delivered
<1>3. ASSUME NEW k \in DOMAIN outbox, NEW row, outbox' = [outbox EXCEPT ![k] = row], ~Delivered(k),
             k.type = "attention" => row.note # "delivered", UNCHANGED attention
      PROVE  Same
  BY <1>3, WriteKeepsDelivered
<1>4. ASSUME Environment PROVE Same
  <2>1. UNCHANGED outbox
    BY <1>4 DEF Environment, ObserveFiring, ObserveClean, Ack, Suppress, Unsuppress, GraphUpdateCase,
       ResolveWithOutcome, LinkChild, WriteCase, ReminderElapses, SetVerbosity, storeVars
  <2>2. \A c \in Case : attention'[c].sequence = attention[c].sequence
    BY <1>4, LedgerAges DEF TypeOK, StoreOK, Delivery
  <2> QED
    BY <2>1, <2>2 DEF DeliveredStays, Delivered
<1>5. ASSUME NEW w \in Worker,
             \/ \E c \in Case : ScanCandidate(w, c)
             \/ \E k \in DOMAIN outbox : TakeIntent(w, k)
             \/ Handler(w) \/ Abort(w) \/ Crash(w)
      PROVE  Same
  BY <1>2, <1>5 DEF ScanCandidate, TakeIntent, Crash, Handler, Abort, CheckCase, CheckAttention,
     ClaimAttention, StartDeadline, RecheckCase, RecheckAttention, Withhold, Sent, Superseded, SendDirect,
     ReleaseAttention, storeVars
<1>6. ASSUME NEW w \in Worker, EnqueueAttention(w) \/ \E c \in Case : RequestReport(w, c) PROVE Same
  <2>1. ASSUME NEW k, Enqueue(w, k), UNCHANGED attention PROVE Same
    BY <1>1, <2>1, EnqueueForm
  <2> QED
    BY <1>2, <1>6, <2>1 DEF EnqueueAttention, RequestReport
<1>7. ASSUME NEW w \in Worker, ReopenIntent(w) PROVE Same
  <2>1. UNCHANGED attention
    BY <1>7 DEF ReopenIntent
  <2>2. ASSUME NEW row \in Row, intent[w] \in DOMAIN outbox, row.note # "delivered",
               intent[w].type = "attention" => outbox[intent[w]].note # "delivered",
               outbox' = [outbox EXCEPT ![intent[w]] = row]
        PROVE  Same
    BY <1>3, <2>1, <2>2 DEF Delivered
  <2> QED
    BY <1>2, <1>7, <2>1, <2>2, ReopenForm
<1>8. ASSUME NEW w \in Worker, ClaimIntent(w) PROVE Same
  <2>1. UNCHANGED attention
    BY <1>8 DEF ClaimIntent
  <2>2. ASSUME NEW row \in Row, intent[w] \in DOMAIN outbox, row.note # "delivered",
               outbox[intent[w]].status \in {"pending", "failed"},
               outbox' = [outbox EXCEPT ![intent[w]] = row]
        PROVE  Same
    BY <1>3, <2>1, <2>2 DEF Delivered, RowsInv
  <2> QED
    BY <1>2, <1>8, <2>1, <2>2, ClaimForm
<1>9. ASSUME NEW w \in Worker, SettleIntent(w) PROVE Same
  <2>1. UNCHANGED attention
    BY <1>9 DEF SettleIntent
  <2>2. ASSUME NEW row \in Row, intent[w] \in DOMAIN outbox, row.note # "delivered",
               outbox[intent[w]].status = "in_progress",
               outbox' = [outbox EXCEPT ![intent[w]] = row]
        PROVE  Same
    BY <1>3, <2>1, <2>2 DEF Delivered, RowsInv
  <2> QED
    BY <1>2, <1>9, <2>1, <2>2, SettleForm
<1>10. ASSUME NEW w \in Worker, CompleteAttention(w) PROVE Same \/ First \/ More
  <2> DEFINE k == intent[w]
             row == [snap[w] EXCEPT !.status = "succeeded", !.note = "delivered"]
  <2>1. CASE /\ k \in DOMAIN outbox /\ k.case \in Case
             /\ outbox[k].status = "in_progress" /\ outbox[k].token = snap[w].token
             /\ attention[k.case].sequence = ExpectedSequence(k)
             /\ attention'[k.case].sequence = ExpectedSequence(k) + 1
             /\ \A c \in Case \ {k.case} : attention'[c] = attention[c]
             /\ row.status = "succeeded" /\ row.note = "delivered" /\ row.token = snap[w].token
             /\ outbox' = [outbox EXCEPT ![k] = row]
    <3>1. ~Delivered(k)
      BY <2>1 DEF Delivered, RowsInv
    <3> HIDE DEF row
    <3>2. CASE k.type = "attention"
      <4>1. More
        BY <2>1, <3>1, <3>2, WriteKeepsDelivered DEF ExpectedSequence
      <4> QED
        BY <4>1
    <3>3. CASE k.type # "attention"
      <4>1. DeliveredStays /\ \A l \in DOMAIN outbox' : Delivered(l)' => Delivered(l)
        BY <2>1, <3>1, <3>3, WriteKeepsDelivered
      <4>2. attention[k.case].sequence = 0 /\ attention'[k.case].sequence = 1
        BY <2>1, <3>3 DEF ExpectedSequence
      <4>3. First
        BY <2>1, <4>1, <4>2
      <4> QED
        BY <4>3
    <3> QED
      BY <3>2, <3>3
  <2> QED
    BY <1>2, <1>10, <2>1, CompleteForm
<1>11. ASSUME NEW k \in DOMAIN outbox, RequeueExpiredClaim(k) PROVE Same
  <2>1. /\ outbox[k] \in Row /\ outbox[k].status = "in_progress" /\ UNCHANGED attention
        /\ outbox' = [outbox EXCEPT ![k] = [outbox[k] EXCEPT !.status = "pending"]]
    BY <1>11 DEF RequeueExpiredClaim, TypeOK, StoreOK
  <2>2. outbox[k].note # "delivered" /\ [outbox[k] EXCEPT !.status = "pending"].note # "delivered"
    BY <2>1 DEF RowsInv, Row
  <2> QED
    BY <1>3, <2>1, <2>2 DEF Delivered
<1>12. ASSUME Tick \/ UNCHANGED vars PROVE Same
  BY <1>2, <1>12 DEF Tick, vars, storeVars
<1> HIDE DEF Same, First, More
<1>13. ASSUME NEW w \in Worker, WorkerStep(w) PROVE Same \/ First \/ More
  BY <1>5, <1>6, <1>7, <1>8, <1>9, <1>10, <1>13 DEF WorkerStep
<1>14. Same \/ First \/ More
  BY <1>4, <1>11, <1>12, <1>13 DEF Next
<1> USE DEF Same, First, More
<1>15. CASE Same
  BY <1>15
<1>16. CASE First
  BY <1>16
<1>17. CASE More
  BY <1>17
<1> QED
  BY <1>14, <1>15, <1>16, <1>17

(***************************************************************************)
(* A delivered attention intent is never reopened, retried or rewritten.   *)
(***************************************************************************)
THEOREM DeliveredForGood == Spec => DeliveredIsFinal
<1>1. TypeOK /\ RowsInv /\ [Next]_vars => [DeliveredStays]_vars
  BY RowsStep
<1> QED
  BY <1>1, TypeCorrect, RowsInvariant, PTL DEF Spec, DeliveredIsFinal

-----------------------------------------------------------------------------
(***************************************************************************)
(* The ledger and the outbox.                                              *)
(***************************************************************************)

LEMMA InitLedger == Init => LedgerMatchesOutbox
BY DEF Init, LedgerMatchesOutbox, NoDelivery

LEMMA NextLedger ==
    TypeOK /\ TypeOK' /\ RowsInv /\ LedgerMatchesOutbox /\ [Next]_vars => LedgerMatchesOutbox'
<1> SUFFICES ASSUME TypeOK, TypeOK', RowsInv, LedgerMatchesOutbox, [Next]_vars, NEW c \in Case
             PROVE  LET sent == {k \in DOMAIN outbox' : k.case = c /\ Delivered(k)'}
                    IN /\ \A k \in sent : k.sequence < attention'[c].sequence
                       /\ \A k, l \in sent : k.sequence = l.sequence => k = l
                       /\ \A n \in 1 .. attention'[c].sequence - 1 : \E k \in sent : k.sequence = n
  BY DEF LedgerMatchesOutbox
<1> DEFINE sent  == {k \in DOMAIN outbox : k.case = c /\ Delivered(k)}
           sentP == {k \in DOMAIN outbox' : k.case = c /\ Delivered(k)'}
           seq   == attention[c].sequence
           seqP  == attention'[c].sequence
           Good  == /\ \A k \in sentP : k.sequence < seqP
                    /\ \A k, l \in sentP : k.sequence = l.sequence => k = l
                    /\ \A n \in 1 .. seqP - 1 : \E k \in sentP : k.sequence = n
<1>1. /\ \A k \in sent : k.sequence < seq
      /\ \A k, l \in sent : k.sequence = l.sequence => k = l
      /\ \A n \in 1 .. seq - 1 : \E k \in sent : k.sequence = n
  BY DEF LedgerMatchesOutbox
<1>2. seq \in Nat /\ seqP \in Nat
  BY DEF TypeOK, StoreOK, Delivery
<1>3. \A k \in sent : k.sequence \in Nat
  BY DEF Delivered, TypeOK, StoreOK, Intent, AttentionIntent, FactsIntent
<1>4. sent \subseteq sentP
  BY RowsStep DEF DeliveredStays, Delivered
<1>5. ASSUME sentP = sent, seqP = seq \/ (seq = 0 /\ seqP = 1) PROVE Good
  <2>1. CASE seqP = seq
    BY <1>1, <1>5, <2>1
  <2>2. CASE seq = 0 /\ seqP = 1
    <3>1. sent = {}
      BY <1>1, <1>3, <2>2
    <3>2. 1 .. seqP - 1 = {}
      BY <2>2
    <3> QED
      BY <1>5, <3>1, <3>2
  <2> QED
    BY <1>5, <2>1, <2>2
<1>6. ASSUME NEW k \in DOMAIN outbox, k \in sentP, k.sequence = seq, seqP = seq + 1, sentP = sent \cup {k}
      PROVE  Good
  <2>1. \A l \in sentP : l.sequence < seqP
    BY <1>1, <1>2, <1>3, <1>6
  <2>2. \A l, m \in sentP : l.sequence = m.sequence => l = m
    BY <1>1, <1>2, <1>3, <1>6
  <2>3. ASSUME NEW n \in 1 .. seqP - 1 PROVE \E l \in sentP : l.sequence = n
    <3>1. CASE n = seq
      BY <1>6, <3>1
    <3>2. CASE n # seq
      <4>1. n \in 1 .. seq - 1
        BY <1>2, <1>6, <3>2
      <4> QED
        BY <1>1, <1>4, <4>1
    <3> QED
      BY <3>1, <3>2
  <2> QED
    BY <2>1, <2>2, <2>3
<1>7. ASSUME \A k \in DOMAIN outbox' : Delivered(k)' => Delivered(k) PROVE sentP = sent
  <2>1. sentP \subseteq sent
    BY <1>7 DEF Delivered
  <2> QED
    BY <1>4, <2>1
<1>8. ASSUME NEW k \in DOMAIN outbox, k.type = "attention", Delivered(k)',
             \A l \in DOMAIN outbox' : Delivered(l)' => Delivered(l) \/ l = k,
             attention[k.case].sequence = k.sequence, attention'[k.case].sequence = k.sequence + 1,
             \A d \in Case \ {k.case} : attention'[d] = attention[d], ~Delivered(k)
      PROVE  Good
  <2>1. CASE k.case = c
    <3>1. k \in sentP
      BY <1>8, <2>1 DEF Delivered
    <3>2. sentP \subseteq sent \cup {k}
      BY <1>8 DEF Delivered
    <3>3. sentP = sent \cup {k} /\ k.sequence = seq /\ seqP = seq + 1
      BY <1>4, <1>8, <2>1, <3>1, <3>2
    <3> HIDE DEF sentP, sent, seq, seqP, Good
    <3> QED
      BY <1>6, <3>1, <3>3
  <2>2. CASE k.case # c
    <3>1. sentP = sent
      <4>1. sentP \subseteq sent
        BY <1>8, <2>2 DEF Delivered
      <4> QED
        BY <1>4, <4>1
    <3>2. seqP = seq
      BY <1>8, <2>2
    <3> HIDE DEF sentP, sent, seq, seqP, Good
    <3> QED
      BY <1>5, <3>1, <3>2
  <2> QED
    BY <2>1, <2>2
<1>9. ASSUME \A k \in DOMAIN outbox' : Delivered(k)' => Delivered(k),
             \/ \A d \in Case : attention'[d].sequence = attention[d].sequence
             \/ \E d \in Case : /\ attention[d].sequence = 0 /\ attention'[d].sequence = 1
                                /\ \A e \in Case \ {d} : attention'[e] = attention[e]
      PROVE  Good
  <2>1. sentP = sent
    BY <1>7, <1>9
  <2>2. seqP = seq \/ (seq = 0 /\ seqP = 1)
    <3>1. CASE \A d \in Case : attention'[d].sequence = attention[d].sequence
      BY <3>1
    <3>2. ASSUME NEW d \in Case, attention[d].sequence = 0, attention'[d].sequence = 1,
                 \A e \in Case \ {d} : attention'[e] = attention[e]
          PROVE  seqP = seq \/ (seq = 0 /\ seqP = 1)
      <4>1. CASE c = d
        BY <3>2, <4>1
      <4>2. CASE c # d
        BY <3>2, <4>2
      <4> QED
        BY <4>1, <4>2
    <3> QED
      BY <1>9, <3>1, <3>2
  <2> HIDE DEF sentP, sent, seq, seqP, Good
  <2> QED
    BY <1>5, <2>1, <2>2
<1> HIDE DEF Good
<1>10. Good
  BY <1>8, <1>9, RowsStep
<1> QED
  BY <1>10 DEF Good

(***************************************************************************)
(* The delivered attention intents of a case are one for each step of its  *)
(* ledger after the first.                                                 *)
(***************************************************************************)
THEOREM LedgerAgrees == Spec => []LedgerMatchesOutbox
<1>1. Init => LedgerMatchesOutbox
  BY InitLedger
<1>2. TypeOK /\ TypeOK' /\ RowsInv /\ LedgerMatchesOutbox /\ [Next]_vars => LedgerMatchesOutbox'
  BY NextLedger
<1> QED
  BY <1>1, <1>2, TypeCorrect, RowsInvariant, PTL DEF Spec
===============================================================================
