-------------------------- MODULE LoopHandoffProofs ---------------------------
(***************************************************************************)
(* Theorems of LoopHandoff: types, the safety of the protocol, the         *)
(* evidence of a verification and the life of a handoff.                   *)
(***************************************************************************)
EXTENDS LoopHandoff, TLAPS

-----------------------------------------------------------------------------
(***************************************************************************)
(* Every variable of LoopHandoff keeps its type, for any handoffs,         *)
(* objectives, workers, verifiers, requests and bounds.                    *)
(***************************************************************************)

\* The case status derived from a handoff is one of a case.
LEMMA CaseStatusType ==
    ASSUME NEW s \in HandoffStatus
    PROVE  CaseStatusForHandoff(s) \in CaseStatus
BY DEF CaseStatusForHandoff, CaseStatus, HandoffStatus, Stopped

\* What a result makes of an objective is an objective.
LEMMA AppliedType ==
    ASSUME NEW count \in Nat, NEW result \in ObjectiveStatus
    PROVE  Applied(count, result) \in [status : ObjectiveStatus, count : Nat]
<1>1. CASE result = "pass"
  <2>1. count + 1 \in Nat
    OBVIOUS
  <2>2. (IF count + 1 >= RequiredPasses THEN "pass" ELSE "pending") \in ObjectiveStatus
    BY DEF ObjectiveStatus
  <2> QED BY <1>1, <2>1, <2>2 DEF Applied
<1>2. CASE result # "pass"
  BY <1>2 DEF Applied
<1> QED BY <1>1, <1>2

\* Histories count up to RequiredPasses.
LEMMA CountedType ==
    ASSUME NEW n \in 0 .. RequiredPasses
    PROVE  Counted(n) \in 0 .. RequiredPasses
BY BoundAssumption DEF Counted

\* The case a handoff leaves behind is a case.
LEMMA CaseAfterType ==
    ASSUME CaseOK, NEW h \in Handoff, NEW s \in HandoffStatus
    PROVE  CaseAfter(h, s) \in CaseRow
<1> DEFINE survivor == handoff[CHOOSE g \in Survivors(h) : TRUE]
<1>1. ASSUME Survivors(h) # {} PROVE survivor \in HandoffStatus
  <2>1. (CHOOSE g \in Survivors(h) : TRUE) \in Survivors(h)
    BY <1>1
  <2> QED BY <2>1 DEF Survivors, Active, Requested, CaseOK
<1> DEFINE status == IF s \notin Terminal THEN CaseStatusForHandoff(s)
                     ELSE IF case.status = "resolved" THEN case.status
                     ELSE IF Survivors(h) = {} THEN "investigating"
                     ELSE CaseStatusForHandoff(survivor)
           of == IF s \in Terminal /\ Survivors(h) # {} THEN survivor ELSE s
<1> HIDE DEF survivor
<1>2. status \in CaseStatus
  BY <1>1, CaseStatusType DEF CaseStatus
<1>3. of \in HandoffStatus \cup {"none"}
  BY <1>1
<1>4. CaseAfter(h, s) = [case EXCEPT !.status = status, !.handoff = of, !.stamp = @ + 1]
  BY DEF CaseAfter, survivor
<1> HIDE DEF status, of
<1>5. /\ case.clean \in BOOLEAN
      /\ case.stamp + 1 \in Nat
  BY DEF CaseOK, CaseRow
<1>6. CaseAfter(h, s) = [status |-> status, handoff |-> of, clean |-> case.clean, stamp |-> case.stamp + 1]
  BY <1>4 DEF CaseOK, CaseRow
<1> QED BY <1>2, <1>3, <1>5, <1>6 DEF CaseRow

\* The end of a verifier run.
LEMMA EndRunType ==
    ASSUME VerifierOK, NEW v \in Verifier, EndRun(v)
    PROVE  VerifierOK'
BY DEF VerifierOK, EndRun, Idle

\* So does its moving on to the next handoff.
LEMMA NextHandoffType ==
    ASSUME VerifierOK, NEW v \in Verifier, NEW h \in Handoff, NextHandoff(v, h)
    PROVE  VerifierOK'
<1>1. CASE touched[v] = {h}
  BY <1>1, EndRunType DEF NextHandoff
<1>2. CASE touched[v] # {h}
  <2>1. /\ vpc' = [vpc EXCEPT ![v] = "verify"]
        /\ touched' = [touched EXCEPT ![v] = @ \ {h}]
        /\ vtarget' = [vtarget EXCEPT ![v] = {}]
        /\ UNCHANGED <<todo, vcount, vobjective, verdict>>
    BY <1>2 DEF NextHandoff
  <2> QED BY <2>1 DEF VerifierOK
<1> QED BY <1>1, <1>2

\* Or to its next step.
LEMMA ProceedType ==
    ASSUME VerifierOK, NEW v \in Verifier, NEW label \in {"mark", "resolve"}, Proceed(v, label)
    PROVE  VerifierOK'
BY DEF Proceed, VerifierOK

\* The type invariant is inductive.
LEMMA TypeStep ==
    ASSUME TypeOK, [Next]_vars
    PROVE  TypeOK'
<1> USE DEF TypeOK, caseVars, objVars, outVars, workerVars, verifierVars, RestOfDelivery, RestOfVerifier
<1>1. ASSUME UNCHANGED case, UNCHANGED handoff, UNCHANGED occurrence, UNCHANGED updated,
             UNCHANGED outcomes, UNCHANGED sighting, UNCHANGED cancel
      PROVE  CaseOK'
  BY <1>1 DEF CaseOK
<1>2. ASSUME UNCHANGED objective, UNCHANGED passes, UNCHANGED since, UNCHANGED console
      PROVE  ObjectivesOK'
  BY <1>2 DEF ObjectivesOK
<1>3. ASSUME UNCHANGED intent, UNCHANGED delivery, UNCHANGED issue,
             UNCHANGED wpc, UNCHANGED wtarget, UNCHANGED wresult
      PROVE  DeliveryOK'
  BY <1>3 DEF DeliveryOK
<1>4. ASSUME UNCHANGED vpc, UNCHANGED todo, UNCHANGED vcount, UNCHANGED vobjective,
             UNCHANGED verdict, UNCHANGED touched, UNCHANGED vtarget
      PROVE  VerifierOK'
  BY <1>4 DEF VerifierOK
<1>5. ASSUME UNCHANGED faults \/ Fault PROVE faults' \in Nat
  BY <1>5 DEF Fault
<1>6. ASSUME NEW status \in CaseStatus, NEW clean \in BOOLEAN, Observe(status, clean), sighting' \in Nat
      PROVE  TypeOK'
  <2>1. CaseOK'
    BY <1>6 DEF Observe, CaseOK, CaseRow
  <2>2. VerifierOK'
    BY <1>6 DEF Observe, VerifierOK
  <2>3. observations' \in Nat
    BY <1>6 DEF Observe
  <2> QED BY <1>2, <1>3, <1>5, <1>6, <2>1, <2>2, <2>3 DEF Observe
<1>7. CASE Monitor
  <2>1. CASE ObserveHotspot
    <3>1. (IF case.status = "resolved" THEN "investigating" ELSE case.status) \in CaseStatus
      BY DEF CaseOK, CaseRow, CaseStatus
    <3>2. sighting' \in Nat
      BY <2>1 DEF ObserveHotspot, CaseOK, CaseRow
    <3> QED BY <1>6, <2>1, <3>1, <3>2 DEF ObserveHotspot
  <2>2. CASE ObserveClean
    <3>1. PICK status \in {"resolved", case.status} : Observe(status, TRUE)
      BY <2>2 DEF ObserveClean
    <3>2. status \in CaseStatus
      BY DEF CaseOK, CaseRow, CaseStatus
    <3>3. sighting' \in Nat
      BY <2>2 DEF ObserveClean, CaseOK
    <3> QED BY <1>6, <3>1, <3>2, <3>3
  <2> QED BY <1>7, <2>1, <2>2 DEF Monitor
<1>8. ASSUME NEW h \in Handoff, HandoffStep(h) PROVE TypeOK'
  <2>1. ASSUME NEW s \in HandoffStatus, MoveHandoff(h, s)
        PROVE  /\ case' \in CaseRow
               /\ handoff' \in [Handoff -> HandoffStatus \cup {"none"}]
               /\ updated' \in [Handoff -> Nat]
    <3>1. case.stamp + 1 \in Nat
      BY DEF CaseOK, CaseRow
    <3> QED BY <2>1, <3>1, CaseAfterType DEF MoveHandoff, CaseOK
  <2>2. CASE RequestHandoff(h)
    <3>1. CASE Duplicate(h)
      <4>1. CaseOK'
        BY <2>2, <3>1 DEF RequestHandoff, CaseOK, NoSighting
      <4> QED BY <1>2, <1>3, <1>4, <1>5, <2>2, <3>1, <4>1 DEF RequestHandoff
    <3>2. CASE ~Duplicate(h)
      <4>1. case' \in CaseRow /\ case.stamp + 1 \in Nat
        <5>1. case.clean \in BOOLEAN /\ case.stamp + 1 \in Nat
          BY DEF CaseOK, CaseRow
        <5>2. case' = [status |-> "handoff_requested", handoff |-> "requested",
                       clean |-> case.clean, stamp |-> case.stamp + 1]
          BY <2>2, <3>2 DEF RequestHandoff, CaseOK, CaseRow
        <5> QED BY <5>1, <5>2 DEF CaseRow, CaseStatus, HandoffStatus
      <4>2. CaseOK'
        BY <2>2, <3>2, <4>1 DEF RequestHandoff, CaseOK, NoSighting, HandoffStatus
      <4>3. DeliveryOK'
        BY <2>2, <3>2 DEF RequestHandoff, DeliveryOK, IntentStatus
      <4> QED BY <1>2, <1>4, <1>5, <2>2, <4>2, <4>3 DEF RequestHandoff
    <3> QED BY <3>1, <3>2
  <2>3. ASSUME NEW s \in HandoffStatus, RecordUpdate(h, s) PROVE TypeOK'
    <3>1. CaseOK'
      BY <2>1, <2>3 DEF RecordUpdate, CaseOK
    <3> QED BY <1>2, <1>3, <1>4, <1>5, <2>3, <3>1 DEF RecordUpdate
  <2>4. CASE StartCancel(h)
    <3>1. CaseOK'
      BY <2>4 DEF StartCancel, CaseOK, DeliveryOK
    <3> QED BY <1>2, <1>3, <1>4, <1>5, <2>4, <3>1 DEF StartCancel
  <2>5. CASE CommitCancel(h)
    <3>1. cancel' \in [Handoff -> IntentStatus \cup {NotCancelling}]
      BY <2>5 DEF CommitCancel, CaseOK
    <3>2. ASSUME MoveHandoff(h, "cancelled") PROVE CaseOK'
      <4>1. "cancelled" \in HandoffStatus
        BY DEF HandoffStatus
      <4>2. /\ case' \in CaseRow
            /\ handoff' \in [Handoff -> HandoffStatus \cup {"none"}]
            /\ updated' \in [Handoff -> Nat]
        BY <2>1, <3>2, <4>1
      <4> QED BY <2>5, <3>1, <4>2 DEF CommitCancel, CaseOK
    <3>3. ASSUME UNCHANGED <<case, handoff, updated>> PROVE CaseOK'
      BY <2>5, <3>1, <3>3 DEF CommitCancel, CaseOK
    <3>4. CaseOK'
      BY <2>5, <3>2, <3>3 DEF CommitCancel
    <3>5. objective' \in [Objective -> [status : ObjectiveStatus, count : Nat]]
      <4>1. ASSUME NEW o \in Objective
            PROVE  [objective[o] EXCEPT !.status = "skipped"] \in [status : ObjectiveStatus, count : Nat]
        BY DEF ObjectivesOK, ObjectiveStatus
      <4> QED BY <2>5, <4>1 DEF CommitCancel, ObjectivesOK
    <3>6. ObjectivesOK'
      BY <2>5, <3>5 DEF CommitCancel, ObjectivesOK
    <3>7. DeliveryOK'
      BY <2>5 DEF CommitCancel, DeliveryOK, IntentStatus
    <3> QED BY <1>4, <1>5, <2>5, <3>4, <3>6, <3>7 DEF CommitCancel
  <2>6. CASE AbortCancel(h)
    <3>1. CaseOK'
      BY <2>6 DEF AbortCancel, CaseOK
    <3> QED BY <1>2, <1>3, <1>4, <1>5, <2>6, <3>1 DEF AbortCancel
  <2> QED BY <1>8, <2>2, <2>3, <2>4, <2>5, <2>6 DEF HandoffStep
<1>9. ASSUME NEW w \in Worker, NEW h \in Handoff, DeliveryStep(w, h) PROVE TypeOK'
  <2>1. UNCHANGED RestOfDelivery /\ (UNCHANGED faults \/ Fault)
    BY <1>9 DEF DeliveryStep, ClaimDelivery, Deliver, EnterGuard, ReadHandoff, RecordDelivery,
                RecheckHandoff, OpenIssue, FailDelivery, CrashDelivery, SettleDelivery
  <2> SUFFICES DeliveryOK'
    BY <1>1, <1>2, <1>4, <1>5, <2>1
  <2> USE DEF DeliveryOK
  <2>2. CASE ClaimDelivery(w, h)
    BY <2>2 DEF ClaimDelivery, IntentStatus
  <2>3. CASE EnterGuard(w, h)
    BY <2>3 DEF EnterGuard, Step, Guarded
  <2>4. CASE ReadHandoff(w, h)
    BY <2>4 DEF ReadHandoff, Step, LeaveGuard, Guarded
  <2>5. CASE RecordDelivery(w, h)
    BY <2>5 DEF RecordDelivery, Step, LeaveGuard, Guarded
  <2>6. CASE RecheckHandoff(w, h)
    BY <2>6 DEF RecheckHandoff, Step, LeaveGuard, Guarded
  <2>7. CASE OpenIssue(w, h)
    BY <2>7 DEF OpenIssue, LeaveGuard
  <2>8. CASE FailDelivery(w, h)
    BY <2>8 DEF FailDelivery, LeaveGuard, MayHaveOpened
  <2>9. CASE CrashDelivery(w, h)
    BY <2>9 DEF CrashDelivery, MayHaveOpened
  <2>10. CASE SettleDelivery(w, h)
    <3>1. wresult[w] \in IntentStatus
      BY DEF IntentStatus
    <3> QED BY <2>10, <3>1 DEF SettleDelivery
  <2> QED BY <1>9, <2>2, <2>3, <2>4, <2>5, <2>6, <2>7, <2>8, <2>9, <2>10
          DEF DeliveryStep, Deliver
<1>10. ASSUME NEW o \in Objective, NEW count \in Nat, NEW result \in ObjectiveStatus,
              WriteObjective(o, count, result)
       PROVE  /\ objective' \in [Objective -> [status : ObjectiveStatus, count : Nat]]
              /\ passes' \in [Objective -> 0 .. RequiredPasses]
              /\ since' \in [Objective -> 0 .. RequiredPasses]
  <2>1. 0 \in 0 .. RequiredPasses
    BY BoundAssumption
  <2> QED BY <1>10, <2>1, AppliedType, CountedType DEF WriteObjective, ObjectivesOK
<1>11. ASSUME NEW r \in Request, NEW o \in Objective, ConsoleStep(r, o) PROVE TypeOK'
  <2>1. ASSUME NEW result \in ObjectiveStatus, ReadForConsole(r, o, result) PROVE TypeOK'
    <3> DEFINE read == [pc |-> "read", objective |-> {o}, count |-> objective[o].count, verdict |-> result]
    <3>1. read \in ConsoleResult /\ read.verdict \in ObjectiveStatus
      BY DEF ConsoleResult, ObjectivesOK
    <3>2. console' = [console EXCEPT ![r] = read]
      BY <2>1 DEF ReadForConsole
    <3> HIDE DEF read
    <3>3. ObjectivesOK'
      BY <2>1, <3>1, <3>2 DEF ReadForConsole, ObjectivesOK
    <3> QED BY <1>1, <1>3, <1>4, <1>5, <2>1, <3>3 DEF ReadForConsole
  <2>2. CASE WriteFromConsole(r, o)
    <3>1. console[r].count \in Nat /\ console[r].verdict \in ObjectiveStatus
      BY <2>2 DEF WriteFromConsole, ObjectivesOK, ConsoleResult
    <3>2. console' = [console EXCEPT ![r] = RequestAt("recorded")]
      BY <2>2 DEF WriteFromConsole
    <3>3. /\ console' \in [Request -> ConsoleResult]
          /\ \A q \in Request : console'[q].pc = "read" => console'[q].verdict \in ObjectiveStatus
      BY <3>2 DEF RequestAt, ConsoleResult, ObjectivesOK
    <3>4. ObjectivesOK'
      BY <1>10, <2>2, <3>1, <3>3 DEF WriteFromConsole, ObjectivesOK
    <3> QED BY <1>1, <1>3, <1>4, <1>5, <2>2, <3>4 DEF WriteFromConsole
  <2>3. CASE LoseConsole(r, o)
    <3>1. console' = [console EXCEPT ![r] = RequestAt("new")]
      BY <2>3 DEF LoseConsole
    <3>2. ObjectivesOK'
      BY <2>3, <3>1 DEF LoseConsole, RequestAt, ConsoleResult, ObjectivesOK
    <3> QED BY <1>1, <1>3, <1>4, <1>5, <2>3, <3>2 DEF LoseConsole
  <2>4. Answer \subseteq ObjectiveStatus
    BY AnswerAssumption DEF ObjectiveStatus
  <2> QED BY <1>11, <2>1, <2>2, <2>3, <2>4 DEF ConsoleStep
<1>12. ASSUME NEW v \in Verifier, Verify(v) \/ AbortRun(v) PROVE TypeOK'
  <2>1. CASE ListDue(v)
    <3>1. [o \in Objective |-> IF Due(o) THEN objective[o].count ELSE 0] \in [Objective -> Nat]
      BY DEF ObjectivesOK
    <3>2. case.clean \in BOOLEAN
      BY DEF CaseOK, CaseRow
    <3>3. VerifierOK'
      BY <2>1, <3>1, <3>2 DEF ListDue, VerifierOK
    <3> QED BY <1>1, <1>2, <1>3, <1>5, <2>1, <3>3 DEF ListDue
  <2>2. ASSUME NEW o \in Objective, CheckObjective(v, o) PROVE TypeOK'
    <3>1. VerifierOK'
      BY <2>2 DEF CheckObjective, VerifierOK, ObjectiveStatus
    <3> QED BY <1>1, <1>2, <1>3, <1>5, <2>2, <3>1 DEF CheckObjective
  <2>3. ASSUME NEW o \in Objective, WriteResult(v, o) PROVE TypeOK'
    <3>1. vcount[v][o] \in Nat /\ verdict[v] \in ObjectiveStatus
      BY <2>3 DEF WriteResult, VerifierOK
    <3>2. ObjectivesOK'
      BY <1>10, <2>3, <3>1 DEF WriteResult, ObjectivesOK
    <3>3. HandoffOf[o] \in Handoff
      BY ObjectiveAssumption
    <3>4. VerifierOK'
      BY <2>3, <3>3 DEF WriteResult, VerifierOK
    <3> QED BY <1>1, <1>3, <1>5, <2>3, <3>2, <3>4 DEF WriteResult
  <2>4. ASSUME NEW h \in Handoff, ReadTouched(v, h) PROVE TypeOK'
    <3>1. VerifierOK'
      <4>1. CASE NextHandoff(v, h)
        BY <4>1, NextHandoffType
      <4>2. CASE ~NextHandoff(v, h)
        <5>1. /\ vpc' = [vpc EXCEPT ![v] = "objectives"]
              /\ vtarget' = [vtarget EXCEPT ![v] = {h}]
              /\ UNCHANGED <<todo, vcount, vobjective, verdict, touched>>
          BY <2>4, <4>2 DEF ReadTouched
        <5> QED BY <5>1 DEF VerifierOK
      <4> QED BY <4>1, <4>2
    <3> QED BY <1>1, <1>2, <1>3, <1>5, <2>4, <3>1 DEF ReadTouched
  <2>5. ASSUME NEW h \in Handoff, ReadObjectives(v, h) PROVE TypeOK'
    <3>1. VerifierOK'
      BY <2>5, NextHandoffType, ProceedType DEF ReadObjectives
    <3> QED BY <1>1, <1>2, <1>3, <1>5, <2>5, <3>1 DEF ReadObjectives
  <2>6. ASSUME NEW h \in Handoff, MarkVerified(v, h) PROVE TypeOK'
    <3>1. VerifierOK'
      BY <2>6, NextHandoffType, ProceedType, EndRunType DEF MarkVerified
    <3>2. CASE AllowedTransition(handoff[h], "verified")
      <4>1. case' \in CaseRow /\ case.stamp + 1 \in Nat
        <5>1. case.clean \in BOOLEAN /\ case.stamp + 1 \in Nat
          BY DEF CaseOK, CaseRow
        <5>2. case' = [status |-> "verification_pending", handoff |-> "verified",
                       clean |-> case.clean, stamp |-> case.stamp + 1]
          BY <2>6, <3>2 DEF MarkVerified, CaseOK, CaseRow
        <5> QED BY <5>1, <5>2 DEF CaseRow, CaseStatus, HandoffStatus
      <4>2. CaseOK'
        BY <2>6, <3>2, <4>1 DEF MarkVerified, CaseOK, HandoffStatus
      <4> QED BY <1>2, <1>3, <1>5, <2>6, <3>1, <4>2 DEF MarkVerified
    <3>3. CASE ~AllowedTransition(handoff[h], "verified")
      BY <1>1, <1>2, <1>3, <1>5, <2>6, <3>1, <3>3 DEF MarkVerified
    <3> QED BY <3>2, <3>3
  <2>7. ASSUME NEW h \in Handoff, ResolveCase(v, h) PROVE TypeOK'
    <3>1. VerifierOK'
      BY <2>7, NextHandoffType, EndRunType DEF ResolveCase
    <3>2. CASE AllowedTransition(handoff[h], "resolved")
      <4>1. case' \in CaseRow
        <5>1. /\ case.handoff \in HandoffStatus \cup {"none"}
              /\ case.clean \in BOOLEAN
              /\ case.stamp \in Nat
          BY DEF CaseOK, CaseRow
        <5>2. case' = [status |-> "resolved", handoff |-> case.handoff,
                       clean |-> case.clean, stamp |-> case.stamp]
          BY <2>7, <3>2 DEF ResolveCase, CaseOK, CaseRow
        <5> QED BY <5>1, <5>2 DEF CaseRow, CaseStatus
      <4>2. CaseOK'
        BY <2>7, <3>2, <4>1 DEF ResolveCase, CaseOK, HandoffStatus
      <4> QED BY <1>2, <1>3, <1>5, <2>7, <3>1, <4>2 DEF ResolveCase
    <3>3. CASE ~AllowedTransition(handoff[h], "resolved")
      BY <1>1, <1>2, <1>3, <1>5, <2>7, <3>1, <3>3 DEF ResolveCase
    <3> QED BY <3>2, <3>3
  <2>8. CASE AbortRun(v)
    BY <1>1, <1>2, <1>3, <1>5, <2>8, EndRunType DEF AbortRun
  <2> QED BY <1>12, <2>1, <2>2, <2>3, <2>4, <2>5, <2>6, <2>7, <2>8 DEF Verify
<1>13. CASE UNCHANGED vars
  BY <1>1, <1>2, <1>3, <1>4, <1>13 DEF vars
<1> QED BY <1>7, <1>8, <1>9, <1>11, <1>12, <1>13 DEF Next

(***************************************************************************)
(* Every variable keeps its type: whatever callbacks, cancellations,       *)
(* results and faults do, the case has a status of its own and no unknown  *)
(* result reaches an objective.                                            *)
(***************************************************************************)
THEOREM HandoffTypeCorrect == Spec => []TypeOK
<1>1. Init => TypeOK
  <2> SUFFICES ASSUME Init PROVE TypeOK
    OBVIOUS
  <2>1. CaseOK
    BY DEF Init, CaseOK, CaseRow, CaseStatus, NoSighting, NotCancelling
  <2>2. ObjectivesOK
    BY BoundAssumption DEF Init, RequestAt, ObjectivesOK, ObjectiveStatus, ConsoleResult
  <2>3. DeliveryOK
    BY DEF Init, DeliveryOK, IntentStatus, Idle
  <2>4. VerifierOK
    BY DEF Init, VerifierOK, Idle
  <2> QED BY <2>1, <2>2, <2>3, <2>4 DEF Init, TypeOK
<1> QED BY <1>1, TypeStep, PTL DEF Spec

-----------------------------------------------------------------------------
(***************************************************************************)
(* The loop handoff protocol is safe for any number of handoffs,           *)
(* objectives, workers, verifiers and console requests: issues are opened  *)
(* for active handoffs, active handoffs of one objective key are unique,   *)
(* verification rests on recorded evidence, and the life of every handoff  *)
(* is that of HandoffLifecycle.                                            *)
(***************************************************************************)

-----------------------------------------------------------------------------
(***************************************************************************)
(* The transition table.                                                   *)
(***************************************************************************)

\* "none" is not a status of a requested handoff.
LEMMA NoneIsNoStatus == "none" \notin HandoffStatus
BY DEF HandoffStatus

\* What is over stays over.
LEMMA TerminalStays ==
    ASSUME NEW s \in Terminal, NEW t, AllowedTransition(s, t)
    PROVE  t = s
BY DEF Terminal, AllowedTransition, Transitions, HandoffStatus, Stopped

\* Only an implemented handoff can be verified.
LEMMA VerifiedFrom ==
    ASSUME NEW s \in HandoffStatus, AllowedTransition(s, "verified")
    PROVE  s \in {"implemented", "verified"}
BY DEF AllowedTransition, Transitions, HandoffStatus, Stopped

\* Only a verified handoff can be resolved.
LEMMA ResolvedFrom ==
    ASSUME NEW s \in HandoffStatus, AllowedTransition(s, "resolved")
    PROVE  s \in {"verified", "resolved"}
BY DEF AllowedTransition, Transitions, HandoffStatus, Stopped

\* The moves that updates and cancellations can make, by phase.
LEMMA UpdatePhases ==
    ASSUME NEW s \in HandoffStatus, NEW t \in HandoffStatus \ VerifierOnly, AllowedTransition(s, t)
    PROVE  \/ Phase(t) = Phase(s)
           \/ Phase(s) = "open" /\ Phase(t) = "implemented"
           \/ Phase(s) \in {"implemented", "verified"} /\ Phase(t) = "open"
           \/ Phase(s) \in {"open", "implemented"} /\ Phase(t) = "off"
<1> USE DEF Stopped
<1>1. CASE s = t
  BY <1>1
<1>2. CASE s \in {"requested", "accepted", "in_progress", "change_planned", "blocked", "failed", "needs_human"}
  <2>1. Phase(s) = "open"
    BY <1>2 DEF Phase
  <2>2. Phase(t) \in {"open", "implemented", "off"}
    BY DEF Phase, HandoffStatus, VerifierOnly
  <2> QED BY <2>1, <2>2
<1>3. CASE s = "implemented" /\ s # t
  <2>1. t \in {"failed", "needs_human", "cancelled", "expired"}
    BY <1>3 DEF AllowedTransition, Transitions, HandoffStatus, VerifierOnly
  <2> QED BY <1>3, <2>1 DEF Phase
<1>4. CASE s = "verified" /\ s # t
  <2>1. t \in {"failed", "needs_human"}
    BY <1>4 DEF AllowedTransition, Transitions, HandoffStatus, VerifierOnly
  <2> QED BY <1>4, <2>1 DEF Phase
<1>5. CASE s \in Terminal
  BY <1>5, TerminalStays
<1> QED BY <1>1, <1>2, <1>3, <1>4, <1>5 DEF HandoffStatus, Terminal

-----------------------------------------------------------------------------
(***************************************************************************)
(* Inductive invariants.  Whoever works on a handoff works on one that was *)
(* requested; while a cancellation holds its locks the handoff it is about *)
(* to cancel may still be cancelled, and no delivery is past its record.   *)
(***************************************************************************)
KnownInv ==
    /\ \A h \in Handoff : intent[h] # "none" => Requested(h)
    /\ \A w \in Worker, h \in Handoff : wtarget[w] = {h} => Requested(h)
    /\ \A v \in Verifier, o \in Objective :
          o \in todo[v] \/ vobjective[v] = {o} => Requested(HandoffOf[o])
    /\ \A v \in Verifier, h \in Handoff : h \in touched[v] \/ vtarget[v] = {h} => Requested(h)

LockInv ==
    \A h \in Handoff : cancel[h] # NotCancelling =>
        /\ Requested(h)
        /\ AllowedTransition(handoff[h], "cancelled")
        /\ \A w \in Worker : wpc[w] \notin Recorded

\* A step that moves handoff h to status s as the protocol allows.
Moves(h, s) ==
    /\ Requested(h)
    /\ AllowedTransition(handoff[h], s)
    /\ handoff' = [handoff EXCEPT ![h] = s]

\* Nobody is between recording a delivery and opening its issue.
NoDeliveryRecorded == \A w \in Worker : wpc[w] \notin Recorded

(***************************************************************************)
(* Handoffs are changed by requests, updates, cancellations and the        *)
(* verifier, and never under a delivery past its record.                   *)
(***************************************************************************)
LEMMA HandoffMoves ==
    ASSUME TypeOK, KnownInv, LockInv, [Next]_vars
    PROVE  \/ UNCHANGED handoff
           \/ /\ NoDeliveryRecorded
              /\ UNCHANGED <<passes, wpc, wtarget>>
              /\ \/ \E h \in Handoff : /\ ~Requested(h) /\ ~Duplicate(h)
                                       /\ handoff' = [handoff EXCEPT ![h] = "requested"]
                 \/ \E h \in Handoff, s \in HandoffStatus \ VerifierOnly : Moves(h, s)
                 \/ \E v \in Verifier, h \in Handoff :
                       \/ VerifierAt(v, h, "mark") /\ Moves(h, "verified")
                       \/ VerifierAt(v, h, "resolve") /\ Moves(h, "resolved")
<1> USE DEF caseVars, objVars, outVars, workerVars, verifierVars, RestOfDelivery, RestOfVerifier
<1>0. CaseFree => NoDeliveryRecorded
  BY DEF CaseFree, NoDeliveryRecorded
<1>1. CASE Monitor
  BY <1>1 DEF Monitor, ObserveHotspot, ObserveClean, Observe
<1>2. ASSUME NEW h \in Handoff, RequestHandoff(h)
      PROVE  \/ UNCHANGED handoff
             \/ /\ NoDeliveryRecorded /\ UNCHANGED <<passes, wpc, wtarget>>
                /\ ~Requested(h) /\ ~Duplicate(h) /\ handoff' = [handoff EXCEPT ![h] = "requested"]
  BY <1>0, <1>2 DEF RequestHandoff
<1>3. ASSUME NEW h \in Handoff, NEW s \in HandoffStatus, RecordUpdate(h, s)
      PROVE  NoDeliveryRecorded /\ UNCHANGED <<passes, wpc, wtarget>> /\ s \notin VerifierOnly /\ Moves(h, s)
  BY <1>0, <1>3 DEF RecordUpdate, MoveHandoff, Moves
<1>4. ASSUME NEW h \in Handoff, CommitCancel(h)
      PROVE  \/ UNCHANGED handoff
             \/ NoDeliveryRecorded /\ UNCHANGED <<passes, wpc, wtarget>> /\ Moves(h, "cancelled")
  BY <1>4 DEF CommitCancel, LockInv, MoveHandoff, Moves, NoDeliveryRecorded
<1>5. "cancelled" \in HandoffStatus \ VerifierOnly
  BY DEF HandoffStatus, VerifierOnly
<1>6. ASSUME NEW h \in Handoff, StartCancel(h) \/ AbortCancel(h) PROVE UNCHANGED handoff
  BY <1>6 DEF StartCancel, AbortCancel
<1>7. ASSUME NEW h \in Handoff, NEW w \in Worker, DeliveryStep(w, h) PROVE UNCHANGED handoff
  BY <1>7 DEF DeliveryStep, ClaimDelivery, Deliver, EnterGuard, ReadHandoff, RecordDelivery,
              RecheckHandoff, OpenIssue, FailDelivery, CrashDelivery, SettleDelivery
<1>8. ASSUME NEW r \in Request, NEW o \in Objective, ConsoleStep(r, o) PROVE UNCHANGED handoff
  BY <1>8 DEF ConsoleStep, ReadForConsole, WriteFromConsole, LoseConsole
<1>9. ASSUME NEW v \in Verifier, NEW h \in Handoff, MarkVerified(v, h)
      PROVE  \/ UNCHANGED handoff
             \/ /\ NoDeliveryRecorded /\ UNCHANGED <<passes, wpc, wtarget>>
                /\ VerifierAt(v, h, "mark") /\ Moves(h, "verified")
  BY <1>0, <1>9 DEF MarkVerified, Moves, KnownInv, VerifierAt
<1>10. ASSUME NEW v \in Verifier, NEW h \in Handoff, ResolveCase(v, h)
       PROVE  \/ UNCHANGED handoff
              \/ /\ NoDeliveryRecorded /\ UNCHANGED <<passes, wpc, wtarget>>
                 /\ VerifierAt(v, h, "resolve") /\ Moves(h, "resolved")
  BY <1>0, <1>10 DEF ResolveCase, Moves, KnownInv, VerifierAt
<1>11. ASSUME NEW v \in Verifier, Verify(v) \/ AbortRun(v),
              \A h \in Handoff : ~MarkVerified(v, h) /\ ~ResolveCase(v, h)
       PROVE  UNCHANGED handoff
  BY <1>11 DEF Verify, ListDue, CheckObjective, WriteResult, ReadTouched, ReadObjectives, AbortRun
<1>12. CASE UNCHANGED vars
  BY <1>12 DEF vars
<1>13. CASE \E h \in Handoff : HandoffStep(h)
  <2>1. PICK h \in Handoff : HandoffStep(h)
    BY <1>13
  <2>2. CASE RequestHandoff(h)
    BY <1>2, <2>2
  <2>3. CASE \E s \in HandoffStatus : RecordUpdate(h, s)
    BY <1>3, <2>3
  <2>4. CASE StartCancel(h) \/ AbortCancel(h)
    BY <1>6, <2>4
  <2>5. CASE CommitCancel(h)
    BY <1>4, <1>5, <2>5
  <2> QED BY <2>1, <2>2, <2>3, <2>4, <2>5 DEF HandoffStep
<1>14. CASE \E v \in Verifier : Verify(v) \/ AbortRun(v)
  BY <1>9, <1>10, <1>11, <1>14
<1> QED BY <1>1, <1>7, <1>8, <1>12, <1>13, <1>14 DEF Next

\* A requested handoff is never forgotten.
LEMMA RequestedStays ==
    ASSUME TypeOK, KnownInv, LockInv, [Next]_vars, NEW h \in Handoff, Requested(h)
    PROVE  Requested(h)'
<1>1. ASSUME NEW g \in Handoff, NEW s \in HandoffStatus, handoff' = [handoff EXCEPT ![g] = s]
      PROVE  Requested(h)'
  BY <1>1, NoneIsNoStatus DEF Requested, TypeOK, CaseOK
<1>2. "requested" \in HandoffStatus /\ "verified" \in HandoffStatus /\ "resolved" \in HandoffStatus
  BY DEF HandoffStatus
<1>3. UNCHANGED handoff => Requested(h)'
  BY DEF Requested
<1> QED BY <1>1, <1>2, <1>3, HandoffMoves DEF Moves
\* A verifier that ends its run, or goes on with the next handoff, keeps to what it had.
LEMMA VerifierShrinks ==
    ASSUME TypeOK, NEW v \in Verifier, NEW h \in Handoff, EndRun(v) \/ NextHandoff(v, h)
    PROVE  /\ \A u \in Verifier : todo'[u] \subseteq todo[u] /\ touched'[u] \subseteq touched[u]
           /\ \A u \in Verifier : vobjective'[u] \in {vobjective[u], {}} /\ vtarget'[u] \in {vtarget[u], {}}
           /\ \A u \in Verifier : vcount'[u] = vcount[u] \/ vcount'[u] = [o \in Objective |-> 0]
           /\ \A u \in Verifier : vpc'[u] \in {vpc[u], Idle, "verify"}
           /\ vpc'[v] \in {Idle, "verify"}
<1>1. CASE EndRun(v)
  BY <1>1 DEF EndRun, TypeOK, VerifierOK
<1>2. CASE ~EndRun(v)
  <2>1. /\ vpc' = [vpc EXCEPT ![v] = "verify"]
        /\ touched' = [touched EXCEPT ![v] = @ \ {h}]
        /\ vtarget' = [vtarget EXCEPT ![v] = {}]
        /\ UNCHANGED <<todo, vcount, vobjective, verdict>>
    BY <1>2 DEF NextHandoff
  <2> QED BY <2>1 DEF TypeOK, VerifierOK
<1> QED BY <1>1, <1>2

\* Whoever works on a handoff goes on working on a requested one.
LEMMA KnownStep ==
    ASSUME TypeOK, KnownInv, LockInv, [Next]_vars
    PROVE  KnownInv'
<1> USE DEF caseVars, objVars, outVars, workerVars, verifierVars, RestOfDelivery, RestOfVerifier
<1> DEFINE IntentKnown == \A h \in Handoff : intent[h] # "none" => Requested(h)
           WorkerKnown == \A w \in Worker, h \in Handoff : wtarget[w] = {h} => Requested(h)
           DueKnown == \A v \in Verifier, o \in Objective :
                          o \in todo[v] \/ vobjective[v] = {o} => Requested(HandoffOf[o])
           TouchedKnown == \A v \in Verifier, h \in Handoff : h \in touched[v] \/ vtarget[v] = {h} => Requested(h)
<1>1. \A h \in Handoff : Requested(h) => Requested(h)'
  BY RequestedStays
<1>2. \A o \in Objective : HandoffOf[o] \in Handoff
  BY ObjectiveAssumption
<1>3. ASSUME UNCHANGED intent PROVE IntentKnown'
  BY <1>1, <1>3 DEF KnownInv
<1>4. ASSUME UNCHANGED wtarget PROVE WorkerKnown'
  BY <1>1, <1>4 DEF KnownInv
<1>5. ASSUME \A v \in Verifier : todo'[v] \subseteq todo[v] /\ vobjective'[v] \in {vobjective[v], {}}
      PROVE  DueKnown'
  BY <1>1, <1>2, <1>5 DEF KnownInv
<1>6. ASSUME \A v \in Verifier : touched'[v] \subseteq touched[v] /\ vtarget'[v] \in {vtarget[v], {}}
      PROVE  TouchedKnown'
  BY <1>1, <1>6 DEF KnownInv
<1>7. ASSUME UNCHANGED <<todo, vobjective, touched, vtarget>> PROVE DueKnown' /\ TouchedKnown'
  BY <1>5, <1>6, <1>7
<1>8. IntentKnown' /\ WorkerKnown' /\ DueKnown' /\ TouchedKnown' => KnownInv'
  BY DEF KnownInv, Requested
<1> HIDE DEF IntentKnown, WorkerKnown, DueKnown, TouchedKnown
<1>9. CASE Monitor
  BY <1>3, <1>4, <1>7, <1>8, <1>9 DEF Monitor, ObserveHotspot, ObserveClean, Observe
<1>10. ASSUME NEW h \in Handoff, HandoffStep(h) PROVE KnownInv'
  <2>1. UNCHANGED <<wtarget, todo, vobjective, touched, vtarget>>
    BY <1>10 DEF HandoffStep, RequestHandoff, RecordUpdate, StartCancel, CommitCancel, AbortCancel
  <2>2. IntentKnown'
    <3>1. CASE RequestHandoff(h)
      BY <1>1, <3>1 DEF RequestHandoff, IntentKnown, KnownInv, Requested, TypeOK, CaseOK, DeliveryOK
    <3>2. CASE CommitCancel(h)
      BY <1>1, <3>2 DEF CommitCancel, IntentKnown, KnownInv, TypeOK, DeliveryOK
    <3> QED BY <1>3, <1>10, <3>1, <3>2 DEF HandoffStep, RecordUpdate, StartCancel, AbortCancel
  <2> QED BY <1>4, <1>7, <1>8, <2>1, <2>2
<1>11. ASSUME NEW w \in Worker, NEW h \in Handoff, DeliveryStep(w, h) PROVE KnownInv'
  <2>1. UNCHANGED <<todo, vobjective, touched, vtarget>>
    BY <1>11 DEF DeliveryStep, ClaimDelivery, Deliver, EnterGuard, ReadHandoff, RecordDelivery,
                 RecheckHandoff, OpenIssue, FailDelivery, CrashDelivery, SettleDelivery
  <2>2. CASE ClaimDelivery(w, h)
    <3>1. Requested(h)'
      BY <1>1, <2>2 DEF ClaimDelivery, KnownInv
    <3>2. IntentKnown'
      BY <1>1, <2>2, <3>1 DEF ClaimDelivery, IntentKnown, KnownInv, TypeOK, DeliveryOK
    <3>3. WorkerKnown'
      BY <1>1, <2>2, <3>1 DEF ClaimDelivery, WorkerKnown, KnownInv, TypeOK, DeliveryOK
    <3> QED BY <1>7, <1>8, <2>1, <3>2, <3>3
  <2>3. CASE CrashDelivery(w, h) \/ SettleDelivery(w, h)
    <3>1. wtarget' = [wtarget EXCEPT ![w] = {}]
      BY <2>3 DEF CrashDelivery, SettleDelivery
    <3>2. WorkerKnown'
      BY <1>1, <3>1 DEF WorkerKnown, KnownInv, TypeOK, DeliveryOK
    <3>3. \A g \in Handoff : intent'[g] # "none" => intent[g] # "none"
      BY <2>3 DEF CrashDelivery, SettleDelivery, TypeOK, DeliveryOK
    <3>4. IntentKnown'
      BY <1>1, <3>3 DEF IntentKnown, KnownInv
    <3> QED BY <1>7, <1>8, <2>1, <3>2, <3>4
  <2>4. CASE EnterGuard(w, h) \/ ReadHandoff(w, h) \/ RecordDelivery(w, h) \/ RecheckHandoff(w, h)
             \/ OpenIssue(w, h) \/ FailDelivery(w, h)
    BY <1>3, <1>4, <1>7, <1>8, <2>1, <2>4
       DEF EnterGuard, ReadHandoff, RecordDelivery, RecheckHandoff, OpenIssue, FailDelivery, Step, LeaveGuard
  <2> QED BY <1>11, <2>2, <2>3, <2>4 DEF DeliveryStep, Deliver
<1>12. ASSUME NEW r \in Request, NEW o \in Objective, ConsoleStep(r, o) PROVE KnownInv'
  BY <1>3, <1>4, <1>7, <1>8, <1>12 DEF ConsoleStep, ReadForConsole, WriteFromConsole, LoseConsole
<1>13. ASSUME NEW v \in Verifier, Verify(v) \/ AbortRun(v) PROVE KnownInv'
  <2>1. UNCHANGED <<intent, wtarget>>
    BY <1>13 DEF Verify, ListDue, CheckObjective, WriteResult, ReadTouched, ReadObjectives, MarkVerified,
                 ResolveCase, AbortRun
  <2> SUFFICES DueKnown' /\ TouchedKnown'
    BY <1>3, <1>4, <1>8, <2>1
  <2>2. ASSUME NEW h \in Handoff, EndRun(v) \/ NextHandoff(v, h) PROVE DueKnown' /\ TouchedKnown'
    BY <1>5, <1>6, <2>2, VerifierShrinks
  <2>3. ASSUME NEW label, Proceed(v, label) PROVE DueKnown' /\ TouchedKnown'
    BY <1>7, <2>3 DEF Proceed
  <2>4. CASE ListDue(v)
    <3>1. \A o \in Objective : Due(o) => Requested(HandoffOf[o])'
      BY <1>1, <1>2 DEF Due, Active
    <3>2. DueKnown'
      BY <1>1, <1>2, <2>4, <3>1 DEF ListDue, DueKnown, KnownInv, TypeOK, VerifierOK
    <3> QED BY <1>6, <2>4, <3>2 DEF ListDue
  <2>5. ASSUME NEW o \in Objective, CheckObjective(v, o) PROVE DueKnown' /\ TouchedKnown'
    <3>1. DueKnown'
      BY <1>1, <1>2, <2>5 DEF CheckObjective, DueKnown, KnownInv, TypeOK, VerifierOK
    <3> QED BY <1>6, <2>5, <3>1 DEF CheckObjective
  <2>6. ASSUME NEW o \in Objective, WriteResult(v, o) PROVE DueKnown' /\ TouchedKnown'
    <3>1. DueKnown'
      BY <1>5, <2>6 DEF WriteResult, TypeOK, VerifierOK
    <3>2. Requested(HandoffOf[o])'
      BY <1>1, <1>2, <2>6 DEF WriteResult, KnownInv
    <3>3. TouchedKnown'
      BY <1>1, <1>2, <2>6, <3>2 DEF WriteResult, TouchedKnown, KnownInv, TypeOK, VerifierOK
    <3> QED BY <3>1, <3>3
  <2>7. ASSUME NEW h \in Handoff, ReadTouched(v, h) PROVE DueKnown' /\ TouchedKnown'
    <3>1. CASE ~NextHandoff(v, h)
      <4>1. /\ h \in touched[v]
            /\ vtarget' = [vtarget EXCEPT ![v] = {h}]
            /\ UNCHANGED <<todo, vobjective, touched>>
        BY <2>7, <3>1 DEF ReadTouched
      <4>2. TouchedKnown'
        BY <1>1, <4>1 DEF TouchedKnown, KnownInv, TypeOK, VerifierOK
      <4> QED BY <1>5, <4>1, <4>2
    <3> QED BY <2>2, <3>1
  <2>8. ASSUME NEW h \in Handoff, ReadObjectives(v, h) \/ MarkVerified(v, h) \/ ResolveCase(v, h)
        PROVE  DueKnown' /\ TouchedKnown'
    BY <2>2, <2>3, <2>8 DEF ReadObjectives, MarkVerified, ResolveCase
  <2>9. CASE AbortRun(v)
    <3>1. EndRun(v)
      BY <2>9 DEF AbortRun
    <3>2. /\ \A u \in Verifier : todo'[u] \subseteq todo[u] /\ touched'[u] \subseteq touched[u]
          /\ \A u \in Verifier : vobjective'[u] \in {vobjective[u], {}} /\ vtarget'[u] \in {vtarget[u], {}}
      BY <3>1 DEF EndRun, TypeOK, VerifierOK
    <3> QED BY <1>5, <1>6, <3>2
  <2> QED BY <1>13, <2>4, <2>5, <2>6, <2>7, <2>8, <2>9 DEF Verify
<1>14. CASE UNCHANGED vars
  BY <1>3, <1>4, <1>7, <1>8, <1>14 DEF vars
<1> QED BY <1>9, <1>10, <1>11, <1>12, <1>13, <1>14 DEF Next

\* A cancellation keeps what it has locked, and no delivery gets past its record meanwhile.
LEMMA LockStep ==
    ASSUME TypeOK, KnownInv, LockInv, [Next]_vars
    PROVE  LockInv'
<1> USE DEF caseVars, objVars, outVars, workerVars, verifierVars, RestOfDelivery, RestOfVerifier
<1>1. ASSUME UNCHANGED cancel, CaseFree PROVE LockInv'
  BY <1>1 DEF LockInv, CaseFree, CaseShared
<1>2. ASSUME UNCHANGED <<cancel, handoff, wpc>> PROVE LockInv'
  BY <1>2 DEF LockInv, Requested
<1>3. CASE Monitor
  BY <1>2, <1>3 DEF Monitor, ObserveHotspot, ObserveClean, Observe
<1>4. ASSUME NEW h \in Handoff, HandoffStep(h) PROVE LockInv'
  <2>1. CASE RequestHandoff(h) \/ \E s \in HandoffStatus : RecordUpdate(h, s)
    BY <1>1, <2>1 DEF RequestHandoff, RecordUpdate
  <2>2. CASE StartCancel(h)
    BY <2>2 DEF StartCancel, LockInv, CaseFree, CaseShared, Requested, TypeOK, CaseOK
  <2>3. CASE CommitCancel(h)
    <3>1. \A g \in Handoff \ {h} : handoff'[g] = handoff[g]
      BY <2>3 DEF CommitCancel, MoveHandoff, TypeOK, CaseOK
    <3> QED BY <2>3, <3>1 DEF CommitCancel, LockInv, Requested, TypeOK, CaseOK
  <2>4. CASE AbortCancel(h)
    BY <2>4 DEF AbortCancel, LockInv, Requested, TypeOK, CaseOK
  <2> QED BY <1>4, <2>1, <2>2, <2>3, <2>4 DEF HandoffStep
<1>5. ASSUME NEW w \in Worker, NEW h \in Handoff, DeliveryStep(w, h) PROVE LockInv'
  <2>1. UNCHANGED <<cancel, handoff>>
    BY <1>5 DEF DeliveryStep, ClaimDelivery, Deliver, EnterGuard, ReadHandoff, RecordDelivery,
                RecheckHandoff, OpenIssue, FailDelivery, CrashDelivery, SettleDelivery
  <2>2. CASE RecordDelivery(w, h)
    BY <2>1, <2>2 DEF RecordDelivery, LockInv, CaseShared
  <2>3. ASSUME ~RecordDelivery(w, h)
        PROVE  \E label : wpc' = [wpc EXCEPT ![w] = label] /\ (label \in Recorded => wpc[w] \in Recorded)
    BY <1>5, <2>3 DEF DeliveryStep, ClaimDelivery, Deliver, EnterGuard, ReadHandoff, RecheckHandoff, OpenIssue,
                      FailDelivery, CrashDelivery, SettleDelivery, Step, LeaveGuard, WorkerAt, Recorded, Idle
  <2>4. ASSUME ~RecordDelivery(w, h)
        PROVE  \A u \in Worker : wpc'[u] \in Recorded => wpc[u] \in Recorded
    BY <2>3, <2>4 DEF TypeOK, DeliveryOK
  <2> QED BY <2>1, <2>2, <2>4 DEF LockInv, Requested
<1>6. ASSUME NEW r \in Request, NEW o \in Objective, ConsoleStep(r, o) PROVE LockInv'
  BY <1>2, <1>6 DEF ConsoleStep, ReadForConsole, WriteFromConsole, LoseConsole
<1>7. ASSUME NEW v \in Verifier, Verify(v) \/ AbortRun(v) PROVE LockInv'
  <2>1. UNCHANGED <<cancel, wpc>>
    BY <1>7 DEF Verify, ListDue, CheckObjective, WriteResult, ReadTouched, ReadObjectives, MarkVerified,
                ResolveCase, AbortRun
  <2>2. UNCHANGED handoff \/ CaseFree
    BY <1>7 DEF Verify, ListDue, CheckObjective, WriteResult, ReadTouched, ReadObjectives, MarkVerified,
                ResolveCase, AbortRun
  <2> QED BY <1>1, <1>2, <2>1, <2>2
<1>8. CASE UNCHANGED vars
  BY <1>2, <1>8 DEF vars
<1> QED BY <1>3, <1>4, <1>5, <1>6, <1>7, <1>8 DEF Next

\* Both hold always.
THEOREM LocksAndHandoffs == Spec => [](KnownInv /\ LockInv)
<1>1. Init => KnownInv /\ LockInv
  BY DEF Init, KnownInv, LockInv, NotCancelling
<1>2. TypeOK /\ KnownInv /\ LockInv /\ [Next]_vars => KnownInv' /\ LockInv'
  BY KnownStep, LockStep
<1> QED BY <1>1, <1>2, HandoffTypeCorrect, PTL DEF Spec
-----------------------------------------------------------------------------
(***************************************************************************)
(* A handoff that is not over after a step was not over before, or has     *)
(* just been requested.                                                    *)
(***************************************************************************)
LEMMA ActiveBefore ==
    ASSUME TypeOK, KnownInv, LockInv, [Next]_vars, NEW h \in Handoff, Active(h)'
    PROVE  Active(h) \/ (~Requested(h) /\ ~Duplicate(h) /\ handoff' = [handoff EXCEPT ![h] = "requested"])
<1>1. CASE UNCHANGED handoff
  BY <1>1 DEF Active, Requested
<1>2. ASSUME NEW g \in Handoff, NEW s, Moves(g, s) PROVE Active(h)
  <2>1. CASE h = g
    <3>1. handoff'[h] = s
      BY <1>2, <2>1 DEF Moves, TypeOK, CaseOK
    <3> QED BY <1>2, <2>1, <3>1, TerminalStays DEF Moves, Active
  <2>2. CASE h # g
    BY <1>2, <2>2 DEF Moves, Active, Requested, TypeOK, CaseOK
  <2> QED BY <2>1, <2>2
<1>3. ASSUME NEW g \in Handoff, ~Requested(g), ~Duplicate(g), handoff' = [handoff EXCEPT ![g] = "requested"]
      PROVE  Active(h) \/ h = g
  BY <1>3 DEF Active, Requested, TypeOK, CaseOK
<1> QED BY <1>1, <1>2, <1>3, HandoffMoves

(***************************************************************************)
(* Two active handoffs never pursue one objective key, whatever copies of  *)
(* the case handoffs are requested with and however they end.              *)
(***************************************************************************)
THEOREM HandoffsAreUnique == Spec => []OneActiveHandoff
<1>1. Init => OneActiveHandoff
  BY DEF Init, OneActiveHandoff, Active, Requested
<1>2. ASSUME TypeOK, KnownInv, LockInv, OneActiveHandoff, [Next]_vars PROVE OneActiveHandoff'
  <2> SUFFICES ASSUME NEW g \in Handoff, NEW h \in Handoff, Active(g)', Active(h)', KeyOf[g] = KeyOf[h]
               PROVE  g = h
    BY DEF OneActiveHandoff
  <2> DEFINE New(k) == ~Requested(k) /\ ~Duplicate(k) /\ handoff' = [handoff EXCEPT ![k] = "requested"]
  <2>1. (Active(g) \/ New(g)) /\ (Active(h) \/ New(h))
    BY <1>2, ActiveBefore
  <2>2. CASE Active(g) /\ Active(h)
    BY <1>2, <2>2 DEF OneActiveHandoff
  <2>3. ASSUME New(g), Active(h) PROVE FALSE
    BY <2>3 DEF Duplicate, Active
  <2>4. ASSUME Active(g), New(h) PROVE FALSE
    BY <2>4 DEF Duplicate, Active
  <2>5. ASSUME New(g), New(h) PROVE g = h
    BY <1>2, <2>5 DEF Requested, TypeOK, CaseOK
  <2> QED BY <2>1, <2>2, <2>3, <2>4, <2>5
<1> QED BY <1>1, <1>2, HandoffTypeCorrect, LocksAndHandoffs, PTL DEF Spec

(***************************************************************************)
(* An issue is only opened for an active handoff: the second look at it is *)
(* taken under the locks, and the locks last until the issue is there.     *)
(***************************************************************************)
THEOREM IssuesAreForActiveHandoffs == Spec => []IssueOnlyForActiveHandoff
<1> USE DEF caseVars, objVars, outVars, workerVars, verifierVars, RestOfDelivery, RestOfVerifier
<1>1. Init => IssueOnlyForActiveHandoff
  BY DEF Init, IssueOnlyForActiveHandoff, WorkerAt, Idle
<1>2. ASSUME TypeOK, KnownInv, LockInv, IssueOnlyForActiveHandoff, [Next]_vars
      PROVE  IssueOnlyForActiveHandoff'
  <2> SUFFICES ASSUME NEW w \in Worker, NEW h \in Handoff, WorkerAt(w, h, "issue")'
               PROVE  Active(h)'
    BY DEF IssueOnlyForActiveHandoff
  <2>1. CASE handoff' # handoff
    <3>1. NoDeliveryRecorded /\ UNCHANGED wpc
      BY <1>2, <2>1, HandoffMoves
    <3> QED BY <3>1 DEF NoDeliveryRecorded, WorkerAt, Recorded
  <2>2. CASE UNCHANGED <<handoff, wpc, wtarget>>
    BY <1>2, <2>2 DEF IssueOnlyForActiveHandoff, WorkerAt, Active, Requested
  <2>3. ASSUME NEW u \in Worker, NEW g \in Handoff, DeliveryStep(u, g), UNCHANGED handoff PROVE Active(h)'
    <3>1. CASE w = u /\ RecheckHandoff(u, g)
      <4>1. wtarget[w] = {g} /\ wtarget'[w] = {h}
        BY <3>1 DEF RecheckHandoff, WorkerAt
      <4>2. wtarget' = wtarget
        BY <3>1 DEF RecheckHandoff, Step, LeaveGuard
      <4>3. g = h
        BY <4>1, <4>2
      <4>4. Requested(h)
        BY <1>2, <4>1, <4>3 DEF KnownInv
      <4>5. wpc'[w] = "settle" \/ handoff[h] \notin Terminal
        BY <1>2, <3>1, <4>3 DEF RecheckHandoff, LeaveGuard, TypeOK, DeliveryOK
      <4> QED BY <2>3, <4>4, <4>5 DEF Active, Requested, WorkerAt
    <3>2. CASE w = u /\ ~RecheckHandoff(u, g)
      <4>1. wpc'[w] # "issue"
        BY <1>2, <2>3, <3>2 DEF DeliveryStep, ClaimDelivery, Deliver, EnterGuard, ReadHandoff, RecordDelivery,
           OpenIssue, FailDelivery, CrashDelivery, SettleDelivery, Step, LeaveGuard, Idle, TypeOK, DeliveryOK
      <4> QED BY <4>1 DEF WorkerAt
    <3>3. CASE w # u
      <4>1. wpc'[w] = wpc[w] /\ wtarget'[w] = wtarget[w]
        BY <1>2, <2>3, <3>3 DEF DeliveryStep, ClaimDelivery, Deliver, EnterGuard, ReadHandoff, RecordDelivery,
           RecheckHandoff, OpenIssue, FailDelivery, CrashDelivery, SettleDelivery, Step, LeaveGuard, TypeOK, DeliveryOK
      <4> QED BY <1>2, <2>3, <4>1 DEF IssueOnlyForActiveHandoff, WorkerAt, Active, Requested
    <3> QED BY <3>1, <3>2, <3>3
  <2>4. UNCHANGED <<wpc, wtarget>> \/ \E u \in Worker, g \in Handoff : DeliveryStep(u, g)
    BY <1>2 DEF Next, Monitor, ObserveHotspot, ObserveClean, Observe, HandoffStep, RequestHandoff, RecordUpdate,
       StartCancel, CommitCancel, AbortCancel, ConsoleStep, ReadForConsole, WriteFromConsole, LoseConsole, Verify, ListDue,
       CheckObjective, WriteResult, ReadTouched, ReadObjectives, MarkVerified, ResolveCase, AbortRun, vars
  <2> QED BY <2>1, <2>2, <2>3, <2>4
<1> QED BY <1>1, <1>2, HandoffTypeCorrect, LocksAndHandoffs, PTL DEF Spec

-----------------------------------------------------------------------------
(***************************************************************************)
(* Verification rests on recorded evidence, and every handoff lives as     *)
(* HandoffLifecycle says, however many verifiers and operators write over  *)
(* each other's results.                                                   *)
(***************************************************************************)

\* A recorded pass counts, up to what an objective needs.
LEMMA CountedGrows ==
    ASSUME NEW n \in 0 .. RequiredPasses
    PROVE  /\ n <= Counted(n)
           /\ n = RequiredPasses => Counted(n) = RequiredPasses
           /\ n + 1 <= Counted(n) \/ Counted(n) = RequiredPasses
BY BoundAssumption DEF Counted

\* What a write does to the recorded passes.
Records(o, result) ==
    passes' = [passes EXCEPT ![o] = IF result = "pass" THEN Counted(@) ELSE @]

\* Results are recorded by the console and the verifiers, one objective at a time.
LEMMA PassesWritten ==
    ASSUME [Next]_vars
    PROVE  \/ UNCHANGED passes
           \/ UNCHANGED handoff /\ \E o \in Objective, result \in {"pass", "other"} : Records(o, result)
<1> USE DEF caseVars, objVars, outVars, workerVars, verifierVars, RestOfDelivery, RestOfVerifier
<1>1. ASSUME NEW o \in Objective, NEW count, NEW result, WriteObjective(o, count, result), UNCHANGED handoff
      PROVE  UNCHANGED handoff /\ \E p \in Objective, t \in {"pass", "other"} : Records(p, t)
  <2>1. Records(o, IF result = "pass" THEN "pass" ELSE "other")
    BY <1>1 DEF WriteObjective, Records
  <2> QED BY <1>1, <2>1
<1>2. ASSUME NEW r \in Request, NEW o \in Objective, ConsoleStep(r, o)
      PROVE  \/ UNCHANGED passes
             \/ UNCHANGED handoff /\ \E p \in Objective, t \in {"pass", "other"} : Records(p, t)
  BY <1>1, <1>2 DEF ConsoleStep, ReadForConsole, WriteFromConsole, LoseConsole
<1>3. ASSUME NEW v \in Verifier, NEW o \in Objective, WriteResult(v, o)
      PROVE  UNCHANGED handoff /\ \E p \in Objective, t \in {"pass", "other"} : Records(p, t)
  BY <1>1, <1>3 DEF WriteResult
<1>4. ASSUME NEW v \in Verifier, Verify(v) \/ AbortRun(v), \A o \in Objective : ~WriteResult(v, o)
      PROVE  UNCHANGED passes
  BY <1>4 DEF Verify, ListDue, CheckObjective, ReadTouched, ReadObjectives, MarkVerified, ResolveCase, AbortRun
<1>5. CASE Monitor \/ UNCHANGED vars
  BY <1>5 DEF Monitor, ObserveHotspot, ObserveClean, Observe, vars
<1>6. ASSUME NEW h \in Handoff, HandoffStep(h) PROVE UNCHANGED passes
  BY <1>6 DEF HandoffStep, RequestHandoff, RecordUpdate, StartCancel, CommitCancel, AbortCancel
<1>7. ASSUME NEW w \in Worker, NEW h \in Handoff, DeliveryStep(w, h) PROVE UNCHANGED passes
  BY <1>7 DEF DeliveryStep, ClaimDelivery, Deliver, EnterGuard, ReadHandoff, RecordDelivery,
              RecheckHandoff, OpenIssue, FailDelivery, CrashDelivery, SettleDelivery
<1> QED BY <1>2, <1>3, <1>4, <1>5, <1>6, <1>7 DEF Next

\* Evidence is never taken back.
LEMMA PassesGrow ==
    ASSUME TypeOK, TypeOK', [Next]_vars, NEW o \in Objective
    PROVE  /\ passes[o] <= passes'[o]
           /\ passes[o] = RequiredPasses => passes'[o] = RequiredPasses
<1>1. passes[o] \in 0 .. RequiredPasses /\ passes[o] \in Nat
  BY BoundAssumption DEF TypeOK, ObjectivesOK
<1>2. CASE UNCHANGED passes
  BY <1>1, <1>2
<1>3. ASSUME NEW p \in Objective, NEW t, Records(p, t)
      PROVE  passes'[o] \in {passes[o], Counted(passes[o])}
  BY <1>3 DEF Records, TypeOK, ObjectivesOK
<1>4. ASSUME passes'[o] \in {passes[o], Counted(passes[o])}
      PROVE  /\ passes[o] <= passes'[o]
             /\ passes[o] = RequiredPasses => passes'[o] = RequiredPasses
  BY <1>1, <1>4, CountedGrows
<1> QED BY <1>2, <1>3, <1>4, PassesWritten

\* So a count that was covered stays covered.
LEMMA BackedStays ==
    ASSUME TypeOK, TypeOK', [Next]_vars, NEW o \in Objective, NEW count \in Nat, Backed(count, o)
    PROVE  Backed(count, o)'
<1>1. /\ passes[o] <= passes'[o]
      /\ passes[o] = RequiredPasses => passes'[o] = RequiredPasses
  BY PassesGrow
<1>2. passes[o] \in Nat /\ passes'[o] \in Nat
  BY BoundAssumption DEF TypeOK, ObjectivesOK
<1> QED BY <1>1, <1>2 DEF Backed

\* A proven handoff stays proven.
LEMMA ProvenStays ==
    ASSUME TypeOK, TypeOK', [Next]_vars, NEW h \in Handoff, Proven(h)
    PROVE  Proven(h)'
BY PassesGrow DEF Proven
\* A result written over any covered count leaves a covered count.
LEMMA WriteIsBacked ==
    ASSUME TypeOK, NEW o \in Objective, NEW count \in Nat, Backed(count, o), NEW result \in ObjectiveStatus,
           WriteObjective(o, count, result)
    PROVE  Backed(objective[o].count, o)'
<1>1. passes[o] \in 0 .. RequiredPasses /\ passes[o] \in Nat
  BY BoundAssumption DEF TypeOK, ObjectivesOK
<1>2. objective'[o] = Applied(count, result)
  BY DEF WriteObjective, TypeOK, ObjectivesOK
<1>3. CASE result = "pass"
  <2>1. objective'[o].count = count + 1
    BY <1>2, <1>3 DEF Applied
  <2>2. passes'[o] = Counted(passes[o])
    BY <1>3 DEF WriteObjective, TypeOK, ObjectivesOK
  <2>3. Counted(passes[o]) \in Nat
    BY <1>1 DEF Counted
  <2>4. count + 1 <= Counted(passes[o]) \/ Counted(passes[o]) = RequiredPasses
    BY <1>1, <2>3, CountedGrows DEF Backed
  <2> QED BY <2>1, <2>2, <2>4 DEF Backed
<1>4. CASE result # "pass"
  <2>1. objective'[o].count = 0
    BY <1>2, <1>4 DEF Applied
  <2>2. passes'[o] = passes[o]
    BY <1>4 DEF WriteObjective, TypeOK, ObjectivesOK
  <2> QED BY <1>1, <2>1, <2>2 DEF Backed
<1> QED BY <1>3, <1>4

\* An objective nobody passed is covered.
LEMMA ZeroIsBacked ==
    ASSUME TypeOK, NEW o \in Objective
    PROVE  Backed(0, o)
BY BoundAssumption DEF Backed, TypeOK, ObjectivesOK

\* A satisfied handoff is proven.
LEMMA SatisfiedIsProven ==
    ASSUME TypeOK, EvidenceInv, NEW h \in Handoff, Satisfied(h)
    PROVE  Proven(h)
<1> SUFFICES ASSUME NEW o \in Objective, HandoffOf[o] = h PROVE passes[o] = RequiredPasses
  BY DEF Proven
<1>1. objective[o].count >= RequiredPasses
  BY DEF Satisfied
<1>2. objective[o].count \in Nat /\ passes[o] \in 0 .. RequiredPasses
  BY DEF TypeOK, ObjectivesOK
<1>3. Backed(objective[o].count, o)
  BY DEF EvidenceInv
<1> QED BY <1>1, <1>2, <1>3, BoundAssumption DEF Backed

\* Evidence covers every count, in the table and in the copies.
LEMMA EvidenceStep ==
    ASSUME TypeOK, TypeOK', EvidenceInv, [Next]_vars
    PROVE  EvidenceInv'
<1> USE DEF caseVars, objVars, outVars, workerVars, verifierVars, RestOfDelivery, RestOfVerifier
<1> DEFINE TableBacked == \A o \in Objective : Backed(objective[o].count, o)
           VerifierBacked == \A v \in Verifier, o \in Objective : Backed(vcount[v][o], o)
           ConsoleBacked == \A r \in Request, o \in Objective :
                               console[r].objective = {o} => Backed(console[r].count, o)
           MarkProven == \A v \in Verifier, h \in Handoff :
                            vpc[v] \in {"mark", "resolve"} /\ vtarget[v] = {h} => Proven(h)
<1>1. /\ \A o \in Objective : objective[o].count \in Nat
      /\ \A v \in Verifier, o \in Objective : vcount[v][o] \in Nat
      /\ \A r \in Request : console[r].count \in Nat
  BY DEF TypeOK, ObjectivesOK, VerifierOK, ConsoleResult
<1>2. /\ \A o \in Objective : Backed(objective[o].count, o)
      /\ \A v \in Verifier, o \in Objective : Backed(vcount[v][o], o)
      /\ \A r \in Request, o \in Objective : console[r].objective = {o} => Backed(console[r].count, o)
      /\ \A v \in Verifier, h \in Handoff : vpc[v] \in {"mark", "resolve"} /\ vtarget[v] = {h} => Proven(h)
  BY DEF EvidenceInv
<1>3. \A o \in Objective, n \in Nat : Backed(n, o) => Backed(n, o)'
  BY BackedStays
<1>4. ASSUME \A o \in Objective : objective'[o].count = objective[o].count PROVE TableBacked'
  BY <1>1, <1>2, <1>3, <1>4 DEF Backed
<1>5. ASSUME UNCHANGED vcount PROVE VerifierBacked'
  BY <1>1, <1>2, <1>3, <1>5 DEF Backed
<1>6. ASSUME UNCHANGED console PROVE ConsoleBacked'
  BY <1>1, <1>2, <1>3, <1>6 DEF Backed
<1>7. ASSUME \A v \in Verifier, h \in Handoff :
                vpc'[v] \in {"mark", "resolve"} /\ vtarget'[v] = {h} =>
                    (vpc[v] \in {"mark", "resolve"} /\ vtarget[v] = {h}) \/ Proven(h)
      PROVE  MarkProven'
  BY <1>2, <1>7, ProvenStays
<1>8. ASSUME UNCHANGED <<vpc, vtarget>> PROVE MarkProven'
  BY <1>7, <1>8
<1>9. TableBacked' /\ VerifierBacked' /\ ConsoleBacked' /\ MarkProven' => EvidenceInv'
  BY DEF EvidenceInv
<1>10. ASSUME NEW o \in Objective, NEW count \in Nat, Backed(count, o), NEW result \in ObjectiveStatus,
              WriteObjective(o, count, result)
       PROVE  TableBacked'
  <2>1. Backed(objective[o].count, o)'
    BY <1>10, WriteIsBacked
  <2>2. \A p \in Objective \ {o} : objective'[p] = objective[p]
    BY <1>10 DEF WriteObjective, TypeOK, ObjectivesOK
  <2> QED BY <1>1, <1>2, <1>3, <2>1, <2>2 DEF Backed
<1>11. UNCHANGED objective => TableBacked'
  BY <1>4
<1> HIDE DEF TableBacked, VerifierBacked, ConsoleBacked, MarkProven
<1>12. CASE Monitor \/ UNCHANGED vars
  <2>1. UNCHANGED <<objective, vcount, console, vpc, vtarget>>
    BY <1>12 DEF Monitor, ObserveHotspot, ObserveClean, Observe, vars
  <2> QED BY <1>5, <1>6, <1>8, <1>9, <1>11, <2>1
<1>13. ASSUME NEW h \in Handoff, HandoffStep(h) PROVE EvidenceInv'
  <2>1. UNCHANGED <<vcount, console, vpc, vtarget>>
    BY <1>13 DEF HandoffStep, RequestHandoff, RecordUpdate, StartCancel, CommitCancel, AbortCancel
  <2>2. CASE CommitCancel(h)
    <3>1. \A o \in Objective : objective'[o] \in {objective[o], [objective[o] EXCEPT !.status = "skipped"]}
      BY <2>2 DEF CommitCancel
    <3>2. \A o \in Objective : [objective[o] EXCEPT !.status = "skipped"].count = objective[o].count
      BY DEF TypeOK, ObjectivesOK
    <3>3. \A o \in Objective : objective'[o].count = objective[o].count
      BY <3>1, <3>2
    <3> QED BY <1>4, <1>5, <1>6, <1>8, <1>9, <2>1, <3>3
  <2>3. CASE ~CommitCancel(h)
    <3>1. UNCHANGED objective
      BY <1>13, <2>3 DEF HandoffStep, RequestHandoff, RecordUpdate, StartCancel, AbortCancel
    <3> QED BY <1>5, <1>6, <1>8, <1>9, <1>11, <2>1, <3>1
  <2> QED BY <2>2, <2>3
<1>14. ASSUME NEW w \in Worker, NEW h \in Handoff, DeliveryStep(w, h) PROVE EvidenceInv'
  <2>1. UNCHANGED <<objective, vcount, console, vpc, vtarget>>
    BY <1>14 DEF DeliveryStep, ClaimDelivery, Deliver, EnterGuard, ReadHandoff, RecordDelivery,
                 RecheckHandoff, OpenIssue, FailDelivery, CrashDelivery, SettleDelivery
  <2> QED BY <1>5, <1>6, <1>8, <1>9, <1>11, <2>1
<1>15. ASSUME NEW r \in Request, NEW o \in Objective, ConsoleStep(r, o) PROVE EvidenceInv'
  <2>1. UNCHANGED <<vcount, vpc, vtarget>>
    BY <1>15 DEF ConsoleStep, ReadForConsole, WriteFromConsole, LoseConsole
  <2>0. ASSUME \A q \in Request : console'[q] = console[q] \/ console'[q].objective = {} PROVE ConsoleBacked'
    <3>1. \A q \in Request, p \in Objective : console'[q].objective = {p} => console'[q] = console[q]
      BY <2>0
    <3> QED BY <1>1, <1>2, <1>3, <3>1 DEF ConsoleBacked, Backed
  <2>2. ASSUME NEW result \in ObjectiveStatus, ReadForConsole(r, o, result) PROVE TableBacked' /\ ConsoleBacked'
    <3> DEFINE read == [pc |-> "read", objective |-> {o}, count |-> objective[o].count, verdict |-> result]
    <3>1. console' = [console EXCEPT ![r] = read] /\ UNCHANGED objective
      BY <2>2 DEF ReadForConsole
    <3>2. read.objective = {o} /\ read.count = objective[o].count
      OBVIOUS
    <3> HIDE DEF read
    <3>3. console'[r] = read /\ \A q \in Request \ {r} : console'[q] = console[q]
      BY <3>1 DEF TypeOK, ObjectivesOK
    <3>4. ConsoleBacked'
      BY <1>1, <1>2, <1>3, <3>2, <3>3 DEF ConsoleBacked, Backed
    <3> QED BY <1>11, <3>1, <3>4
  <2>3. CASE WriteFromConsole(r, o)
    <3>1. Backed(console[r].count, o) /\ console[r].verdict \in ObjectiveStatus
      BY <1>2, <2>3 DEF WriteFromConsole, TypeOK, ObjectivesOK
    <3>2. TableBacked'
      BY <1>1, <1>10, <2>3, <3>1 DEF WriteFromConsole
    <3>3. \A q \in Request : console'[q] = console[q] \/ console'[q].objective = {}
      BY <2>3 DEF WriteFromConsole, RequestAt, TypeOK, ObjectivesOK
    <3>4. ConsoleBacked'
      BY <2>0, <3>3
    <3> QED BY <1>5, <1>8, <1>9, <2>1, <3>2, <3>4
  <2>4. CASE LoseConsole(r, o)
    <3>1. UNCHANGED objective /\ \A q \in Request : console'[q] = console[q] \/ console'[q].objective = {}
      BY <2>4 DEF LoseConsole, RequestAt, TypeOK, ObjectivesOK
    <3>2. ConsoleBacked'
      BY <2>0, <3>1
    <3> QED BY <1>5, <1>8, <1>9, <1>11, <2>1, <3>1, <3>2
  <2>5. Answer \subseteq ObjectiveStatus
    BY AnswerAssumption DEF ObjectiveStatus
  <2> QED BY <1>5, <1>8, <1>9, <1>15, <2>1, <2>2, <2>3, <2>4, <2>5 DEF ConsoleStep
<1>16. ASSUME NEW v \in Verifier, Verify(v) \/ AbortRun(v) PROVE EvidenceInv'
  <2>1. ConsoleBacked'
    BY <1>6, <1>16 DEF Verify, ListDue, CheckObjective, WriteResult, ReadTouched, ReadObjectives, MarkVerified,
                       ResolveCase, AbortRun
  <2>2. ASSUME \A u \in Verifier : vcount'[u] = vcount[u] \/ vcount'[u] = [o \in Objective |-> 0]
        PROVE  VerifierBacked'
    <3>1. \A o \in Objective : Backed(0, o)'
      BY <1>3, ZeroIsBacked
    <3>2. \A u \in Verifier, o \in Objective : vcount'[u][o] = vcount[u][o] \/ vcount'[u][o] = 0
      BY <2>2
    <3> QED BY <1>1, <1>2, <1>3, <3>1, <3>2 DEF VerifierBacked, Backed
  <2>3. ASSUME NEW h \in Handoff, EndRun(v) \/ NextHandoff(v, h), UNCHANGED objective PROVE EvidenceInv'
    <3>1. /\ \A u \in Verifier : vtarget'[u] \in {vtarget[u], {}}
          /\ \A u \in Verifier : vcount'[u] = vcount[u] \/ vcount'[u] = [o \in Objective |-> 0]
          /\ \A u \in Verifier : vpc'[u] \in {vpc[u], Idle, "verify"}
      BY <2>3, VerifierShrinks
    <3>2. MarkProven'
      BY <1>7, <3>1 DEF Idle
    <3> QED BY <1>9, <1>11, <2>1, <2>2, <2>3, <3>1, <3>2
  <2>4. CASE ListDue(v)
    <3>1. \A u \in Verifier : \/ vcount'[u] = vcount[u]
                              \/ vcount'[u] = [o \in Objective |-> IF Due(o) THEN objective[o].count ELSE 0]
      BY <2>4 DEF ListDue, TypeOK, VerifierOK
    <3>2. \A u \in Verifier, o \in Objective : vcount'[u][o] \in {vcount[u][o], objective[o].count, 0}
      BY <3>1
    <3>3. VerifierBacked'
      BY <1>1, <1>2, <1>3, <3>2, ZeroIsBacked DEF VerifierBacked, Backed
    <3>4. MarkProven'
      BY <1>7, <2>4 DEF ListDue, TypeOK, VerifierOK
    <3> QED BY <1>9, <1>11, <2>1, <2>4, <3>3, <3>4 DEF ListDue
  <2>5. ASSUME NEW o \in Objective, CheckObjective(v, o) PROVE EvidenceInv'
    <3>1. MarkProven'
      BY <1>7, <2>5 DEF CheckObjective, TypeOK, VerifierOK
    <3> QED BY <1>5, <1>9, <1>11, <2>1, <2>5, <3>1 DEF CheckObjective
  <2>6. ASSUME NEW o \in Objective, WriteResult(v, o) PROVE EvidenceInv'
    <3>1. Backed(vcount[v][o], o) /\ verdict[v] \in ObjectiveStatus
      BY <1>2, <2>6 DEF WriteResult, TypeOK, VerifierOK
    <3>2. TableBacked'
      BY <1>1, <1>10, <2>6, <3>1 DEF WriteResult
    <3>3. MarkProven'
      BY <1>7, <2>6 DEF WriteResult, TypeOK, VerifierOK
    <3>4. \A u \in Verifier, p \in Objective : vcount'[u][p] \in {vcount[u][p], 0}
      BY <2>6 DEF WriteResult, TypeOK, VerifierOK
    <3>5. VerifierBacked'
      BY <1>1, <1>2, <1>3, <3>4, ZeroIsBacked DEF VerifierBacked, Backed
    <3> QED BY <1>9, <2>1, <3>2, <3>3, <3>5
  <2>7. ASSUME NEW h \in Handoff, ReadTouched(v, h) PROVE EvidenceInv'
    <3>1. CASE ~NextHandoff(v, h)
      <4>1. /\ vpc' = [vpc EXCEPT ![v] = "objectives"]
            /\ vtarget' = [vtarget EXCEPT ![v] = {h}]
            /\ UNCHANGED <<vcount, objective>>
        BY <2>7, <3>1 DEF ReadTouched
      <4>2. MarkProven'
        BY <1>7, <4>1 DEF TypeOK, VerifierOK
      <4> QED BY <1>5, <1>9, <1>11, <2>1, <4>1, <4>2
    <3> QED BY <2>3, <2>7, <3>1 DEF ReadTouched
  <2>8. ASSUME NEW h \in Handoff, NEW label, Proceed(v, label), UNCHANGED objective, vtarget[v] = {h}, Proven(h)
        PROVE  EvidenceInv'
    <3>1. /\ vpc' = [vpc EXCEPT ![v] = label]
          /\ UNCHANGED <<vcount, vtarget>>
      BY <2>8 DEF Proceed
    <3>2. MarkProven'
      BY <1>7, <2>8, <3>1 DEF TypeOK, VerifierOK
    <3> QED BY <1>5, <1>9, <1>11, <2>1, <2>8, <3>1, <3>2
  <2>9. ASSUME NEW h \in Handoff, ReadObjectives(v, h) PROVE EvidenceInv'
    BY <2>3, <2>8, <2>9, SatisfiedIsProven DEF ReadObjectives, VerifierAt
  <2>10. ASSUME NEW h \in Handoff, MarkVerified(v, h) PROVE EvidenceInv'
    <3>1. vtarget[v] = {h} /\ Proven(h) /\ UNCHANGED objective
      BY <1>2, <2>10 DEF MarkVerified, VerifierAt
    <3> QED BY <2>3, <2>8, <2>10, <3>1 DEF MarkVerified
  <2>11. ASSUME NEW h \in Handoff, ResolveCase(v, h) PROVE EvidenceInv'
    BY <2>3, <2>11 DEF ResolveCase
  <2>12. CASE AbortRun(v)
    <3>1. EndRun(v) /\ UNCHANGED objective
      BY <2>12 DEF AbortRun
    <3>2. /\ \A u \in Verifier : vcount'[u] = vcount[u] \/ vcount'[u] = [o \in Objective |-> 0]
          /\ \A u \in Verifier : vpc'[u] \in {vpc[u], Idle} /\ vtarget'[u] \in {vtarget[u], {}}
      BY <3>1 DEF EndRun, TypeOK, VerifierOK
    <3>3. MarkProven'
      BY <1>7, <3>2 DEF Idle
    <3> QED BY <1>9, <1>11, <2>1, <2>2, <3>1, <3>2, <3>3
  <2> QED BY <1>16, <2>4, <2>5, <2>6, <2>7, <2>9, <2>10, <2>11, <2>12 DEF Verify
<1> QED BY <1>12, <1>13, <1>14, <1>15, <1>16 DEF Next

(***************************************************************************)
(* Nobody verifies or resolves a handoff without a recorded pass for every *)
(* one an objective needs, although results are written back from copies.  *)
(***************************************************************************)
THEOREM EvidenceHolds == Spec => []EvidenceInv
<1>1. Init => EvidenceInv
  <2> SUFFICES ASSUME Init PROVE EvidenceInv
    OBVIOUS
  <2>1. \A o \in Objective : Backed(0, o)
    BY DEF Init, Backed
  <2> QED BY <2>1 DEF Init, RequestAt, EvidenceInv, Idle
<1>2. TypeOK /\ TypeOK' /\ EvidenceInv /\ [Next]_vars => EvidenceInv'
  BY EvidenceStep
<1> QED BY <1>1, <1>2, HandoffTypeCorrect, PTL DEF Spec
-----------------------------------------------------------------------------
(***************************************************************************)
(* Passes since the last failure.  Everybody who will write an objective   *)
(* back holds a count that is covered by the passes recorded since the     *)
(* last failure that was recorded without an older copy left; a failure    *)
(* takes the cover away only when nobody else holds a count.               *)
(***************************************************************************)
Covered(count, o) == count <= since[o] \/ since[o] = RequiredPasses

\* The inductive strengthening of PassedSinceFailure.
SinceInv ==
    /\ PassedSinceFailure
    /\ \A o \in Objective : Covered(objective[o].count, o)
    /\ \A v \in Verifier, o \in Objective : o \in todo[v] => Covered(vcount[v][o], o)
    /\ \A r \in Request, o \in Objective :
          console[r].pc = "read" /\ console[r].objective = {o} => Covered(console[r].count, o)
    /\ \A v \in Verifier, o \in Objective : vpc[v] = "write" /\ vobjective[v] = {o} => o \in todo[v]

LEMMA CountsAreNatural ==
    ASSUME TypeOK
    PROVE  /\ \A o \in Objective : objective[o].count \in Nat /\ since[o] \in 0 .. RequiredPasses
           /\ \A v \in Verifier, o \in Objective : vcount[v][o] \in Nat
           /\ \A r \in Request : console[r].count \in Nat
BY DEF TypeOK, ObjectivesOK, VerifierOK, ConsoleResult

\* What a result leaves covered: everything, but for a failure nobody can write over.
LEMMA WriteIsCovered ==
    ASSUME TypeOK, NEW o \in Objective, NEW count \in Nat, Covered(count, o),
           NEW result \in ObjectiveStatus, WriteObjective(o, count, result)
    PROVE  /\ Covered(objective[o].count, o)'
           /\ objective'[o].status = "pass" => since'[o] = RequiredPasses
           /\ \A p \in Objective \ {o} : objective'[p] = objective[p] /\ since'[p] = since[p]
           /\ Alone(o) \/ \A n \in Nat : Covered(n, o) => Covered(n, o)'
<1>1. since[o] \in 0 .. RequiredPasses /\ since[o] \in Nat
  BY BoundAssumption DEF TypeOK, ObjectivesOK
<1>2. objective'[o] = Applied(count, result)
  BY DEF WriteObjective, TypeOK, ObjectivesOK
<1>3. \A p \in Objective \ {o} : objective'[p] = objective[p] /\ since'[p] = since[p]
  BY DEF WriteObjective, TypeOK, ObjectivesOK
<1>4. CASE result = "pass"
  <2>1. /\ objective'[o].count = count + 1
        /\ objective'[o].status = IF count + 1 >= RequiredPasses THEN "pass" ELSE "pending"
    BY <1>2, <1>4 DEF Applied
  <2>2. since'[o] = Counted(since[o])
    BY <1>4 DEF WriteObjective, TypeOK, ObjectivesOK
  <2>3. Counted(since[o]) \in 0 .. RequiredPasses /\ since[o] <= Counted(since[o])
    BY <1>1, CountedType, CountedGrows
  <2>4. count + 1 <= Counted(since[o]) \/ Counted(since[o]) = RequiredPasses
    BY <1>1, <2>3, BoundAssumption, CountedGrows DEF Covered
  <2>5. count + 1 >= RequiredPasses => Counted(since[o]) = RequiredPasses
    BY <2>3, <2>4, BoundAssumption
  <2>6. \A n \in Nat : Covered(n, o) => Covered(n, o)'
    BY <1>1, <2>2, <2>3, BoundAssumption, CountedGrows DEF Covered
  <2> QED
    BY <1>3, <2>1, <2>2, <2>4, <2>5, <2>6 DEF Covered
<1>5. CASE result # "pass"
  <2>1. objective'[o].count = 0 /\ objective'[o].status = result
    BY <1>2, <1>5 DEF Applied
  <2>2. since'[o] = IF Alone(o) THEN 0 ELSE since[o]
    BY <1>5 DEF WriteObjective, TypeOK, ObjectivesOK
  <2>3. since'[o] \in Nat
    BY <1>1, <2>2
  <2>4. Alone(o) \/ \A n \in Nat : Covered(n, o) => Covered(n, o)'
    BY <2>2 DEF Covered
  <2> QED
    BY <1>3, <1>5, <2>1, <2>3, <2>4 DEF Covered
<1> QED
  BY <1>4, <1>5

\* Who writes no result reads counts of the table, and passes nothing.
LEMMA SinceStays ==
    ASSUME SinceInv, UNCHANGED since,
           \A o \in Objective : /\ objective'[o].count = objective[o].count
                                /\ objective'[o].status = "pass" => objective[o].status = "pass",
           \A v \in Verifier, o \in Objective : o \in todo'[v] =>
              (o \in todo[v] /\ vcount'[v][o] = vcount[v][o]) \/ vcount'[v][o] = objective[o].count,
           \A v \in Verifier : vpc'[v] = "write" =>
              \/ vpc[v] = "write" /\ vobjective'[v] = vobjective[v] /\ todo'[v] = todo[v]
              \/ \A o \in Objective : vobjective'[v] = {o} => o \in todo'[v],
           \A r \in Request : console'[r].pc = "read" =>
              \/ console'[r] = console[r]
              \/ \A o \in Objective : console'[r].objective = {o} => console'[r].count = objective[o].count
    PROVE  SinceInv'
<1>1. PassedSinceFailure' /\ \A o \in Objective : Covered(objective[o].count, o)'
  BY DEF SinceInv, PassedSinceFailure, Covered
<1>2. ASSUME NEW v \in Verifier, NEW o \in Objective, o \in todo'[v] PROVE Covered(vcount[v][o], o)'
  BY <1>2 DEF SinceInv, Covered
<1>3. ASSUME NEW r \in Request, NEW o \in Objective, console'[r].pc = "read", console'[r].objective = {o}
      PROVE  Covered(console[r].count, o)'
  BY <1>3 DEF SinceInv, Covered
<1>4. ASSUME NEW v \in Verifier, NEW o \in Objective, vpc'[v] = "write", vobjective'[v] = {o}
      PROVE  o \in todo'[v]
  BY <1>4 DEF SinceInv
<1> QED
  BY <1>1, <1>2, <1>3, <1>4 DEF SinceInv

\* Holder x writes the result and lets go of its copy; the others keep theirs.
LEMMA WriterLetsGo ==
    ASSUME TypeOK, SinceInv, NEW o \in Objective, NEW count \in Nat, Covered(count, o),
           NEW result \in ObjectiveStatus, WriteObjective(o, count, result), NEW x \in Holders(o),
           \A v \in Verifier, p \in Objective : p \in todo'[v] =>
              p \in todo[v] /\ vcount'[v][p] = vcount[v][p] /\ (p = o => <<"verifier", v>> # x),
           \A v \in Verifier : vpc'[v] = "write" =>
              vpc[v] = "write" /\ vobjective'[v] = vobjective[v] /\ todo'[v] = todo[v],
           \A r \in Request : console'[r].pc = "read" =>
              console'[r] = console[r] /\ <<"console", r>> # x
    PROVE  SinceInv'
<1>1. /\ Covered(objective[o].count, o)'
      /\ objective'[o].status = "pass" => since'[o] = RequiredPasses
      /\ \A p \in Objective \ {o} : objective'[p] = objective[p] /\ since'[p] = since[p]
      /\ Alone(o) \/ \A n \in Nat : Covered(n, o) => Covered(n, o)'
  BY WriteIsCovered
<1>2. PassedSinceFailure' /\ \A p \in Objective : Covered(objective[p].count, p)'
  BY <1>1 DEF SinceInv, PassedSinceFailure, Covered
<1>3. ASSUME NEW y \in Holders(o), y # x PROVE \A n \in Nat : Covered(n, o) => Covered(n, o)'
  BY <1>1, <1>3 DEF Alone
<1>4. ASSUME NEW v \in Verifier, NEW p \in Objective, p \in todo'[v] PROVE Covered(vcount[v][p], p)'
  <2>1. p \in todo[v] /\ vcount'[v][p] = vcount[v][p] /\ (p = o => <<"verifier", v>> # x)
    BY <1>4
  <2>2. Covered(vcount[v][p], p) /\ vcount[v][p] \in Nat
    BY <2>1, CountsAreNatural DEF SinceInv
  <2>3. CASE p = o
    <3>1. <<"verifier", v>> \in Holders(o)
      BY <2>1, <2>3 DEF Holders
    <3> QED
      BY <1>3, <2>1, <2>2, <2>3, <3>1 DEF Covered
  <2> QED
    BY <1>1, <2>1, <2>2, <2>3 DEF Covered
<1>5. ASSUME NEW r \in Request, NEW p \in Objective, console'[r].pc = "read", console'[r].objective = {p}
      PROVE  Covered(console[r].count, p)'
  <2>1. console'[r] = console[r] /\ <<"console", r>> # x
    BY <1>5
  <2>2. Covered(console[r].count, p) /\ console[r].count \in Nat
    BY <1>5, <2>1, CountsAreNatural DEF SinceInv
  <2>3. CASE p = o
    <3>1. <<"console", r>> \in Holders(o)
      BY <1>5, <2>1, <2>3 DEF Holders
    <3> QED
      BY <1>3, <2>1, <2>2, <2>3, <3>1 DEF Covered
  <2> QED
    BY <1>1, <2>1, <2>2, <2>3 DEF Covered
<1>6. ASSUME NEW v \in Verifier, NEW p \in Objective, vpc'[v] = "write", vobjective'[v] = {p}
      PROVE  p \in todo'[v]
  BY <1>6 DEF SinceInv
<1> QED
  BY <1>2, <1>4, <1>5, <1>6 DEF SinceInv

LEMMA SinceStep ==
    ASSUME TypeOK, TypeOK', SinceInv, [Next]_vars
    PROVE  SinceInv'
<1> USE DEF caseVars, objVars, outVars, workerVars, verifierVars, RestOfDelivery, RestOfVerifier
<1>1. ASSUME UNCHANGED <<objective, since, console, verifierVars>> PROVE SinceInv'
  BY <1>1, SinceStays
<1>2. CASE Monitor \/ UNCHANGED vars
  BY <1>1, <1>2 DEF Monitor, ObserveHotspot, ObserveClean, Observe, vars
<1>3. ASSUME NEW h \in Handoff, HandoffStep(h) PROVE SinceInv'
  <2>1. CASE CommitCancel(h)
    <3>1. \A o \in Objective : objective'[o] \in {objective[o], [objective[o] EXCEPT !.status = "skipped"]}
      BY <2>1 DEF CommitCancel
    <3>2. \A o \in Objective : /\ [objective[o] EXCEPT !.status = "skipped"].count = objective[o].count
                               /\ [objective[o] EXCEPT !.status = "skipped"].status = "skipped"
      BY DEF TypeOK, ObjectivesOK
    <3>3. \A o \in Objective : /\ objective'[o].count = objective[o].count
                               /\ objective'[o].status = "pass" => objective[o].status = "pass"
      BY <3>1, <3>2
    <3>4. UNCHANGED <<since, console, verifierVars>>
      BY <2>1 DEF CommitCancel
    <3> QED
      BY <3>3, <3>4, SinceStays
  <2>2. CASE ~CommitCancel(h)
    BY <1>1, <1>3, <2>2 DEF HandoffStep, RequestHandoff, RecordUpdate, StartCancel, AbortCancel
  <2> QED
    BY <2>1, <2>2
<1>4. ASSUME NEW w \in Worker, NEW h \in Handoff, DeliveryStep(w, h) PROVE SinceInv'
  BY <1>1, <1>4 DEF DeliveryStep, ClaimDelivery, Deliver, EnterGuard, ReadHandoff, RecordDelivery,
                    RecheckHandoff, OpenIssue, FailDelivery, CrashDelivery, SettleDelivery
<1>5. ASSUME NEW r \in Request, NEW o \in Objective, ConsoleStep(r, o) PROVE SinceInv'
  <2>1. ASSUME UNCHANGED <<objective, since, verifierVars>>,
               \A q \in Request : \/ console'[q] = console[q]
                                  \/ console'[q].pc # "read"
                                  \/ console'[q].objective = {o} /\ console'[q].count = objective[o].count
        PROVE  SinceInv'
    BY <2>1, SinceStays
  <2>2. ASSUME NEW result, ReadForConsole(r, o, result) PROVE SinceInv'
    <3>1. /\ UNCHANGED <<objective, since, verifierVars>>
          /\ \A q \in Request \ {r} : console'[q] = console[q]
          /\ console'[r] = [pc |-> "read", objective |-> {o}, count |-> objective[o].count, verdict |-> result]
      BY <2>2 DEF ReadForConsole, TypeOK, ObjectivesOK
    <3>2. console'[r].objective = {o} /\ console'[r].count = objective[o].count
      BY <3>1
    <3> QED
      BY <2>1, <3>1, <3>2
  <2>3. CASE WriteFromConsole(r, o)
    <3>1. /\ console[r].pc = "read" /\ console[r].objective = {o} /\ UNCHANGED verifierVars
          /\ WriteObjective(o, console[r].count, console[r].verdict)
      BY <2>3 DEF WriteFromConsole
    <3>2. /\ \A q \in Request \ {r} : console'[q] = console[q]
          /\ console'[r].pc = "recorded"
      BY <2>3 DEF WriteFromConsole, RequestAt, TypeOK, ObjectivesOK
    <3>3. /\ console[r].count \in Nat /\ console[r].verdict \in ObjectiveStatus
          /\ Covered(console[r].count, o)
      BY <3>1, CountsAreNatural DEF SinceInv, TypeOK, ObjectivesOK
    <3>4. <<"console", r>> \in Holders(o)
      BY <3>1 DEF Holders
    <3>5. /\ \A v \in Verifier : <<"verifier", v>> # <<"console", r>>
          /\ \A q \in Request \ {r} : <<"console", q>> # <<"console", r>>
      OBVIOUS
    <3> QED
      BY <3>1, <3>2, <3>3, <3>4, <3>5, WriterLetsGo
  <2>4. CASE LoseConsole(r, o)
    <3>1. /\ UNCHANGED <<objective, since, verifierVars>>
          /\ \A q \in Request \ {r} : console'[q] = console[q]
          /\ console'[r].pc # "read"
      BY <2>4 DEF LoseConsole, RequestAt, TypeOK, ObjectivesOK
    <3> QED
      BY <2>1, <3>1
  <2> QED
    BY <1>5, <2>2, <2>3, <2>4 DEF ConsoleStep
<1>6. ASSUME NEW v \in Verifier, Verify(v) \/ AbortRun(v) PROVE SinceInv'
  <2>0. UNCHANGED console
    BY <1>6 DEF Verify, ListDue, CheckObjective, WriteResult, ReadTouched, ReadObjectives, MarkVerified,
                ResolveCase, AbortRun
  <2>1. ASSUME UNCHANGED <<objective, since>>,
               \A u \in Verifier : /\ todo'[u] = {} \/ (todo'[u] = todo[u] /\ vcount'[u] = vcount[u])
                                   /\ vpc'[u] = "write" => /\ vpc[u] = "write" /\ todo'[u] = todo[u]
                                                           /\ vobjective'[u] = vobjective[u]
        PROVE  SinceInv'
    BY <2>0, <2>1, SinceStays
  <2>1a. ASSUME EndRun(v), UNCHANGED <<objective, since>> PROVE SinceInv'
    <3>1. /\ \A u \in Verifier \ {v} : /\ vpc'[u] = vpc[u] /\ vobjective'[u] = vobjective[u]
                                       /\ todo'[u] = todo[u] /\ vcount'[u] = vcount[u]
          /\ todo'[v] = {}
      BY <2>1a DEF EndRun, TypeOK, VerifierOK
    <3>2. vpc'[v] # "write"
      BY <2>1a DEF EndRun, Idle, TypeOK, VerifierOK
    <3> QED
      <4>1. \A u \in Verifier : todo'[u] = {} \/ (todo'[u] = todo[u] /\ vcount'[u] = vcount[u])
        BY <3>1
      <4>2. \A u \in Verifier : vpc'[u] = "write" => /\ vpc[u] = "write" /\ todo'[u] = todo[u]
                                                      /\ vobjective'[u] = vobjective[u]
        BY <3>1, <3>2
      <4> QED
        BY <2>1, <2>1a, <4>1, <4>2
  <2>2. ASSUME NEW h \in Handoff, EndRun(v) \/ NextHandoff(v, h), UNCHANGED <<objective, since>> PROVE SinceInv'
    <3>1. CASE EndRun(v)
      BY <2>2, <2>1a, <3>1
    <3>2. CASE ~EndRun(v)
      <4>1. UNCHANGED <<todo, vcount, vobjective>> /\ vpc' = [vpc EXCEPT ![v] = "verify"]
        BY <2>2, <3>2 DEF NextHandoff
      <4>2. \A u \in Verifier : vpc'[u] = "write" => vpc[u] = "write"
        BY <4>1 DEF TypeOK, VerifierOK
      <4> QED
        BY <2>1, <2>2, <4>1, <4>2
    <3> QED
      BY <3>1, <3>2
  <2>3. CASE ListDue(v)
    <3>1. /\ UNCHANGED <<objective, since, vobjective>> /\ vpc'[v] = "check"
          /\ \A u \in Verifier \ {v} : vpc'[u] = vpc[u] /\ todo'[u] = todo[u] /\ vcount'[u] = vcount[u]
          /\ \A o \in Objective : o \in todo'[v] => vcount'[v][o] = objective[o].count
      BY <2>3 DEF ListDue, TypeOK, VerifierOK
    <3> QED
      BY <2>0, <3>1, SinceStays
  <2>4. ASSUME NEW o \in Objective, CheckObjective(v, o) PROVE SinceInv'
    <3>1. /\ UNCHANGED <<objective, since, todo, vcount>> /\ vobjective'[v] = {o} /\ o \in todo'[v]
          /\ \A u \in Verifier \ {v} : vpc'[u] = vpc[u] /\ vobjective'[u] = vobjective[u]
      BY <2>4 DEF CheckObjective, TypeOK, VerifierOK
    <3>2. \A p \in Objective : vobjective'[v] = {p} => p \in todo'[v]
      BY <3>1
    <3> QED
      BY <2>0, <3>1, <3>2, SinceStays
  <2>5. ASSUME NEW o \in Objective, WriteResult(v, o) PROVE SinceInv'
    <3>1. /\ vpc[v] = "write" /\ vobjective[v] = {o}
          /\ WriteObjective(o, vcount[v][o], verdict[v])
      BY <2>5 DEF WriteResult
    <3>2. /\ \A u \in Verifier \ {v} : /\ vpc'[u] = vpc[u] /\ vobjective'[u] = vobjective[u]
                                       /\ todo'[u] = todo[u] /\ vcount'[u] = vcount[u]
          /\ vpc'[v] # "write" /\ todo'[v] = todo[v] \ {o}
          /\ \A p \in Objective \ {o} : vcount'[v][p] = vcount[v][p]
      BY <2>5 DEF WriteResult, TypeOK, VerifierOK
    <3>3. o \in todo[v] /\ verdict[v] \in ObjectiveStatus /\ vcount[v][o] \in Nat /\ Covered(vcount[v][o], o)
      BY <3>1, CountsAreNatural DEF SinceInv, TypeOK, VerifierOK
    <3>4. <<"verifier", v>> \in Holders(o)
      BY <3>3 DEF Holders
    <3>5. /\ \A u \in Verifier \ {v} : <<"verifier", u>> # <<"verifier", v>>
          /\ \A r \in Request : <<"console", r>> # <<"verifier", v>>
      OBVIOUS
    <3>6. \A u \in Verifier, p \in Objective : p \in todo'[u] =>
             p \in todo[u] /\ vcount'[u][p] = vcount[u][p] /\ (p = o => <<"verifier", u>> # <<"verifier", v>>)
      BY <3>2, <3>5
    <3>7. \A u \in Verifier : vpc'[u] = "write" =>
             vpc[u] = "write" /\ vobjective'[u] = vobjective[u] /\ todo'[u] = todo[u]
      BY <3>2
    <3> QED
      BY <2>0, <3>1, <3>3, <3>4, <3>5, <3>6, <3>7, WriterLetsGo
  <2>6. ASSUME NEW h \in Handoff, ReadTouched(v, h) PROVE SinceInv'
    <3>1. CASE ~NextHandoff(v, h)
      BY <2>1, <2>6, <3>1 DEF ReadTouched, TypeOK, VerifierOK
    <3> QED
      BY <2>2, <2>6, <3>1 DEF ReadTouched
  <2>7. ASSUME NEW label \in {"mark", "resolve"}, Proceed(v, label), UNCHANGED <<objective, since>> PROVE SinceInv'
    BY <2>1, <2>7 DEF Proceed, TypeOK, VerifierOK
  <2>8. ASSUME NEW h \in Handoff, ReadObjectives(v, h) PROVE SinceInv'
    BY <2>2, <2>7, <2>8 DEF ReadObjectives
  <2>9. ASSUME NEW h \in Handoff, MarkVerified(v, h) PROVE SinceInv'
    <3>1. UNCHANGED <<objective, since>> /\ (EndRun(v) \/ NextHandoff(v, h) \/ Proceed(v, "resolve"))
      BY <2>9 DEF MarkVerified
    <3> QED
      BY <2>2, <2>7, <3>1
  <2>10. ASSUME NEW h \in Handoff, ResolveCase(v, h) PROVE SinceInv'
    <3>1. UNCHANGED <<objective, since>> /\ (EndRun(v) \/ NextHandoff(v, h))
      BY <2>10 DEF ResolveCase
    <3> QED
      BY <2>2, <3>1
  <2>11. CASE AbortRun(v)
    BY <2>1a, <2>11 DEF AbortRun
  <2> QED
    BY <1>6, <2>3, <2>4, <2>5, <2>6, <2>8, <2>9, <2>10, <2>11 DEF Verify
<1> QED
  BY <1>2, <1>3, <1>4, <1>5, <1>6 DEF Next

(***************************************************************************)
(* For any number of verifiers and console requests that write over each   *)
(* other: an objective passes only on as many passes as it needs, recorded *)
(* since its last failure that nobody's older copy can write over          *)
(* (src/app/cases/verifier.py:193-219, src/app/cases/postgres.py:1265).    *)
(***************************************************************************)
THEOREM PassesFollowTheFailure == Spec => []PassedSinceFailure
<1>1. Init => SinceInv
  <2> SUFFICES ASSUME Init PROVE SinceInv
    OBVIOUS
  <2>1. \A o \in Objective : Covered(objective[o].count, o) /\ objective[o].status # "pass"
    BY DEF Init, Covered
  <2>2. \A r \in Request : console[r].pc # "read"
    BY DEF Init, RequestAt
  <2> QED
    BY <2>1, <2>2 DEF Init, SinceInv, PassedSinceFailure, Idle
<1>2. TypeOK /\ TypeOK' /\ SinceInv /\ [Next]_vars => SinceInv'
  BY SinceStep
<1>3. SinceInv => PassedSinceFailure
  BY DEF SinceInv
<1> QED
  BY <1>1, <1>2, <1>3, HandoffTypeCorrect, PTL DEF Spec

-----------------------------------------------------------------------------
(***************************************************************************)
(* The refinement: what a step does to phases and proven handoffs.         *)
(***************************************************************************)
phases == [h \in Handoff |-> Phase(handoff[h])]

provenHandoffs == {h \in Handoff : Proven(h)}

\* A handoff that moves changes the phase of no other.
LEMMA PhaseMoves ==
    ASSUME TypeOK, NEW h \in Handoff, NEW s, handoff' = [handoff EXCEPT ![h] = s]
    PROVE  /\ phases[h] = Phase(handoff[h])
           /\ phases' = [phases EXCEPT ![h] = Phase(s)]
           /\ Phase(handoff[h]) = Phase(s) => UNCHANGED phases
BY DEF phases, TypeOK, CaseOK

\* A step that leaves the recorded passes alone moves one handoff as the
\* protocol allows, or none.
LEMMA MoveIsAllowed ==
    ASSUME TypeOK, KnownInv, LockInv, EvidenceInv, [Next]_vars, handoff' # handoff
    PROVE  Protocol!Next \/ UNCHANGED phases
<1>1. UNCHANGED passes
  BY HandoffMoves
<1>2. UNCHANGED provenHandoffs
  BY <1>1 DEF provenHandoffs, Proven
<1>3. ASSUME NEW h \in Handoff, ~Requested(h), handoff' = [handoff EXCEPT ![h] = "requested"]
      PROVE  Protocol!Next
  <2>1. phases[h] = "none" /\ Phase("requested") = "open"
    BY <1>3 DEF phases, Requested, Phase, Stopped
  <2>2. phases[h] \in {"none"} /\ phases' = [phases EXCEPT ![h] = "open"]
    BY <1>3, <2>1, PhaseMoves
  <2>3. Protocol!Submit(h)
    BY <1>2, <2>2 DEF Protocol!Submit, Protocol!Move, phases, provenHandoffs
  <2> QED BY <2>3 DEF Protocol!Next
<1>4. ASSUME NEW h \in Handoff, NEW s \in HandoffStatus \ VerifierOnly, Moves(h, s)
      PROVE  Protocol!Next \/ UNCHANGED phases
  <2>1. handoff[h] \in HandoffStatus /\ AllowedTransition(handoff[h], s)
    BY <1>4 DEF Moves, Requested, TypeOK, CaseOK
  <2>2. /\ phases[h] = Phase(handoff[h])
        /\ phases' = [phases EXCEPT ![h] = Phase(s)]
        /\ Phase(handoff[h]) = Phase(s) => UNCHANGED phases
    BY <1>4, PhaseMoves DEF Moves
  <2>3. CASE Phase(s) = phases[h]
    BY <2>2, <2>3
  <2>4. CASE phases[h] = "open" /\ Phase(s) = "implemented"
    <3>1. Protocol!Implement(h)
      BY <1>2, <2>2, <2>4 DEF Protocol!Implement, Protocol!Move, phases, provenHandoffs
    <3> QED BY <3>1 DEF Protocol!Next
  <2>5. CASE phases[h] \in {"implemented", "verified"} /\ Phase(s) = "open"
    <3>1. Protocol!SendBack(h)
      BY <1>2, <2>2, <2>5 DEF Protocol!SendBack, Protocol!Move, phases, provenHandoffs
    <3> QED BY <3>1 DEF Protocol!Next
  <2>6. CASE phases[h] \in {"open", "implemented"} /\ Phase(s) = "off"
    <3>1. Protocol!CallOff(h)
      BY <1>2, <2>2, <2>6 DEF Protocol!CallOff, Protocol!Move, phases, provenHandoffs
    <3> QED BY <3>1 DEF Protocol!Next
  <2>7. \/ Phase(s) = phases[h]
        \/ phases[h] = "open" /\ Phase(s) = "implemented"
        \/ phases[h] \in {"implemented", "verified"} /\ Phase(s) = "open"
        \/ phases[h] \in {"open", "implemented"} /\ Phase(s) = "off"
    BY <2>1, <2>2, UpdatePhases
  <2> QED BY <2>3, <2>4, <2>5, <2>6, <2>7
<1>5. ASSUME NEW v \in Verifier, NEW h \in Handoff, VerifierAt(v, h, "mark"), Moves(h, "verified")
      PROVE  Protocol!Next \/ UNCHANGED phases
  <2>1. handoff[h] \in {"implemented", "verified"}
    BY <1>5, VerifiedFrom DEF Moves, Requested, TypeOK, CaseOK
  <2>2. Phase(handoff[h]) = handoff[h] /\ Phase("verified") = "verified"
    BY <2>1 DEF Phase, Stopped
  <2>3. /\ phases[h] = handoff[h]
        /\ phases' = [phases EXCEPT ![h] = "verified"]
        /\ handoff[h] = "verified" => UNCHANGED phases
    <3>1. handoff' = [handoff EXCEPT ![h] = "verified"]
      BY <1>5 DEF Moves
    <3>2. /\ phases[h] = Phase(handoff[h])
          /\ phases' = [phases EXCEPT ![h] = Phase("verified")]
          /\ Phase(handoff[h]) = Phase("verified") => UNCHANGED phases
      BY <3>1, PhaseMoves
    <3> QED BY <2>2, <3>2
  <2>4. h \in provenHandoffs
    BY <1>5 DEF EvidenceInv, VerifierAt, provenHandoffs
  <2>5. CASE handoff[h] = "implemented"
    <3>1. Protocol!Verify(h)
      BY <1>2, <2>3, <2>4, <2>5 DEF Protocol!Verify, Protocol!Move, phases, provenHandoffs
    <3> QED BY <3>1 DEF Protocol!Next
  <2> QED BY <2>1, <2>3, <2>5
<1>6. ASSUME NEW h \in Handoff, Moves(h, "resolved")
      PROVE  Protocol!Next \/ UNCHANGED phases
  <2>1. handoff[h] \in {"verified", "resolved"}
    BY <1>6, ResolvedFrom DEF Moves, Requested, TypeOK, CaseOK
  <2>2. Phase(handoff[h]) = handoff[h] /\ Phase("resolved") = "resolved"
    BY <2>1 DEF Phase, Stopped
  <2>3. /\ phases[h] = handoff[h]
        /\ phases' = [phases EXCEPT ![h] = "resolved"]
        /\ handoff[h] = "resolved" => UNCHANGED phases
    <3>1. handoff' = [handoff EXCEPT ![h] = "resolved"]
      BY <1>6 DEF Moves
    <3>2. /\ phases[h] = Phase(handoff[h])
          /\ phases' = [phases EXCEPT ![h] = Phase("resolved")]
          /\ Phase(handoff[h]) = Phase("resolved") => UNCHANGED phases
      BY <3>1, PhaseMoves
    <3> QED BY <2>2, <3>2
  <2>4. CASE handoff[h] = "verified"
    <3>1. Protocol!Resolve(h)
      BY <1>2, <2>3, <2>4 DEF Protocol!Resolve, Protocol!Move, phases, provenHandoffs
    <3> QED BY <3>1 DEF Protocol!Next
  <2> QED BY <2>1, <2>3, <2>4
<1> QED BY <1>3, <1>4, <1>5, <1>6, HandoffMoves

\* A recorded result proves one handoff, or none.
LEMMA RecordingProves ==
    ASSUME TypeOK, TypeOK', [Next]_vars, UNCHANGED handoff
    PROVE  Protocol!Next \/ UNCHANGED <<phases, provenHandoffs>>
<1>1. UNCHANGED phases
  BY DEF phases
<1>2. CASE UNCHANGED passes
  BY <1>1, <1>2 DEF provenHandoffs, Proven
<1>3. ASSUME NEW o \in Objective, NEW t, Records(o, t)
      PROVE  Protocol!Next \/ UNCHANGED provenHandoffs
  <2>1. HandoffOf[o] \in Handoff
    BY ObjectiveAssumption
  <2>2. \A p \in Objective \ {o} : passes'[p] = passes[p]
    BY <1>3 DEF Records, TypeOK, ObjectivesOK
  <2>3. \A h \in Handoff \ {HandoffOf[o]} : Proven(h)' <=> Proven(h)
    BY <2>2 DEF Proven
  <2>4. \A h \in Handoff : Proven(h) => Proven(h)'
    BY ProvenStays
  <2>5. CASE Proven(HandoffOf[o])'
    <3>1. provenHandoffs' = provenHandoffs \cup {HandoffOf[o]}
      BY <2>1, <2>3, <2>4, <2>5 DEF provenHandoffs
    <3>2. Protocol!Prove(HandoffOf[o])
      BY <1>1, <3>1 DEF Protocol!Prove, phases, provenHandoffs
    <3> QED BY <2>1, <3>2 DEF Protocol!Next
  <2>6. CASE ~Proven(HandoffOf[o])'
    BY <2>1, <2>3, <2>4, <2>6 DEF provenHandoffs
  <2> QED BY <2>5, <2>6
<1> QED BY <1>1, <1>2, <1>3, PassesWritten

(***************************************************************************)
(* Every handoff lives as the protocol says: verified only when            *)
(* implemented and proven, resolved only when verified, and over for good. *)
(***************************************************************************)
THEOREM KeepsLifecycle == Spec => Lifecycle
<1>1. Init => Protocol!Init
  <2> SUFFICES ASSUME Init PROVE Protocol!Init
    OBVIOUS
  <2>1. phases = [h \in Handoff |-> "none"]
    <3>1. \A h \in Handoff : handoff[h] = "none"
      BY DEF Init
    <3>2. Phase("none") = "none"
      BY DEF Phase, Stopped
    <3> QED BY <3>1, <3>2 DEF phases
  <2> QED BY <2>1 DEF Protocol!Init, phases
<1>2. ASSUME TypeOK, TypeOK', KnownInv, LockInv, EvidenceInv, [Next]_vars
      PROVE  Protocol!Next \/ UNCHANGED <<phases, provenHandoffs>>
  <2>1. CASE UNCHANGED handoff
    BY <1>2, <2>1, RecordingProves
  <2>2. CASE handoff' # handoff
    <3>1. UNCHANGED provenHandoffs
      BY <1>2, <2>2, HandoffMoves DEF provenHandoffs, Proven
    <3> QED BY <1>2, <2>2, <3>1, MoveIsAllowed
  <2> QED BY <2>1, <2>2
<1>3. TypeOK /\ TypeOK' /\ KnownInv /\ LockInv /\ EvidenceInv /\ [Next]_vars
        => [Protocol!Next]_<<phases, provenHandoffs>>
  BY <1>2
<1>4. <<phases, provenHandoffs>> = <<[h \in Handoff |-> Phase(handoff[h])], {h \in Handoff : Proven(h)}>>
  BY DEF phases, provenHandoffs
<1> QED
  BY <1>1, <1>3, HandoffTypeCorrect, LocksAndHandoffs, EvidenceHolds, PTL
     DEF Spec, Lifecycle, Protocol!Spec, phases, provenHandoffs
===============================================================================
