------------------------- MODULE ProactiveLoopProofs -------------------------
(***************************************************************************)
(* Proofs about ProactiveLoop: types, the daily budget, and what is        *)
(* carried from one cycle to the next.                                     *)
(***************************************************************************)
EXTENDS ProactiveLoop, TLAPS

\* The lock file lets one cycle run at a time.
CycleInv ==
    /\ \A c, e \in Caller : ~At(c, "idle") /\ ~At(e, "idle") => c = e
    /\ \A c \in Caller : ~At(c, "idle") => lock = "held"

\* What a running cycle may still spend is left on its day's ledger, and an
\* attempt whose case is not claimed yet is recorded and not paid.
BudgetInv ==
    /\ \A d \in Day : paid[d] <= ledger[d].attempts /\ ledger[d].attempts <= PerDay
    /\ \A c \in Caller :
          ~At(c, "idle") => ledger[cycle[c].day].attempts + cycle[c].slots <= PerDay
    /\ \A c \in Caller : At(c, "claim") => paid[cycle[c].day] < ledger[cycle[c].day].attempts

Inv == TypeOK /\ CycleInv /\ BudgetInv /\ CarriedIsKept

\* An idle cycle is a cycle.
LEMMA IdleIsCycle == IdleCycle \in Cycle
  BY LimitAssumption DEF IdleCycle, Cycle, CycleStep, Day

\* A caller moving to another record keeps cycle a function into records.
LEMMA EnterTyped ==
    ASSUME TypeOK, NEW c \in Caller, NEW r \in Cycle, Enter(c, r)
    PROVE  cycle' \in [Caller -> Cycle]
  BY DEF TypeOK, Enter

\* The steps of a cycle keep the types; that a refund leaves a natural number
\* is due to BudgetInv.
LEMMA ProceedTyped ==
    ASSUME TypeOK, BudgetInv, NEW c \in Caller, Proceed(c)
    PROVE  TypeOK'
<1> DEFINE r == cycle[c]
<1>r. r \in Cycle
  BY DEF TypeOK
<1>1. CASE Scan(c)
  <2>1. Scanned(c) \subseteq Hotspot
    BY <1>1 DEF TypeOK, Scanned
  <2>2. \A found \in SUBSET Scanned(c) :
            /\ [r EXCEPT !.pc = "observe", !.raw = found] \in Cycle
            /\ [r EXCEPT !.pc = "observe", !.raw = found, !.degraded = TRUE] \in Cycle
    BY <1>r, <2>1 DEF Cycle, CycleStep
  <2>3. cycle' \in [Caller -> Cycle]
    BY <1>1, <2>2, EnterTyped DEF Scan
  <2>4. events' \in Nat
    <3>1. UNCHANGED events \/ Event("degraded") \/ Event("rule")
      BY <1>1, Zenon DEF Scan
    <3> QED
      BY <3>1 DEF Event, TypeOK
  <2> QED
    BY <1>1, <2>3, <2>4 DEF Scan, TypeOK, outside, files, memory
<1>2. CASE Merge(c)
  <2>1. Merged(r) \subseteq Hotspot /\ r.raw \subseteq Hotspot
    BY <1>r DEF Merged, TypeOK, Cycle
  <2>2. [r EXCEPT !.pc = "suppress", !.effective = Merged(r)] \in Cycle
    BY <1>r, <2>1 DEF Cycle, CycleStep
  <2>3. cycle' \in [Caller -> Cycle]
    BY <1>2, <2>2, EnterTyped DEF Merge
  <2> QED
    BY <1>2, <2>1, <2>3 DEF Merge, TypeOK, outside, files
<1>3. CASE ApplySuppressions(c)
  <2>1. [r EXCEPT !.pc = "select", !.hotspots = {h \in r.effective : acks[h] = "none"}] \in Cycle
    BY <1>r DEF Cycle, CycleStep
  <2>2. cycle' \in [Caller -> Cycle]
    BY <1>3, <2>1, EnterTyped DEF ApplySuppressions
  <2>3. acks' \in [Hotspot -> {"none", "timed", "untimed"}]
    BY <1>3 DEF ApplySuppressions, PrunedAcks, TypeOK
  <2> QED
    BY <1>3, <2>2, <2>3 DEF ApplySuppressions, TypeOK, outside, memory
<1>4. CASE SelectFresh(c)
  <2>1. \A f \in SUBSET Hotspot : [r EXCEPT !.pc = "investigate", !.fresh = f] \in Cycle
    BY <1>r DEF Cycle, CycleStep
  <2>2. r.hotspots \subseteq Hotspot
    BY <1>r DEF Cycle
  <2>3. cycle' \in [Caller -> Cycle]
    BY <1>4, <2>1, <2>2, EnterTyped DEF SelectFresh
  <2>4. events' \in Nat
    BY <1>4 DEF SelectFresh, Event, TypeOK
  <2> QED
    BY <1>4, <2>3, <2>4 DEF SelectFresh, TypeOK, outside, files, memory
<1>5. CASE \E h \in Hotspot : ReserveAttempt(c, h)
  <2>1. PICK h \in Hotspot : ReserveAttempt(c, h)
    BY <1>5
  <2>2. [r EXCEPT !.pc = "claim", !.slots = @ - 1, !.fresh = @ \ {h}, !.target = {h}] \in Cycle
    <3>1. r.slots \in Nat /\ r.slots > 0
      BY <1>r, <2>1 DEF ReserveAttempt, Cycle
    <3>2. r.slots - 1 \in Nat
      BY <3>1
    <3> QED
      BY <1>r, <3>2 DEF Cycle, CycleStep
  <2>3. cycle' \in [Caller -> Cycle]
    BY <2>1, <2>2, EnterTyped DEF ReserveAttempt
  <2>4. ledger' \in [Day -> [attempts : Nat, cost : Nat]]
    BY <1>r, <2>1 DEF ReserveAttempt, Charge, TypeOK, Cycle
  <2> QED
    BY <2>1, <2>3, <2>4 DEF ReserveAttempt, TypeOK, outside, memory
<1>6. CASE ClaimCase(c)
  <2>1. /\ [r EXCEPT !.pc = "investigate", !.target = {}] \in Cycle
        /\ [r EXCEPT !.pc = "graph"] \in Cycle
        /\ [r EXCEPT !.pc = "investigate", !.target = {}, !.done = @ \cup r.target] \in Cycle
    BY <1>r DEF Cycle, CycleStep
  <2>2. cycle' \in [Caller -> Cycle]
    BY <1>6, <2>1, EnterTyped DEF ClaimCase
  <2>3. r.day \in Day /\ r.target \subseteq Hotspot
    BY <1>r DEF Cycle
  <2>4. claimed' \subseteq Hotspot
    BY <1>6, <2>3 DEF ClaimCase, TypeOK
  <2>5. paid' \in [Day -> Nat]
    BY <1>6, <2>3 DEF ClaimCase, TypeOK
  <2>6. events' \in Nat
    <3>1. UNCHANGED events \/ Event("fault")
      BY <1>6, Zenon DEF ClaimCase
    <3> QED
      BY <3>1 DEF Event, TypeOK
  <2>7. ledger' \in [Day -> [attempts : Nat, cost : Nat]]
    <3>1. UNCHANGED ledger \/ ledger' = Refund(r.day)
      BY <1>6, Zenon DEF ClaimCase
    <3>2. ledger[r.day].attempts \in Nat /\ ledger[r.day].attempts > 0
      BY <1>6, <2>3 DEF ClaimCase, BudgetInv, TypeOK
    <3>3. ledger[r.day].attempts - 1 \in Nat
      BY <3>2
    <3> QED
      BY <3>1, <3>3, <2>3 DEF Refund, TypeOK
  <2> QED
    BY <1>6, <2>2, <2>4, <2>5, <2>6, <2>7 DEF ClaimCase, TypeOK, memory
<1>7. CASE GraphEnds(c)
  <2>1. \A price \in {0, 1} :
            [r EXCEPT !.pc = "investigate", !.target = {}, !.done = @ \cup r.target, !.cost = @ + price]
                \in Cycle
    <3>1. r.cost \in Nat /\ r.cost + 0 \in Nat /\ r.cost + 1 \in Nat
      BY <1>r DEF Cycle
    <3> QED
      BY <1>r, <3>1 DEF Cycle, CycleStep
  <2>2. cycle' \in [Caller -> Cycle]
    BY <1>7, <2>1, EnterTyped DEF GraphEnds
  <2> QED
    BY <1>7, <2>2 DEF GraphEnds, TypeOK, outside, files, memory
<1>8. CASE CloseCycle(c)
  <2>1. \A step \in {"post", "finish"} : [r EXCEPT !.pc = step] \in Cycle
    BY <1>r DEF Cycle, CycleStep
  <2>2. cycle' \in [Caller -> Cycle]
    BY <1>8, <2>1, EnterTyped DEF CloseCycle
  <2>3. r.day \in Day /\ r.done \subseteq Hotspot /\ r.cost \in Nat
    BY <1>r DEF Cycle
  <2>4. ledger' \in [Day -> [attempts : Nat, cost : Nat]]
    BY <1>8, <2>3 DEF CloseCycle, TypeOK
  <2>5. deepDue' \in BOOLEAN
    BY <1>8, Zenon DEF CloseCycle
  <2>6. cooled' \subseteq Hotspot
    BY <1>8, <2>3 DEF CloseCycle, TypeOK
  <2> QED
    BY <1>8, <2>2, <2>4, <2>5, <2>6 DEF CloseCycle, TypeOK, outside
<1>9. CASE PostDigest(c)
  <2>1. [r EXCEPT !.pc = "finish"] \in Cycle /\ r.hotspots \subseteq Hotspot
    BY <1>r DEF Cycle, CycleStep
  <2>2. cycle' \in [Caller -> Cycle]
    BY <1>9, <2>1, EnterTyped DEF PostDigest
  <2>3. forgot' \in BOOLEAN /\ stale' \in BOOLEAN
    BY <1>9, Zenon DEF PostDigest, TypeOK
  <2>4. board' \subseteq Hotspot /\ signature' \subseteq Hotspot
    BY <1>9, <2>1 DEF PostDigest, TypeOK
  <2>5. events' \in Nat
    <3>1. UNCHANGED events \/ Event("send")
      BY <1>9, Zenon DEF PostDigest
    <3> QED
      BY <3>1 DEF Event, TypeOK
  <2> QED
    BY <1>9, <2>2, <2>3, <2>4, <2>5 DEF PostDigest, TypeOK, files
<1>10. CASE FinishCycle(c)
  <2>1. cycle' \in [Caller -> Cycle]
    BY <1>10, IdleIsCycle, EnterTyped DEF FinishCycle, EndCycle
  <2> QED
    BY <1>10, <2>1 DEF FinishCycle, EndCycle, TypeOK, LockState, outside, memory
<1> QED
  BY <1>1, <1>2, <1>3, <1>4, <1>5, <1>6, <1>7, <1>8, <1>9, <1>10 DEF Proceed

\* The other steps keep the types.
LEMMA OthersTyped ==
    ASSUME TypeOK, Next, \A c \in Caller : ~Proceed(c)
    PROVE  TypeOK'
<1>1. CASE \E c \in Caller : StartCycle(c)
  <2>1. PICK c \in Caller : StartCycle(c)
    BY <1>1
  <2>2. Allowance(day) \in Nat
    BY LimitAssumption DEF Allowance, SmallerOf, TypeOK
  <2>3. [IdleCycle EXCEPT !.pc = "scan", !.deep = deepDue, !.day = day, !.slots = Allowance(day)] \in Cycle
    BY <2>2, IdleIsCycle DEF Cycle, CycleStep, TypeOK
  <2>4. cycle' \in [Caller -> Cycle]
    BY <2>1, <2>3, EnterTyped DEF StartCycle
  <2> QED
    BY <2>1, <2>4 DEF StartCycle, TypeOK, LockState, outside, memory
<1>2. CASE \E c \in Caller : FailCycle(c)
  <2>1. PICK c \in Caller : FailCycle(c)
    BY <1>2
  <2>2. cycle' \in [Caller -> Cycle]
    BY <2>1, IdleIsCycle, EnterTyped DEF FailCycle, EndCycle
  <2> QED
    BY <2>1, <2>2 DEF FailCycle, EndCycle, Event, TypeOK, LockState, outside, memory
<1>3. CASE Restart
  <2>1. cycle["loop"].target \subseteq Hotspot
    BY CallerAssumption DEF TypeOK, Cycle
  <2>2. cooled' \subseteq Hotspot
    BY <1>3, <2>1 DEF Restart, TypeOK
  <2>3. cycle' \in [Caller -> Cycle]
    BY <1>3, IdleIsCycle DEF Restart, FreshMemory
  <2>4. lock' \in LockState /\ events' \in Nat
    BY <1>3 DEF Restart, Event, TypeOK, LockState
  <2>5. /\ carriedDeep' = {} /\ lastEffective' = {} /\ signature' = {}
        /\ stale' \in BOOLEAN /\ deepDue' \in BOOLEAN /\ paused' \in BOOLEAN /\ forgot' \in BOOLEAN
    BY <1>3, Zenon DEF Restart, FreshMemory
  <2>6. UNCHANGED <<outside, ledger, acks, paid>>
    BY <1>3, Zenon DEF Restart
  <2> QED
    BY <2>2, <2>3, <2>4, <2>5, <2>6 DEF TypeOK, outside
<1>4. CASE Crash
  <2>1. cycle' \in [Caller -> Cycle]
    BY <1>4, IdleIsCycle DEF Crash, FreshMemory
  <2>2. lock' \in LockState
    BY <1>4 DEF Crash, LeftBehind, TypeOK, LockState
  <2>4. events' \in Nat
    BY <1>4 DEF Crash, Event, TypeOK
  <2>5. /\ carriedDeep' = {} /\ lastEffective' = {} /\ signature' = {}
        /\ stale' \in BOOLEAN /\ deepDue' \in BOOLEAN /\ paused' \in BOOLEAN /\ forgot' \in BOOLEAN
    BY <1>4, Zenon DEF Crash, FreshMemory
  <2>6. UNCHANGED <<outside, ledger, acks, cooled, paid>>
    BY <1>4, Zenon DEF Crash
  <2> QED
    BY <2>1, <2>2, <2>4, <2>5, <2>6 DEF TypeOK, outside
<1>5. CASE SetPaused
  BY <1>5 DEF SetPaused, Event, TypeOK, outside, files
<1>6. CASE \E h \in Hotspot : ConditionChanges(h) \/ ClaimedElsewhere(h)
  BY <1>6 DEF ConditionChanges, ClaimedElsewhere, Event, TypeOK, files, memory
<1>7. CASE \E h \in Hotspot : Ack(h) \/ Unack(h)
  BY <1>7 DEF Ack, Unack, Event, TypeOK, outside, memory
<1>8. CASE \E h \in Hotspot : AckExpires(h) \/ CooldownEnds(h)
  BY <1>8 DEF AckExpires, CooldownEnds, TypeOK, outside, memory
<1>9. CASE Midnight
  BY <1>9, LimitAssumption DEF Midnight, TypeOK, Day, files, memory
<1>10. CASE DeepScanDue \/ ReassertDue \/ LockAges
  BY <1>10 DEF DeepScanDue, ReassertDue, LockAges, TypeOK, LockState, outside, files, memory
<1> QED
  BY <1>1, <1>2, <1>3, <1>4, <1>5, <1>6, <1>7, <1>8, <1>9, <1>10 DEF Next, TimePasses

\* A step of a running cycle that spends nothing.
LEMMA NothingSpent ==
    ASSUME Inv, NEW c \in Caller, NEW r \in Cycle, Enter(c, r), ~At(c, "idle"),
           r.pc \notin {"idle", "claim"}, r.day = cycle[c].day, r.slots = cycle[c].slots,
           lock' = lock, paid' = paid, TypeOK',
           \A d \in Day : ledger'[d].attempts = ledger[d].attempts
    PROVE  CycleInv' /\ BudgetInv'
<1>1. cycle' = [cycle EXCEPT ![c] = r] /\ cycle \in [Caller -> Cycle]
  BY DEF Enter, Inv, TypeOK
<1>2. \A e \in Caller : cycle'[e] = IF e = c THEN r ELSE cycle[e]
  BY <1>1
<1>3. \A e \in Caller : cycle[e].day \in Day /\ cycle[e].day = cycle'[e].day
                        /\ cycle'[e].slots = cycle[e].slots
  BY <1>1, <1>2 DEF Cycle
<1>4. \A e \in Caller : (cycle'[e].pc # "idle") <=> (cycle[e].pc # "idle")
  BY <1>2 DEF At
<1>5. \A e \in Caller : cycle'[e].pc = "claim" => cycle[e].pc = "claim"
  BY <1>2
<1>6. CycleInv'
  BY <1>4 DEF CycleInv, Inv, At
<1>7. BudgetInv'
  BY <1>3, <1>4, <1>5 DEF BudgetInv, Inv, At
<1> QED
  BY <1>6, <1>7

\* A step in which no cycle runs or moves spends nothing either.
LEMMA Bystander ==
    ASSUME Inv, cycle' = cycle, ledger' = ledger, paid' = paid,
           lock' = lock \/ \A c \in Caller : At(c, "idle")
    PROVE  CycleInv' /\ BudgetInv'
  BY DEF Inv, CycleInv, BudgetInv, At

\* A cycle that ends, or a process that starts afresh, leaves nothing to spend.
LEMMA Ended ==
    ASSUME Inv, ledger' = ledger, paid' = paid, NEW S \in SUBSET Caller,
           cycle' = [c \in Caller |-> IF c \in S THEN IdleCycle ELSE cycle[c]],
           \A c \in Caller \ S : At(c, "idle")
    PROVE  CycleInv' /\ BudgetInv'
<1>1. \A c \in Caller : cycle'[c].pc = "idle"
  BY DEF IdleCycle, At
<1> QED
  BY <1>1 DEF Inv, CycleInv, BudgetInv, At

\* The steps of a cycle keep to the budget.
LEMMA ProceedInBudget ==
    ASSUME Inv, NEW c \in Caller, Proceed(c), TypeOK'
    PROVE  CycleInv' /\ BudgetInv'
<1> DEFINE r == cycle[c]
<1>r. r \in Cycle /\ r.day \in Day /\ r.slots \in Nat
  BY DEF Inv, TypeOK, Cycle
<1>n. cycle'[c] \in Cycle
  BY DEF TypeOK
<1>c. cycle \in [Caller -> Cycle]
  BY DEF Inv, TypeOK
<1>1. CASE Scan(c) \/ Merge(c) \/ ApplySuppressions(c) \/ SelectFresh(c) \/ GraphEnds(c) \/ CloseCycle(c)
           \/ PostDigest(c)
  <2>1. ~At(c, "idle")
    BY <1>1 DEF Scan, Merge, ApplySuppressions, SelectFresh, GraphEnds, CloseCycle, PostDigest, At
  <2>2. lock' = lock /\ paid' = paid
    BY <1>1, Zenon DEF Scan, Merge, ApplySuppressions, SelectFresh, GraphEnds, CloseCycle, PostDigest,
                       files, outside
  <2>3. \A d \in Day : ledger'[d].attempts = ledger[d].attempts
    <3>1. CASE CloseCycle(c)
      BY <3>1, <1>r DEF CloseCycle, Inv, TypeOK
    <3>2. CASE ~CloseCycle(c)
      <4>1. ledger' = ledger
        BY <1>1, <3>2, Zenon DEF Scan, Merge, ApplySuppressions, SelectFresh, GraphEnds, PostDigest, files
      <4> QED
        BY <4>1
    <3> QED
      BY <3>1, <3>2
  <2>4. PICK n \in Cycle : /\ Enter(c, n)
                           /\ n.pc \notin {"idle", "claim"} /\ n.day = r.day /\ n.slots = r.slots
    <3>1. CASE Scan(c)
      <4>1. \E found \in SUBSET Hotspot :
               \/ cycle' = [cycle EXCEPT ![c] = [r EXCEPT !.pc = "observe", !.raw = found]]
               \/ cycle' = [cycle EXCEPT ![c] = [r EXCEPT !.pc = "observe", !.raw = found, !.degraded = TRUE]]
        BY <3>1 DEF Scan, Enter, Scanned, Inv, TypeOK
      <4>2. PICK found \in SUBSET Hotspot :
               \/ cycle' = [cycle EXCEPT ![c] = [r EXCEPT !.pc = "observe", !.raw = found]]
               \/ cycle' = [cycle EXCEPT ![c] = [r EXCEPT !.pc = "observe", !.raw = found, !.degraded = TRUE]]
        BY <4>1
      <4>3. CASE cycle' = [cycle EXCEPT ![c] = [r EXCEPT !.pc = "observe", !.raw = found]]
        BY <4>3, <1>r, <1>n, <1>c DEF Enter, Cycle
      <4>4. CASE cycle' = [cycle EXCEPT ![c] = [r EXCEPT !.pc = "observe", !.raw = found, !.degraded = TRUE]]
        BY <4>4, <1>r, <1>n, <1>c DEF Enter, Cycle
      <4> QED
        BY <4>2, <4>3, <4>4
    <3>2. CASE Merge(c)
      BY <3>2, <1>r, <1>n, <1>c DEF Merge, Enter, Cycle
    <3>3. CASE ApplySuppressions(c)
      BY <3>3, <1>r, <1>n, <1>c DEF ApplySuppressions, Enter, Cycle
    <3>4. CASE SelectFresh(c)
      <4>1. \E fresh : cycle' = [cycle EXCEPT ![c] = [r EXCEPT !.pc = "investigate", !.fresh = fresh]]
        BY <3>4, Zenon DEF SelectFresh, Enter
      <4>2. PICK fresh : cycle' = [cycle EXCEPT ![c] = [r EXCEPT !.pc = "investigate", !.fresh = fresh]]
        BY <4>1
      <4> QED
        BY <4>2, <1>r, <1>n, <1>c DEF Enter, Cycle
    <3>5. CASE GraphEnds(c)
      <4>1. PICK price \in {0, 1} :
               cycle' = [cycle EXCEPT ![c] = [r EXCEPT !.pc = "investigate", !.target = {},
                                                       !.done = @ \cup r.target, !.cost = @ + price]]
        BY <3>5, Zenon DEF GraphEnds, Enter
      <4> QED
        BY <4>1, <1>r, <1>n, <1>c DEF Enter, Cycle
    <3>6. CASE CloseCycle(c)
      BY <3>6, <1>r, <1>n, <1>c DEF CloseCycle, Enter, Cycle
    <3>7. CASE PostDigest(c)
      BY <3>7, <1>r, <1>n, <1>c DEF PostDigest, Enter, Cycle
    <3> QED
      BY <1>1, <3>1, <3>2, <3>3, <3>4, <3>5, <3>6, <3>7
  <2> QED
    BY <2>1, <2>2, <2>3, <2>4, NothingSpent
<1>2. CASE \E h \in Hotspot : ReserveAttempt(c, h)
  <2>1. PICK h \in Hotspot : ReserveAttempt(c, h)
    BY <1>2
  <2>2. /\ cycle' = [cycle EXCEPT ![c] = [r EXCEPT !.pc = "claim", !.slots = @ - 1, !.fresh = @ \ {h}, !.target = {h}]]
        /\ lock' = lock /\ paid' = paid /\ ledger' = Charge(r.day, 1)
        /\ r.pc = "investigate" /\ r.slots > 0
    BY <2>1, Zenon DEF ReserveAttempt, Enter, outside, At
  <2>3. /\ cycle'[c].pc = "claim" /\ cycle'[c].day = r.day /\ cycle'[c].slots = r.slots - 1
        /\ \A e \in Caller \ {c} : cycle'[e] = cycle[e]
    BY <2>2, <1>r, <1>c DEF Cycle
  <2>4. \A e \in Caller \ {c} : cycle[e].pc = "idle"
    BY <2>2 DEF Inv, CycleInv, At
  <2>5. \A d \in Day : ledger'[d].attempts = IF d = r.day THEN ledger[d].attempts + 1 ELSE ledger[d].attempts
    BY <2>2, <1>r DEF Charge, Inv, TypeOK
  <2>6. \A d \in Day : ledger[d].attempts \in Nat /\ paid[d] \in Nat
    BY DEF Inv, TypeOK
  <2>7. CycleInv'
    BY <2>2, <2>3, <2>4 DEF Inv, CycleInv, At
  <2>8. ledger[r.day].attempts + r.slots <= PerDay
    BY <2>2 DEF Inv, BudgetInv, At
  <2>9. BudgetInv'
    BY <1>r, <2>2, <2>3, <2>4, <2>5, <2>6, <2>8, LimitAssumption DEF Inv, BudgetInv, At
  <2> QED
    BY <2>7, <2>9
<1>3. CASE ClaimCase(c)
  <2>0. r.pc = "claim" /\ lock' = lock
    BY <1>3, Zenon DEF ClaimCase, At
  <2>1. \A e \in Caller \ {c} : cycle[e].pc = "idle"
    BY <2>0 DEF Inv, CycleInv, At
  <2>2. /\ cycle'[c].pc \in {"investigate", "graph"} /\ cycle'[c].day = r.day /\ cycle'[c].slots = r.slots
        /\ \A e \in Caller \ {c} : cycle'[e] = cycle[e]
    BY <1>3, <1>r, <1>c DEF ClaimCase, Enter, Cycle
  <2>3. \/ paid' = paid /\ ledger' = ledger
        \/ paid' = paid /\ ledger' = Refund(r.day)
        \/ ledger' = ledger /\ paid' = [paid EXCEPT ![r.day] = @ + 1]
    BY <1>3, Zenon DEF ClaimCase
  <2>4. \A d \in Day : ledger[d].attempts \in Nat /\ paid[d] \in Nat
    BY DEF Inv, TypeOK
  <2>5. CycleInv'
    BY <2>0, <2>1, <2>2 DEF Inv, CycleInv, At
  <2>6. /\ paid[r.day] < ledger[r.day].attempts
        /\ ledger[r.day].attempts + r.slots <= PerDay
    BY <2>0 DEF Inv, BudgetInv, At
  <2>7. /\ \A d \in Day : paid'[d] <= ledger'[d].attempts /\ ledger'[d].attempts <= PerDay
        /\ ledger'[r.day].attempts + r.slots <= PerDay
    <3>1. \A d \in Day : paid[d] <= ledger[d].attempts /\ ledger[d].attempts <= PerDay
      BY DEF Inv, BudgetInv
    <3>2. CASE paid' = paid /\ ledger' = ledger
      BY <3>1, <3>2, <2>6
    <3>3. CASE paid' = paid /\ ledger' = Refund(r.day)
      <4>1. \A d \in Day : ledger'[d].attempts = IF d = r.day THEN ledger[d].attempts - 1 ELSE ledger[d].attempts
        BY <3>3, <1>r DEF Refund, Inv, TypeOK
      <4> QED
        BY <3>1, <3>3, <4>1, <2>4, <2>6, <1>r, LimitAssumption
    <3>4. CASE ledger' = ledger /\ paid' = [paid EXCEPT ![r.day] = @ + 1]
      <4>1. \A d \in Day : paid'[d] = IF d = r.day THEN paid[d] + 1 ELSE paid[d]
        BY <3>4, <1>r DEF Inv, TypeOK
      <4> QED
        BY <3>1, <3>4, <4>1, <2>4, <2>6, <1>r
    <3> QED
      BY <2>3, <3>2, <3>3, <3>4
  <2>8. BudgetInv'
    BY <2>1, <2>2, <2>7 DEF BudgetInv, At
  <2> QED
    BY <2>5, <2>8
<1>4. CASE FinishCycle(c)
  <2>1. /\ cycle' = [cycle EXCEPT ![c] = IdleCycle] /\ ledger' = ledger /\ paid' = paid
        /\ r.pc = "finish"
    BY <1>4, Zenon DEF FinishCycle, EndCycle, Enter, At
  <2>2. \A e \in Caller \ {c} : At(e, "idle")
    BY <2>1 DEF Inv, CycleInv, At
  <2>3. cycle' = [e \in Caller |-> IF e \in {c} THEN IdleCycle ELSE cycle[e]]
    BY <2>1, <1>c
  <2> QED
    BY <2>1, <2>2, <2>3, Ended
<1> QED
  BY <1>1, <1>2, <1>3, <1>4 DEF Proceed

\* The other steps keep to the budget; a cycle starts with what the day's ledger
\* leaves, when no other runs.
LEMMA OthersInBudget ==
    ASSUME Inv, Next, \A c \in Caller : ~Proceed(c)
    PROVE  CycleInv' /\ BudgetInv'
<1>c. cycle \in [Caller -> Cycle]
  BY DEF Inv, TypeOK
<1>1. CASE \E c \in Caller : StartCycle(c)
  <2>1. PICK c \in Caller : StartCycle(c)
    BY <1>1
  <2>2. /\ cycle' = [cycle EXCEPT ![c] = [IdleCycle EXCEPT !.pc = "scan", !.deep = deepDue, !.day = day,
                                                          !.slots = Allowance(day)]]
        /\ lock' = "held" /\ lock \in {"free", "orphan"} /\ ledger' = ledger /\ paid' = paid
    BY <2>1, Zenon DEF StartCycle, Takeable, Enter
  <2>3. \A e \in Caller : cycle[e].pc = "idle"
    BY <2>2 DEF Inv, CycleInv, At
  <2>4. /\ cycle'[c].pc = "scan" /\ cycle'[c].day = day /\ cycle'[c].slots = Allowance(day)
        /\ \A e \in Caller \ {c} : cycle'[e] = cycle[e]
    BY <2>2, <1>c, IdleIsCycle DEF Cycle, IdleCycle
  <2>5. CycleInv'
    BY <2>2, <2>3, <2>4 DEF CycleInv, At
  <2>6. ledger[day].attempts + Allowance(day) <= PerDay
    <3>1. ledger[day].attempts \in Nat /\ ledger[day].attempts <= PerDay
      BY DEF Inv, TypeOK, BudgetInv
    <3> QED
      BY <3>1, LimitAssumption DEF Allowance, SmallerOf
  <2>7. BudgetInv'
    BY <2>2, <2>3, <2>4, <2>6 DEF Inv, BudgetInv, At
  <2> QED
    BY <2>5, <2>7
<1>2. CASE \E c \in Caller : FailCycle(c)
  <2>1. PICK c \in Caller : FailCycle(c)
    BY <1>2
  <2>2. /\ cycle' = [cycle EXCEPT ![c] = IdleCycle] /\ ledger' = ledger /\ paid' = paid
        /\ cycle[c].pc # "idle"
    BY <2>1 DEF FailCycle, EndCycle, Enter, At
  <2>3. \A e \in Caller \ {c} : At(e, "idle")
    BY <2>2 DEF Inv, CycleInv, At
  <2>4. cycle' = [e \in Caller |-> IF e \in {c} THEN IdleCycle ELSE cycle[e]]
    BY <2>2, <1>c
  <2> QED
    BY <2>2, <2>3, <2>4, Ended
<1>3. CASE Restart \/ Crash
  <2>1. /\ cycle' = [c \in Caller |-> IF c \in Caller THEN IdleCycle ELSE cycle[c]]
        /\ ledger' = ledger /\ paid' = paid
    BY <1>3 DEF Restart, Crash, FreshMemory
  <2> QED
    BY <2>1, Ended
<1>4. CASE LockAges
  <2>1. \A c \in Caller : At(c, "idle")
    BY <1>4 DEF LockAges, Inv, CycleInv
  <2> QED
    BY <1>4, <2>1, Bystander DEF LockAges
<1>5. CASE SetPaused \/ Midnight \/ DeepScanDue \/ ReassertDue
  BY <1>5, Bystander DEF SetPaused, Midnight, DeepScanDue, ReassertDue, files
<1>6. CASE \E h \in Hotspot : \/ ConditionChanges(h) \/ ClaimedElsewhere(h) \/ Ack(h) \/ Unack(h)
                             \/ AckExpires(h) \/ CooldownEnds(h)
  BY <1>6, Bystander DEF ConditionChanges, ClaimedElsewhere, Ack, Unack, AckExpires, CooldownEnds, files
<1> QED
  BY <1>1, <1>2, <1>3, <1>4, <1>5, <1>6 DEF Next, TimePasses

\* Carried hotspots stay in force: only merging and a new process change them.
LEMMA CarriedStep ==
    ASSUME Inv, Next
    PROVE  CarriedIsKept'
<1>1. CASE \E c \in Caller : Merge(c)
  <2>1. PICK c \in Caller : Merge(c)
    BY <1>1
  <2> QED
    BY <2>1 DEF Merge, Merged, Inv, CarriedIsKept
<1>2. CASE Restart \/ Crash
  BY <1>2 DEF Restart, Crash, FreshMemory, CarriedIsKept
<1>3. CASE ~(\E c \in Caller : Merge(c)) /\ ~Restart /\ ~Crash
  <2>1. carriedDeep' = carriedDeep /\ lastEffective' = lastEffective
    BY <1>3, Zenon
       DEF Next, Proceed, TimePasses, StartCycle, Scan, ApplySuppressions, SelectFresh, ReserveAttempt,
           ClaimCase, GraphEnds, CloseCycle, PostDigest, FinishCycle, FailCycle, EndCycle, SetPaused,
           ConditionChanges, ClaimedElsewhere, Ack, Unack, AckExpires, CooldownEnds, Midnight,
           DeepScanDue, ReassertDue, LockAges, memory
  <2> QED
    BY <2>1 DEF Inv, CarriedIsKept
<1> QED
  BY <1>1, <1>2, <1>3

\* The invariant of the loop: its types, one cycle at a time, the budget with what
\* the running cycle may still spend, and what is carried.
THEOREM LoopInvariant == Spec => []Inv
<1>1. Init => Inv
  <2> SUFFICES ASSUME Init PROVE Inv
    OBVIOUS
  <2>1. 1 \in Day
    BY LimitAssumption DEF Day
  <2>2. TypeOK
    BY <2>1, IdleIsCycle DEF Init, TypeOK, LockState
  <2>3. \A c \in Caller : cycle[c].pc = "idle"
    BY DEF Init, IdleCycle
  <2>4. CycleInv /\ CarriedIsKept
    BY <2>3 DEF Init, CycleInv, CarriedIsKept, At
  <2>5. BudgetInv
    BY <2>3, LimitAssumption DEF Init, BudgetInv, At
  <2> QED
    BY <2>2, <2>4, <2>5 DEF Inv
<1>2. Inv /\ [Next]_vars => Inv'
  <2> SUFFICES ASSUME Inv, [Next]_vars PROVE Inv'
    OBVIOUS
  <2>1. CASE Next
    <3>1. CASE \E c \in Caller : Proceed(c)
      <4>1. PICK c \in Caller : Proceed(c)
        BY <3>1
      <4>2. TypeOK'
        BY <4>1, ProceedTyped DEF Inv
      <4>3. CycleInv' /\ BudgetInv'
        BY <4>1, <4>2, ProceedInBudget
      <4> QED
        BY <2>1, <4>2, <4>3, CarriedStep DEF Inv
    <3>2. CASE ~\E c \in Caller : Proceed(c)
      <4>1. TypeOK'
        BY <2>1, <3>2, OthersTyped DEF Inv
      <4>2. CycleInv' /\ BudgetInv'
        BY <2>1, <3>2, OthersInBudget
      <4> QED
        BY <2>1, <4>1, <4>2, CarriedStep DEF Inv
    <3> QED
      BY <3>1, <3>2
  <2>2. CASE UNCHANGED vars
    BY <2>2 DEF vars, outside, files, memory, Inv, TypeOK, CycleInv, BudgetInv, CarriedIsKept, At
  <2> QED
    BY <2>1, <2>2
<1> QED
  BY <1>1, <1>2, PTL DEF Spec

\* The daily cap of the ledger holds through crashes, failures, cancellations and
\* refunds, for any limits, callers and hotspots.
THEOREM BudgetHolds == Spec => []WithinDailyBudget
<1>1. Inv => WithinDailyBudget
  BY DEF Inv, BudgetInv, WithinDailyBudget
<1> QED
  BY <1>1, LoopInvariant, PTL

\* What the last clean deep scan found stays in force through any cheap and degraded
\* cycles of _merge_with_carried.
THEOREM CarriedHolds == Spec => []CarriedIsKept
<1>1. Inv => CarriedIsKept
  BY DEF Inv
<1> QED
  BY <1>1, LoopInvariant, PTL

\* The loop's state is well typed; the ledger of ledger.py never goes negative.
THEOREM LoopTypeCorrect == Spec => []TypeOK
<1>1. Inv => TypeOK
  BY DEF Inv
<1> QED
  BY <1>1, LoopInvariant, PTL
=============================================================================
