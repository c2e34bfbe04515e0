---------------------------- MODULE ProactiveLoop ----------------------------
(***************************************************************************)
(* The proactive control loop: cycles that scan for hotspots, merge the    *)
(* scan with what earlier scans found, drop what operators acknowledged,   *)
(* investigate within a daily budget and post a digest.                    *)
(*                                                                         *)
(* One process runs the loop (main.py holds an flock on it); its cycles    *)
(* are started by its own timer or by the run-once endpoint and exclude    *)
(* each other by a lock file.  Lock, ledger, acknowledgements and          *)
(* investigation stamps are files and survive the process; what was last   *)
(* found and reported is memory and does not.  A cycle's steps are the     *)
(* stretches between two awaits.                                           *)
(*                                                                         *)
(* A hotspot stands for its fingerprint and severity.  Cycles are assumed  *)
(* to end before their lock is stale (two hours).                          *)
(***************************************************************************)
EXTENDS Naturals, FiniteSets

CONSTANTS Hotspot,    \* hotspots the rules can find
          Deep,       \* those that only DEEP_RULES find
          Eligible,   \* those at or above the severity floor
          Caller,     \* starters of cycles; "loop" is the timer
          Control,    \* case_service_control, always so in main: cases gate investigations
          PerDay,     \* max_investigations_per_day
          PerCycle,   \* max_investigations_per_cycle
          CostPerDay, \* max_cost_usd_per_day, in investigations
          MaxDay,     \* bound on days
          MaxEvents,  \* bound on what happens to the system
          Happens     \* the kinds of events of an instance

ASSUME HotspotAssumption == Deep \subseteq Hotspot /\ Eligible \subseteq Hotspot
ASSUME CallerAssumption == "loop" \in Caller
ASSUME LimitAssumption ==
    /\ Control \in BOOLEAN
    /\ PerDay \in Nat /\ PerCycle \in Nat /\ CostPerDay \in Nat
    /\ MaxDay \in Nat \ {0} /\ MaxEvents \in Nat

VARIABLES firing,       \* external: the conditions that hold
          claimed,      \* external: cases whose investigation is claimed or recent
          board,        \* external: the hotspots of the last digest in the channel
          day,          \* the current UTC day
          lock,         \* proactive.lock
          ledger,       \* attempts and cost recorded per day
          acks,         \* suppressions.json: "none", "timed" or "untimed"
          cooled,       \* investigations.json: hotspots within their cooldown
          carriedDeep,  \* _last_deep_hotspots
          lastEffective,\* _last_effective
          signature,    \* _last_report_signature
          stale,        \* report_reassert_s has passed since the last report
          deepDue,      \* deep_scan_s has passed since the last deep cycle
          paused,       \* the timer is paused
          cycle,        \* the cycle a caller is in
          paid,         \* history: investigation graphs run on a day's ledger
          forgot,       \* history: the process does not know what the channel shows
          events

files   == <<lock, ledger, acks, cooled>>
memory  == <<carriedDeep, lastEffective, signature, stale, deepDue, paused>>
outside == <<firing, claimed, board, day>>
vars    == <<outside, files, memory, cycle, paid, forgot, events>>

Day == 1..MaxDay

\* A lock file may be of a live cycle, of a dead process, or of a dead process
\* whose pid some process has again.
LockState == {"free", "held", "orphan", "twin"}

CycleStep == {"idle", "scan", "observe", "suppress", "select", "investigate", "claim", "graph",
              "post", "finish"}

Cycle == [pc        : CycleStep,
          deep      : BOOLEAN,             \* do_deep
          day       : Day,                 \* ledger_day
          slots     : Nat,                 \* investigations the gate still allows
          raw       : SUBSET Hotspot,      \* what the scan returned
          degraded  : BOOLEAN,             \* a query of the scan failed
          effective : SUBSET Hotspot,      \* raw and carried hotspots
          hotspots  : SUBSET Hotspot,      \* report.hotspots
          fresh     : SUBSET Hotspot,      \* to be investigated
          target    : SUBSET Hotspot,      \* the one being investigated
          done      : SUBSET Hotspot,      \* investigated
          cost      : Nat]                 \* report.cost_usd

IdleCycle == [pc |-> "idle", deep |-> FALSE, day |-> 1, slots |-> 0, raw |-> {}, degraded |-> FALSE,
              effective |-> {}, hotspots |-> {}, fresh |-> {}, target |-> {}, done |-> {}, cost |-> 0]

Init ==
    /\ firing = {} /\ claimed = {} /\ board = {} /\ day = 1
    /\ lock = "free"
    /\ ledger = [d \in Day |-> [attempts |-> 0, cost |-> 0]]
    /\ acks = [h \in Hotspot |-> "none"]
    /\ cooled = {}
    /\ carriedDeep = {} /\ lastEffective = {} /\ signature = {}
    /\ stale = TRUE /\ deepDue = TRUE /\ paused = FALSE
    /\ cycle = [c \in Caller |-> IdleCycle]
    /\ paid = [d \in Day |-> 0]
    /\ forgot = FALSE
    /\ events = 0

Event(kind) ==
    /\ kind \in Happens
    /\ events < MaxEvents
    /\ events' = events + 1

At(c, step) == cycle[c].pc = step

Enter(c, r) == cycle' = [cycle EXCEPT ![c] = r]

-----------------------------------------------------------------------------
(* Lock and ledger. *)

\* Mutant: the lock is not looked at.
TakeableAlways == TRUE

\* acquire_lock creates the file, after removing one whose process is gone.
Takeable == lock \in {"free", "orphan"}

LeftBehind == IF lock = "held" THEN {"orphan", "twin"} ELSE {lock}

Charge(d, attempts) == [ledger EXCEPT ![d].attempts = @ + attempts]

\* Mutant: given back by the investigator and by the loop.
RefundTwice(d) == [ledger EXCEPT ![d].attempts = @ - 2]

Refund(d) == [ledger EXCEPT ![d].attempts = @ - 1]

SmallerOf(i, j) == IF i < j THEN i ELSE j

\* evaluate_gate: what the ledger leaves for this cycle.
Allowance(d) ==
    IF ledger[d].cost >= CostPerDay \/ ledger[d].attempts >= PerDay THEN 0
    ELSE SmallerOf(PerCycle, PerDay - ledger[d].attempts)

-----------------------------------------------------------------------------
(* One cycle. *)

\* run_once up to the scan.  A caller that finds the lock taken returns.
StartCycle(c) ==
    /\ At(c, "idle")
    /\ c = "loop" => ~paused
    /\ Takeable
    /\ lock' = "held"
    /\ Enter(c, [IdleCycle EXCEPT !.pc = "scan", !.deep = deepDue, !.day = day,
                                  !.slots = Allowance(day)])
    /\ UNCHANGED <<outside, ledger, acks, cooled, memory, paid, forgot, events>>

Scanned(c) == firing \ (IF cycle[c].deep THEN {} ELSE Deep)

Scan(c) ==
    /\ At(c, "scan")
    /\ \/ /\ Enter(c, [cycle[c] EXCEPT !.pc = "observe", !.raw = Scanned(c)])
          /\ UNCHANGED events
       \* a failed query: its rule finds less, and says so
       \/ /\ Event("degraded")
          /\ \E found \in SUBSET Scanned(c) :
                Enter(c, [cycle[c] EXCEPT !.pc = "observe", !.raw = found, !.degraded = TRUE])
       \* a rule that raises: it finds nothing, and nothing says so
       \/ /\ Event("rule")
          /\ \E found \in SUBSET Scanned(c) :
                Enter(c, [cycle[c] EXCEPT !.pc = "observe", !.raw = found])
    /\ UNCHANGED <<outside, files, memory, paid, forgot>>

\* Mutant: a degraded scan is taken for a complete one.
MergedAsScanned(r) == IF r.deep THEN r.raw ELSE (r.raw \ Deep) \cup carriedDeep

\* _merge_with_carried: what still counts as found.
Merged(r) ==
    IF r.degraded THEN r.raw \cup lastEffective
    ELSE IF r.deep THEN r.raw
    ELSE (r.raw \ Deep) \cup carriedDeep

\* The case service has seen the raw hotspots; the scan is merged.
Merge(c) ==
    /\ At(c, "observe")
    /\ lastEffective' = Merged(cycle[c])
    /\ carriedDeep' = IF cycle[c].deep /\ ~cycle[c].degraded THEN cycle[c].raw \cap Deep
                      ELSE carriedDeep
    /\ Enter(c, [cycle[c] EXCEPT !.pc = "suppress", !.effective = Merged(cycle[c])])
    /\ UNCHANGED <<outside, files, signature, stale, deepDue, paused, paid, forgot, events>>

\* An untimed acknowledgement ends with its hotspot, a timed one by its time.
PrunedAcks(effective) ==
    [h \in Hotspot |-> IF acks[h] = "untimed" /\ h \notin effective THEN "none" ELSE acks[h]]

\* _apply_suppressions
ApplySuppressions(c) ==
    /\ At(c, "suppress")
    /\ acks' = PrunedAcks(cycle[c].effective)
    /\ Enter(c, [cycle[c] EXCEPT !.pc = "select",
                                 !.hotspots = {h \in cycle[c].effective : acks[h] = "none"}])
    /\ UNCHANGED <<outside, lock, ledger, cooled, memory, paid, forgot, events>>

\* The eligible hotspots that were not investigated lately, by the case or by
\* investigations.json; a case that cannot be read counts as not investigated.
SelectFresh(c) ==
    /\ At(c, "select")
    /\ LET eligible == cycle[c].hotspots \cap Eligible
       IN  \/ /\ Enter(c, [cycle[c] EXCEPT !.pc = "investigate",
                                           !.fresh = eligible \ (IF Control THEN claimed ELSE cooled)])
              /\ UNCHANGED events
           \/ /\ Control
              /\ Event("fault")
              /\ Enter(c, [cycle[c] EXCEPT !.pc = "investigate", !.fresh = eligible])
    /\ UNCHANGED <<outside, files, memory, paid, forgot>>

\* An attempt is charged before it is made.
ReserveAttempt(c, h) ==
    /\ At(c, "investigate")
    /\ cycle[c].slots > 0
    /\ h \in cycle[c].fresh
    /\ ledger' = Charge(cycle[c].day, 1)
    /\ Enter(c, [cycle[c] EXCEPT !.pc = "claim", !.slots = @ - 1, !.fresh = @ \ {h}, !.target = {h}])
    /\ UNCHANGED <<outside, lock, acks, cooled, memory, paid, forgot, events>>

\* The case is claimed for its graph run, or refused and the attempt given back;
\* or the store fails, before or after the claim.
ClaimCase(c) ==
    /\ At(c, "claim")
    /\ \/ /\ cycle[c].target \subseteq claimed
          /\ ledger' = Refund(cycle[c].day)
          /\ Enter(c, [cycle[c] EXCEPT !.pc = "investigate", !.target = {}])
          /\ UNCHANGED <<claimed, paid, events>>
       \/ /\ ~(cycle[c].target \subseteq claimed)
          /\ claimed' = claimed \cup cycle[c].target
          /\ paid' = [paid EXCEPT ![cycle[c].day] = @ + 1]
          /\ Enter(c, [cycle[c] EXCEPT !.pc = "graph"])
          /\ UNCHANGED <<ledger, events>>
       \/ /\ Event("fault")
          /\ claimed' \in {claimed, claimed \cup cycle[c].target}
          /\ Enter(c, [cycle[c] EXCEPT !.pc = "investigate", !.target = {},
                                       !.done = @ \cup cycle[c].target])
          /\ UNCHANGED <<ledger, paid>>
    /\ UNCHANGED <<firing, board, day, lock, acks, cooled, memory, forgot>>

\* The graph run succeeds or fails at the price of one, or raises at none.
GraphEnds(c) ==
    /\ At(c, "graph")
    /\ \E price \in {0, 1} :
          Enter(c, [cycle[c] EXCEPT !.pc = "investigate", !.target = {},
                                    !.done = @ \cup cycle[c].target, !.cost = @ + price])
    /\ UNCHANGED <<outside, files, memory, paid, forgot, events>>

\* Mutant: a digest is due when it has something to show.
DigestDueForChange(hotspots) == hotspots # {} /\ (hotspots # signature \/ stale)

\* _report_decision: the set changed, or is due again; an all-clear only once.
DigestDue(hotspots) ==
    IF hotspots = {} THEN signature # {} ELSE hotspots # signature \/ stale

\* The investigations are over: stamps, ledger, deep scan time, digest decision.
CloseCycle(c) ==
    /\ At(c, "investigate")
    /\ cycle[c].slots = 0 \/ cycle[c].fresh = {}
    /\ cooled' = IF Control THEN cooled ELSE cooled \cup cycle[c].done
    /\ ledger' = [ledger EXCEPT ![cycle[c].day].cost = @ + cycle[c].cost]
    /\ deepDue' = (deepDue /\ ~cycle[c].deep)
    /\ Enter(c, [cycle[c] EXCEPT !.pc = IF DigestDue(cycle[c].hotspots) THEN "post" ELSE "finish"])
    /\ UNCHANGED <<outside, lock, acks, carriedDeep, lastEffective, signature, stale, paused, paid,
                   forgot, events>>

\* Only a digest known to be delivered is remembered as reported.
PostDigest(c) ==
    /\ At(c, "post")
    /\ \/ /\ signature' = cycle[c].hotspots
          /\ board' = cycle[c].hotspots
          /\ stale' = FALSE
          /\ forgot' = FALSE
          /\ UNCHANGED events
       \/ /\ Event("send")
          /\ board' \in {board, cycle[c].hotspots}
          /\ forgot' = (forgot \/ board' # board)
          /\ UNCHANGED <<signature, stale>>
    /\ Enter(c, [cycle[c] EXCEPT !.pc = "finish"])
    /\ UNCHANGED <<firing, claimed, day, files, carriedDeep, lastEffective, deepDue, paused, paid>>

EndCycle(c) ==
    /\ lock' = "free"
    /\ Enter(c, IdleCycle)
    /\ UNCHANGED <<outside, ledger, acks, memory, paid, forgot>>

FinishCycle(c) ==
    /\ At(c, "finish")
    /\ EndCycle(c)
    /\ UNCHANGED <<cooled, events>>

\* An exception that ends the cycle: a ledger that cannot be read or written,
\* or, in control mode, the case service.
FailCycle(c) ==
    /\ At(c, "investigate") \/ At(c, "graph") \/ (At(c, "observe") /\ Control)
    /\ Event("fault")
    /\ EndCycle(c)
    /\ UNCHANGED cooled

-----------------------------------------------------------------------------
(* The process, its operators and time. *)

\* Memory of a process that has just started.
FreshMemory ==
    /\ carriedDeep' = {} /\ lastEffective' = {} /\ signature' = {}
    /\ stale' = TRUE /\ deepDue' = TRUE /\ paused' = FALSE
    /\ cycle' = [c \in Caller |-> IdleCycle]
    /\ forgot' = TRUE

\* stop() cancels the timer's cycle; requests have been served before.
Restart ==
    /\ Event("restart")
    /\ \A c \in Caller \ {"loop"} : At(c, "idle")
    /\ lock' = IF At("loop", "idle") THEN lock ELSE "free"
    /\ cooled' = IF Control THEN cooled ELSE cooled \cup cycle["loop"].target
    /\ FreshMemory
    /\ UNCHANGED <<outside, ledger, acks, paid>>

Crash ==
    /\ Event("crash")
    /\ lock' \in LeftBehind
    /\ FreshMemory
    /\ UNCHANGED <<outside, ledger, acks, cooled, paid>>

\* Conditions come and go; the case of one is investigated for another alert.
ConditionChanges(h) ==
    /\ Event("condition")
    /\ firing' = IF h \in firing THEN firing \ {h} ELSE firing \cup {h}
    /\ UNCHANGED <<claimed, board, day, files, memory, cycle, paid, forgot>>

ClaimedElsewhere(h) ==
    /\ h \notin claimed
    /\ Event("claim")
    /\ claimed' = claimed \cup {h}
    /\ UNCHANGED <<firing, board, day, files, memory, cycle, paid, forgot>>

Ack(h) ==
    /\ Event("ack")
    /\ \E kind \in {"timed", "untimed"} : acks' = [acks EXCEPT ![h] = kind]
    /\ UNCHANGED <<outside, lock, ledger, cooled, memory, cycle, paid, forgot>>

Unack(h) ==
    /\ acks[h] # "none"
    /\ Event("ack")
    /\ acks' = [acks EXCEPT ![h] = "none"]
    /\ UNCHANGED <<outside, lock, ledger, cooled, memory, cycle, paid, forgot>>

SetPaused ==
    /\ Event("pause")
    /\ paused' = ~paused
    /\ UNCHANGED <<outside, files, carriedDeep, lastEffective, signature, stale, deepDue, cycle, paid,
                   forgot>>

AckExpires(h) ==
    /\ acks[h] = "timed"
    /\ acks' = [acks EXCEPT ![h] = "none"]
    /\ UNCHANGED <<outside, lock, ledger, cooled, memory, cycle, paid, forgot, events>>

CooldownEnds(h) ==
    /\ h \in cooled \cup claimed
    /\ cooled' = cooled \ {h}
    /\ claimed' = claimed \ {h}
    /\ UNCHANGED <<firing, board, day, lock, ledger, acks, memory, cycle, paid, forgot, events>>

Midnight ==
    /\ day < MaxDay
    /\ day' = day + 1
    /\ UNCHANGED <<firing, claimed, board, files, memory, cycle, paid, forgot, events>>

DeepScanDue ==
    /\ ~deepDue
    /\ deepDue' = TRUE
    /\ UNCHANGED <<outside, files, carriedDeep, lastEffective, signature, stale, paused, cycle, paid,
                   forgot, events>>

ReassertDue ==
    /\ ~stale
    /\ stale' = TRUE
    /\ UNCHANGED <<outside, files, carriedDeep, lastEffective, signature, deepDue, paused, cycle, paid,
                   forgot, events>>

\* The lock of a dead process whose pid is in use again grows too old to count.
LockAges ==
    /\ lock = "twin"
    /\ lock' = "orphan"
    /\ UNCHANGED <<outside, ledger, acks, cooled, memory, cycle, paid, forgot, events>>

-----------------------------------------------------------------------------
Proceed(c) ==
    \/ Scan(c) \/ Merge(c) \/ ApplySuppressions(c) \/ SelectFresh(c)
    \/ \E h \in Hotspot : ReserveAttempt(c, h)
    \/ ClaimCase(c) \/ GraphEnds(c) \/ CloseCycle(c) \/ PostDigest(c) \/ FinishCycle(c)

TimePasses ==
    \/ \E h \in Hotspot : AckExpires(h) \/ CooldownEnds(h)
    \/ Midnight \/ DeepScanDue \/ ReassertDue \/ LockAges

Next ==
    \/ \E c \in Caller : StartCycle(c) \/ Proceed(c) \/ FailCycle(c)
    \/ Restart \/ Crash \/ SetPaused
    \/ \E h \in Hotspot : ConditionChanges(h) \/ ClaimedElsewhere(h) \/ Ack(h) \/ Unack(h)
    \/ TimePasses

Spec == Init /\ [][Next]_vars

Fairness ==
    /\ \A c \in Caller : WF_vars(Proceed(c))
    /\ SF_vars(StartCycle("loop"))
    /\ WF_vars(DeepScanDue) /\ WF_vars(ReassertDue) /\ WF_vars(LockAges)

FairSpec == Spec /\ Fairness

-----------------------------------------------------------------------------
(* Properties. *)

TypeOK ==
    /\ firing \subseteq Hotspot /\ claimed \subseteq Hotspot /\ board \subseteq Hotspot
    /\ day \in Day
    /\ lock \in LockState
    /\ ledger \in [Day -> [attempts : Nat, cost : Nat]]
    /\ acks \in [Hotspot -> {"none", "timed", "untimed"}]
    /\ cooled \subseteq Hotspot
    /\ carriedDeep \subseteq Hotspot /\ lastEffective \subseteq Hotspot /\ signature \subseteq Hotspot
    /\ stale \in BOOLEAN /\ deepDue \in BOOLEAN /\ paused \in BOOLEAN
    /\ cycle \in [Caller -> Cycle]
    /\ paid \in [Day -> Nat]
    /\ forgot \in BOOLEAN
    /\ events \in Nat

\* The daily cap of ledger.py and governance.py: however cycles crash, fail, are
\* cancelled or refused a case, no more investigation graphs are run on a day's
\* ledger than attempts are recorded there, nor more attempts than the limit.
WithinDailyBudget ==
    \A d \in Day : paid[d] <= ledger[d].attempts /\ ledger[d].attempts <= PerDay

\* _merge_with_carried: what the last clean deep scan found is still in force,
\* whatever cheap and degraded cycles came since.
CarriedIsKept == carriedDeep \subseteq lastEffective

\* What an operator should see: the conditions nobody acknowledged.
Unmuted == {h \in firing : acks[h] = "none"}

\* The digest tells the truth in the end: unless the timer is paused for good, the
\* last digest in the channel is about exactly the unacknowledged conditions, or a
\* process that does not know what the channel shows has nothing to report.
DigestConverges ==
    <>[]paused \/ <>[](board = Unmuted \/ (Unmuted = {} /\ forgot))
=============================================================================
