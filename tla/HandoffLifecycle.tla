-------------------------- MODULE HandoffLifecycle --------------------------
(***************************************************************************)
(* What the loop handoff protocol promises of a handoff, whoever reports,  *)
(* cancels, checks and crashes: it is verified only from "implemented" and *)
(* only with evidence, it is resolved only once verified, it is called off *)
(* only before that, work may start over until it is over, and what is     *)
(* resolved or called off stays so.                                        *)
(***************************************************************************)
CONSTANT Handoff

VARIABLES phase,  \* "none", "open", "implemented", "verified", "resolved", "off"
          proven  \* handoffs whose objectives have all been met

Move(h, from, to) ==
    /\ phase[h] \in from
    /\ phase' = [phase EXCEPT ![h] = to]
    /\ UNCHANGED proven

Submit(h) == Move(h, {"none"}, "open")

Implement(h) == Move(h, {"open"}, "implemented")

SendBack(h) == Move(h, {"implemented", "verified"}, "open")

Verify(h) == h \in proven /\ Move(h, {"implemented"}, "verified")

Resolve(h) == Move(h, {"verified"}, "resolved")

CallOff(h) == Move(h, {"open", "implemented"}, "off")

\* Evidence is never taken back.
Prove(h) ==
    /\ proven' = proven \cup {h}
    /\ UNCHANGED phase

Init ==
    /\ phase = [h \in Handoff |-> "none"]
    /\ proven \in SUBSET Handoff

Next ==
    \E h \in Handoff :
        \/ Submit(h) \/ Implement(h) \/ SendBack(h)
        \/ Verify(h) \/ Resolve(h) \/ CallOff(h) \/ Prove(h)

Spec == Init /\ [][Next]_<<phase, proven>>
=============================================================================
