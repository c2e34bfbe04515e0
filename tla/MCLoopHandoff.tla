---------------------------- MODULE MCLoopHandoff ----------------------------
(***************************************************************************)
(* Instances of LoopHandoff for TLC: handoff h1 with an alert and a health *)
(* objective, and h2, requested for the same objective key, with none.     *)
(***************************************************************************)
EXTENDS LoopHandoff, TLC

CONSTANTS h1, h2, alert, health, w1, w2, v1, v2, r1

SameKey == [h \in Handoff |-> "disk"]

OfFirst == [o \in Objective |-> h1]

Kinds == [o \in Objective |-> IF o = alert THEN "alert" ELSE "health"]
=============================================================================
