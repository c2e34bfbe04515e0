--------------------------- MODULE MCProactiveLoop ---------------------------
(***************************************************************************)
(* Instances of ProactiveLoop for TLC.                                     *)
(***************************************************************************)
EXTENDS ProactiveLoop

CONSTANTS disk, bgp

Callers == {"loop", "manual"}

Anything == {"degraded", "rule", "fault", "send", "restart", "crash", "condition", "claim", "ack", "pause"}
=============================================================================
