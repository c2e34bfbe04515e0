--------------------------- MODULE AttentionPromise ---------------------------
(***************************************************************************)
(* What the attention pipeline promises an operator, whatever scheduler,   *)
(* workers, retries and crashes lie behind it: per case, a numbered series *)
(* of deliveries in which every delivery is a legitimate successor of the  *)
(* one before.                                                             *)
(***************************************************************************)
EXTENDS AttentionPolicy

CONSTANT Case

VARIABLE attention

(***************************************************************************)
(* d may follow p: the sequence advances by one, the incident generation   *)
(* never goes back, a recovery closes a firing message and repeats its     *)
(* severity (no second all-clear, no all-clear nobody was alarmed about),  *)
(* and the same generation is announced again only because it got worse or *)
(* because it is critical and the reminder interval is over.               *)
(***************************************************************************)
Successor(p, d) ==
    /\ d.sequence = p.sequence + 1
    /\ d.generation >= p.generation
    /\ d.phase \in Phase
    /\ d.phase = "recovered" => p.phase = "firing" /\ d.severity = p.severity
    /\ d.phase = "firing" /\ p.phase = "firing" /\ d.generation = p.generation
          => \/ SeverityRank[d.severity] > SeverityRank[p.severity]
             \/ d.severity = "HIGH" /\ p.aged

\* The reminder interval passes since the last delivery.
Age(c) ==
    /\ attention[c].sequence > 0
    /\ attention' = [attention EXCEPT ![c].aged = TRUE]

Deliver(c) ==
    /\ attention' \in [Case -> Delivery]
    /\ Successor(attention[c], attention'[c])
    /\ \A other \in Case \ {c} : attention'[other] = attention[other]

Init == attention = [c \in Case |-> NoDelivery]

Next == \E c \in Case : Age(c) \/ Deliver(c)

Spec == Init /\ [][Next]_attention
=============================================================================
