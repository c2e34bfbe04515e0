------------------------------ MODULE MCCases ------------------------------
(***************************************************************************)
(* The identity of cases and the knowledge loop for TLC in one run.  An    *)
(* initial state picks a scope: "links", three cases of p, q and r and no  *)
(* meta-case; "groups", two cases whose conditions do not end and two      *)
(* meta-cases (both at once are too much for TLC); "artifacts" and         *)
(* "context", the two halves of the knowledge loop, which share only the   *)
(* workers.                                                                *)
(*                                                                         *)
(* p is a source with one alias; q and r are two views of one thing that   *)
(* share an alias (the same source event under two fingerprints).          *)
(***************************************************************************)
EXTENDS CaseIdentity, KnowledgeArtifacts, TLC

CONSTANTS p, q, r, w1, w2

VARIABLE scope

MCFirst(s) == s
MCMore(s) == IF s \in {q, r} THEN {"event"} ELSE {}
MCAlias == Source \cup {"event"}
Symmetry == Permutations(Worker)

\* The verifier's request for the handoff it resolved, and one of the console.
MCRequests == {<<"h1", "o1">>, <<Nothing, Nothing>>}

MCSummaries == <<"root_cause_summary">>

MCInit ==
    /\ scope \in {"links", "groups", "artifacts", "context"}
    /\ IdentityInit /\ Init
    /\ scope # "artifacts" => place.is = "missing"

Grouping == \E w \in Process : job'[w].op \in {"attach", "detach"}

\* In "groups" no condition ends, so that a repeated observation writes the
\* status its case has; and r, the other view of q, is observed with its case.
Repeating == \E w \in Process : job'[w].op = "write"
SecondView == \E w \in Process : job'[w].op = "create" /\ job'[w].source = r

LinksStep ==
    /\ scope = "links"
    /\ IdentityNext
    /\ ~Grouping /\ \A c \in Atomic : ~cases'[c].independent
    /\ UNCHANGED <<vars, scope>>

GroupsStep ==
    /\ scope = "groups"
    /\ IdentityNext
    /\ ~Repeating /\ ~SecondView /\ \A c \in Atomic : c > 3 => cases'[c].status = "absent"
    /\ UNCHANGED <<vars, scope>>

ArtifactsStep ==
    /\ scope = "artifacts"
    /\ Next
    /\ question' = question
    /\ UNCHANGED <<identityVars, scope>>

ContextStep ==
    /\ scope = "context"
    /\ Next
    /\ outcomes' = outcomes /\ proposal' = proposal
    /\ UNCHANGED <<identityVars, scope>>

MCNext == LinksStep \/ GroupsStep \/ ArtifactsStep \/ ContextStep

MCSpec == MCInit /\ [][MCNext]_<<vars, identityVars, scope>>
=============================================================================
