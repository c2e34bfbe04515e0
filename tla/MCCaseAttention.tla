--------------------------- MODULE MCCaseAttention ---------------------------
(***************************************************************************)
(* Instances of CaseAttention for TLC.  Workers are interchangeable; the   *)
(* tokens are not, because NewToken chooses among them.                    *)
(***************************************************************************)
EXTENDS CaseAttention, TLC

CONSTANTS c1, w1, w2

MCToken == 1..4

LowAndHigh == {"LOW", "HIGH"}

HighOnly == {"HIGH"}

\* Every kind of event, for a single worker.
Anything == {"firing", "clean", "ack", "suppress", "graph", "link", "reminder", "verbosity",
             "report", "stall", "fault"}

\* Workers that fail, stall and are retried while reports are requested and an
\* operator acknowledges.
Failures == {"ack", "reminder", "report", "stall", "fault"}

WorkerSymmetry == Permutations(Worker)
=============================================================================
