---------------------------- MODULE MCCaseReports ----------------------------
(***************************************************************************)
(* CaseReports for TLC: signatures A and B, an investigation u, and a row  *)
(* k of the knowledge loop's that nothing here handles.                    *)
(***************************************************************************)
EXTENDS CaseReports

CONSTANTS A, B, u, k
=============================================================================
