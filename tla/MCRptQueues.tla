---------------------------- MODULE MCRptQueues -----------------------------
(***************************************************************************)
(* The instance of RptQueues for TLC.                                      *)
(***************************************************************************)
EXTENDS RptQueues, TLC

CONSTANTS r1, r2

TwoReports == {r1, r2}
FewIndices == {0, 2, 4}
AllFaults == {"read", "write", "transmit"}

\* Reports are only compared and moved.
ReportSymmetry == Permutations(TwoReports)
=============================================================================
