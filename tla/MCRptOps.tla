------------------------------ MODULE MCRptOps ------------------------------
(***************************************************************************)
(* Instances of RptOps for TLC.                                            *)
(***************************************************************************)
EXTENDS RptOps

AllFaults == {"open", "write", "backup"}
NoFaults == {}
=============================================================================
