---------------------------- MODULE MCMissionLeop ----------------------------
(***************************************************************************)
(* Instances of MissionLeop for TLC.                                       *)
(***************************************************************************)
EXTENDS MissionLeop

NoFaults == {}
AllFaults == {"save", "load", "transmit"}
NoJumps == {}

\* A jump forward over the end of a wait, one back within the seconds already
\* saved, and one back beyond them, which wraps.
JumpsBothWays == {-2, -1, 3}
==============================================================================
