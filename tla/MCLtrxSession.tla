---------------------------- MODULE MCLtrxSession ----------------------------
(***************************************************************************)
(* Instances of LtrxSession for TLC.                                       *)
(***************************************************************************)
EXTENDS LtrxSession

\* One message of one byte.
MC_OneHeader == { [id |-> 1, len |-> 1, crc |-> [i \in 0 .. 0 |-> 0]] }

\* Its byte, or nothing of it.
MC_Spans == [start : {0}, plen : {0, 1}]

\* One of each kind that the session tells apart.
MC_SessionFrames == { Rx(10, 20, 0), Rx(13, 1, 0), Rx(21, 0, 0) }
==============================================================================
