---------------------------- MODULE MCLtrxUplink ----------------------------
(***************************************************************************)
(* Instances of LtrxUplink for TLC.                                        *)
(***************************************************************************)
EXTENDS LtrxUplink

Header(id, len, bytes) ==
  [id |-> id, len |-> len,
   crc |-> [i \in 0 .. Cardinality(DOMAIN bytes) - 1 |-> bytes[i + 1]]]

\* Two messages that share an identifier, one with identifier 0, one whose
\* length does not fit its CRC, and lengths that are refused.
MC_Headers ==
  { Header(1, 3, <<1, 0, 1>>), Header(1, 2, <<1, 1>>), Header(0, 2, <<0, 1>>),
    Header(1, 2, <<1>>), Header(1, 0, << >>), Header(1, 4, <<1>>) }

MC_Spans == [start : 0 .. UPLINK_MAX_LEN, plen : 0 .. UPLINK_MAX_LEN]
=============================================================================
