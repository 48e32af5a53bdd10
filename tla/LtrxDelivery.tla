---------------------------- MODULE LtrxDelivery ----------------------------
(***************************************************************************)
(* What the uplink side of LTRX promises: messages are announced by their  *)
(* identifier, length and CRC; a message that is handed on is the one that *)
(* was announced last, whole, and an announcement is honoured at most      *)
(* once.  Announcements may be dropped: the radio link may fail.           *)
(***************************************************************************)
CONSTANTS Messages, NoMessage

VARIABLES announced, \* the announced message still to be delivered
          delivered  \* the message handed on in the present round

vars == <<announced, delivered>>

Init == announced = NoMessage /\ delivered = NoMessage

Announce == announced' \in Messages /\ delivered' = NoMessage

Drop == announced' = NoMessage /\ delivered' = NoMessage

\* A new round starts: nothing is handed on.
Await == announced' = announced /\ delivered' = NoMessage

Deliver ==
  /\ announced # NoMessage
  /\ delivered' = announced
  /\ announced' = NoMessage

Next == Announce \/ Drop \/ Await \/ Deliver

Spec == Init /\ [][Next]_vars
=============================================================================
