----------------------------- MODULE TtcHistory -----------------------------
(***************************************************************************)
(* The timeline of TtcTimeline implements the queue of TtcQueue.  The      *)
(* timeline does not record when an entry was committed, so a history      *)
(* variable does: `arrival` holds the pairs of PENDING slots whose first   *)
(* was committed before the second.                                        *)
(***************************************************************************)
EXTENDS TtcTimeline

VARIABLE arrival

Pending == {s \in Slots : Entries[s].Status = "PENDING"}

\* Slots that stay PENDING keep their order, one that becomes so comes last.
Recorded ==
  (arrival \cup (Pending \X (Pending' \ Pending))) \cap (Pending' \X Pending')

HInit == Init /\ arrival = {}

HNext == Next /\ arrival' = Recorded

HSpec == HInit /\ [][HNext]_<<vars, arrival>>

\* The accepted commands, by the slot they are in.
Accepted == [s \in Pending |-> Entries[s]]

CycleTime == IF handler.at = "cycle" THEN handler.now ELSE -1

Queue == INSTANCE TtcQueue WITH queue <- Accepted, order <- arrival, now <- CycleTime

(***************************************************************************)
(* Slots, the sorted index and the binary search implement a queue that is *)
(* served by TimeTag and first come first served among equal TimeTags.     *)
(***************************************************************************)
QueueRefined == Queue!Spec
=============================================================================
