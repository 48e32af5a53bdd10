------------------------------ MODULE RptFifo -------------------------------
(***************************************************************************)
(* What the two queues of RPT promise, without ring buffers: a bounded     *)
(* queue of reports, a bounded queue of critical reports with a copy that  *)
(* survives a reset, and downlinks of a run of entries, oldest first,      *)
(* filled up with zeroed records when the queue ends before the request.   *)
(***************************************************************************)
EXTENDS Integers, Sequences

CONSTANTS REPORT_LEN, CRITICAL_LEN, Reports, NoReport, Indices, Tears

VARIABLES
  reports,   \* the reports, oldest first
  critical,  \* the critical reports, oldest first
  stored,    \* the critical reports that a reset brings back
  tlm        \* the last telemetry packet sent

vars == <<reports, critical, stored, tlm>>

NoTlm == [critical |-> FALSE, entries |-> <<>>]

Init ==
  /\ reports = <<>>
  /\ critical = <<>>
  /\ stored = <<>>
  /\ tlm = NoTlm

\* The queue with one more entry, the oldest one making room if need be.
Put(queue, r, len) ==
  IF Len(queue) < len THEN Append(queue, r) ELSE Append(Tail(queue), r)

MaySend(isCritical, entries) ==
  tlm' \in {tlm, [critical |-> isCritical, entries |-> entries]}

Report ==
  \E r \in Reports :
    /\ reports' = Put(reports, r, REPORT_LEN)
    /\ MaySend(FALSE, <<r>>)
    /\ UNCHANGED <<critical, stored>>

Critical ==
  \E r \in Reports :
    /\ critical' = Put(critical, r, CRITICAL_LEN)
    /\ MaySend(TRUE, <<r>>)
    /\ UNCHANGED <<reports, stored>>

Store ==
  /\ stored' \in {critical} \cup (IF Tears THEN {<<>>} ELSE {})
  /\ UNCHANGED <<reports, critical, tlm>>

\* A packet of total records: the entries from first to last, then zeroed ones.
Records(queue, first, last, total) ==
  [i \in 1 .. total |-> IF i <= last - first + 1 THEN queue[first + i - 1] ELSE NoReport]

\* Some run of neighbouring entries, as many as were asked for unless the run
\* ends with the newest one.
Downlink ==
  /\ \E isCritical \in BOOLEAN, total \in Indices :
       LET queue == IF isCritical THEN critical ELSE reports
       IN  \E first \in 1 .. Len(queue) + 1 : \E last \in first - 1 .. Len(queue) :
             /\ last - first + 1 <= total
             /\ last - first + 1 < total => last = Len(queue)
             /\ tlm' = [critical |-> isCritical, entries |-> Records(queue, first, last, total)]
  /\ UNCHANGED <<reports, critical, stored>>

Clear ==
  /\ \/ reports' = <<>> /\ UNCHANGED critical
     \/ critical' = <<>> /\ UNCHANGED reports
  /\ UNCHANGED <<stored, tlm>>

\* A reset, perhaps in the middle of a Store.
Reset ==
  /\ stored' \in {stored, critical} \cup (IF Tears THEN {<<>>} ELSE {})
  /\ critical' = stored'
  /\ reports' = <<>>
  /\ UNCHANGED tlm

Next == Report \/ Critical \/ Store \/ Downlink \/ Clear \/ Reset

Spec == Init /\ [][Next]_vars
=============================================================================
