----------------------------- MODULE RptQueues ------------------------------
(***************************************************************************)
(* The report queue and the critical queue of the RPT application          *)
(* (apps/rpt/fsw/src/rpt_utils.c, rpt_cmd.c, rpt_task.c, rpt_init.c): two  *)
(* ring buffers in RAM, the second of which is written over critical.bin   *)
(* in place after every critical report and read back at a boot.           *)
(***************************************************************************)
EXTENDS Integers, Sequences

CONSTANTS
  REPORT_LEN,    \* RPT_REPORT_QUEUE_LEN
  CRITICAL_LEN,  \* RPT_CRITICAL_QUEUE_LEN
  Reports,       \* the reports other applications and RPT itself may file
  NoReport,      \* a zeroed report
  Indices,       \* the values of StartIdx and TotalNumber in a report command
  CounterMod,    \* 2^8 in the code
  Faults,        \* what may fail: "read", "write", "transmit"
  Tears,         \* whether a reset may leave a write half done
  MaxCrashes

VARIABLES
  RptQueue, CritQueue,      \* RPT_Data.RptQueue, RPT_Data.CritQueue
  CmdCounter, ErrCounter,
  pc,                       \* where the task is
  file,                     \* critical.bin
  tlm,                      \* the last telemetry packet sent
  hist                      \* what the properties remember of the past

vars == <<RptQueue, CritQueue, CmdCounter, ErrCounter, pc, file, tlm, hist>>

counters == <<CmdCounter, ErrCounter>>

ASSUME QueuesAssumption ==
  /\ {REPORT_LEN, CRITICAL_LEN, CounterMod} \subseteq Nat \ {0}
  /\ NoReport \notin Reports
  /\ Indices \subseteq Nat
  /\ Faults \subseteq {"read", "write", "transmit"}
  /\ Tears \in BOOLEAN
  /\ MaxCrashes \in Nat

Queue(len) ==
  [Entry : [0 .. len - 1 -> Reports \cup {NoReport}], Head : 0 .. len - 1, Count : 0 .. len]

ZeroQueue(len) == [Entry |-> [i \in 0 .. len - 1 |-> NoReport], Head |-> 0, Count |-> 0]

\* The contents of critical.bin: a queue with a matching CRC, nothing, or a
\* write that was cut off.
EmptyFile == [ZeroQueue(CRITICAL_LEN) EXCEPT !.Head = -1]
TornFile == [ZeroQueue(CRITICAL_LEN) EXCEPT !.Head = -2]

NoTlm == [critical |-> FALSE, entries |-> <<>>]

Init ==
  /\ RptQueue = ZeroQueue(REPORT_LEN)
  /\ CritQueue = ZeroQueue(CRITICAL_LEN)
  /\ CmdCounter = 0
  /\ ErrCounter = 0
  /\ pc = "off"
  /\ file = EmptyFile
  /\ tlm = NoTlm
  /\ hist = [crashes |-> 0, cleared |-> FALSE, unsaved |-> FALSE]

-----------------------------------------------------------------------------
(* RPT_CriticalQInit.                                                      *)

ReadQueueUnchecked ==
  IF file = EmptyFile THEN ZeroQueue(CRITICAL_LEN)
  ELSE IF file = TornFile THEN [ZeroQueue(CRITICAL_LEN) EXCEPT !.Count = 1]
  ELSE file

\* The CRC does not match a torn file.
ReadQueue == IF file \in {EmptyFile, TornFile} THEN ZeroQueue(CRITICAL_LEN) ELSE file

Boot ==
  /\ pc = "off"
  /\ CritQueue' = ReadQueue
  /\ pc' = "idle"
  /\ UNCHANGED <<RptQueue, counters, file, tlm, hist>>

\* critical.bin cannot be opened or read: the application does not run.
BootFails ==
  /\ "read" \in Faults
  /\ pc = "off"
  /\ pc' = "exited"
  /\ UNCHANGED <<RptQueue, CritQueue, counters, file, tlm, hist>>

-----------------------------------------------------------------------------
(* RPT_Report, RPT_Enqueue.                                                *)

Enqueue(queue, r, len) ==
  [Entry |-> [queue.Entry EXCEPT ![queue.Head] = r],
   Head  |-> (queue.Head + 1) % len,
   Count |-> IF queue.Count < len THEN queue.Count + 1 ELSE queue.Count]

\* CFE_SB_TransmitMsg, whose failure loses the packet.
Transmit(isCritical, entries, ok) ==
  /\ ok \/ "transmit" \in Faults
  /\ tlm' = IF ok THEN [critical |-> isCritical, entries |-> entries] ELSE tlm

Count(counter, by) == (counter + by) % CounterMod

\* A report from the report pipe.
ForwardReport ==
  \E r \in Reports, ok \in BOOLEAN :
    /\ pc = "idle"
    /\ Transmit(FALSE, <<r>>, ok)
    /\ RptQueue' = Enqueue(RptQueue, r, REPORT_LEN)
    /\ UNCHANGED <<CritQueue, counters, pc, file, hist>>

\* The answer to a command of RPT's own (RPT_NoopCmd, RPT_GetOpsDataCmd).
AnswerCmd ==
  \E r \in Reports, ok \in BOOLEAN :
    /\ pc = "idle"
    /\ Transmit(FALSE, <<r>>, ok)
    /\ RptQueue' = Enqueue(RptQueue, r, REPORT_LEN)
    /\ CmdCounter' = Count(CmdCounter, 1)
    /\ ErrCounter' = Count(ErrCounter, IF ok THEN 0 ELSE 1)
    /\ UNCHANGED <<CritQueue, pc, file, hist>>

ForwardCriticalUnsaved ==
  \E r \in Reports, ok \in BOOLEAN :
    /\ pc = "idle"
    /\ Transmit(TRUE, <<r>>, ok)
    /\ CritQueue' = Enqueue(CritQueue, r, CRITICAL_LEN)
    /\ UNCHANGED <<RptQueue, counters, pc, file, hist>>

\* A report from the critical pipe.
ForwardCritical ==
  \E r \in Reports, ok \in BOOLEAN :
    /\ pc = "idle"
    /\ Transmit(TRUE, <<r>>, ok)
    /\ CritQueue' = Enqueue(CritQueue, r, CRITICAL_LEN)
    /\ pc' = "save"
    /\ UNCHANGED <<RptQueue, counters, file, hist>>

WriteFails == "write" \in Faults /\ file' \in {file} \cup (IF Tears THEN {TornFile} ELSE {})

\* The whole queue is written to critical.bin; a failure goes unnoticed.
SaveCritical ==
  /\ pc = "save"
  /\ \/ /\ file' = CritQueue
        /\ hist' = [hist EXCEPT !.cleared = FALSE, !.unsaved = FALSE]
     \/ /\ WriteFails
        /\ hist' = [hist EXCEPT !.unsaved = TRUE]
  /\ pc' = "idle"
  /\ UNCHANGED <<RptQueue, CritQueue, counters, tlm>>

-----------------------------------------------------------------------------
(* Commands.                                                               *)

Oldest(queue, len) == queue.Head + len - queue.Count

WindowUnclamped(queue, start, total, len) ==
  [i \in 1 .. total |-> queue.Entry[(Oldest(queue, len) + start + i - 1) % len]]

\* What RPT_MultipleReport and RPT_MultipleCritical send of a queue when asked
\* for total entries from start on: the size of the packet is that of the
\* request, and the records that the queue does not have stay zeroed.
Window(queue, start, total, len) ==
  LET first == IF start > queue.Count \/ total > queue.Count THEN 0 ELSE start
      wanted == IF total > queue.Count THEN queue.Count ELSE total
      number == IF first + wanted > queue.Count THEN queue.Count - first ELSE wanted
  IN  [i \in 1 .. total |->
         IF i <= number THEN queue.Entry[(Oldest(queue, len) + first + i - 1) % len] ELSE NoReport]

ReportCmd ==
  \E isCritical \in BOOLEAN, start \in Indices, total \in Indices, ok \in BOOLEAN :
    /\ pc = "idle"
    /\ CmdCounter' = Count(CmdCounter, 1)
    /\ IF total = 0
       THEN tlm' = tlm /\ ErrCounter' = Count(ErrCounter, 1)
       ELSE /\ Transmit(isCritical,
                        IF isCritical THEN Window(CritQueue, start, total, CRITICAL_LEN)
                                      ELSE Window(RptQueue, start, total, REPORT_LEN), ok)
            /\ ErrCounter' = Count(ErrCounter, IF ok THEN 0 ELSE 1)
    /\ UNCHANGED <<RptQueue, CritQueue, pc, file, hist>>

\* Only RAM is cleared: critical.bin keeps its entries until the next
\* critical report.
ClearQueueCmd ==
  /\ pc = "idle"
  /\ CmdCounter' = Count(CmdCounter, 1)
  /\ \/ /\ CritQueue' = ZeroQueue(CRITICAL_LEN)
        /\ hist' = [hist EXCEPT !.cleared = TRUE]
        /\ UNCHANGED RptQueue
     \/ /\ RptQueue' = ZeroQueue(REPORT_LEN)
        /\ UNCHANGED <<CritQueue, hist>>
  /\ UNCHANGED <<ErrCounter, pc, file, tlm>>

ResetCounterCmd ==
  /\ pc = "idle"
  /\ CmdCounter' = 0
  /\ ErrCounter' = 0
  /\ UNCHANGED <<RptQueue, CritQueue, pc, file, tlm, hist>>

\* A command of a wrong length or an unknown code.
RejectedCmd ==
  /\ pc = "idle"
  /\ ErrCounter' = Count(ErrCounter, 1)
  /\ UNCHANGED <<RptQueue, CritQueue, CmdCounter, pc, file, tlm, hist>>

-----------------------------------------------------------------------------
(* The environment.                                                        *)

CrashMidWrite == {file, CritQueue} \cup (IF Tears THEN {TornFile} ELSE {})

Crash ==
  /\ hist.crashes < MaxCrashes
  /\ pc # "off"
  /\ file' \in IF pc = "save" THEN CrashMidWrite ELSE {file}
  /\ pc' = "off"
  /\ RptQueue' = ZeroQueue(REPORT_LEN)
  /\ CritQueue' = ZeroQueue(CRITICAL_LEN)
  /\ CmdCounter' = 0
  /\ ErrCounter' = 0
  /\ hist' = [crashes |-> hist.crashes + 1, cleared |-> FALSE, unsaved |-> FALSE]
  /\ UNCHANGED tlm

Next ==
  \/ Boot \/ BootFails
  \/ ForwardReport \/ AnswerCmd \/ ForwardCritical \/ SaveCritical
  \/ ReportCmd \/ ClearQueueCmd \/ ResetCounterCmd \/ RejectedCmd
  \/ Crash

Spec == Init /\ [][Next]_vars

-----------------------------------------------------------------------------
(* Properties.                                                             *)

IsQueue(contents) == contents \notin {EmptyFile, TornFile}

Contents(queue, len) ==
  [i \in 1 .. queue.Count |-> queue.Entry[(Oldest(queue, len) + i - 1) % len]]

stored == IF IsQueue(file) THEN Contents(file, CRITICAL_LEN) ELSE <<>>

\* Heads, counts and counters stay in range, and no slot below Count is empty.
TypeOK ==
  /\ RptQueue \in Queue(REPORT_LEN)
  /\ CritQueue \in Queue(CRITICAL_LEN)
  /\ NoReport \notin {Contents(RptQueue, REPORT_LEN)[i] : i \in 1 .. RptQueue.Count}
  /\ NoReport \notin {Contents(CritQueue, CRITICAL_LEN)[i] : i \in 1 .. CritQueue.Count}
  /\ {CmdCounter, ErrCounter} \subseteq 0 .. CounterMod - 1
  /\ pc \in {"off", "idle", "save", "exited"}
  /\ IsQueue(file) => file \in Queue(CRITICAL_LEN)

\* Between two reports critical.bin holds the critical queue as it is in RAM,
\* so that a reset loses nothing, unless the queue was cleared by command or
\* the last write failed since.
StoredIsCurrent ==
  (pc = "idle" /\ ~hist.cleared /\ ~hist.unsaved) =>
    Contents(CritQueue, CRITICAL_LEN) = stored

\* The rings are well-formed, in RAM and in critical.bin, and between two reports
\* the two agree.
QueuesSound == TypeOK /\ StoredIsCurrent

Fifo ==
  INSTANCE RptFifo WITH
    reports  <- Contents(RptQueue, REPORT_LEN),
    critical <- IF pc \in {"off", "exited"} THEN stored ELSE Contents(CritQueue, CRITICAL_LEN),
    stored   <- stored

\* The ring buffers behave as bounded first-in first-out queues: a packet sent
\* to the ground carries a run of neighbouring entries, oldest first, and behind
\* the newest entry, when more were asked for, zeroed records only; a full queue
\* gives up its oldest entry only, and a reset brings back what was last stored.
FifoRefined == Fifo!Spec
=============================================================================
