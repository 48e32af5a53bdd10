-------------------------- MODULE RptQueuesProofs ---------------------------
(***************************************************************************)
(* Proofs about the two ring buffers of RPT, for every length of the rings *)
(* and every set of reports: they are the bounded queues of RptFifo, in    *)
(* RAM and, for the critical reports, over resets.                         *)
(***************************************************************************)
EXTENDS RptQueues, SequenceTheorems, TLAPS

Entries == Reports \cup {NoReport}

\* A ring of which every slot in use holds a report.
Filled(queue, len) ==
  /\ queue \in Queue(len)
  /\ \A i \in 1 .. queue.Count : Contents(queue, len)[i] \in Reports

-----------------------------------------------------------------------------
(* Ring arithmetic.                                                        *)

\* The remainder of a number below twice the length.
LEMMA RingMod ==
  ASSUME NEW len \in Nat \ {0}, NEW x \in 0 .. 2 * len - 1
  PROVE  x % len = IF x < len THEN x ELSE x - len
<1>1. CASE x < len
  BY <1>1
<1>2. CASE x >= len
  <2>1. x = len * 1 + (x - len) /\ x - len \in 0 .. len - 1
    BY <1>2
  <2> QED
    BY <2>1
<1> QED
  BY <1>1, <1>2

\* The slot of the i-th oldest entry.
Slot(queue, i, len) ==
  IF queue.Head + i > queue.Count THEN queue.Head + i - 1 - queue.Count
  ELSE queue.Head + i - 1 - queue.Count + len

\* The i-th oldest report is in one slot of the ring, whether the ring has wrapped
\* or not.
LEMMA SlotFacts ==
  ASSUME NEW len \in Nat \ {0}, NEW q \in Queue(len), NEW i \in 1 .. q.Count
  PROVE  /\ Slot(q, i, len) \in 0 .. len - 1
         /\ (Oldest(q, len) + i - 1) % len = Slot(q, i, len)
         /\ Contents(q, len)[i] = q.Entry[Slot(q, i, len)]
<1>1. q.Head \in 0 .. len - 1 /\ q.Count \in 0 .. len
  BY DEF Queue
<1> DEFINE x == Oldest(q, len) + i - 1
<1>2. x \in 0 .. 2 * len - 1 /\ x = q.Head + len - q.Count + i - 1
  BY <1>1 DEF Oldest
<1>3. x % len = IF x < len THEN x ELSE x - len
  <2> HIDE DEF x
  <2> QED
    BY <1>2, RingMod
<1>4. Slot(q, i, len) \in 0 .. len - 1
  BY <1>1 DEF Slot
<1>5. x % len = Slot(q, i, len)
  <2> HIDE DEF x
  <2> QED
    BY <1>1, <1>2, <1>3 DEF Slot
<1> QED
  BY <1>4, <1>5 DEF Contents

\* The contents of a ring are a sequence of Count entries.
LEMMA ContentsSeq ==
  ASSUME NEW len \in Nat \ {0}, NEW q \in Queue(len)
  PROVE  /\ Contents(q, len) \in Seq(Entries)
         /\ Len(Contents(q, len)) = q.Count
         /\ q.Count \in 0 .. len
<1>1. q.Count \in 0 .. len /\ q.Entry \in [0 .. len - 1 -> Entries]
  BY DEF Queue, Entries
<1>2. \A i \in 1 .. q.Count : Contents(q, len)[i] \in Entries
  BY <1>1, SlotFacts
<1>3. Contents(q, len) \in [1 .. q.Count -> Entries]
  BY <1>2 DEF Contents
<1>4. Contents(q, len) \in Seq(Entries)
  BY <1>1, <1>3, SeqDef
<1> QED
  BY <1>1, <1>3, <1>4, LenProperties

-----------------------------------------------------------------------------
(* RPT_Enqueue is Put, and the windows are runs of entries.                *)

\* RPT_Enqueue writes at the head and moves it by one, round the end of the array.
LEMMA EnqueueFields ==
  ASSUME NEW len \in Nat \ {0}, NEW q \in Queue(len), NEW r \in Reports
  PROVE  LET n == Enqueue(q, r, len)
         IN  /\ n \in Queue(len)
             /\ n.Entry = [q.Entry EXCEPT ![q.Head] = r]
             /\ n.Head = IF q.Head + 1 < len THEN q.Head + 1 ELSE 0
             /\ n.Count = IF q.Count < len THEN q.Count + 1 ELSE len
<1>1. /\ q.Head \in 0 .. len - 1 /\ q.Count \in 0 .. len
      /\ q.Entry \in [0 .. len - 1 -> Entries]
  BY DEF Queue, Entries
<1>2. (q.Head + 1) % len = IF q.Head + 1 < len THEN q.Head + 1 ELSE 0
  <2> DEFINE x == q.Head + 1
  <2>1. x \in 0 .. 2 * len - 1 /\ x <= len
    BY <1>1
  <2> HIDE DEF x
  <2>2. x % len = IF x < len THEN x ELSE x - len
    BY <2>1, RingMod
  <2>3. x % len = IF x < len THEN x ELSE 0
    BY <2>1, <2>2
  <2> QED
    BY <2>3 DEF x
<1>3. [q.Entry EXCEPT ![q.Head] = r] \in [0 .. len - 1 -> Entries]
  BY <1>1 DEF Entries
<1> QED
  BY <1>1, <1>2, <1>3 DEF Enqueue, Queue, Entries

\* RPT_Enqueue appends to the contents, the oldest entry of a full ring making
\* room.
LEMMA EnqueueIsPut ==
  ASSUME NEW len \in Nat \ {0}, NEW q \in Queue(len), NEW r \in Reports
  PROVE  Contents(Enqueue(q, r, len), len) = Fifo!Put(Contents(q, len), r, len)
<1> DEFINE n == Enqueue(q, r, len)
           c == Contents(q, len)
           d == Contents(n, len)
           p == Fifo!Put(c, r, len)
<1>1. /\ q.Head \in 0 .. len - 1 /\ q.Count \in 0 .. len
      /\ q.Entry \in [0 .. len - 1 -> Entries] /\ r \in Entries
  BY DEF Queue, Entries
<1>2. /\ n \in Queue(len)
      /\ n.Entry = [q.Entry EXCEPT ![q.Head] = r]
      /\ n.Head = IF q.Head + 1 < len THEN q.Head + 1 ELSE 0
      /\ n.Count = IF q.Count < len THEN q.Count + 1 ELSE len
  BY EnqueueFields
<1>3. c \in Seq(Entries) /\ Len(c) = q.Count /\ d \in Seq(Entries) /\ Len(d) = n.Count
  BY <1>2, ContentsSeq
<1> HIDE DEF n
<1>4. ASSUME NEW i \in 1 .. n.Count
      PROVE  d[i] = IF i = n.Count THEN r
                    ELSE IF q.Count < len THEN c[i] ELSE c[i + 1]
  <2>1. d[i] = n.Entry[Slot(n, i, len)]
    BY <1>2, SlotFacts
  <2>2. CASE i = n.Count
    <3>1. Slot(n, i, len) = q.Head
      BY <1>1, <1>2, <2>2 DEF Slot
    <3> QED
      BY <1>1, <1>2, <2>1, <2>2, <3>1
  <2>3. CASE i # n.Count /\ q.Count < len
    <3>1. /\ Slot(n, i, len) = Slot(q, i, len) /\ Slot(q, i, len) # q.Head
          /\ i \in 1 .. q.Count
      <4>1. n.Count = q.Count + 1 /\ i \in 1 .. q.Count
        BY <1>1, <1>2, <2>3
      <4>2. CASE q.Head + 1 < len
        <5>1. n.Head = q.Head + 1
          BY <1>2, <4>2
        <5>2. Slot(n, i, len) = Slot(q, i, len)
          BY <1>1, <4>1, <5>1 DEF Slot
        <5>3. Slot(q, i, len) # q.Head
          BY <1>1, <2>3, <4>1 DEF Slot
        <5> QED
          BY <4>1, <5>2, <5>3
      <4>3. CASE q.Head + 1 = len
        BY <1>1, <1>2, <2>3, <4>1, <4>3 DEF Slot
      <4> QED
        BY <1>1, <4>2, <4>3
    <3>2. c[i] = q.Entry[Slot(q, i, len)] /\ Slot(q, i, len) \in 0 .. len - 1
      BY <3>1, SlotFacts
    <3> QED
      BY <1>1, <1>2, <2>1, <2>3, <3>1, <3>2
  <2>4. CASE i # n.Count /\ q.Count = len
    <3>1. /\ Slot(n, i, len) = Slot(q, i + 1, len) /\ Slot(q, i + 1, len) # q.Head
          /\ i + 1 \in 1 .. q.Count
      BY <1>1, <1>2, <2>4 DEF Slot
    <3>2. c[i + 1] = q.Entry[Slot(q, i + 1, len)] /\ Slot(q, i + 1, len) \in 0 .. len - 1
      BY <3>1, SlotFacts
    <3> QED
      BY <1>1, <1>2, <2>1, <2>4, <3>1, <3>2
  <2> QED
    BY <1>1, <2>2, <2>3, <2>4
<1> HIDE DEF c, d
<1>5. CASE q.Count < len
  <2>1. p = Append(c, r)
    BY <1>3, <1>5 DEF Fifo!Put
  <2>2. p \in Seq(Entries) /\ Len(p) = Len(d) /\ \A i \in 1 .. Len(d) : d[i] = p[i]
    BY <1>1, <1>2, <1>3, <1>4, <1>5, <2>1, AppendProperties
  <2> HIDE DEF p
  <2>3. d = p
    BY <1>3, <2>2, SeqEqual
  <2> QED
    BY <2>3 DEF d, p, c, n
<1>6. CASE q.Count = len
  <2>1. p = Append(Tail(c), r)
    BY <1>1, <1>3, <1>6 DEF Fifo!Put
  <2>2. c # <<>>
    BY <1>3, <1>6
  <2>3. /\ Tail(c) \in Seq(Entries) /\ Len(Tail(c)) = len - 1
        /\ \A i \in 1 .. len - 1 : Tail(c)[i] = c[i + 1]
    BY <1>3, <1>6, <2>2, HeadTailProperties
  <2>4. p \in Seq(Entries) /\ Len(p) = Len(d) /\ \A i \in 1 .. Len(d) : d[i] = p[i]
    <3> DEFINE t == Tail(c)
    <3> HIDE DEF t
    <3>1. /\ p \in Seq(Entries) /\ Len(p) = len /\ p[len] = r
          /\ \A i \in 1 .. len - 1 : p[i] = t[i]
      BY <1>1, <2>1, <2>3, AppendProperties DEF t
    <3> QED
      BY <1>1, <1>2, <1>3, <1>4, <1>6, <2>3, <3>1 DEF t
  <2> HIDE DEF p
  <2>5. d = p
    BY <1>3, <2>4, SeqEqual
  <2> QED
    BY <2>5 DEF d, p, c, n
<1> QED
  BY <1>1, <1>5, <1>6

\* Whatever the ground asks for, what RPT_MultipleReport and
\* RPT_MultipleCritical send is a run of neighbouring entries, and zeroed records
\* only behind the newest entry.
LEMMA WindowIsRun ==
  ASSUME NEW len \in Nat \ {0}, NEW q \in Queue(len), NEW start \in Nat, NEW total \in Nat
  PROVE  \E a \in 1 .. q.Count + 1 : \E b \in a - 1 .. q.Count :
           /\ b - a + 1 <= total
           /\ b - a + 1 < total => b = q.Count
           /\ Window(q, start, total, len) = Fifo!Records(Contents(q, len), a, b, total)
<1> DEFINE first == IF start > q.Count \/ total > q.Count THEN 0 ELSE start
           wanted == IF total > q.Count THEN q.Count ELSE total
           number == IF first + wanted > q.Count THEN q.Count - first ELSE wanted
           c == Contents(q, len)
           w == Window(q, start, total, len)
           a == first + 1
           b == first + number
<1>1. q.Head \in 0 .. len - 1 /\ q.Count \in 0 .. len
  BY DEF Queue
<1>2. /\ first \in 0 .. q.Count /\ number \in 0 .. q.Count - first
      /\ number <= total /\ (number < total => first + number = q.Count)
  BY <1>1
<1>3. w = [i \in 1 .. total |->
             IF i <= number THEN q.Entry[(Oldest(q, len) + first + i - 1) % len] ELSE NoReport]
  BY DEF Window
<1> HIDE DEF first, wanted, number, c, w
<1>4. ASSUME NEW i \in 1 .. number
      PROVE  q.Entry[(Oldest(q, len) + first + i - 1) % len] = c[first + i]
  <2>1. first + i \in 1 .. q.Count
    BY <1>1, <1>2
  <2>2. Oldest(q, len) + first + i - 1 = Oldest(q, len) + (first + i) - 1
    BY <1>1, <1>2 DEF Oldest
  <2>3. (Oldest(q, len) + first + i - 1) % len = Slot(q, first + i, len)
    BY <2>1, <2>2, SlotFacts
  <2> QED
    BY <2>1, <2>3, SlotFacts DEF c
<1>5. b - a + 1 = number /\ \A i \in 1 .. total : a + i - 1 = first + i
  BY <1>1, <1>2
<1>6. Fifo!Records(c, a, b, total) =
        [i \in 1 .. total |-> IF i <= number THEN c[first + i] ELSE NoReport]
  <2> HIDE DEF a, b
  <2> QED
    BY <1>5 DEF Fifo!Records
<1>7. \A i \in 1 .. total : i <= number => i \in 1 .. number
  BY <1>1, <1>2
<1>8. w = Fifo!Records(c, a, b, total)
  <2> HIDE DEF a, b
  <2> QED
    BY <1>3, <1>4, <1>6, <1>7
<1>9. a \in 1 .. q.Count + 1 /\ b \in a - 1 .. q.Count
  BY <1>1, <1>2
<1>10. b - a + 1 <= total /\ (b - a + 1 < total => b = q.Count)
  BY <1>1, <1>2, <1>5
<1> HIDE DEF a, b
<1> QED
  BY <1>8, <1>9, <1>10 DEF w, c

LEMMA ZeroQueueFacts ==
  ASSUME NEW len \in Nat \ {0}
  PROVE  Filled(ZeroQueue(len), len) /\ Contents(ZeroQueue(len), len) = <<>>
<1>1. ZeroQueue(len) \in Queue(len) /\ ZeroQueue(len).Count = 0
  BY DEF ZeroQueue, Queue
<1>2. Contents(ZeroQueue(len), len) \in Seq(Entries) /\ Len(Contents(ZeroQueue(len), len)) = 0
  BY <1>1, ContentsSeq
<1>3. Contents(ZeroQueue(len), len) = <<>>
  BY <1>2, EmptySeq
<1> QED
  BY <1>1, <1>3 DEF Filled

\* RPT_Enqueue leaves no empty slot in use.
LEMMA EnqueueFilled ==
  ASSUME NEW len \in Nat \ {0}, NEW q, Filled(q, len), NEW r \in Reports
  PROVE  Filled(Enqueue(q, r, len), len)
<1> DEFINE n == Enqueue(q, r, len)
           c == Contents(q, len)
<1>1. q \in Queue(len) /\ n \in Queue(len) /\ n.Count = IF q.Count < len THEN q.Count + 1 ELSE len
  BY EnqueueFields DEF Filled
<1>2. c \in Seq(Entries) /\ Len(c) = q.Count /\ q.Count \in 0 .. len
  BY <1>1, ContentsSeq
<1>3. c \in Seq(Reports)
  <2>1. c \in [1 .. q.Count -> Entries]
    BY <1>2, LenProperties
  <2>2. c \in [1 .. q.Count -> Reports]
    BY <2>1 DEF Filled
  <2> HIDE DEF c
  <2> QED
    BY <1>2, <2>2, SeqDef
<1>4. Contents(n, len) = Fifo!Put(c, r, len)
  BY <1>1, EnqueueIsPut
<1> HIDE DEF c, n
<1>5. Fifo!Put(c, r, len) \in Seq(Reports)
  <2>1. CASE Len(c) < len
    BY <1>3, <2>1, AppendProperties DEF Fifo!Put
  <2>2. CASE ~(Len(c) < len)
    <3>1. c # <<>>
      BY <1>2, <2>2
    <3>2. Tail(c) \in Seq(Reports)
      BY <1>3, <3>1, HeadTailProperties
    <3> QED
      BY <2>2, <3>2, AppendProperties DEF Fifo!Put
  <2> QED
    BY <2>1, <2>2
<1>6. Len(Contents(n, len)) = n.Count
  BY <1>1, ContentsSeq
<1>7. \A i \in 1 .. n.Count : Contents(n, len)[i] \in Reports
  BY <1>4, <1>5, <1>6, ElementOfSeq
<1> QED
  BY <1>1, <1>7 DEF Filled, n

-----------------------------------------------------------------------------
(* The inductive invariant.                                                *)

RingsFilled ==
  /\ Filled(RptQueue, REPORT_LEN)
  /\ Filled(CritQueue, CRITICAL_LEN)
  /\ IsQueue(file) => Filled(file, CRITICAL_LEN)

RestOK ==
  /\ CmdCounter \in 0 .. CounterMod - 1
  /\ ErrCounter \in 0 .. CounterMod - 1
  /\ pc \in {"off", "idle", "save", "exited"}
  /\ hist \in [crashes : Nat, cleared : BOOLEAN, unsaved : BOOLEAN]

IInv == RingsFilled /\ RestOK /\ StoredIsCurrent

LEMMA Lengths == REPORT_LEN \in Nat \ {0} /\ CRITICAL_LEN \in Nat \ {0}
BY QueuesAssumption

LEMMA RingsAreQueues ==
  ASSUME NEW q \in Queue(CRITICAL_LEN)
  PROVE  IsQueue(q)
<1>1. q.Head \in 0 .. CRITICAL_LEN - 1
  BY DEF Queue
<1>2. EmptyFile.Head = -1 /\ TornFile.Head = -2
  BY DEF EmptyFile, TornFile, ZeroQueue
<1> QED
  BY <1>1, <1>2, Lengths DEF IsQueue

LEMMA CounterRange ==
  ASSUME NEW c \in 0 .. CounterMod - 1, NEW by \in 0 .. 1
  PROVE  Count(c, by) \in 0 .. CounterMod - 1
BY QueuesAssumption DEF Count

\* What RPT_CriticalQInit leaves in RAM is what the file holds.
LEMMA ReadQueueFacts ==
  ASSUME RingsFilled
  PROVE  /\ Filled(ReadQueue, CRITICAL_LEN)
         /\ Contents(ReadQueue, CRITICAL_LEN) = stored
BY Lengths, ZeroQueueFacts DEF RingsFilled, ReadQueue, stored, IsQueue

LEMMA InitInv == Init => IInv
<1> SUFFICES ASSUME Init PROVE IInv
  OBVIOUS
<1>1. ~IsQueue(EmptyFile)
  BY DEF IsQueue
<1>2. RingsFilled
  BY <1>1, Lengths, ZeroQueueFacts DEF Init, RingsFilled
<1> QED
  BY <1>2, QueuesAssumption DEF Init, IInv, RestOK, StoredIsCurrent

\* The rings in RAM and in critical.bin stay filled up to their count.
LEMMA NextRings ==
  ASSUME IInv, [Next]_vars
  PROVE  RingsFilled'
<1>z. Filled(ZeroQueue(REPORT_LEN), REPORT_LEN) /\ Filled(ZeroQueue(CRITICAL_LEN), CRITICAL_LEN)
  BY Lengths, ZeroQueueFacts
<1>r. \A r \in Reports : Filled(Enqueue(RptQueue, r, REPORT_LEN), REPORT_LEN)
  BY Lengths, EnqueueFilled DEF IInv, RingsFilled
<1>c. \A r \in Reports : Filled(Enqueue(CritQueue, r, CRITICAL_LEN), CRITICAL_LEN)
  BY Lengths, EnqueueFilled DEF IInv, RingsFilled
<1>t. ~IsQueue(TornFile)
  BY DEF IsQueue
<1> USE DEF IInv, RingsFilled
<1>1. CASE Boot
  BY <1>1, ReadQueueFacts DEF Boot, IsQueue
<1>2. CASE BootFails
  BY <1>2 DEF BootFails, IsQueue
<1>3. CASE ForwardReport
  BY <1>3, <1>r DEF ForwardReport, IsQueue
<1>4. CASE AnswerCmd
  BY <1>4, <1>r DEF AnswerCmd, IsQueue
<1>5. CASE ForwardCritical
  BY <1>5, <1>c DEF ForwardCritical, IsQueue
<1>6. CASE SaveCritical
  BY <1>6, <1>t DEF SaveCritical, WriteFails, IsQueue
<1>7. CASE ReportCmd
  BY <1>7 DEF ReportCmd, IsQueue
<1>8. CASE ClearQueueCmd
  BY <1>8, <1>z DEF ClearQueueCmd, IsQueue
<1>9. CASE ResetCounterCmd
  BY <1>9 DEF ResetCounterCmd, IsQueue
<1>10. CASE RejectedCmd
  BY <1>10 DEF RejectedCmd, IsQueue
<1>11. CASE Crash
  BY <1>11, <1>t, <1>z DEF Crash, CrashMidWrite, IsQueue
<1>12. CASE UNCHANGED vars
  BY <1>12 DEF vars, IsQueue
<1> QED
  BY <1>1, <1>2, <1>3, <1>4, <1>5, <1>6, <1>7, <1>8, <1>9, <1>10, <1>11, <1>12 DEF Next

LEMMA NextRest ==
  ASSUME IInv, [Next]_vars
  PROVE  RestOK'
<1>k. \A c \in 0 .. CounterMod - 1 : \A by \in {0, 1} : Count(c, by) \in 0 .. CounterMod - 1
  BY CounterRange
<1>e. \A ok \in BOOLEAN : (IF ok THEN 0 ELSE 1) \in {0, 1}
  OBVIOUS
<1>0. 0 \in 0 .. CounterMod - 1
  BY QueuesAssumption
<1> USE DEF IInv, RestOK
<1>1. CASE Boot
  BY <1>1 DEF Boot, counters
<1>2. CASE BootFails
  BY <1>2 DEF BootFails, counters
<1>3. CASE ForwardReport
  BY <1>3 DEF ForwardReport, counters
<1>4. CASE AnswerCmd
  BY <1>4, <1>e, <1>k DEF AnswerCmd
<1>5. CASE ForwardCritical
  BY <1>5 DEF ForwardCritical, counters
<1>6. CASE SaveCritical
  BY <1>6 DEF SaveCritical, counters
<1>7. CASE ReportCmd
  BY <1>7, <1>e, <1>k DEF ReportCmd
<1>8. CASE ClearQueueCmd
  BY <1>8, <1>k DEF ClearQueueCmd
<1>9. CASE ResetCounterCmd
  BY <1>9, <1>0 DEF ResetCounterCmd
<1>10. CASE RejectedCmd
  BY <1>10, <1>k DEF RejectedCmd
<1>11. CASE Crash
  BY <1>11, <1>0 DEF Crash
<1>12. CASE UNCHANGED vars
  BY <1>12 DEF vars
<1> QED
  BY <1>1, <1>2, <1>3, <1>4, <1>5, <1>6, <1>7, <1>8, <1>9, <1>10, <1>11, <1>12 DEF Next

\* critical.bin follows the queue in RAM.
LEMMA NextStored ==
  ASSUME IInv, [Next]_vars
  PROVE  StoredIsCurrent'
<1>u. ASSUME pc' = pc, file' = file, CritQueue' = CritQueue, hist' = hist
      PROVE  StoredIsCurrent'
  BY <1>u DEF IInv, StoredIsCurrent, stored, IsQueue
<1>1. CASE Boot
  <2>1. CritQueue' = ReadQueue /\ stored' = stored
    BY <1>1 DEF Boot, stored, IsQueue
  <2> QED
    BY <2>1, ReadQueueFacts DEF IInv, StoredIsCurrent
<1>2. CASE BootFails
  BY <1>2 DEF BootFails, StoredIsCurrent
<1>3. CASE ForwardReport
  BY <1>3, <1>u DEF ForwardReport
<1>4. CASE AnswerCmd
  BY <1>4, <1>u DEF AnswerCmd
<1>5. CASE ForwardCritical
  BY <1>5 DEF ForwardCritical, StoredIsCurrent
<1>6. CASE SaveCritical
  <2>1. CASE file' = CritQueue
    <3>1. IsQueue(file') /\ CritQueue' = CritQueue
      BY <1>6, <2>1, RingsAreQueues DEF SaveCritical, IInv, RingsFilled, Filled
    <3> QED
      BY <2>1, <3>1 DEF StoredIsCurrent, stored
  <2>2. CASE hist' = [hist EXCEPT !.unsaved = TRUE]
    BY <2>2 DEF IInv, RestOK, StoredIsCurrent
  <2> QED
    BY <1>6, <2>1, <2>2 DEF SaveCritical
<1>7. CASE ReportCmd
  BY <1>7, <1>u DEF ReportCmd
<1>8. CASE ClearQueueCmd
  <2>1. CASE hist' = [hist EXCEPT !.cleared = TRUE]
    BY <2>1 DEF IInv, RestOK, StoredIsCurrent
  <2>2. CASE UNCHANGED <<CritQueue, hist>>
    BY <1>8, <1>u, <2>2 DEF ClearQueueCmd
  <2> QED
    BY <1>8, <2>1, <2>2 DEF ClearQueueCmd
<1>9. CASE ResetCounterCmd
  BY <1>9, <1>u DEF ResetCounterCmd
<1>10. CASE RejectedCmd
  BY <1>10, <1>u DEF RejectedCmd
<1>11. CASE Crash
  BY <1>11 DEF Crash, StoredIsCurrent
<1>12. CASE UNCHANGED vars
  BY <1>12, <1>u DEF vars
<1> QED
  BY <1>1, <1>2, <1>3, <1>4, <1>5, <1>6, <1>7, <1>8, <1>9, <1>10, <1>11, <1>12 DEF Next

\* Every slot of the rings in use holds a report, in RAM and in critical.bin,
\* whatever RPT_Enqueue, RPT_CriticalQInit, the clear command and resets do.
THEOREM QueuesInvariance == Spec => []IInv
<1>1. Init => IInv
  BY InitInv
<1>2. IInv /\ [Next]_vars => IInv'
  BY NextRings, NextRest, NextStored DEF IInv
<1> QED
  BY <1>1, <1>2, PTL DEF Spec

\* The rings are well-formed for every length, and whenever the task waits
\* critical.bin holds what the critical queue holds, unless the queue was
\* cleared or the last write failed since.
THEOREM QueuesAreSound == Spec => []QueuesSound
<1>1. IInv => QueuesSound
  <2> SUFFICES ASSUME IInv PROVE TypeOK
    BY DEF IInv, QueuesSound
  <2> QED
    BY QueuesAssumption DEF IInv, RingsFilled, RestOK, Filled, TypeOK
<1> QED
  BY <1>1, QueuesInvariance, PTL

-----------------------------------------------------------------------------
(* The rings implement the queues of RptFifo.                              *)

\* The two queues as RptFifo sees them.
reports == Contents(RptQueue, REPORT_LEN)
critical == IF pc \in {"off", "exited"} THEN stored ELSE Contents(CritQueue, CRITICAL_LEN)

LEMMA InitRefines == Init => Fifo!Init
<1> SUFFICES ASSUME Init PROVE Fifo!Init
  OBVIOUS
<1>1. stored = <<>>
  BY DEF Init, stored, IsQueue
<1>2. Contents(RptQueue, REPORT_LEN) = <<>>
  BY Lengths, ZeroQueueFacts DEF Init
<1> QED
  BY <1>1, <1>2 DEF Init, Fifo!Init, NoTlm, Fifo!NoTlm

\* A packet is sent or, when CFE_SB_TransmitMsg fails, none.
LEMMA TransmitIsSend ==
  ASSUME NEW isCritical, NEW entries, NEW ok, Transmit(isCritical, entries, ok)
  PROVE  Fifo!MaySend(isCritical, entries)
BY DEF Transmit, Fifo!MaySend

\* A report is put at the end of the first queue and sent.
LEMMA ReportRefines ==
  ASSUME IInv, NEW r \in Reports, NEW ok \in BOOLEAN, pc = "idle", Transmit(FALSE, <<r>>, ok),
         RptQueue' = Enqueue(RptQueue, r, REPORT_LEN),
         UNCHANGED <<CritQueue, pc, file>>
  PROVE  Fifo!Report
<1>1. Contents(RptQueue', REPORT_LEN) = Fifo!Put(Contents(RptQueue, REPORT_LEN), r, REPORT_LEN)
  BY Lengths, EnqueueIsPut DEF IInv, RingsFilled, Filled
<1>2. stored' = stored
  BY DEF stored, IsQueue
<1>3. Fifo!MaySend(FALSE, <<r>>)
  BY TransmitIsSend
<1> QED
  BY <1>1, <1>2, <1>3 DEF Fifo!Report

LEMMA SilentRefines ==
  ASSUME UNCHANGED <<RptQueue, CritQueue, pc, file, tlm>>
  PROVE  UNCHANGED Fifo!vars
<1>1. stored' = stored
  BY DEF stored, IsQueue
<1> QED
  BY <1>1 DEF Fifo!vars

\* The packet that a report command sends holds a run of the queue, oldest first.
LEMMA DownlinkRefines ==
  ASSUME IInv, ReportCmd
  PROVE  [Fifo!Next]_(Fifo!vars)
<1>1. PICK isCritical \in BOOLEAN, start \in Indices, total \in Indices, ok \in BOOLEAN :
        /\ pc = "idle"
        /\ IF total = 0
           THEN tlm' = tlm
           ELSE Transmit(isCritical,
                         IF isCritical THEN Window(CritQueue, start, total, CRITICAL_LEN)
                                       ELSE Window(RptQueue, start, total, REPORT_LEN), ok)
        /\ UNCHANGED <<RptQueue, CritQueue, pc, file>>
  BY DEF ReportCmd
<1>2. stored' = stored
  BY <1>1 DEF stored, IsQueue
<1>3. CASE tlm' = tlm
  BY <1>1, <1>3, SilentRefines
<1>4. CASE tlm' # tlm
  <2> DEFINE len == IF isCritical THEN CRITICAL_LEN ELSE REPORT_LEN
             q == IF isCritical THEN CritQueue ELSE RptQueue
             c == Contents(q, len)
             e == Window(q, start, total, len)
  <2>1. tlm' = [critical |-> isCritical, entries |-> e]
    BY <1>1, <1>4 DEF Transmit
  <2>2. len \in Nat \ {0} /\ q \in Queue(len) /\ start \in Nat /\ total \in Nat
    BY Lengths, QueuesAssumption DEF IInv, RingsFilled, Filled
  <2>3. c = IF isCritical THEN critical ELSE reports
    BY <1>1 DEF critical, reports
  <2> HIDE DEF len, q
  <2>4. Len(c) = q.Count
    BY <2>2, ContentsSeq
  <2>5. PICK a \in 1 .. q.Count + 1 : \E b \in a - 1 .. q.Count :
          /\ b - a + 1 <= total
          /\ b - a + 1 < total => b = q.Count
          /\ e = Fifo!Records(c, a, b, total)
    BY <2>2, WindowIsRun
  <2> HIDE DEF c, e
  <2>6. \E first \in 1 .. Len(c) + 1 : \E last \in first - 1 .. Len(c) :
          /\ last - first + 1 <= total
          /\ last - first + 1 < total => last = Len(c)
          /\ tlm' = [critical |-> isCritical, entries |-> Fifo!Records(c, first, last, total)]
    BY <2>1, <2>4, <2>5
  <2>7. reports' = reports /\ critical' = critical
    BY <1>1, <1>2 DEF reports, critical
  <2>8. Fifo!Downlink
    BY <1>2, <2>3, <2>6, <2>7 DEF Fifo!Downlink, reports, critical
  <2> QED
    BY <2>8 DEF Fifo!Next
<1> QED
  BY <1>3, <1>4

LEMMA StepRefines ==
  ASSUME IInv, [Next]_vars
  PROVE  [Fifo!Next]_(Fifo!vars)
<1>t. ~IsQueue(TornFile)
  BY DEF IsQueue
<1>q. IsQueue(CritQueue)
  BY RingsAreQueues DEF IInv, RingsFilled, Filled
<1>z. Contents(ZeroQueue(REPORT_LEN), REPORT_LEN) = <<>> /\ Contents(ZeroQueue(CRITICAL_LEN), CRITICAL_LEN) = <<>>
  BY Lengths, ZeroQueueFacts
<1>1. CASE Boot
  <2>1. stored' = stored
    BY <1>1 DEF Boot, stored, IsQueue
  <2>2. Contents(CritQueue', CRITICAL_LEN) = stored
    BY <1>1, ReadQueueFacts DEF Boot, IInv
  <2> QED
    BY <1>1, <2>1, <2>2 DEF Boot, Fifo!vars
<1>2. CASE BootFails
  <2>1. stored' = stored
    BY <1>2 DEF BootFails, stored, IsQueue
  <2> QED
    BY <1>2, <2>1 DEF BootFails, Fifo!vars
<1>3. CASE ForwardReport
  BY <1>3, ReportRefines DEF ForwardReport, Fifo!Next
<1>4. CASE AnswerCmd
  BY <1>4, ReportRefines DEF AnswerCmd, Fifo!Next
<1>5. CASE ForwardCritical
  <2>1. PICK r \in Reports, ok \in BOOLEAN :
          /\ pc = "idle"
          /\ Transmit(TRUE, <<r>>, ok)
          /\ CritQueue' = Enqueue(CritQueue, r, CRITICAL_LEN)
          /\ pc' = "save"
          /\ UNCHANGED <<RptQueue, file>>
    BY <1>5 DEF ForwardCritical
  <2>2. Contents(CritQueue', CRITICAL_LEN) =
          Fifo!Put(Contents(CritQueue, CRITICAL_LEN), r, CRITICAL_LEN)
    BY <2>1, Lengths, EnqueueIsPut DEF IInv, RingsFilled, Filled
  <2>3. stored' = stored
    BY <2>1 DEF stored, IsQueue
  <2>4. Fifo!Critical
    BY <2>1, <2>2, <2>3, TransmitIsSend DEF Fifo!Critical
  <2> QED
    BY <2>4 DEF Fifo!Next
<1>6. CASE SaveCritical
  <2>1. UNCHANGED <<RptQueue, CritQueue, tlm>> /\ pc = "save" /\ pc' = "idle"
    BY <1>6 DEF SaveCritical
  <2>2. CASE file' = CritQueue
    <3>1. stored' = Contents(CritQueue, CRITICAL_LEN)
      BY <1>q, <2>2 DEF stored
    <3> QED
      BY <2>1, <3>1 DEF Fifo!Next, Fifo!Store
  <2>3. CASE file' = file
    <3>1. stored' = stored
      BY <2>3 DEF stored, IsQueue
    <3> QED
      BY <2>1, <3>1 DEF Fifo!vars
  <2>4. CASE Tears /\ file' = TornFile
    <3>1. stored' = <<>>
      BY <1>t, <2>4 DEF stored
    <3> QED
      BY <2>1, <2>4, <3>1 DEF Fifo!Next, Fifo!Store
  <2> QED
    BY <1>6, <2>2, <2>3, <2>4 DEF SaveCritical, WriteFails
<1>7. CASE ReportCmd
  BY <1>7, DownlinkRefines
<1>8. CASE ClearQueueCmd
  <2>1. stored' = stored
    BY <1>8 DEF ClearQueueCmd, stored, IsQueue
  <2> QED
    BY <1>8, <1>z, <2>1 DEF ClearQueueCmd, Fifo!Next, Fifo!Clear
<1>9. CASE ResetCounterCmd
  BY <1>9, SilentRefines DEF ResetCounterCmd
<1>10. CASE RejectedCmd
  BY <1>10, SilentRefines DEF RejectedCmd
<1>11. CASE Crash
  <2>1. stored' \in {stored, critical} \cup (IF Tears THEN {<<>>} ELSE {})
    <3>1. CASE file' = file
      BY <3>1 DEF stored, IsQueue
    <3>2. CASE file' = CritQueue /\ pc = "save"
      BY <1>q, <3>2 DEF stored, critical
    <3>3. CASE Tears /\ file' = TornFile
      BY <1>t, <3>3 DEF stored
    <3> QED
      BY <1>11, <3>1, <3>2, <3>3 DEF Crash, CrashMidWrite
  <2>2. reports' = <<>> /\ critical' = stored' /\ tlm' = tlm
    BY <1>11, <1>z DEF Crash, reports, critical
  <2>3. Fifo!Reset
    BY <2>1, <2>2 DEF Fifo!Reset, reports, critical
  <2> QED
    BY <2>3 DEF Fifo!Next
<1>12. CASE UNCHANGED vars
  BY <1>12, SilentRefines DEF vars
<1> QED
  BY <1>1, <1>2, <1>3, <1>4, <1>5, <1>6, <1>7, <1>8, <1>9, <1>10, <1>11, <1>12 DEF Next

\* For rings of any length RPT_Enqueue, RPT_MultipleReport, RPT_MultipleCritical,
\* the saving of critical.bin and the reload at a boot behave as bounded
\* first-in first-out queues of which a reset brings back the last one stored,
\* and every packet sent is a run of neighbouring entries that zeroed records
\* follow only where the queue has ended.
THEOREM QueuesImplementFifo == Spec => FifoRefined
<1>1. Init => Fifo!Init
  BY InitRefines
<1>2. IInv /\ [Next]_vars => [Fifo!Next]_(Fifo!vars)
  BY StepRefines
<1> QED
  BY <1>1, <1>2, QueuesInvariance, PTL DEF Spec, FifoRefined, Fifo!Spec

=============================================================================
