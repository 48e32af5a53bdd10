-------------------------- MODULE TtcTimelineProofs --------------------------
(***************************************************************************)
(* The invariants of the TTC timeline, the action properties of its        *)
(* commands and cycles, and the refinement of TtcQueue hold for any number *)
(* of slots, any identifiers and any requests.                             *)
(*                                                                         *)
(* Every action treats the timeline in one of a few ways: it leaves it     *)
(* alone, commits a slot, deletes a listed slot, cancels one that is not   *)
(* listed, reserves, rewrites a reserved slot, clears the listed slots or  *)
(* clears all.  One lemma per way shows that TimelineInv is kept; the      *)
(* theorems then only look up which way each action goes.  The action      *)
(* properties follow from the invariant and from which steps send, free or *)
(* commit; those about a whole group command or a whole cycle need an      *)
(* invariant of the loop.  The refinement looks at the same ways with the  *)
(* eyes of the queue.                                                      *)
(***************************************************************************)
EXTENDS TtcHistory, FiniteSetTheorems, WellFoundedInduction, TLAPS

TimelineType ==
  /\ Entries \in [Slots -> EntryType]
  /\ Count \in 0 .. MAX_COMMAND_ENTRIES
  /\ SortedIndex \in [0 .. Count - 1 -> Slots]

TimelineInv ==
  /\ TimelineType
  /\ IndexInv
  /\ UniqueIds
  /\ SlotsSound

\* A group loop stands inside the index.
LoopInv == handler.at \in {"delete", "execute"} => handler.i < Count

\* The variables besides the timeline itself.
RestInv ==
  /\ Paused \in BOOLEAN
  /\ PreviousTime \in Times
  /\ Cycle \in [Executed : Counters, Skipped : Counters, Aborted : Counters,
                ProcessingErrors : Counters, Forward : BOOLEAN, Backward : BOOLEAN]
  /\ Hk \in [Executed : Counters, Skipped : Counters, Aborted : Counters,
             ProcessingErrors : Counters, Forward : Counters, Backward : Counters]
  /\ App \in [CmdCounter : Counters, ErrCounter : Counters]
  /\ handler \in HandlerType
  /\ clock \in Times
  /\ sent \in [by : {"none", "cycle", "command"}, entry : EntryType]
  /\ LoopInv
  /\ NoProcessingErrors

IInv == TimelineInv /\ RestInv
------------------------------------------------------------------------------
(***************************************************************************)
(* Lookups.                                                                *)
(***************************************************************************)
(***************************************************************************)
(* A non-empty set of natural numbers has a Min.                           *)
(***************************************************************************)
LEMMA MinExists ==
  ASSUME NEW S, S \subseteq Nat, S # {}
  PROVE  Min(S) \in S /\ \A y \in S : Min(S) <= y
<1>1. PICK x \in S : \A y \in S : ~(<<y, x>> \in OpToRel(<, Nat))
  BY NatLessThanWellFounded, WFMin
<1>2. ASSUME NEW y \in S PROVE x <= y
  <2>1. x \in Nat /\ y \in Nat /\ <<y, x>> \in Nat \X Nat
    OBVIOUS
  <2>2. y < x => <<y, x>> \in OpToRel(<, Nat)
    BY <2>1 DEF OpToRel
  <2>3. ~(y < x)
    BY <1>1, <2>2
  <2> QED
    BY <2>1, <2>3
<1> QED
  BY <1>2 DEF Min

(***************************************************************************)
(* FirstSlot finds an element of the set or reports that there is none.    *)
(***************************************************************************)
LEMMA FirstSlotFinds ==
  ASSUME NEW S, S \subseteq Slots
  PROVE  /\ Found(FirstSlot(S)) => FirstSlot(S) \in S
         /\ ~Found(FirstSlot(S)) => S = {}
<1> DEFINE T == S \cup {MAX_COMMAND_ENTRIES}
<1>1. T \subseteq Nat /\ T # {}
  BY ConstantsAssumption DEF Slots
<1> HIDE DEF T
<1>2. Min(T) \in T /\ \A y \in T : Min(T) <= y
  BY <1>1, MinExists
<1>3. \A s \in S : s \in T /\ s \in Int /\ s < MAX_COMMAND_ENTRIES
  BY ConstantsAssumption DEF T, Slots
<1> QED
  BY <1>2, <1>3, ConstantsAssumption DEF FirstSlot, Found, T

(***************************************************************************)
(* What the lookups return.                                                *)
(***************************************************************************)
LEMMA EmptySlotFound ==
  ASSUME Found(FindEmptySlot)
  PROVE  FindEmptySlot \in Slots /\ Entries[FindEmptySlot].Status = "EMPTY"
<1> DEFINE S == {s \in Slots : Entries[s].Status = "EMPTY"}
<1>1. S \subseteq Slots
  OBVIOUS
<1>2. FindEmptySlot = FirstSlot(S)
  BY DEF FindEmptySlot
<1>3. FindEmptySlot \in S
  BY <1>1, <1>2, FirstSlotFinds
<1> QED
  BY <1>3

LEMMA ReservedSlotFound ==
  ASSUME NEW id, NEW group, Found(FindReservedSlot(id, group))
  PROVE  LET s == FindReservedSlot(id, group)
         IN /\ s \in Slots
            /\ Entries[s].Status = "RESERVED"
            /\ Entries[s].EntryId = id
            /\ Entries[s].GroupId = group
            /\ ~IsAnonymousEntry(id, group)
<1> DEFINE S == {s \in Slots : /\ ~IsAnonymousEntry(id, group)
                               /\ Entries[s].Status = "RESERVED"
                               /\ Entries[s].EntryId = id
                               /\ Entries[s].GroupId = group}
<1>1. S \subseteq Slots
  OBVIOUS
<1>2. FindReservedSlot(id, group) = FirstSlot(S)
  BY DEF FindReservedSlot
<1>3. FindReservedSlot(id, group) \in S
  BY <1>1, <1>2, FirstSlotFinds
<1> QED
  BY <1>3

LEMMA SlotByEntryIdFound ==
  ASSUME NEW id, NEW group
  PROVE  LET s == FindSlotByEntryId(id, group)
         IN /\ Found(s) => s \in Slots
            /\ ~Found(s) /\ ~IsAnonymousEntry(id, group) =>
                 \A t \in Slots : ~(/\ Entries[t].Status # "EMPTY"
                                    /\ Entries[t].EntryId = id
                                    /\ Entries[t].GroupId = group)
<1> DEFINE S == {s \in Slots : /\ ~IsAnonymousEntry(id, group)
                               /\ Entries[s].Status # "EMPTY"
                               /\ Entries[s].EntryId = id
                               /\ Entries[s].GroupId = group}
<1>1. S \subseteq Slots
  OBVIOUS
<1>2. FindSlotByEntryId(id, group) = FirstSlot(S)
  BY DEF FindSlotByEntryId
<1>3. /\ Found(FindSlotByEntryId(id, group)) => FindSlotByEntryId(id, group) \in S
      /\ ~Found(FindSlotByEntryId(id, group)) => S = {}
  BY <1>1, <1>2, FirstSlotFinds
<1> QED
  BY <1>3

(***************************************************************************)
(* The insertion point separates the later tags from the others.           *)
(***************************************************************************)
LEMMA InsertionPointSplits ==
  ASSUME TimelineType, IndexSorted, NEW tag \in Times
  PROVE  LET k == FindSortedIndex(tag)
         IN /\ k \in 0 .. Count
            /\ \A i \in 0 .. k - 1 : tag < Entries[SortedIndex[i]].TimeTag
            /\ \A i \in k .. Count - 1 : tag >= Entries[SortedIndex[i]].TimeTag
<1> DEFINE T(i) == Entries[SortedIndex[i]].TimeTag
<1> DEFINE S == {k \in 0 .. Count : k < Count => ~(tag < T(k))}
<1> DEFINE k == FindSortedIndex(tag)
<1>1. Count \in Nat /\ tag \in Int /\ \A i \in 0 .. Count - 1 : T(i) \in Int
  BY ConstantsAssumption DEF TimelineType, EntryType, Times
<1>2. S \subseteq Nat /\ Count \in S
  BY <1>1
<1>3. k = Min(S)
  BY DEF FindSortedIndex
<1>4. \A i, j \in 0 .. Count - 1 : i <= j => T(i) >= T(j)
  BY DEF IndexSorted
<1>5. k \in S /\ \A y \in S : k <= y
  <2> HIDE DEF S
  <2> QED
    BY <1>2, <1>3, MinExists
<1>6. k \in 0 .. Count /\ (k < Count => tag >= T(k))
  BY <1>5, <1>1
<1> HIDE DEF T
<1>7. \A i \in 0 .. k - 1 : tag < T(i)
  BY <1>1, <1>5, <1>6
<1>8. \A i \in k .. Count - 1 : tag >= T(i)
  BY <1>1, <1>4, <1>6
<1> QED
  BY <1>6, <1>7, <1>8 DEF T
------------------------------------------------------------------------------
(***************************************************************************)
(* The ways an action treats the timeline.                                 *)
(***************************************************************************)
\* Entry e may take the slot: its identifiers are free or anonymous.
MayTake(slot, e) ==
  \A t \in Slots \ {slot} :
     ~(/\ Entries[t].Status # "EMPTY"
       /\ Entries[t].EntryId = e.EntryId
       /\ Entries[t].GroupId = e.GroupId
       /\ ~IsAnonymousEntry(e.EntryId, e.GroupId))

(***************************************************************************)
(* A slot cleared by memset is an entry of the right type.                 *)
(***************************************************************************)
LEMMA EmptyEntryType ==
  /\ EmptyEntry \in EntryType
  /\ EmptyEntry.Status = "EMPTY"
<1>1. 0 \in Times /\ 0 \in Nat /\ 7 \in Nat /\ 0 \in EntryIds /\ 0 \in GroupIds
  BY ConstantsAssumption DEF Times
<1> QED
  BY <1>1 DEF EmptyEntry, EntryType, ExecTypes, ZERO_HEADER_SIZE

(***************************************************************************)
(* Most actions leave the timeline alone.                                  *)
(***************************************************************************)
LEMMA UnchangedKeepsInv ==
  ASSUME TimelineInv, UNCHANGED timeline
  PROVE  TimelineInv'
BY DEF timeline, TimelineInv, TimelineType, IndexInv, IndexDistinct, IndexExact,
       IndexSorted, InIndex, UniqueIds, SlotsSound

(***************************************************************************)
(* Writing an entry that may take the slot keeps the identifiers unique.   *)
(***************************************************************************)
LEMMA TakeKeepsUniqueIds ==
  ASSUME TimelineType, UniqueIds, NEW slot \in Slots, NEW e,
         e.Status # "EMPTY" => MayTake(slot, e),
         Entries' = [Entries EXCEPT ![slot] = e]
  PROVE  UniqueIds'
<1> SUFFICES ASSUME NEW s \in Slots, NEW t \in Slots,
                    Entries'[s].Status # "EMPTY",
                    Entries'[t].Status # "EMPTY",
                    Entries'[s].EntryId = Entries'[t].EntryId,
                    Entries'[s].GroupId = Entries'[t].GroupId,
                    ~IsAnonymousEntry(Entries'[s].EntryId, Entries'[s].GroupId),
                    s # t
             PROVE  FALSE
  BY DEF UniqueIds, IsAnonymousEntry
<1>1. Entries'[slot] = e /\ \A u \in Slots \ {slot} : Entries'[u] = Entries[u]
  BY DEF TimelineType
<1>2. CASE s = slot
  BY <1>1, <1>2 DEF MayTake
<1>3. CASE t = slot
  BY <1>1, <1>3 DEF MayTake
<1>4. CASE s # slot /\ t # slot
  BY <1>1, <1>4 DEF UniqueIds
<1> QED
  BY <1>2, <1>3, <1>4

(***************************************************************************)
(* CancelSlot, a reservation and a chunk written edit one slot that is not *)
(* PENDING before nor after.                                               *)
(***************************************************************************)
LEMMA EditKeepsInv ==
  ASSUME TimelineInv, NEW slot \in Slots, NEW e \in EntryType,
         Entries[slot].Status # "PENDING",
         e.Status # "PENDING",
         e.Status = "EMPTY" => e = EmptyEntry,
         e.Status # "EMPTY" => MayTake(slot, e),
         Entries' = [Entries EXCEPT ![slot] = e],
         UNCHANGED <<SortedIndex, Count>>
  PROVE  TimelineInv'
<1>1. TimelineType'
  BY DEF TimelineInv, TimelineType
<1>2. Entries'[slot] = e /\ \A u \in Slots \ {slot} : Entries'[u] = Entries[u]
  BY DEF TimelineInv, TimelineType
<1>3. \A i \in 0 .. Count - 1 : SortedIndex[i] \in Slots \ {slot}
  BY DEF TimelineInv, TimelineType, IndexInv, IndexExact, InIndex
<1>4. IndexInv'
  <2>1. IndexDistinct'
    BY DEF TimelineInv, IndexInv, IndexDistinct
  <2>2. IndexExact'
    BY <1>2, <1>3 DEF TimelineInv, IndexInv, IndexExact, InIndex
  <2>3. IndexSorted'
    BY <1>2, <1>3 DEF TimelineInv, IndexInv, IndexSorted
  <2> QED
    BY <2>1, <2>2, <2>3 DEF IndexInv
<1>5. UniqueIds'
  BY TakeKeepsUniqueIds DEF TimelineInv
<1>6. SlotsSound'
  BY <1>2 DEF TimelineInv, SlotsSound
<1> QED
  BY <1>1, <1>4, <1>5, <1>6 DEF TimelineInv

(***************************************************************************)
(* CommitSlot lists a slot that was not PENDING.                           *)
(***************************************************************************)
LEMMA CommitKeepsInv ==
  ASSUME TimelineInv, NEW slot \in Slots, NEW e \in EntryType,
         Entries[slot].Status # "PENDING",
         e.Status = "PENDING",
         e.ExecutionType \in ExecTypes,
         e.MsgSize = e.CmdSize,
         e.CmdSize <= MAX_COMMAND_SIZE,
         MayTake(slot, e),
         Count < MAX_COMMAND_ENTRIES,
         Entries' = [Entries EXCEPT ![slot] = e],
         InsertSlotToSortedIndex(e.TimeTag, slot)
  PROVE  TimelineInv'
<1> DEFINE k == FindSortedIndex(e.TimeTag)
<1> DEFINE T(i) == Entries[SortedIndex[i]].TimeTag
<1>0. Count \in Nat /\ MAX_COMMAND_ENTRIES \in Nat
  BY ConstantsAssumption DEF TimelineInv, TimelineType
<1>1. e.TimeTag \in Times /\ e.TimeTag \in Int
  BY ConstantsAssumption DEF EntryType, Times
<1>2. /\ k \in 0 .. Count
      /\ \A i \in 0 .. k - 1 : e.TimeTag < T(i)
      /\ \A i \in k .. Count - 1 : e.TimeTag >= T(i)
  BY <1>1, InsertionPointSplits DEF TimelineInv, IndexInv
<1>3. /\ SortedIndex' = [j \in 0 .. Count |->
                            IF j < k THEN SortedIndex[j]
                            ELSE IF j = k THEN slot ELSE SortedIndex[j - 1]]
      /\ Count' = Count + 1
  BY DEF InsertSlotToSortedIndex
<1> HIDE DEF k
<1>4. \A i \in 0 .. Count - 1 : SortedIndex[i] \in Slots \ {slot}
  BY DEF TimelineInv, TimelineType, IndexInv, IndexExact, InIndex
<1>5. Entries'[slot] = e /\ \A u \in Slots \ {slot} : Entries'[u] = Entries[u]
  BY DEF TimelineInv, TimelineType
<1>6. /\ \A j \in 0 .. Count : j < k => SortedIndex'[j] = SortedIndex[j] /\ j \in 0 .. Count - 1
      /\ SortedIndex'[k] = slot
      /\ \A j \in 0 .. Count : j > k => SortedIndex'[j] = SortedIndex[j - 1] /\ j - 1 \in 0 .. Count - 1
  BY <1>0, <1>2, <1>3
<1>7. TimelineType'
  <2>1. Count' \in 0 .. MAX_COMMAND_ENTRIES
    BY <1>0, <1>3
  <2>2. Entries' \in [Slots -> EntryType]
    BY DEF TimelineInv, TimelineType
  <2>3. \A j \in 0 .. Count : SortedIndex'[j] \in Slots
    BY <1>0, <1>2, <1>4, <1>6
  <2>4. 0 .. Count' - 1 = 0 .. Count
    BY <1>0, <1>3
  <2>5. SortedIndex' \in [0 .. Count' - 1 -> Slots]
    BY <1>3, <2>3, <2>4
  <2> QED
    BY <2>1, <2>2, <2>5 DEF TimelineType
<1>8. 0 .. Count' - 1 = 0 .. Count
  BY <1>0, <1>3
<1>9. IndexDistinct'
  <2> SUFFICES ASSUME NEW i \in 0 .. Count, NEW j \in 0 .. Count, i < j
               PROVE  SortedIndex'[i] # SortedIndex'[j]
    <3>1. \A i, j \in 0 .. Count : i < j => SortedIndex'[i] # SortedIndex'[j]
      OBVIOUS
    <3>2. \A i, j \in 0 .. Count : i # j => i < j \/ j < i
      BY <1>0
    <3> QED
      BY <1>8, <3>1, <3>2 DEF IndexDistinct
  <2>1. \A a, b \in 0 .. Count - 1 : SortedIndex[a] = SortedIndex[b] => a = b
    BY DEF TimelineInv, IndexInv, IndexDistinct
  <2>2. CASE j < k
    BY <1>0, <1>2, <1>6, <2>1, <2>2
  <2>3. CASE j = k
    BY <1>0, <1>2, <1>4, <1>6, <2>3
  <2>4. CASE j > k /\ i < k
    BY <1>0, <1>2, <1>6, <2>1, <2>4
  <2>5. CASE j > k /\ i = k
    BY <1>0, <1>2, <1>4, <1>6, <2>5
  <2>6. CASE j > k /\ i > k
    BY <1>0, <1>2, <1>6, <2>1, <2>6
  <2> QED
    BY <1>0, <1>2, <2>2, <2>3, <2>4, <2>5, <2>6
<1>10. IndexExact'
  <2> SUFFICES ASSUME NEW s \in Slots
               PROVE  Entries'[s].Status = "PENDING" <=>
                        \E i \in 0 .. Count : SortedIndex'[i] = s
    BY <1>8 DEF IndexExact, InIndex
  <2>1. CASE s = slot
    BY <1>0, <1>2, <1>5, <1>6, <2>1
  <2>2. CASE s # slot
    <3>1. Entries'[s].Status = "PENDING" <=> \E i \in 0 .. Count - 1 : SortedIndex[i] = s
      BY <1>5, <2>2 DEF TimelineInv, IndexInv, IndexExact, InIndex
    <3>2. ASSUME NEW i \in 0 .. Count - 1, SortedIndex[i] = s
          PROVE  \E j \in 0 .. Count : SortedIndex'[j] = s
      <4>1. CASE i < k
        BY <1>0, <1>2, <1>6, <3>2, <4>1
      <4>2. CASE i >= k
        <5>1. i + 1 \in 0 .. Count /\ i + 1 > k /\ (i + 1) - 1 = i
          BY <1>0, <1>2, <4>2
        <5> QED
          BY <5>1, <1>6, <3>2
      <4> QED
        BY <1>0, <1>2, <4>1, <4>2
    <3>3. ASSUME NEW j \in 0 .. Count, SortedIndex'[j] = s
          PROVE  \E i \in 0 .. Count - 1 : SortedIndex[i] = s
      <4>1. CASE j < k
        BY <1>6, <3>3, <4>1
      <4>2. CASE j = k
        BY <1>6, <2>2, <3>3, <4>2
      <4>3. CASE j > k
        BY <1>6, <3>3, <4>3
      <4> QED
        BY <1>0, <1>2, <4>1, <4>2, <4>3
    <3> QED
      BY <3>1, <3>2, <3>3
  <2> QED
    BY <2>1, <2>2
<1>11. IndexSorted'
  <2> SUFFICES ASSUME NEW i \in 0 .. Count, NEW j \in 0 .. Count, i <= j
               PROVE  Entries'[SortedIndex'[i]].TimeTag >= Entries'[SortedIndex'[j]].TimeTag
    BY <1>8 DEF IndexSorted
  <2>1. \A a, b \in 0 .. Count - 1 : a <= b => T(a) >= T(b)
    BY DEF TimelineInv, IndexInv, IndexSorted
  <2>2. \A a \in 0 .. Count - 1 : T(a) \in Int
    BY <1>4, ConstantsAssumption DEF TimelineInv, TimelineType, EntryType, Times
  <2>3. \A a \in 0 .. Count - 1 : Entries'[SortedIndex[a]].TimeTag = T(a)
    BY <1>4, <1>5
  <2> HIDE DEF T
  <2>4. /\ \A a \in 0 .. Count : a < k => Entries'[SortedIndex'[a]].TimeTag = T(a)
        /\ Entries'[SortedIndex'[k]].TimeTag = e.TimeTag
        /\ \A a \in 0 .. Count : a > k => Entries'[SortedIndex'[a]].TimeTag = T(a - 1)
    BY <1>5, <1>6, <2>3
  <2>5. CASE j < k
    BY <1>0, <1>2, <1>6, <2>1, <2>4, <2>5
  <2>6. CASE j = k /\ i < k
    BY <1>0, <1>1, <1>2, <1>6, <2>2, <2>4, <2>6
  <2>7. CASE j = k /\ i = k
    BY <1>1, <2>4, <2>7
  <2>8. CASE j > k /\ i < k
    BY <1>0, <1>2, <1>6, <2>1, <2>4, <2>8
  <2>9. CASE j > k /\ i = k
    BY <1>0, <1>1, <1>2, <1>6, <2>2, <2>4, <2>9
  <2>10. CASE j > k /\ i > k
    BY <1>0, <1>2, <1>6, <2>1, <2>4, <2>10
  <2> QED
    BY <1>0, <1>2, <2>5, <2>6, <2>7, <2>8, <2>9, <2>10
<1>12. UniqueIds'
  BY TakeKeepsUniqueIds DEF TimelineInv
<1>13. SlotsSound'
  BY <1>5 DEF TimelineInv, SlotsSound
<1> QED
  BY <1>7, <1>9, <1>10, <1>11, <1>12, <1>13 DEF TimelineInv, IndexInv

(***************************************************************************)
(* DeleteSlot closes the gap it leaves in the index.                       *)
(***************************************************************************)
LEMMA DeleteKeepsInv ==
  ASSUME TimelineInv, NEW slot \in Slots, DeleteSlot(slot)
  PROVE  TimelineInv' /\ (Count' = Count \/ Count' = Count - 1)
<1>1. CASE ~InIndex(slot)
  <2>1. UNCHANGED timeline
    BY <1>1 DEF DeleteSlot
  <2> QED
    BY <2>1, UnchangedKeepsInv DEF timeline
<1>2. CASE InIndex(slot)
  <2> DEFINE p == CHOOSE i \in 0 .. Count - 1 : SortedIndex[i] = slot
  <2>1. p \in 0 .. Count - 1 /\ SortedIndex[p] = slot
    BY <1>2 DEF InIndex
  <2>2. /\ Entries' = [Entries EXCEPT ![slot] = EmptyEntry]
        /\ SortedIndex' = [j \in 0 .. Count - 2 |->
                             IF j < p THEN SortedIndex[j] ELSE SortedIndex[j + 1]]
        /\ Count' = Count - 1
    BY <1>2 DEF DeleteSlot
  <2> HIDE DEF p
  <2>3. Count \in Nat /\ Count > 0 /\ p \in Int /\ 0 .. Count' - 1 = 0 .. Count - 2
    BY <2>1, <2>2 DEF TimelineInv, TimelineType
  <2>4. Entries'[slot] = EmptyEntry /\ \A u \in Slots \ {slot} : Entries'[u] = Entries[u]
    BY <2>2 DEF TimelineInv, TimelineType
  <2>5. \A a, b \in 0 .. Count - 1 : SortedIndex[a] = SortedIndex[b] => a = b
    BY DEF TimelineInv, IndexInv, IndexDistinct
  \* Where position j of the new index comes from.
  <2> DEFINE from(j) == IF j < p THEN j ELSE j + 1
  <2>6. \A j \in 0 .. Count - 2 : /\ SortedIndex'[j] = SortedIndex[from(j)]
                                  /\ from(j) \in 0 .. Count - 1
                                  /\ from(j) # p
    BY <2>1, <2>2, <2>3
  <2>7. \A i, j \in 0 .. Count - 2 : /\ i <= j => from(i) <= from(j)
                                     /\ from(i) = from(j) => i = j
    BY <2>3
  <2> HIDE DEF from
  <2>8. \A j \in 0 .. Count - 2 : SortedIndex'[j] \in Slots \ {slot}
    BY <2>1, <2>5, <2>6 DEF TimelineInv, TimelineType
  <2>9. TimelineType'
    <3>1. Count' \in 0 .. MAX_COMMAND_ENTRIES
      BY <2>2, <2>3, ConstantsAssumption DEF TimelineInv, TimelineType
    <3>2. Entries' \in [Slots -> EntryType]
      BY <2>2, EmptyEntryType DEF TimelineInv, TimelineType
    <3>3. SortedIndex' \in [0 .. Count' - 1 -> Slots]
      BY <2>2, <2>3, <2>8
    <3> QED
      BY <3>1, <3>2, <3>3 DEF TimelineType
  <2>10. IndexDistinct'
    <3> SUFFICES ASSUME NEW i \in 0 .. Count - 2, NEW j \in 0 .. Count - 2,
                        SortedIndex'[i] = SortedIndex'[j]
                 PROVE  i = j
      BY <2>3 DEF IndexDistinct
    <3>1. from(i) = from(j)
      BY <2>5, <2>6
    <3> QED
      BY <2>7, <3>1
  <2>11. IndexExact'
    <3> SUFFICES ASSUME NEW s \in Slots
                 PROVE  Entries'[s].Status = "PENDING" <=>
                          \E i \in 0 .. Count - 2 : SortedIndex'[i] = s
      BY <2>3 DEF IndexExact, InIndex
    <3>1. CASE s = slot
      BY <2>4, <2>8, <3>1, EmptyEntryType
    <3>2. CASE s # slot
      <4>1. Entries'[s].Status = "PENDING" <=> \E i \in 0 .. Count - 1 : SortedIndex[i] = s
        BY <2>4, <3>2 DEF TimelineInv, IndexInv, IndexExact, InIndex
      <4>2. ASSUME NEW i \in 0 .. Count - 1, SortedIndex[i] = s
            PROVE  \E j \in 0 .. Count - 2 : SortedIndex'[j] = s
        <5>1. i # p
          BY <2>1, <3>2, <4>2
        <5>2. CASE i < p
          <6>1. i \in 0 .. Count - 2 /\ from(i) = i
            BY <2>1, <2>3, <5>2 DEF from
          <6> QED
            BY <2>6, <4>2, <6>1
        <5>3. CASE i > p
          <6>1. i - 1 \in 0 .. Count - 2 /\ from(i - 1) = i
            BY <2>1, <2>3, <5>3 DEF from
          <6> QED
            BY <2>6, <4>2, <6>1
        <5> QED
          BY <2>3, <5>1, <5>2, <5>3
      <4>3. ASSUME NEW j \in 0 .. Count - 2, SortedIndex'[j] = s
            PROVE  \E i \in 0 .. Count - 1 : SortedIndex[i] = s
        BY <2>6, <4>3
      <4> QED
        BY <4>1, <4>2, <4>3
    <3> QED
      BY <3>1, <3>2
  <2>12. IndexSorted'
    <3> SUFFICES ASSUME NEW i \in 0 .. Count - 2, NEW j \in 0 .. Count - 2, i <= j
                 PROVE  Entries'[SortedIndex'[i]].TimeTag >= Entries'[SortedIndex'[j]].TimeTag
      BY <2>3 DEF IndexSorted
    <3>1. from(i) <= from(j) /\ from(i) \in 0 .. Count - 1 /\ from(j) \in 0 .. Count - 1
      BY <2>6, <2>7
    <3>2. Entries[SortedIndex[from(i)]].TimeTag >= Entries[SortedIndex[from(j)]].TimeTag
      BY <3>1 DEF TimelineInv, IndexInv, IndexSorted
    <3> QED
      BY <2>4, <2>6, <2>8, <3>2
  <2>13. UniqueIds'
    BY <2>2, EmptyEntryType, TakeKeepsUniqueIds DEF TimelineInv
  <2>14. SlotsSound'
    BY <2>4, EmptyEntryType DEF TimelineInv, SlotsSound
  <2> QED
    BY <2>2, <2>9, <2>10, <2>11, <2>12, <2>13, <2>14 DEF TimelineInv, IndexInv
<1> QED
  BY <1>1, <1>2

(***************************************************************************)
(* Clearing the listed slots leaves no PENDING slot and no list.           *)
(***************************************************************************)
LEMMA ClearPendingKeepsInv ==
  ASSUME TimelineInv, ClearPending
  PROVE  TimelineInv' /\ Count' = 0
<1>1. \A s \in Slots : /\ InIndex(s) => Entries'[s] = EmptyEntry
                       /\ ~InIndex(s) => Entries'[s] = Entries[s]
  BY DEF ClearPending
<1>2. \A s \in Slots : Entries'[s].Status # "PENDING"
  BY <1>1, EmptyEntryType DEF TimelineInv, IndexInv, IndexExact
<1>3. TimelineType'
  <2>1. Entries' \in [Slots -> EntryType]
    BY EmptyEntryType DEF ClearPending, TimelineInv, TimelineType
  <2> QED
    BY <2>1, ConstantsAssumption DEF ClearPending, TimelineType
<1>4. IndexInv'
  BY <1>2 DEF ClearPending, IndexInv, IndexDistinct, IndexExact, IndexSorted, InIndex
<1>5. UniqueIds'
  BY <1>1, EmptyEntryType DEF TimelineInv, UniqueIds
<1>6. SlotsSound'
  BY <1>1, EmptyEntryType DEF TimelineInv, SlotsSound
<1> QED
  BY <1>3, <1>4, <1>5, <1>6 DEF TimelineInv, ClearPending

(***************************************************************************)
(* A timeline cleared by memset satisfies the invariant.                   *)
(***************************************************************************)
LEMMA ClearTimelineKeepsInv ==
  ASSUME ClearTimeline
  PROVE  TimelineInv' /\ Count' = 0
<1>1. \A s \in Slots : Entries'[s] = EmptyEntry
  BY DEF ClearTimeline
<1>2. TimelineType'
  <2>1. Entries' \in [Slots -> EntryType]
    BY EmptyEntryType DEF ClearTimeline
  <2> QED
    BY <2>1, ConstantsAssumption DEF ClearTimeline, TimelineType
<1>3. IndexInv'
  BY <1>1, EmptyEntryType DEF ClearTimeline, IndexInv, IndexDistinct, IndexExact,
                              IndexSorted, InIndex
<1>4. UniqueIds'
  BY <1>1, EmptyEntryType DEF UniqueIds
<1>5. SlotsSound'
  BY <1>1, EmptyEntryType DEF SlotsSound
<1> QED
  BY <1>2, <1>3, <1>4, <1>5 DEF TimelineInv, ClearTimeline
------------------------------------------------------------------------------
(***************************************************************************)
(* The other variables.                                                    *)
(***************************************************************************)
(***************************************************************************)
(* A counter stays within its width.                                       *)
(***************************************************************************)
LEMMA IncrType ==
  /\ \A n, by \in Nat : Incr(n, by) \in Counters
  /\ Incr(0, 0) = 0
  /\ 0 \in Counters
  /\ Counters \subseteq Nat
BY ConstantsAssumption DEF Incr, Counters

(***************************************************************************)
(* The constants that stand for "nothing" have the right types.            *)
(***************************************************************************)
LEMMA NeutralTypes ==
  /\ NoEntry \in [by : {"none", "cycle", "command"}, entry : EntryType]
  /\ Idle \in HandlerType
  /\ Idle.at = "idle"
  /\ ZeroCycle \in [Executed : Counters, Skipped : Counters, Aborted : Counters,
                    ProcessingErrors : Counters, Forward : BOOLEAN, Backward : BOOLEAN]
  /\ ZeroCycle.ProcessingErrors = 0
  /\ ZeroHk \in [Executed : Counters, Skipped : Counters, Aborted : Counters,
                 ProcessingErrors : Counters, Forward : Counters, Backward : Counters]
  /\ ZeroHk.ProcessingErrors = 0
<1>1. 0 \in Times /\ 0 \in GroupIds /\ 0 \in -1 .. MAX_COMMAND_ENTRIES - 1
  BY ConstantsAssumption DEF Times
<1>2. Idle \in HandlerType /\ Idle.at = "idle"
  BY <1>1 DEF Idle, HandlerType
<1> QED
  BY <1>2, EmptyEntryType, IncrType DEF NoEntry, ZeroCycle, ZeroHk

(***************************************************************************)
(* A command that is one step, edits only the timeline and is counted.     *)
(***************************************************************************)
LEMMA CommandKeepsRest ==
  ASSUME RestInv, Command, KeepCycle, NEW status, CountCommand(status)
  PROVE  RestInv'
<1>1. App' \in [CmdCounter : Counters, ErrCounter : Counters]
  BY IncrType DEF RestInv, CountCommand
<1>2. handler' = Idle
  BY DEF Command
<1>3. LoopInv'
  BY <1>2, NeutralTypes DEF LoopInv
<1> QED
  BY <1>1, <1>3, NeutralTypes DEF RestInv, Command, KeepCycle, NoProcessingErrors

(***************************************************************************)
(* ExecuteEntry on a PENDING slot.                                         *)
(***************************************************************************)
LEMMA ExecuteKeepsInv ==
  ASSUME IInv, NEW slot \in Slots, Entries[slot].Status = "PENDING",
         NEW persistent \in BOOLEAN, NEW by \in {"cycle", "command"},
         ExecuteEntry(slot, persistent, by)
  PROVE  /\ TimelineInv'
         /\ Count' = Count \/ Count' = Count - 1
         /\ sent' \in [by : {"none", "cycle", "command"}, entry : EntryType]
         /\ Cycle' \in [Executed : Counters, Skipped : Counters, Aborted : Counters,
                        ProcessingErrors : Counters, Forward : BOOLEAN, Backward : BOOLEAN]
         /\ Cycle'.ProcessingErrors = Cycle.ProcessingErrors
<1>1. /\ sent' = [by |-> by, entry |-> Entries[slot]]
      /\ IF persistent THEN UNCHANGED timeline ELSE DeleteSlot(slot)
      /\ Cycle' = [Cycle EXCEPT !.Executed = Incr(@, 1)]
  BY DEF ExecuteEntry
<1>2. Entries[slot] \in EntryType
  BY DEF IInv, TimelineInv, TimelineType
<1>3. sent' \in [by : {"none", "cycle", "command"}, entry : EntryType]
  BY <1>1, <1>2
<1>4. /\ Cycle' \in [Executed : Counters, Skipped : Counters, Aborted : Counters,
                     ProcessingErrors : Counters, Forward : BOOLEAN, Backward : BOOLEAN]
      /\ Cycle'.ProcessingErrors = Cycle.ProcessingErrors
  BY <1>1, IncrType DEF IInv, RestInv
<1>5. TimelineInv' /\ (Count' = Count \/ Count' = Count - 1)
  <2>1. CASE persistent
    <3>1. UNCHANGED timeline
      BY <1>1, <2>1
    <3> QED
      BY <3>1, UnchangedKeepsInv DEF IInv, timeline
  <2>2. CASE ~persistent
    BY <1>1, <2>2, DeleteKeepsInv DEF IInv
  <2> QED
    BY <2>1, <2>2
<1> QED
  BY <1>3, <1>4, <1>5
------------------------------------------------------------------------------
(***************************************************************************)
(* The commands that write to the timeline.                                *)
(***************************************************************************)
(***************************************************************************)
(* A request has the fields CommitSlot copies, and its absolute TimeTag is *)
(* a time even where the sum wraps.                                        *)
(***************************************************************************)
LEMMA RequestTypes ==
  ASSUME NEW r \in Requests, clock \in Times
  PROVE  /\ r.EntryId \in EntryIds /\ r.GroupId \in GroupIds
         /\ r.StalenessThreshold \in Nat /\ r.MsgSize \in Nat /\ r.CmdSize \in Nat
         /\ r.ExecutionType \in ExecTypes \cup {"INVALID"}
         /\ AbsTimeTag(r) \in Times
<1>1. /\ r.EntryId \in EntryIds /\ r.GroupId \in GroupIds /\ r.TimeTag \in Times
      /\ r.StalenessThreshold \in Nat /\ r.MsgSize \in Nat /\ r.CmdSize \in Nat
      /\ r.ExecutionType \in ExecTypes \cup {"INVALID"}
  BY ConstantsAssumption DEF RequestType
<1>2. \A a, b \in Times : (a + b) % TimeMod \in Times
  BY ConstantsAssumption DEF Times
<1> QED
  BY <1>1, <1>2 DEF AbsTimeTag

(***************************************************************************)
(* CommitSlot on a slot that holds entry e, not PENDING, whose identifiers *)
(* no other slot has, when CommitStatus allows it.                         *)
(***************************************************************************)
LEMMA CommitSlotKeepsInv ==
  ASSUME TimelineInv, clock \in Times,
         NEW slot \in Slots, NEW e \in EntryType, NEW r \in Requests,
         Entries[slot].Status # "PENDING",
         MayTake(slot, e),
         CommitStatus(e, r) = "CFE_SUCCESS",
         CommitSlot(slot, e, r)
  PROVE  TimelineInv'
<1> DEFINE f == [e EXCEPT !.TimeTag = AbsTimeTag(r),
                          !.StalenessThreshold = r.StalenessThreshold,
                          !.ExecutionType = r.ExecutionType,
                          !.CmdSize = r.CmdSize,
                          !.Status = "PENDING"]
<1>1. /\ r.ExecutionType \in ExecTypes
      /\ e.MsgSize = r.CmdSize
      /\ ~(r.CmdSize > MAX_COMMAND_SIZE)
      /\ ~(Count >= MAX_COMMAND_ENTRIES)
  BY DEF CommitStatus
<1>2. Count \in Int /\ MAX_COMMAND_ENTRIES \in Int /\ MAX_COMMAND_SIZE \in Int
  BY ConstantsAssumption DEF TimelineInv, TimelineType
<1>3. r.StalenessThreshold \in Nat /\ r.CmdSize \in Nat /\ AbsTimeTag(r) \in Times
  BY RequestTypes
<1>4. /\ f \in EntryType
      /\ f.TimeTag = AbsTimeTag(r) /\ f.ExecutionType = r.ExecutionType
      /\ f.CmdSize = r.CmdSize /\ f.Status = "PENDING"
      /\ f.EntryId = e.EntryId /\ f.GroupId = e.GroupId /\ f.MsgSize = e.MsgSize
  BY <1>1, <1>3 DEF EntryType
<1>5. /\ Entries' = [Entries EXCEPT ![slot] = f]
      /\ InsertSlotToSortedIndex(f.TimeTag, slot)
  BY <1>4 DEF CommitSlot
<1> HIDE DEF f
<1>6. MayTake(slot, f)
  BY <1>4 DEF MayTake
<1>7. r.CmdSize <= MAX_COMMAND_SIZE /\ Count < MAX_COMMAND_ENTRIES
  BY <1>1, <1>2, <1>3
<1> QED
  BY <1>1, <1>4, <1>5, <1>6, <1>7, CommitKeepsInv

(***************************************************************************)
(* The entry TTC_TimelineAddEntry builds in the empty slot it has found.   *)
(***************************************************************************)
LEMMA AddedEntryFits ==
  ASSUME TimelineInv, clock \in Times, NEW r \in Requests, Found(FindEmptySlot),
         ~Found(FindSlotByEntryId(r.EntryId, r.GroupId))
  PROVE  /\ FindEmptySlot \in Slots
         /\ Entries[FindEmptySlot].Status = "EMPTY"
         /\ AddedEntry(FindEmptySlot, r) \in EntryType
         /\ MayTake(FindEmptySlot, AddedEntry(FindEmptySlot, r))
<1> DEFINE slot == FindEmptySlot
<1> DEFINE e == AddedEntry(slot, r)
<1>1. slot \in Slots /\ Entries[slot].Status = "EMPTY"
  BY EmptySlotFound
<1> HIDE DEF slot
<1>2. Entries[slot] \in EntryType
  BY <1>1 DEF TimelineInv, TimelineType
<1>3. e \in EntryType /\ e.EntryId = r.EntryId /\ e.GroupId = r.GroupId
  <2>1. r.EntryId \in EntryIds /\ r.GroupId \in GroupIds /\ r.MsgSize \in Nat
    BY RequestTypes
  <2> QED
    BY <1>2, <2>1 DEF AddedEntry, WriteToSlot, EntryType
<1>4. ~IsAnonymousEntry(r.EntryId, r.GroupId) =>
         \A t \in Slots : ~(/\ Entries[t].Status # "EMPTY"
                            /\ Entries[t].EntryId = r.EntryId
                            /\ Entries[t].GroupId = r.GroupId)
  BY SlotByEntryIdFound
<1>5. MayTake(slot, e)
  BY <1>3, <1>4 DEF MayTake
<1> QED
  BY <1>1, <1>3, <1>5 DEF slot

(***************************************************************************)
(* Insertion, with its error paths before and after the reservation.       *)
(***************************************************************************)
LEMMA InsertKeepsInv ==
  ASSUME IInv, NEW r \in Requests, InsertCmdEntryCmd(r)
  PROVE  IInv'
<1> DEFINE slot == FindEmptySlot
<1> DEFINE status == AddStatus(r)
<1>1. RestInv'
  BY CommandKeepsRest DEF InsertCmdEntryCmd, IInv
<1>2. TimelineInv /\ clock \in Times
  BY DEF IInv, RestInv
<1>3. status \in AfterReservation \cup {"CFE_SUCCESS"} =>
        Found(slot) /\ ~Found(FindSlotByEntryId(r.EntryId, r.GroupId))
  BY DEF AddStatus, AfterReservation
<1>4. CASE status = "CFE_SUCCESS"
  <2>1. CommitStatus(AddedEntry(slot, r), r) = "CFE_SUCCESS"
    BY <1>4 DEF AddStatus
  <2>2. CommitSlot(slot, AddedEntry(slot, r), r)
    BY <1>4 DEF InsertCmdEntryCmd, AfterReservation
  <2>3. TimelineInv'
    <3>1. /\ slot \in Slots /\ Entries[slot].Status = "EMPTY"
          /\ AddedEntry(slot, r) \in EntryType /\ MayTake(slot, AddedEntry(slot, r))
      BY <1>2, <1>3, <1>4, AddedEntryFits
    <3> HIDE DEF slot
    <3> QED
      BY <1>2, <2>1, <2>2, <3>1, CommitSlotKeepsInv
  <2> QED
    BY <1>1, <2>3 DEF IInv
<1>5. CASE status \in AfterReservation
  <2>1. UndoReservation(slot, r)
    BY <1>5 DEF InsertCmdEntryCmd, AfterReservation
  <2>2. slot \in Slots /\ Entries[slot].Status = "EMPTY"
    BY <1>3, <1>5, EmptySlotFound
  <2> HIDE DEF slot
  <2>3. /\ Entries' = [Entries EXCEPT ![slot] = EmptyEntry]
        /\ UNCHANGED <<SortedIndex, Count>>
    BY <2>1, <2>2, <1>2 DEF UndoReservation, TimelineInv, TimelineType
  <2>4. TimelineInv'
    BY <1>2, <2>2, <2>3, EmptyEntryType, EditKeepsInv
  <2> QED
    BY <1>1, <2>4 DEF IInv
<1>6. CASE status \notin AfterReservation \cup {"CFE_SUCCESS"}
  <2>1. UNCHANGED timeline
    BY <1>6 DEF InsertCmdEntryCmd
  <2> QED
    BY <1>1, <1>2, <2>1, UnchangedKeepsInv DEF IInv
<1> QED
  BY <1>4, <1>5, <1>6

(***************************************************************************)
(* The plumb commands edit one slot that is EMPTY or RESERVED, or commit a *)
(* RESERVED one, whose identifiers are taken by no other slot.             *)
(***************************************************************************)
LEMMA PlumbKeepsInv ==
  ASSUME IInv
  PROVE  /\ \A id \in EntryIds, group \in GroupIds :
              /\ PlumbEntryInitCmd(id, group) => IInv'
              /\ \A chunk \in Chunks : PlumbEntryWriteCmd(id, group, chunk) => IInv'
              /\ PlumbDeleteReservedEntryCmd(id, group) => IInv'
         /\ \A r \in Requests : PlumbEntryFinalizeCmd(r) => IInv'
<1>0. TimelineInv /\ RestInv /\ clock \in Times
  BY DEF IInv, RestInv
<1>1. ASSUME NEW id, NEW group, Found(FindReservedSlot(id, group))
      PROVE  LET s == FindReservedSlot(id, group)
             IN /\ s \in Slots
                /\ Entries[s].Status = "RESERVED"
                /\ Entries[s] \in EntryType
                /\ MayTake(s, Entries[s])
  <2> DEFINE s == FindReservedSlot(id, group)
  <2>1. /\ s \in Slots
        /\ Entries[s].Status = "RESERVED"
    BY <1>1, ReservedSlotFound
  <2> HIDE DEF s
  <2>2. Entries[s] \in EntryType
    BY <1>0, <2>1 DEF TimelineInv, TimelineType
  <2>3. MayTake(s, Entries[s])
    BY <1>0, <2>1 DEF TimelineInv, UniqueIds, MayTake
  <2> QED
    BY <2>1, <2>2, <2>3 DEF s
<1>2. ASSUME NEW id \in EntryIds, NEW group \in GroupIds, PlumbEntryInitCmd(id, group)
      PROVE  IInv'
  <2> DEFINE slot == FindEmptySlot
  <2> DEFINE e == [EmptyEntry EXCEPT !.EntryId = id, !.GroupId = group,
                                     !.TimeTag = TTC_TIMETAG_MAX,
                                     !.Status = "RESERVED"]
  <2> DEFINE ok == /\ ~IsAnonymousEntry(id, group)
                   /\ ~Found(FindSlotByEntryId(id, group))
                   /\ Found(slot)
  <2>1. RestInv'
    BY <1>0, <1>2, CommandKeepsRest DEF PlumbEntryInitCmd
  <2>2. UNCHANGED <<SortedIndex, Count>>
    BY <1>2 DEF PlumbEntryInitCmd
  <2>3. CASE ok
    <3>1. slot \in Slots /\ Entries[slot].Status = "EMPTY"
      BY <2>3, EmptySlotFound
    <3>2. TTC_TIMETAG_MAX \in Times
      BY ConstantsAssumption DEF TTC_TIMETAG_MAX, Times
    <3>3. e \in EntryType /\ e.Status = "RESERVED" /\ e.EntryId = id /\ e.GroupId = group
      BY <3>2, EmptyEntryType DEF EntryType
    <3>4. MayTake(slot, e)
      BY <2>3, <3>3, SlotByEntryIdFound DEF MayTake
    <3>5. Entries' = [Entries EXCEPT ![slot] = e]
      BY <1>2, <2>3 DEF PlumbEntryInitCmd
    <3> HIDE DEF slot, e
    <3>6. TimelineInv'
      BY <1>0, <2>2, <3>1, <3>3, <3>4, <3>5, EditKeepsInv
    <3> QED
      BY <2>1, <3>6 DEF IInv
  <2>4. CASE ~ok
    <3>1. UNCHANGED timeline
      BY <1>2, <2>2, <2>4 DEF PlumbEntryInitCmd, timeline
    <3> QED
      BY <1>0, <2>1, <3>1, UnchangedKeepsInv DEF IInv
  <2> QED
    BY <2>3, <2>4
<1>3. ASSUME NEW id \in EntryIds, NEW group \in GroupIds, NEW chunk \in Chunks,
             PlumbEntryWriteCmd(id, group, chunk)
      PROVE  IInv'
  <2> DEFINE slot == FindReservedSlot(id, group)
  <2> DEFINE e == WriteToSlot(Entries[slot], chunk)
  <2>1. RestInv'
    BY <1>0, <1>3, CommandKeepsRest DEF PlumbEntryWriteCmd
  <2>2. UNCHANGED <<SortedIndex, Count>>
    BY <1>3 DEF PlumbEntryWriteCmd
  <2>3. CASE Found(slot) /\ Entries' = [Entries EXCEPT ![slot] = e]
    <3>1. /\ slot \in Slots /\ Entries[slot].Status = "RESERVED"
          /\ Entries[slot] \in EntryType /\ MayTake(slot, Entries[slot])
      BY <1>1, <2>3
    <3> HIDE DEF slot
    <3>2. chunk.MsgSize \in Nat
      BY ConstantsAssumption DEF ChunkType
    <3>3. /\ e \in EntryType /\ e.Status = "RESERVED"
          /\ e.EntryId = Entries[slot].EntryId /\ e.GroupId = Entries[slot].GroupId
      BY <3>1, <3>2 DEF WriteToSlot, EntryType
    <3> HIDE DEF e
    <3>4. MayTake(slot, e)
      BY <3>1, <3>3 DEF MayTake
    <3>5. TimelineInv'
      BY <1>0, <2>2, <2>3, <3>1, <3>3, <3>4, EditKeepsInv
    <3> QED
      BY <2>1, <3>5 DEF IInv
  <2>4. CASE Entries' = Entries
    <3>1. UNCHANGED timeline
      BY <2>2, <2>4 DEF timeline
    <3> QED
      BY <1>0, <2>1, <3>1, UnchangedKeepsInv DEF IInv
  <2>5. \/ Found(slot) /\ Entries' = [Entries EXCEPT ![slot] = e]
        \/ Entries' = Entries
    BY <1>3 DEF PlumbEntryWriteCmd
  <2> QED
    BY <2>3, <2>4, <2>5
<1>4. ASSUME NEW id \in EntryIds, NEW group \in GroupIds,
             PlumbDeleteReservedEntryCmd(id, group)
      PROVE  IInv'
  <2> DEFINE slot == FindReservedSlot(id, group)
  <2>1. RestInv'
    BY <1>0, <1>4, CommandKeepsRest DEF PlumbDeleteReservedEntryCmd
  <2>2. CASE Found(slot)
    <3>1. slot \in Slots /\ Entries[slot].Status = "RESERVED"
      BY <1>1, <2>2
    <3>2. /\ Entries' = [Entries EXCEPT ![slot] = EmptyEntry]
          /\ UNCHANGED <<SortedIndex, Count>>
      BY <1>4, <2>2 DEF PlumbDeleteReservedEntryCmd, CancelSlot
    <3> HIDE DEF slot
    <3>3. TimelineInv'
      BY <1>0, <3>1, <3>2, EmptyEntryType, EditKeepsInv
    <3> QED
      BY <2>1, <3>3 DEF IInv
  <2>3. CASE ~Found(slot)
    <3>1. UNCHANGED timeline
      BY <1>4, <2>3 DEF PlumbDeleteReservedEntryCmd
    <3> QED
      BY <1>0, <2>1, <3>1, UnchangedKeepsInv DEF IInv
  <2> QED
    BY <2>2, <2>3
<1>5. ASSUME NEW r \in Requests, PlumbEntryFinalizeCmd(r)
      PROVE  IInv'
  <2> DEFINE slot == FindReservedSlot(r.EntryId, r.GroupId)
  <2>1. RestInv'
    BY <1>0, <1>5, CommandKeepsRest DEF PlumbEntryFinalizeCmd
  <2>2. CASE FinalizeStatus(r) = "CFE_SUCCESS"
    <3>1. Found(slot) /\ CommitStatus(Entries[slot], r) = "CFE_SUCCESS"
      BY <2>2 DEF FinalizeStatus
    <3>2. CommitSlot(slot, Entries[slot], r)
      BY <1>5, <2>2 DEF PlumbEntryFinalizeCmd
    <3>3. /\ slot \in Slots /\ Entries[slot].Status = "RESERVED"
          /\ Entries[slot] \in EntryType /\ MayTake(slot, Entries[slot])
      BY <1>1, <3>1
    <3> HIDE DEF slot
    <3>4. TimelineInv'
      BY <1>0, <3>1, <3>2, <3>3, CommitSlotKeepsInv
    <3> QED
      BY <2>1, <3>4 DEF IInv
  <2>3. CASE FinalizeStatus(r) # "CFE_SUCCESS"
    <3>1. UNCHANGED timeline
      BY <1>5, <2>3 DEF PlumbEntryFinalizeCmd
    <3> QED
      BY <1>0, <2>1, <3>1, UnchangedKeepsInv DEF IInv
  <2> QED
    BY <2>2, <2>3
<1> QED
  BY <1>2, <1>3, <1>4, <1>5

(***************************************************************************)
(* The commands that address one entry or none.                            *)
(***************************************************************************)
LEMMA DeleteAndExecuteKeepInv ==
  ASSUME IInv
  PROVE  /\ \A id \in EntryIds, group \in GroupIds :
              /\ DeleteEntryCmd(id, group) => IInv'
              /\ \A persistent \in BOOLEAN :
                   ExecuteEntryCmd(id, group, persistent) => IInv'
         /\ DeleteAllEntriesCmd => IInv'
         /\ PlumbPurgeTimelineCmd => IInv'
<1>0. TimelineInv /\ RestInv
  BY DEF IInv
<1>1. ASSUME NEW id \in EntryIds, NEW group \in GroupIds, DeleteEntryCmd(id, group)
      PROVE  IInv'
  <2> DEFINE slot == FindSlotByEntryId(id, group)
  <2>1. RestInv'
    BY <1>0, <1>1, CommandKeepsRest DEF DeleteEntryCmd
  <2>2. CASE Found(slot) /\ InIndex(slot)
    <3>1. slot \in Slots
      BY <2>2, SlotByEntryIdFound
    <3>2. DeleteSlot(slot)
      BY <1>1, <2>2 DEF DeleteEntryCmd
    <3> QED
      BY <1>0, <2>1, <3>1, <3>2, DeleteKeepsInv DEF IInv
  <2>3. CASE ~(Found(slot) /\ InIndex(slot))
    <3>1. UNCHANGED timeline
      BY <1>1, <2>3 DEF DeleteEntryCmd
    <3> QED
      BY <1>0, <2>1, <3>1, UnchangedKeepsInv DEF IInv
  <2> QED
    BY <2>2, <2>3
<1>2. ASSUME NEW id \in EntryIds, NEW group \in GroupIds, NEW persistent \in BOOLEAN,
             ExecuteEntryCmd(id, group, persistent)
      PROVE  IInv'
  <2> DEFINE slot == FindSlotByEntryId(id, group)
  <2>1. /\ handler' = Idle /\ LoopInv'
        /\ UNCHANGED <<Paused, PreviousTime, Hk, clock>>
    BY <1>2, NeutralTypes DEF ExecuteEntryCmd, Command, LoopInv
  <2>2. App' \in [CmdCounter : Counters, ErrCounter : Counters]
    <3>1. PICK status : CountCommand(status)
      BY <1>2 DEF ExecuteEntryCmd
    <3> QED
      BY <1>0, <3>1, IncrType DEF RestInv, CountCommand
  <2>3. CASE /\ Found(slot) /\ Entries[slot].Status = "PENDING"
             /\ ExecuteEntry(slot, persistent, "command")
    <3>1. slot \in Slots
      BY <2>3, SlotByEntryIdFound
    <3> HIDE DEF slot
    <3>2. /\ TimelineInv'
          /\ sent' \in [by : {"none", "cycle", "command"}, entry : EntryType]
          /\ Cycle' \in [Executed : Counters, Skipped : Counters, Aborted : Counters,
                         ProcessingErrors : Counters, Forward : BOOLEAN, Backward : BOOLEAN]
          /\ Cycle'.ProcessingErrors = Cycle.ProcessingErrors
      BY <2>3, <3>1, ExecuteKeepsInv
    <3> QED
      BY <1>0, <2>1, <2>2, <3>2, NeutralTypes DEF IInv, RestInv, NoProcessingErrors
  <2>4. CASE UNCHANGED <<Entries, SortedIndex, Count, Cycle>> /\ sent' = NoEntry
    <3>1. UNCHANGED timeline
      BY <2>4 DEF timeline
    <3>2. TimelineInv'
      BY <1>0, <3>1, UnchangedKeepsInv
    <3> QED
      BY <1>0, <2>1, <2>2, <2>4, <3>2, NeutralTypes DEF IInv, RestInv, NoProcessingErrors
  <2> QED
    BY <1>2, <2>3, <2>4 DEF ExecuteEntryCmd
<1>3. ASSUME DeleteAllEntriesCmd PROVE IInv'
  BY <1>0, <1>3, CommandKeepsRest, ClearPendingKeepsInv DEF DeleteAllEntriesCmd, IInv
<1>4. ASSUME PlumbPurgeTimelineCmd PROVE IInv'
  <2>1. TimelineInv'
    BY <1>4, ClearTimelineKeepsInv DEF PlumbPurgeTimelineCmd
  <2>2. App' \in [CmdCounter : Counters, ErrCounter : Counters]
    BY <1>0, <1>4, IncrType DEF RestInv, PlumbPurgeTimelineCmd, CountCommand
  <2>3. handler' = Idle /\ LoopInv' /\ UNCHANGED <<Paused, Hk, clock>>
        /\ Cycle' = ZeroCycle /\ PreviousTime' = clock /\ sent' = NoEntry
    BY <1>4, NeutralTypes DEF PlumbPurgeTimelineCmd, Command, LoopInv
  <2> QED
    BY <1>0, <2>1, <2>2, <2>3, NeutralTypes DEF IInv, RestInv, NoProcessingErrors
<1> QED
  BY <1>1, <1>2, <1>3, <1>4

(***************************************************************************)
(* The commands that leave the timeline alone.                             *)
(***************************************************************************)
LEMMA OtherCommandsKeepInv ==
  ASSUME IInv,
         \/ PauseTimelineProcessingCmd
         \/ ResumeTimelineProcessingCmd
         \/ QueryCmd
         \/ ResetCountersCmd
         \/ ResetTimelineHkCmd
         \/ RejectedLength
  PROVE  IInv'
<1>0. TimelineInv /\ RestInv
  BY DEF IInv
<1>1. /\ UNCHANGED <<PreviousTime, Cycle, clock, Entries, SortedIndex, Count>>
      /\ handler' = Idle
      /\ sent' = NoEntry
      /\ Paused' \in BOOLEAN
      /\ Hk' = Hk \/ Hk' = ZeroHk
  BY <1>0 DEF PauseTimelineProcessingCmd, ResumeTimelineProcessingCmd, QueryCmd,
     ResetCountersCmd, ResetTimelineHkCmd, RejectedLength, Command, KeepCycle,
     timeline, RestInv
<1>2. App' \in [CmdCounter : Counters, ErrCounter : Counters]
  <2>1. \/ \E status : CountCommand(status)
        \/ App' = [CmdCounter |-> 0, ErrCounter |-> 0]
        \/ App' = [App EXCEPT !.ErrCounter = Incr(@, 1)]
    BY DEF PauseTimelineProcessingCmd, ResumeTimelineProcessingCmd, QueryCmd,
       ResetCountersCmd, ResetTimelineHkCmd, RejectedLength
  <2>2. ASSUME NEW status, CountCommand(status)
        PROVE  App' \in [CmdCounter : Counters, ErrCounter : Counters]
    BY <1>0, <2>2, IncrType DEF RestInv, CountCommand
  <2>3. CASE App' = [CmdCounter |-> 0, ErrCounter |-> 0]
    BY <2>3, IncrType
  <2>4. CASE App' = [App EXCEPT !.ErrCounter = Incr(@, 1)]
    BY <1>0, <2>4, IncrType DEF RestInv
  <2> QED
    BY <2>1, <2>2, <2>3, <2>4
<1>3. TimelineInv'
  BY <1>0, <1>1, UnchangedKeepsInv DEF timeline
<1>4. LoopInv'
  BY <1>1, NeutralTypes DEF LoopInv
<1> QED
  BY <1>0, <1>1, <1>2, <1>3, <1>4, NeutralTypes DEF IInv, RestInv, NoProcessingErrors
------------------------------------------------------------------------------
(***************************************************************************)
(* Group commands and the cycle.                                           *)
(***************************************************************************)
(***************************************************************************)
(* The array of slots is finite.                                           *)
(***************************************************************************)
LEMMA SlotsFinite == IsFiniteSet(Slots)
BY ConstantsAssumption, FS_Interval DEF Slots

(***************************************************************************)
(* What a group command has to handle can be counted.                      *)
(***************************************************************************)
LEMMA GroupMembersFinite ==
  ASSUME NEW group
  PROVE  Cardinality(GroupMembers(group)) \in Nat
<1>1. GroupMembers(group) \subseteq Slots
  BY DEF GroupMembers
<1>2. IsFiniteSet(GroupMembers(group))
  BY <1>1, SlotsFinite, FS_Subset
<1> QED
  BY <1>2, FS_CardinalityType

(***************************************************************************)
(* The group loops go downwards, so that a deletion, which shortens the    *)
(* index by one, leaves them inside it.                                    *)
(***************************************************************************)
LEMMA GroupKeepsInv ==
  ASSUME IInv
  PROVE  /\ \A group \in GroupIds :
              /\ DeleteGroupCmd(group) => IInv'
              /\ \A persistent \in BOOLEAN : ExecuteGroupCmd(group, persistent) => IInv'
         /\ GroupStep => IInv'
<1>0. TimelineInv /\ RestInv
  BY DEF IInv
<1>1. Count \in Nat /\ Count <= MAX_COMMAND_ENTRIES /\ MAX_COMMAND_ENTRIES \in Nat
  BY <1>0, ConstantsAssumption DEF TimelineInv, TimelineType
<1>2. ASSUME NEW what \in {"delete", "execute"}, NEW group \in GroupIds,
             NEW persistent \in BOOLEAN, BeginGroupCmd(what, group, persistent)
      PROVE  IInv'
  <2>1. TimelineInv'
    <3>1. UNCHANGED timeline
      BY <1>2 DEF BeginGroupCmd, timeline
    <3> QED
      BY <1>0, <3>1, UnchangedKeepsInv
  <2>2. App' \in [CmdCounter : Counters, ErrCounter : Counters]
    BY <1>0, <1>2, IncrType DEF RestInv, BeginGroupCmd
  <2>3. Cardinality(GroupMembers(group)) \in Int
    BY GroupMembersFinite
  <2>4. Count - 1 \in -1 .. MAX_COMMAND_ENTRIES - 1
    BY <1>1
  <2>5. handler' = [Idle EXCEPT !.at = what, !.i = Count - 1,
                                !.entries = Cardinality(GroupMembers(group)),
                                !.group = group, !.persistent = persistent]
    BY <1>2 DEF BeginGroupCmd
  <2>6. handler' \in HandlerType /\ handler'.i = Count - 1
    BY <2>3, <2>4, <2>5, NeutralTypes DEF HandlerType
  <2>7. LoopInv'
    BY <1>1, <1>2, <2>6 DEF LoopInv, BeginGroupCmd
  <2> QED
    BY <1>0, <1>2, <2>1, <2>2, <2>6, <2>7, NeutralTypes
       DEF IInv, RestInv, BeginGroupCmd, KeepCycle, NoProcessingErrors
<1>3. ASSUME handler.at \in {"delete", "execute"}, handler.i >= 0
      PROVE  /\ handler \in HandlerType
             /\ handler.i \in 0 .. Count - 1
             /\ handler.i - 1 \in -1 .. MAX_COMMAND_ENTRIES - 1
             /\ SortedIndex[handler.i] \in Slots
             /\ Entries[SortedIndex[handler.i]].Status = "PENDING"
  <2>1. handler \in HandlerType /\ handler.i \in Int /\ handler.i < Count
    BY <1>0, <1>1, <1>3 DEF RestInv, LoopInv, HandlerType
  <2>2. handler.i \in 0 .. Count - 1 /\ handler.i - 1 \in -1 .. MAX_COMMAND_ENTRIES - 1
    BY <1>1, <1>3, <2>1
  <2>3. SortedIndex[handler.i] \in Slots
    BY <1>0, <2>2 DEF TimelineInv, TimelineType
  <2>4. Entries[SortedIndex[handler.i]].Status = "PENDING"
    BY <1>0, <2>2, <2>3 DEF TimelineInv, IndexInv, IndexExact, InIndex
  <2> QED
    BY <2>1, <2>2, <2>3, <2>4
\* The loop variables after an iteration that removed at most one entry.
<1>4. ASSUME handler.at \in {"delete", "execute"}, handler.i >= 0,
             \/ handler' = [handler EXCEPT !.i = @ - 1]
             \/ handler' = [handler EXCEPT !.i = @ - 1, !.found = TRUE,
                                           !.entries = @ - 1],
             Count' = Count \/ Count' = Count - 1
      PROVE  handler' \in HandlerType /\ LoopInv'
  <2>1. /\ handler \in HandlerType /\ handler.i \in 0 .. Count - 1
        /\ handler.i - 1 \in -1 .. MAX_COMMAND_ENTRIES - 1
        /\ handler.entries - 1 \in Int
    BY <1>3, <1>4 DEF HandlerType
  <2>2. handler' \in HandlerType /\ handler'.i = handler.i - 1
    BY <1>4, <2>1 DEF HandlerType
  <2>3. handler.i - 1 < Count'
    BY <1>1, <1>4, <2>1
  <2> QED
    BY <2>2, <2>3 DEF LoopInv
<1>5. ASSUME GroupPass PROVE IInv'
  <2>1. UNCHANGED timeline
    BY <1>5 DEF GroupPass, timeline
  <2>2. TimelineInv'
    BY <1>0, <2>1, UnchangedKeepsInv
  <2>3. handler' \in HandlerType /\ LoopInv'
    BY <1>4, <1>5 DEF GroupPass
  <2> QED
    BY <1>0, <1>5, <2>2, <2>3, NeutralTypes
       DEF IInv, RestInv, GroupPass, KeepCycle, NoProcessingErrors
<1>6. ASSUME DeleteGroupStep PROVE IInv'
  <2>1. SortedIndex[handler.i] \in Slots
    BY <1>3, <1>6 DEF DeleteGroupStep
  <2>2. TimelineInv' /\ (Count' = Count \/ Count' = Count - 1)
    BY <1>0, <1>6, <2>1, DeleteKeepsInv DEF DeleteGroupStep
  <2>3. handler' \in HandlerType /\ LoopInv'
    BY <1>4, <1>6, <2>2 DEF DeleteGroupStep
  <2> QED
    BY <1>0, <1>6, <2>2, <2>3, NeutralTypes
       DEF IInv, RestInv, DeleteGroupStep, KeepCycle, NoProcessingErrors
<1>7. ASSUME ExecuteGroupStep PROVE IInv'
  <2> DEFINE slot == SortedIndex[handler.i]
  <2>1. slot \in Slots /\ Entries[slot].Status = "PENDING" /\ handler.persistent \in BOOLEAN
    BY <1>0, <1>3, <1>7 DEF ExecuteGroupStep, RestInv, HandlerType
  <2>2. ExecuteEntry(slot, handler.persistent, "command")
    BY <1>7 DEF ExecuteGroupStep
  <2> HIDE DEF slot
  <2>3. /\ TimelineInv'
        /\ Count' = Count \/ Count' = Count - 1
        /\ sent' \in [by : {"none", "cycle", "command"}, entry : EntryType]
        /\ Cycle' \in [Executed : Counters, Skipped : Counters, Aborted : Counters,
                       ProcessingErrors : Counters, Forward : BOOLEAN, Backward : BOOLEAN]
        /\ Cycle'.ProcessingErrors = Cycle.ProcessingErrors
    BY <2>1, <2>2, ExecuteKeepsInv
  <2>4. handler' \in HandlerType /\ LoopInv'
    BY <1>4, <1>7, <2>3 DEF ExecuteGroupStep
  <2> QED
    BY <1>0, <1>7, <2>3, <2>4 DEF IInv, RestInv, ExecuteGroupStep, NoProcessingErrors
<1>8. ASSUME EndGroupCmd PROVE IInv'
  <2>1. TimelineInv'
    <3>1. UNCHANGED timeline
      BY <1>8 DEF EndGroupCmd, timeline
    <3> QED
      BY <1>0, <3>1, UnchangedKeepsInv
  <2>2. App' \in [CmdCounter : Counters, ErrCounter : Counters]
    BY <1>0, <1>8, IncrType DEF RestInv, EndGroupCmd
  <2>3. handler' \in HandlerType /\ LoopInv'
    BY <1>8, NeutralTypes DEF EndGroupCmd, LoopInv
  <2> QED
    BY <1>0, <1>8, <2>1, <2>2, <2>3, NeutralTypes
       DEF IInv, RestInv, EndGroupCmd, KeepCycle, NoProcessingErrors
<1> QED
  BY <1>2, <1>5, <1>6, <1>7, <1>8 DEF DeleteGroupCmd, ExecuteGroupCmd, GroupStep

(***************************************************************************)
(* The counters a cycle starts with and adds up are of their widths, and   *)
(* no processing error is added.                                           *)
(***************************************************************************)
LEMMA CycleTypes ==
  /\ StartedCycle \in [Executed : Counters, Skipped : Counters, Aborted : Counters,
                       ProcessingErrors : Counters, Forward : BOOLEAN, Backward : BOOLEAN]
  /\ StartedCycle.ProcessingErrors = 0
  /\ \A c \in [Executed : Counters, Skipped : Counters, Aborted : Counters,
               ProcessingErrors : Counters, Forward : BOOLEAN, Backward : BOOLEAN] :
       /\ Hk \in [Executed : Counters, Skipped : Counters, Aborted : Counters,
                  ProcessingErrors : Counters, Forward : Counters, Backward : Counters]
       /\ Hk.ProcessingErrors = 0
       /\ c.ProcessingErrors = 0
       => /\ UpdatedHk(c) \in [Executed : Counters, Skipped : Counters, Aborted : Counters,
                               ProcessingErrors : Counters, Forward : Counters,
                               Backward : Counters]
          /\ UpdatedHk(c).ProcessingErrors = 0
<1> DEFINE forward == clock > (PreviousTime + 1) % TimeMod
<1> DEFINE backward == clock < PreviousTime
<1>1. /\ StartedCycle \in [Executed : Counters, Skipped : Counters, Aborted : Counters,
                           ProcessingErrors : Counters, Forward : BOOLEAN,
                           Backward : BOOLEAN]
      /\ StartedCycle.ProcessingErrors = 0
  <2>1. StartedCycle = [ZeroCycle EXCEPT !.Forward = forward, !.Backward = backward]
    BY Zenon DEF StartedCycle
  <2>2. forward \in BOOLEAN /\ backward \in BOOLEAN
    OBVIOUS
  <2> HIDE DEF forward, backward
  <2> QED
    BY <2>1, <2>2, NeutralTypes
<1>2. ASSUME NEW c \in [Executed : Counters, Skipped : Counters, Aborted : Counters,
                        ProcessingErrors : Counters, Forward : BOOLEAN,
                        Backward : BOOLEAN],
             Hk \in [Executed : Counters, Skipped : Counters, Aborted : Counters,
                     ProcessingErrors : Counters, Forward : Counters,
                     Backward : Counters],
             Hk.ProcessingErrors = 0,
             c.ProcessingErrors = 0
      PROVE  /\ UpdatedHk(c) \in [Executed : Counters, Skipped : Counters,
                                  Aborted : Counters, ProcessingErrors : Counters,
                                  Forward : Counters, Backward : Counters]
             /\ UpdatedHk(c).ProcessingErrors = 0
  <2>1. FlagCount(c.Forward) \in Nat /\ FlagCount(c.Backward) \in Nat
    BY DEF FlagCount
  <2> QED
    BY <1>2, <2>1, IncrType DEF UpdatedHk
<1> QED
  BY <1>1, <1>2

(***************************************************************************)
(* A cycle starts, executes, skips or aborts what is due, and ends.        *)
(***************************************************************************)
LEMMA CycleKeepsInv ==
  ASSUME IInv, Wakeup \/ CycleStep
  PROVE  IInv'
<1>0. TimelineInv /\ RestInv
  BY DEF IInv
<1>1. Count \in Nat /\ MAX_COMMAND_ENTRIES \in Nat
  BY <1>0, ConstantsAssumption DEF TimelineInv, TimelineType
<1>2. ASSUME PausedCycle PROVE IInv'
  <2>1. UNCHANGED timeline
    BY <1>2 DEF PausedCycle, timeline
  <2>2. TimelineInv'
    BY <1>0, <2>1, UnchangedKeepsInv
  <2>3. LoopInv'
    BY <1>2, NeutralTypes DEF PausedCycle, LoopInv
  <2>4. /\ Hk' \in [Executed : Counters, Skipped : Counters, Aborted : Counters,
                    ProcessingErrors : Counters, Forward : Counters, Backward : Counters]
        /\ Hk'.ProcessingErrors = 0
    BY <1>0, <1>2, CycleTypes DEF PausedCycle, RestInv, NoProcessingErrors
  <2> QED
    BY <1>0, <1>2, <2>2, <2>3, <2>4, CycleTypes, NeutralTypes
       DEF IInv, RestInv, PausedCycle, NoProcessingErrors
<1>3. ASSUME BeginCycle PROVE IInv'
  <2>1. UNCHANGED timeline
    BY <1>3 DEF BeginCycle, timeline
  <2>2. TimelineInv'
    BY <1>0, <2>1, UnchangedKeepsInv
  <2>3. handler' = [Idle EXCEPT !.at = "cycle", !.now = clock, !.entries = Count]
    BY <1>3 DEF BeginCycle
  <2>4. clock \in Times /\ Count \in Int
    BY <1>0, <1>1 DEF RestInv
  <2>5. handler' \in HandlerType /\ handler'.at = "cycle"
    BY <2>3, <2>4, NeutralTypes DEF HandlerType
  <2>6. LoopInv'
    BY <2>5 DEF LoopInv
  <2> QED
    BY <1>0, <1>3, <2>2, <2>5, <2>6, CycleTypes, NeutralTypes
       DEF IInv, RestInv, BeginCycle, NoProcessingErrors
<1>4. ASSUME Due
      PROVE  /\ NextSlot \in Slots
             /\ Entries[NextSlot].Status = "PENDING"
             /\ Entries[NextSlot].ExecutionType \in ExecTypes
  <2>1. NextSlot \in Slots /\ Count - 1 \in 0 .. Count - 1
    BY <1>1, <1>4 DEF Due
  <2>2. InIndex(NextSlot)
    BY <2>1 DEF InIndex, NextSlot
  <2>3. Entries[NextSlot].Status = "PENDING"
    BY <1>0, <2>1, <2>2 DEF TimelineInv, IndexInv, IndexExact
  <2> QED
    BY <1>0, <2>1, <2>3 DEF TimelineInv, SlotsSound
\* What a step inside the cycle does to the rest of the state.
<1>5. ASSUME handler.at = "cycle", KeepInCycle,
             sent' \in [by : {"none", "cycle", "command"}, entry : EntryType],
             Cycle' \in [Executed : Counters, Skipped : Counters, Aborted : Counters,
                         ProcessingErrors : Counters, Forward : BOOLEAN,
                         Backward : BOOLEAN],
             Cycle'.ProcessingErrors = 0
      PROVE  RestInv'
  <2>1. LoopInv'
    BY <1>5 DEF KeepInCycle, LoopInv
  <2> QED
    BY <1>0, <1>5, <2>1 DEF RestInv, KeepInCycle, NoProcessingErrors
<1>6. Cycle.ProcessingErrors = 0
  BY <1>0 DEF RestInv, NoProcessingErrors
<1>7. ASSUME ExecuteDue PROVE IInv'
  <2> DEFINE slot == NextSlot
  <2>1. /\ Due /\ handler.at = "cycle" /\ KeepInCycle
        /\ ExecuteEntry(slot, FALSE, "cycle")
    BY <1>7 DEF ExecuteDue, Due
  <2>2. slot \in Slots /\ Entries[slot].Status = "PENDING"
    BY <1>4, <2>1
  <2> HIDE DEF slot
  <2>3. /\ TimelineInv'
        /\ sent' \in [by : {"none", "cycle", "command"}, entry : EntryType]
        /\ Cycle' \in [Executed : Counters, Skipped : Counters, Aborted : Counters,
                       ProcessingErrors : Counters, Forward : BOOLEAN, Backward : BOOLEAN]
        /\ Cycle'.ProcessingErrors = Cycle.ProcessingErrors
    BY <2>1, <2>2, ExecuteKeepsInv
  <2>4. RestInv'
    BY <1>5, <1>6, <2>1, <2>3
  <2> QED
    BY <2>3, <2>4 DEF IInv
<1>8. ASSUME SkipLate PROVE IInv'
  <2>1. Due /\ handler.at = "cycle" /\ KeepInCycle /\ DeleteSlot(NextSlot) /\ sent' = NoEntry
    BY <1>8 DEF SkipLate, Due
  <2>2. NextSlot \in Slots /\ Entries[NextSlot].ExecutionType = "SKIP_LATE"
    BY <1>4, <1>8, <2>1 DEF SkipLate, ExecTypes
  <2>3. Cycle' = [Cycle EXCEPT !.Skipped = Incr(@, 1), !.ProcessingErrors = Incr(@, 0)]
    BY <1>8, <2>2 DEF SkipLate
  <2>4. /\ Cycle' \in [Executed : Counters, Skipped : Counters, Aborted : Counters,
                       ProcessingErrors : Counters, Forward : BOOLEAN, Backward : BOOLEAN]
        /\ Cycle'.ProcessingErrors = 0
    BY <1>0, <1>6, <2>3, IncrType DEF RestInv
  <2>5. TimelineInv'
    BY <1>0, <2>1, <2>2, DeleteKeepsInv
  <2>6. RestInv'
    BY <1>5, <2>1, <2>4, NeutralTypes
  <2> QED
    BY <2>5, <2>6 DEF IInv
<1>9. ASSUME AbortLate PROVE IInv'
  <2>1. Due /\ handler.at = "cycle" /\ KeepInCycle /\ ClearPending /\ sent' = NoEntry
    BY <1>9 DEF AbortLate, Due
  <2>2. Cycle' = [Cycle EXCEPT !.Aborted = Incr(@, Count)]
    BY <1>9 DEF AbortLate
  <2>3. /\ Cycle' \in [Executed : Counters, Skipped : Counters, Aborted : Counters,
                       ProcessingErrors : Counters, Forward : BOOLEAN, Backward : BOOLEAN]
        /\ Cycle'.ProcessingErrors = 0
    BY <1>0, <1>1, <1>6, <2>2, IncrType DEF RestInv
  <2>4. TimelineInv'
    BY <1>0, <2>1, ClearPendingKeepsInv
  <2>5. RestInv'
    BY <1>5, <2>1, <2>3, NeutralTypes
  <2> QED
    BY <2>4, <2>5 DEF IInv
<1>10. ASSUME EndCycle PROVE IInv'
  <2>1. Count > 0 => NextSlot \in Slots
    <3>1. Count > 0 => Count - 1 \in 0 .. Count - 1
      BY <1>1
    <3> QED
      BY <1>0, <3>1 DEF TimelineInv, TimelineType, NextSlot
  <2>2. /\ UNCHANGED <<Entries, SortedIndex, Count, Cycle, Paused, App, clock>>
        /\ PreviousTime' = handler.now
        /\ Hk' = UpdatedHk(Cycle)
        /\ handler' = Idle
        /\ sent' = NoEntry
    BY <1>10, <2>1 DEF EndCycle
  <2>3. TimelineInv'
    BY <1>0, <2>2, UnchangedKeepsInv DEF timeline
  <2>4. handler.now \in Times
    BY <1>0 DEF RestInv, HandlerType
  <2>5. LoopInv'
    BY <2>2, NeutralTypes DEF LoopInv
  <2>6. /\ Hk' \in [Executed : Counters, Skipped : Counters, Aborted : Counters,
                    ProcessingErrors : Counters, Forward : Counters, Backward : Counters]
        /\ Hk'.ProcessingErrors = 0
    BY <1>0, <2>2, CycleTypes DEF RestInv, NoProcessingErrors
  <2> QED
    BY <1>0, <2>2, <2>3, <2>4, <2>5, <2>6, NeutralTypes
       DEF IInv, RestInv, NoProcessingErrors
<1> QED
  BY <1>2, <1>3, <1>7, <1>8, <1>9, <1>10 DEF Wakeup, CycleStep
------------------------------------------------------------------------------
(***************************************************************************)
(* The theorems.                                                           *)
(***************************************************************************)
(***************************************************************************)
(* The timeline TTC_TimelineInitialize leaves satisfies the invariant.     *)
(***************************************************************************)
LEMMA InitEstablishesInv == Init => IInv
<1> SUFFICES ASSUME Init PROVE IInv
  OBVIOUS
<1>1. \A s \in Slots : Entries[s] = EmptyEntry
  BY DEF Init
<1>2. TimelineType
  <2>1. Entries \in [Slots -> EntryType]
    BY EmptyEntryType DEF Init
  <2> QED
    BY <2>1, ConstantsAssumption DEF Init, TimelineType
<1>3. IndexInv
  BY <1>1, EmptyEntryType DEF Init, IndexInv, IndexDistinct, IndexExact, IndexSorted,
                              InIndex
<1>4. UniqueIds /\ SlotsSound
  BY <1>1, EmptyEntryType DEF UniqueIds, SlotsSound
<1>5. clock \in Times /\ PreviousTime \in Times
  BY ConstantsAssumption DEF Init, Times
<1>6. App \in [CmdCounter : Counters, ErrCounter : Counters]
  BY IncrType DEF Init
<1>7. LoopInv
  BY NeutralTypes DEF Init, LoopInv
<1> QED
  BY <1>2, <1>3, <1>4, <1>5, <1>6, <1>7, NeutralTypes
     DEF Init, IInv, TimelineInv, RestInv, NoProcessingErrors

(***************************************************************************)
(* Every step of the task, of the clock and of a restart keeps it.         *)
(***************************************************************************)
LEMMA NextKeepsInv == IInv /\ [Next]_vars => IInv'
<1> SUFFICES ASSUME IInv, [Next]_vars PROVE IInv'
  OBVIOUS
<1>0. TimelineInv /\ RestInv
  BY DEF IInv
<1>1. ASSUME GroundCommand PROVE IInv'
  BY <1>1, InsertKeepsInv, PlumbKeepsInv, DeleteAndExecuteKeepInv, OtherCommandsKeepInv,
     GroupKeepsInv DEF GroundCommand, EntryCommand
<1>2. ASSUME GroupStep PROVE IInv'
  BY <1>2, GroupKeepsInv
<1>3. ASSUME Wakeup \/ CycleStep PROVE IInv'
  BY <1>3, CycleKeepsInv
<1>4. ASSUME UNCHANGED <<Entries, Count, SortedIndex, Paused, PreviousTime, Cycle, Hk,
                         App, handler>>,
             clock' \in Times, sent' = NoEntry \/ sent' = sent
      PROVE  IInv'
  <2>1. TimelineInv'
    BY <1>0, <1>4, UnchangedKeepsInv DEF timeline
  <2>2. LoopInv'
    BY <1>0, <1>4 DEF RestInv, LoopInv
  <2> QED
    BY <1>0, <1>4, <2>1, <2>2, NeutralTypes DEF IInv, RestInv, NoProcessingErrors
<1>5. ASSUME Tick PROVE IInv'
  <2>1. clock' \in Times
    BY <1>0, <1>5, ConstantsAssumption DEF RestInv, Tick, Times
  <2> QED
    BY <1>4, <1>5, <2>1 DEF Tick
<1>6. ASSUME NEW t \in JumpTargets, SetTime(t) PROVE IInv'
  <2>1. clock' \in Times
    BY <1>6, ConstantsAssumption DEF SetTime
  <2> QED
    BY <1>4, <1>6, <2>1 DEF SetTime
<1>7. ASSUME Restart PROVE IInv'
  <2>1. TimelineInv'
    BY <1>7, ClearTimelineKeepsInv DEF Restart
  <2>2. App' \in [CmdCounter : Counters, ErrCounter : Counters]
    BY <1>7, IncrType DEF Restart
  <2>3. LoopInv'
    BY <1>7, NeutralTypes DEF Restart, LoopInv
  <2> QED
    BY <1>0, <1>7, <2>1, <2>2, <2>3, NeutralTypes
       DEF IInv, RestInv, Restart, NoProcessingErrors
<1>8. ASSUME UNCHANGED vars PROVE IInv'
  <2>1. clock' \in Times
    BY <1>0, <1>8 DEF RestInv, vars
  <2> QED
    BY <1>4, <1>8, <2>1 DEF vars
<1> QED
  BY <1>1, <1>2, <1>3, <1>5, <1>6, <1>7, <1>8 DEF Next

(***************************************************************************)
(* IInv is an inductive invariant of the timeline.                         *)
(***************************************************************************)
THEOREM Invariance == Spec => []IInv
<1> QED
  BY InitEstablishesInv, NextKeepsInv, PTL DEF Spec

(***************************************************************************)
(* Every variable holds a value of its C type in every reachable state, in *)
(* particular every listed slot number is one of the array's and every     *)
(* counter and time stays within its width although the sums wrap.         *)
(***************************************************************************)
THEOREM TypeCorrect == Spec => []TypeOK
<1>1. IInv => TypeOK
  BY DEF IInv, TimelineInv, TimelineType, RestInv, TypeOK
<1> QED
  BY <1>1, Invariance, PTL

(***************************************************************************)
(* SortedIndex lists exactly the PENDING slots, once each and in order     *)
(* (InsertSlotToSortedIndex and DeleteSlot keep it so).                    *)
(***************************************************************************)
THEOREM IndexCorrect == Spec => []IndexInv
<1>1. IInv => IndexInv
  BY DEF IInv, TimelineInv
<1> QED
  BY <1>1, Invariance, PTL

(***************************************************************************)
(* The duplicate checks of AddEntry and PlumbEntryInit keep the identifier *)
(* pairs of all used slots distinct.                                       *)
(***************************************************************************)
THEOREM IdsUnique == Spec => []UniqueIds
<1>1. IInv => UniqueIds
  BY DEF IInv, TimelineInv
<1> QED
  BY <1>1, Invariance, PTL

(***************************************************************************)
(* Free slots are zero and PENDING ones can be sent as they are.           *)
(***************************************************************************)
THEOREM SlotsAreSound == Spec => []SlotsSound
<1>1. IInv => SlotsSound
  BY DEF IInv, TimelineInv
<1> QED
  BY <1>1, Invariance, PTL

(***************************************************************************)
(* The branches marked "Shouldn't happen" do not happen.                   *)
(***************************************************************************)
THEOREM ErrorsImpossible == Spec => []NoProcessingErrors
<1>1. IInv => NoProcessingErrors
  BY DEF IInv, RestInv
<1> QED
  BY <1>1, Invariance, PTL

(***************************************************************************)
(* The four together: the timeline is sound after every command, upload,   *)
(* cycle, clock jump and restart.                                          *)
(***************************************************************************)
THEOREM TimelineIsSound == Spec => []TimelineSound
<1>1. TypeOK /\ UniqueIds /\ SlotsSound /\ NoProcessingErrors => TimelineSound
  BY DEF TimelineSound
<1> QED
  BY <1>1, TypeCorrect, IdsUnique, SlotsAreSound, ErrorsImpossible, PTL
------------------------------------------------------------------------------
(***************************************************************************)
(* Residues: the counters and the times wrap at a width.                   *)
(***************************************************************************)
(***************************************************************************)
(* Quotient and remainder.                                                 *)
(***************************************************************************)
LEMMA DivMod ==
  ASSUME NEW M \in Nat \ {0}, NEW n \in Int
  PROVE  n \div M \in Int /\ n = M * (n \div M) + (n % M) /\ n % M \in 0 .. M - 1
<1>1. n % M \in 0 .. M - 1
  OBVIOUS
<1>2. M \in Nat /\ M > 0
  OBVIOUS
<1>3. n = M * (n \div M) + (n % M)
  BY <1>2, SMT
<1> QED
  BY <1>1, <1>3

(***************************************************************************)
(* The remainder is unique.                                                *)
(***************************************************************************)
LEMMA ModUnique ==
  ASSUME NEW M \in Nat \ {0}, NEW q \in Int, NEW p \in Int,
         NEW r \in 0 .. M - 1, NEW u \in 0 .. M - 1, M * q + r = M * p + u
  PROVE  r = u
<1>1. ASSUME NEW d \in Int, d >= 1 PROVE M * d >= M
  BY <1>1
<1>2. M * (q - p) = u - r
  OBVIOUS
<1>3. M * (p - q) = r - u
  OBVIOUS
<1>4. ~(q - p >= 1)
  BY <1>1, <1>2
<1>5. ~(p - q >= 1)
  BY <1>1, <1>3
<1>6. q = p
  BY <1>4, <1>5
<1> QED
  BY <1>6

(***************************************************************************)
(* Whole multiples of the width do not matter.                             *)
(***************************************************************************)
LEMMA ModShift ==
  ASSUME NEW M \in Nat \ {0}, NEW n \in Int, NEW q \in Int
  PROVE  (n + M * q) % M = n % M
<1> DEFINE r == n % M
<1> DEFINE u == (n + M * q) % M
<1> DEFINE a == n \div M
<1> DEFINE b == (n + M * q) \div M
<1>1. a \in Int /\ n = M * a + r /\ r \in 0 .. M - 1
  BY DivMod
<1>2. M * q \in Int /\ n + M * q \in Int
  OBVIOUS
<1>3. b \in Int /\ n + M * q = M * b + u /\ u \in 0 .. M - 1
  BY <1>2, DivMod
<1> HIDE DEF r, u, a, b
<1>4. a + q \in Int /\ M * (a + q) = M * a + M * q
  BY <1>1
<1>5. M * (a + q) + r = M * b + u
  BY <1>1, <1>2, <1>3, <1>4
<1>6. r = u
  BY <1>1, <1>3, <1>4, <1>5, ModUnique
<1> QED
  BY <1>6 DEF r, u

(***************************************************************************)
(* A sum of two numbers below the width wraps at most once.                *)
(***************************************************************************)
LEMMA ModOnce ==
  ASSUME NEW M \in Nat \ {0}, NEW n \in Int, 0 <= n, n < 2 * M
  PROVE  n % M = IF n < M THEN n ELSE n - M
<1>1. ASSUME NEW x \in Int, 0 <= x, x < M PROVE x % M = x
  <2> DEFINE r == x % M
  <2> DEFINE a == x \div M
  <2>1. a \in Int /\ x = M * a + r /\ r \in 0 .. M - 1
    BY DivMod
  <2> HIDE DEF r, a
  <2>2. M * 0 + x = M * a + r /\ x \in 0 .. M - 1
    BY <1>1, <2>1
  <2>3. x = r
    BY <2>1, <2>2, ModUnique
  <2> QED
    BY <2>3 DEF r
<1>2. CASE n < M
  BY <1>1, <1>2
<1>3. CASE ~(n < M)
  <2> DEFINE d == n - M
  <2>1. d \in Int /\ 0 <= d /\ d < M /\ d + M * 1 = n /\ 1 \in Int
    BY <1>3
  <2> HIDE DEF d
  <2>2. d % M = d
    BY <1>1, <2>1
  <2>3. (d + M * 1) % M = d % M
    BY <2>1, ModShift, Zenon
  <2>4. n % M = d
    BY <2>1, <2>2, <2>3
  <2> QED
    BY <1>3, <2>4 DEF d
<1> QED
  BY <1>2, <1>3

(***************************************************************************)
(* A term of a sum may be reduced first.                                   *)
(***************************************************************************)
LEMMA ModSum ==
  ASSUME NEW M \in Nat \ {0}, NEW a \in Int, NEW c \in Int
  PROVE  ((a % M) + c) % M = (a + c) % M
<1> DEFINE q == a \div M
<1> DEFINE r == a % M
<1>1. q \in Int /\ a = M * q + r /\ r \in Int
  BY DivMod
<1> HIDE DEF q, r
<1>2. M * q \in Int /\ a + c = (r + c) + M * q /\ r + c \in Int
  BY <1>1
<1>3. ((r + c) + M * q) % M = (r + c) % M
  BY <1>1, <1>2, ModShift
<1> QED
  BY <1>2, <1>3 DEF r

(***************************************************************************)
(* So may three.                                                           *)
(***************************************************************************)
LEMMA ModSumOfThree ==
  ASSUME NEW M \in Nat \ {0}, NEW a \in Int, NEW b \in Int, NEW c \in Int
  PROVE  ((a % M) + (b % M) + (c % M)) % M = (a + b + c) % M
<1> DEFINE x == a % M
<1> DEFINE y == b % M
<1> DEFINE z == c % M
<1>1. x \in Int /\ y \in Int /\ z \in Int
  OBVIOUS
<1>2. y + z \in Int /\ a + z \in Int /\ a + b \in Int
  BY <1>1
<1>3. (x + (y + z)) % M = (a + (y + z)) % M
  BY <1>1, <1>2, ModSum
<1>4. (y + (a + z)) % M = (b + (a + z)) % M
  BY <1>1, <1>2, ModSum
<1>5. (z + (a + b)) % M = (c + (a + b)) % M
  BY <1>1, <1>2, ModSum
<1> HIDE DEF x, y, z
<1>6. /\ x + y + z = x + (y + z) /\ a + (y + z) = y + (a + z)
      /\ b + (a + z) = z + (a + b) /\ c + (a + b) = a + b + c
  BY <1>1
<1>7. (x + y + z) % M = (a + b + c) % M
  BY <1>3, <1>4, <1>5, <1>6
<1> QED
  BY <1>7 DEF x, y, z

(***************************************************************************)
(* Equal residues stay equal.                                              *)
(***************************************************************************)
LEMMA ModCongruent ==
  ASSUME NEW M \in Nat \ {0}, NEW a \in Int, NEW b \in Int, NEW c \in Int,
         a % M = b % M
  PROVE  (a + c) % M = (b + c) % M
<1>1. ((a % M) + c) % M = (a + c) % M
  BY ModSum
<1>2. ((b % M) + c) % M = (b + c) % M
  BY ModSum
<1> QED
  BY <1>1, <1>2

(***************************************************************************)
(* n more in a counter of width M are n more in a sum it is part of.       *)
(***************************************************************************)
LEMMA ModCount ==
  ASSUME NEW M \in Nat \ {0}, NEW p \in Int, NEW k \in Int, NEW n \in Int, NEW d \in Int,
         (p + k) % M = d % M
  PROVE  (((p + n) % M) + k) % M = (d + n) % M
<1>1. (((p + n) % M) + k) % M = ((p + n) + k) % M
  <2>1. p + n \in Int
    OBVIOUS
  <2> QED
    BY <2>1, ModSum
<1>2. ((p + k) + n) % M = (d + n) % M
  <2>1. p + k \in Int
    OBVIOUS
  <2> QED
    BY <2>1, ModCongruent
<1>3. (p + n) + k = (p + k) + n
  OBVIOUS
<1> QED
  BY <1>1, <1>2, <1>3, Zenon
------------------------------------------------------------------------------
(***************************************************************************)
(* What steps may do.  Each action property follows from IInv and from     *)
(* which actions can touch the state it speaks of.                         *)
(***************************************************************************)
(***************************************************************************)
(* While a handler is at work the task takes no command and no wakeup.     *)
(***************************************************************************)
LEMMA StepsWhileBusy ==
  ASSUME Next, handler.at # "idle"
  PROVE  \/ GroupStep
         \/ CycleStep
         \/ Restart
         \/ /\ UNCHANGED <<Entries, Count, SortedIndex, Paused, PreviousTime, Cycle, Hk,
                           App, handler>>
            /\ sent' = NoEntry
<1>1. handler # Idle
  BY NeutralTypes
<1>2. ~GroundCommand
  BY <1>1 DEF GroundCommand, EntryCommand, InsertCmdEntryCmd, PlumbEntryFinalizeCmd,
     DeleteEntryCmd, ExecuteEntryCmd, PlumbEntryInitCmd, PlumbEntryWriteCmd,
     PlumbDeleteReservedEntryCmd, DeleteGroupCmd, ExecuteGroupCmd, BeginGroupCmd,
     DeleteAllEntriesCmd, PauseTimelineProcessingCmd, ResumeTimelineProcessingCmd,
     QueryCmd, ResetCountersCmd, ResetTimelineHkCmd, RejectedLength,
     PlumbPurgeTimelineCmd, Command
<1>3. ~Wakeup
  BY <1>1 DEF Wakeup, PausedCycle, BeginCycle
<1> QED
  BY <1>2, <1>3 DEF Next, Tick, SetTime

(***************************************************************************)
(* Only the cycle, a group execution and the command that executes one     *)
(* entry hand something to the software bus.                               *)
(***************************************************************************)
LEMMA StepsThatSend ==
  ASSUME Next, sent' # NoEntry
  PROVE  \/ ExecuteDue
         \/ ExecuteGroupStep
         \/ \E id \in EntryIds, group \in GroupIds, persistent \in BOOLEAN :
               ExecuteEntryCmd(id, group, persistent)
<1>1. ASSUME GroundCommand
      PROVE  \E id \in EntryIds, group \in GroupIds, persistent \in BOOLEAN :
               ExecuteEntryCmd(id, group, persistent)
  BY <1>1 DEF GroundCommand, EntryCommand, InsertCmdEntryCmd, PlumbEntryFinalizeCmd,
     DeleteEntryCmd, PlumbEntryInitCmd, PlumbEntryWriteCmd,
     PlumbDeleteReservedEntryCmd, DeleteGroupCmd, ExecuteGroupCmd, BeginGroupCmd,
     DeleteAllEntriesCmd, PauseTimelineProcessingCmd, ResumeTimelineProcessingCmd,
     QueryCmd, ResetCountersCmd, ResetTimelineHkCmd, RejectedLength,
     PlumbPurgeTimelineCmd, KeepCycle
<1>2. ASSUME GroupStep PROVE ExecuteGroupStep
  BY <1>2 DEF GroupStep, GroupPass, DeleteGroupStep, EndGroupCmd, KeepCycle
<1>3. ASSUME CycleStep PROVE ExecuteDue
  BY <1>3 DEF CycleStep, SkipLate, AbortLate, EndCycle
<1>4. ~Wakeup /\ ~Tick /\ ~Restart /\ \A t \in JumpTargets : ~SetTime(t)
  BY DEF Wakeup, PausedCycle, BeginCycle, Tick, Restart, SetTime
<1> QED
  BY <1>1, <1>2, <1>3, <1>4 DEF Next

(***************************************************************************)
(* GetNextSlot names a PENDING slot, and none has an earlier TimeTag.      *)
(***************************************************************************)
LEMMA NextSlotIsEarliest ==
  ASSUME TimelineInv, Count > 0
  PROVE  /\ NextSlot \in Slots
         /\ InIndex(NextSlot)
         /\ Entries[NextSlot].Status = "PENDING"
         /\ \A s \in Slots : Entries[s].Status = "PENDING" =>
                               Entries[s].TimeTag >= Entries[NextSlot].TimeTag
<1>1. Count \in Nat /\ Count - 1 \in 0 .. Count - 1
  BY DEF TimelineInv, TimelineType
<1>2. NextSlot \in Slots /\ InIndex(NextSlot)
  BY <1>1 DEF TimelineInv, TimelineType, NextSlot, InIndex
<1>3. ASSUME NEW s \in Slots, Entries[s].Status = "PENDING"
      PROVE  Entries[s].TimeTag >= Entries[NextSlot].TimeTag
  <2>1. PICK i \in 0 .. Count - 1 : SortedIndex[i] = s
    BY <1>3 DEF TimelineInv, IndexInv, IndexExact, InIndex
  <2>2. i <= Count - 1
    BY <1>1
  <2> QED
    BY <1>1, <2>1, <2>2 DEF TimelineInv, IndexInv, IndexSorted, NextSlot
<1> QED
  BY <1>2, <1>3 DEF TimelineInv, IndexInv, IndexExact

(***************************************************************************)
(* A cycle of TTC_ProcessTimeline ends only when nothing that was due at   *)
(* its start is PENDING: its loop looks at the last listed entry alone,    *)
(* and the order of the index makes that enough.                           *)
(***************************************************************************)
THEOREM CyclesDrain == Spec => CycleDrains
<1>1. ASSUME IInv, Next, handler.at = "cycle", handler'.at = "idle",
             NEW s \in Slots, Entries'[s].Status = "PENDING"
      PROVE  Entries'[s].TimeTag > handler.now
  <2>1. TimelineInv /\ handler.now \in Int /\ Entries[s].TimeTag \in Int
    BY <1>1, ConstantsAssumption
       DEF IInv, RestInv, HandlerType, Times, TimelineInv, TimelineType, EntryType
  <2>2. ~Restart
    BY <1>1, EmptyEntryType DEF Restart, ClearTimeline
  <2>3. ~GroupStep
    BY <1>1 DEF GroupStep, GroupPass, DeleteGroupStep, ExecuteGroupStep, EndGroupCmd
  <2>4. ~(ExecuteDue \/ SkipLate \/ AbortLate)
    BY <1>1 DEF ExecuteDue, SkipLate, AbortLate, KeepInCycle
  <2>5. EndCycle
    BY <1>1, <2>2, <2>3, <2>4, StepsWhileBusy DEF CycleStep
  <2>6. Count > 0 => NextSlot \in Slots
    BY <2>1, NextSlotIsEarliest
  <2>7. ~Due /\ Entries' = Entries
    BY <2>5, <2>6 DEF EndCycle
  <2>8. Count > 0
    BY <1>1, <2>1, <2>7 DEF TimelineInv, TimelineType, IndexInv, IndexExact, InIndex
  <2>9. /\ NextSlot \in Slots
        /\ Entries[NextSlot].TimeTag \in Int
        /\ Entries[s].TimeTag >= Entries[NextSlot].TimeTag
    BY <1>1, <2>1, <2>7, <2>8, NextSlotIsEarliest, ConstantsAssumption
       DEF TimelineInv, TimelineType, EntryType, Times
  <2> QED
    BY <1>1, <2>1, <2>7, <2>8, <2>9 DEF Due
<1>2. IInv /\ [Next]_vars =>
        [handler.at = "cycle" /\ handler'.at = "idle" =>
           \A s \in Slots : Entries'[s].Status = "PENDING" =>
                               Entries'[s].TimeTag > handler.now]_vars
  BY <1>1
<1> QED
  BY <1>2, Invariance, PTL DEF Spec, CycleDrains

(***************************************************************************)
(* What a cycle sends is due, not stale unless FORCE, and the earliest of  *)
(* all that is PENDING.                                                    *)
(***************************************************************************)
THEOREM CyclesSendEarliestFirst == Spec => EarliestFirst
<1>1. ASSUME IInv, Next, sent'.by = "cycle"
      PROVE  /\ handler.now >= sent'.entry.TimeTag
             /\ Stale(sent'.entry, handler.now) => sent'.entry.ExecutionType = "FORCE"
             /\ \A s \in Slots : Entries[s].Status = "PENDING" =>
                                  Entries[s].TimeTag >= sent'.entry.TimeTag
  <2>1. sent' # NoEntry
    BY <1>1 DEF NoEntry
  <2>2. ~ExecuteGroupStep
    BY <1>1 DEF ExecuteGroupStep, ExecuteEntry
  <2>3. ASSUME NEW id, NEW group, NEW persistent, ExecuteEntryCmd(id, group, persistent)
        PROVE  FALSE
    BY <1>1, <2>1, <2>3 DEF ExecuteEntryCmd, ExecuteEntry
  <2>4. ExecuteDue
    BY <1>1, <2>1, <2>2, <2>3, StepsThatSend
  <2>5. Due /\ Count > 0
    BY <2>4 DEF ExecuteDue, Due
  <2>6. /\ Entries[NextSlot].Status = "PENDING"
        /\ \A s \in Slots : Entries[s].Status = "PENDING" =>
                              Entries[s].TimeTag >= Entries[NextSlot].TimeTag
    BY <1>1, <2>5, NextSlotIsEarliest DEF IInv
  <2>7. sent'.entry = Entries[NextSlot]
    BY <2>4, <2>6 DEF ExecuteDue, ExecuteEntry
  <2> QED
    BY <2>4, <2>5, <2>6, <2>7 DEF ExecuteDue, Due
<1>2. IInv /\ [Next]_vars =>
        [sent'.by = "cycle" =>
           /\ handler.now >= sent'.entry.TimeTag
           /\ Stale(sent'.entry, handler.now) => sent'.entry.ExecutionType = "FORCE"
           /\ \A s \in Slots : Entries[s].Status = "PENDING" =>
                                Entries[s].TimeTag >= sent'.entry.TimeTag]_vars
  BY <1>1
<1> QED
  BY <1>2, Invariance, PTL DEF Spec, EarliestFirst

(***************************************************************************)
(* ExecuteGroup sends an entry before the later ones it has still to visit *)
(* ("The execution is in increasing order of their TimeTags").             *)
(***************************************************************************)
THEOREM GroupsRunInOrder == Spec => GroupOrder
<1>1. ASSUME IInv, Next, handler.at = "execute", sent'.by = "command",
             NEW k \in 0 .. handler.i
      PROVE  Entries[SortedIndex[k]].TimeTag >= sent'.entry.TimeTag
  <2>1. sent' # NoEntry
    BY <1>1 DEF NoEntry
  <2>2. ~ExecuteDue
    BY <1>1 DEF ExecuteDue, Due
  <2>3. ASSUME NEW id, NEW group, NEW persistent, ExecuteEntryCmd(id, group, persistent)
        PROVE  FALSE
    BY <1>1, <2>3, NeutralTypes DEF ExecuteEntryCmd, Command
  <2>4. ExecuteGroupStep
    BY <1>1, <2>1, <2>2, <2>3, StepsThatSend
  <2>5. sent'.entry = Entries[SortedIndex[handler.i]]
    BY <2>4 DEF ExecuteGroupStep, ExecuteEntry
  <2>6. /\ Count \in Nat /\ handler.i \in Int /\ handler.i < Count
        /\ k \in 0 .. Count - 1 /\ handler.i \in 0 .. Count - 1 /\ k <= handler.i
    BY <1>1, <2>4, ConstantsAssumption
       DEF IInv, TimelineInv, TimelineType, RestInv, LoopInv, HandlerType, ExecuteGroupStep
  <2> QED
    BY <1>1, <2>5, <2>6 DEF IInv, TimelineInv, IndexInv, IndexSorted
<1>2. IInv /\ [Next]_vars =>
        [handler.at = "execute" /\ sent'.by = "command" =>
           \A k \in 0 .. handler.i :
              Entries[SortedIndex[k]].TimeTag >= sent'.entry.TimeTag]_vars
  BY <1>1
<1> QED
  BY <1>2, Invariance, PTL DEF Spec, GroupOrder

\* The members of the group that the loop has still to visit.
ToVisit ==
  {s \in GroupMembers(handler.group) : \E k \in 0 .. handler.i : SortedIndex[k] = s}

(***************************************************************************)
(* Where a group loop stands: `entries` counts the members still ahead of  *)
(* it, and unless they are kept none is behind.                            *)
(***************************************************************************)
GroupInv ==
  handler.at \in {"delete", "execute"} =>
     /\ handler.entries = Cardinality(ToVisit)
     /\ ~handler.persistent => GroupMembers(handler.group) \subseteq ToVisit

(***************************************************************************)
(* Removing the listed slot at position p leaves the order of those before *)
(* it, and every other entry, as they are.                                 *)
(***************************************************************************)
LEMMA DeleteEffect ==
  ASSUME TimelineInv, NEW p \in 0 .. Count - 1, DeleteSlot(SortedIndex[p])
  PROVE  /\ Entries' = [Entries EXCEPT ![SortedIndex[p]] = EmptyEntry]
         /\ Count' = Count - 1
         /\ \A k \in 0 .. p - 1 : SortedIndex'[k] = SortedIndex[k]
<1> DEFINE slot == SortedIndex[p]
<1> DEFINE q == CHOOSE i \in 0 .. Count - 1 : SortedIndex[i] = slot
<1>1. InIndex(slot)
  BY DEF InIndex
<1>2. q \in 0 .. Count - 1 /\ SortedIndex[q] = slot
  OBVIOUS
<1>3. q = p
  BY <1>2 DEF TimelineInv, IndexInv, IndexDistinct
<1>4. /\ Entries' = [Entries EXCEPT ![slot] = EmptyEntry]
      /\ SortedIndex' = [j \in 0 .. Count - 2 |->
                           IF j < q THEN SortedIndex[j] ELSE SortedIndex[j + 1]]
      /\ Count' = Count - 1
  BY <1>1 DEF DeleteSlot
<1> HIDE DEF q
<1>5. Count \in Nat
  BY DEF TimelineInv, TimelineType
<1>6. \A k \in 0 .. p - 1 : k \in 0 .. Count - 2 /\ k < p
  BY <1>5
<1> QED
  BY <1>3, <1>4, <1>6

(***************************************************************************)
(* An iteration that handles the entry at the loop's position.             *)
(***************************************************************************)
LEMMA HandlingKeepsGroupInv ==
  ASSUME TimelineInv, TimelineInv', GroupInv, handler \in HandlerType,
         handler.at \in {"delete", "execute"},
         handler.i \in 0 .. Count - 1,
         InGroup(SortedIndex[handler.i], handler.group),
         handler' = [handler EXCEPT !.i = @ - 1, !.found = TRUE, !.entries = @ - 1],
         \/ DeleteSlot(SortedIndex[handler.i])
         \/ handler.persistent /\ UNCHANGED timeline
  PROVE  GroupInv'
<1> DEFINE slot == SortedIndex[handler.i]
<1>1. Count \in Nat /\ handler.i \in Int /\ handler.entries \in Int
  BY DEF TimelineInv, TimelineType, HandlerType
<1>2. /\ handler'.i = handler.i - 1 /\ handler'.entries = handler.entries - 1
      /\ handler'.group = handler.group /\ handler'.persistent = handler.persistent
  BY DEF HandlerType
<1>3. slot \in Slots /\ Entries[slot].Status = "PENDING"
  BY DEF TimelineInv, TimelineType, IndexInv, IndexExact, InIndex
<1>4. slot \in ToVisit
  BY <1>1, <1>3 DEF ToVisit, GroupMembers
<1>5. IsFiniteSet(ToVisit)
  <2>1. ToVisit \subseteq Slots
    BY DEF ToVisit, GroupMembers
  <2> QED
    BY <2>1, SlotsFinite, FS_Subset
<1>6. /\ \A k \in 0 .. handler.i - 1 : SortedIndex'[k] = SortedIndex[k]
      /\ \A s \in Slots \ {slot} : Entries'[s] = Entries[s]
  <2>1. CASE DeleteSlot(slot)
    <3>1. /\ Entries' = [Entries EXCEPT ![slot] = EmptyEntry]
          /\ \A k \in 0 .. handler.i - 1 : SortedIndex'[k] = SortedIndex[k]
      BY <2>1, DeleteEffect
    <3> QED
      BY <3>1 DEF TimelineInv, TimelineType
  <2>2. CASE UNCHANGED timeline
    BY <2>2 DEF timeline
  <2> QED
    BY <2>1, <2>2
<1>7. \A k \in 0 .. handler.i - 1 : /\ SortedIndex[k] # slot
                                    /\ SortedIndex[k] \in Slots
                                    /\ k \in 0 .. handler.i
  BY <1>1 DEF TimelineInv, TimelineType, IndexInv, IndexDistinct
<1>8. \A s \in Slots \ {slot} : s \in GroupMembers(handler.group)' <=>
                                s \in GroupMembers(handler.group)
  BY <1>2, <1>6 DEF GroupMembers, InGroup
<1>9. ToVisit' = ToVisit \ {slot}
  <2>1. ASSUME NEW s \in ToVisit' PROVE s \in ToVisit \ {slot}
    <3>1. PICK k \in 0 .. handler.i - 1 : SortedIndex'[k] = s
      BY <1>2, <2>1 DEF ToVisit
    <3>2. SortedIndex[k] = s /\ s # slot /\ s \in Slots /\ k \in 0 .. handler.i
      BY <1>6, <1>7, <3>1
    <3>3. s \in GroupMembers(handler.group)
      BY <1>8, <2>1, <3>2 DEF ToVisit
    <3> QED
      BY <3>2, <3>3 DEF ToVisit
  <2>2. ASSUME NEW s \in ToVisit \ {slot} PROVE s \in ToVisit'
    <3>1. PICK k \in 0 .. handler.i : SortedIndex[k] = s
      BY <2>2 DEF ToVisit
    <3>2. k \in 0 .. handler.i - 1
      BY <1>1, <2>2, <3>1
    <3>3. SortedIndex'[k] = s /\ s \in Slots
      BY <1>6, <1>7, <3>1, <3>2
    <3>4. s \in GroupMembers(handler.group)'
      BY <1>8, <2>2, <3>3 DEF ToVisit
    <3> QED
      BY <1>2, <3>2, <3>3, <3>4 DEF ToVisit
  <2> QED
    BY <2>1, <2>2
<1>10. Cardinality(ToVisit') = Cardinality(ToVisit) - 1
  BY <1>4, <1>5, <1>9, FS_RemoveElement
<1>11. ASSUME ~handler.persistent
       PROVE  GroupMembers(handler.group)' \subseteq ToVisit'
  <2>1. Entries'[slot] = EmptyEntry
    BY <1>3, <1>11, DeleteEffect DEF TimelineInv, TimelineType
  <2>2. slot \notin GroupMembers(handler.group)'
    BY <2>1, EmptyEntryType DEF GroupMembers
  <2>3. GroupMembers(handler.group)' \subseteq Slots
    BY DEF GroupMembers
  <2>4. GroupMembers(handler.group) \subseteq ToVisit
    BY <1>11 DEF GroupInv
  <2> QED
    BY <1>8, <1>9, <2>2, <2>3, <2>4
<1> QED
  BY <1>2, <1>10, <1>11 DEF GroupInv

(***************************************************************************)
(* Every step keeps GroupInv.                                              *)
(***************************************************************************)
LEMMA NextKeepsGroupInv == IInv /\ IInv' /\ GroupInv /\ [Next]_vars => GroupInv'
<1> SUFFICES ASSUME IInv, IInv', GroupInv, [Next]_vars PROVE GroupInv'
  OBVIOUS
<1>0. TimelineInv /\ TimelineInv' /\ RestInv /\ handler \in HandlerType /\ LoopInv
  BY DEF IInv, RestInv
<1>1. ASSUME handler' = Idle PROVE GroupInv'
  BY <1>1, NeutralTypes DEF GroupInv
<1>2. ASSUME UNCHANGED <<Entries, Count, SortedIndex, handler>> PROVE GroupInv'
  BY <1>2 DEF GroupInv, ToVisit, GroupMembers, InGroup
<1>3. ASSUME NEW what \in {"delete", "execute"}, NEW group \in GroupIds,
             NEW persistent \in BOOLEAN, BeginGroupCmd(what, group, persistent)
      PROVE  GroupInv'
  <2>1. /\ UNCHANGED <<Entries, SortedIndex, Count>>
        /\ handler' = [Idle EXCEPT !.at = what, !.i = Count - 1,
                                   !.entries = Cardinality(GroupMembers(group)),
                                   !.group = group, !.persistent = persistent]
    BY <1>3 DEF BeginGroupCmd
  <2>2. /\ handler'.i = Count - 1 /\ handler'.group = group
        /\ handler'.entries = Cardinality(GroupMembers(group))
    BY <2>1, NeutralTypes DEF HandlerType
  <2>3. GroupMembers(handler.group)' = GroupMembers(group)
    BY <2>1, <2>2 DEF GroupMembers, InGroup
  <2>4. ToVisit' = GroupMembers(group)
    <3>1. \A s \in GroupMembers(group) : \E k \in 0 .. Count - 1 : SortedIndex[k] = s
      BY <1>0 DEF TimelineInv, IndexInv, IndexExact, InIndex, GroupMembers
    <3> QED
      BY <2>1, <2>2, <2>3, <3>1 DEF ToVisit
  <2> QED
    BY <2>2, <2>3, <2>4 DEF GroupInv
<1>4. ASSUME handler.at \in {"delete", "execute"}, handler.i >= 0
      PROVE  /\ handler.i \in 0 .. Count - 1
             /\ SortedIndex[handler.i] \in Slots
             /\ Entries[SortedIndex[handler.i]].Status = "PENDING"
  <2>1. handler.i \in 0 .. Count - 1
    BY <1>0, <1>4, ConstantsAssumption DEF LoopInv, HandlerType, TimelineInv, TimelineType
  <2> QED
    BY <1>0, <2>1 DEF TimelineInv, TimelineType, IndexInv, IndexExact, InIndex
<1>5. ASSUME GroupPass PROVE GroupInv'
  <2>1. /\ handler' = [handler EXCEPT !.i = @ - 1]
        /\ UNCHANGED <<Entries, SortedIndex, Count>>
        /\ handler.i \in 0 .. Count - 1
        /\ ~InGroup(SortedIndex[handler.i], handler.group)
    BY <1>4, <1>5 DEF GroupPass
  <2>2. /\ handler'.i = handler.i - 1 /\ handler'.entries = handler.entries
        /\ handler'.group = handler.group /\ handler'.persistent = handler.persistent
        /\ handler'.at = handler.at /\ handler.i \in Int
    BY <1>0, <2>1 DEF HandlerType
  <2>3. GroupMembers(handler.group)' = GroupMembers(handler.group)
    BY <2>1, <2>2 DEF GroupMembers, InGroup
  <2>4. ToVisit' = ToVisit
    <3>1. \A s \in GroupMembers(handler.group) : s # SortedIndex[handler.i]
      BY <2>1 DEF GroupMembers
    <3>2. \A s \in GroupMembers(handler.group) :
            (\E k \in 0 .. handler.i : SortedIndex[k] = s) <=>
            (\E k \in 0 .. handler.i - 1 : SortedIndex[k] = s)
      BY <2>2, <3>1
    <3> QED
      BY <2>1, <2>2, <2>3, <3>2 DEF ToVisit
  <2> QED
    BY <2>2, <2>3, <2>4 DEF GroupInv
<1>6. ASSUME DeleteGroupStep PROVE GroupInv'
  BY <1>0, <1>4, <1>6, HandlingKeepsGroupInv DEF DeleteGroupStep
<1>7. ASSUME ExecuteGroupStep PROVE GroupInv'
  <2>1. \/ DeleteSlot(SortedIndex[handler.i])
        \/ handler.persistent /\ UNCHANGED timeline
    BY <1>7 DEF ExecuteGroupStep, ExecuteEntry
  <2> QED
    BY <1>0, <1>4, <1>7, <2>1, HandlingKeepsGroupInv DEF ExecuteGroupStep
<1>8. ASSUME GroundCommand PROVE GroupInv'
  <2>1. \/ handler' = Idle
        \/ \E what \in {"delete", "execute"}, group \in GroupIds, persistent \in BOOLEAN :
             BeginGroupCmd(what, group, persistent)
    BY <1>8 DEF GroundCommand, EntryCommand, InsertCmdEntryCmd, PlumbEntryFinalizeCmd,
       DeleteEntryCmd, ExecuteEntryCmd, PlumbEntryInitCmd, PlumbEntryWriteCmd,
       PlumbDeleteReservedEntryCmd, DeleteGroupCmd, ExecuteGroupCmd,
       DeleteAllEntriesCmd, PauseTimelineProcessingCmd, ResumeTimelineProcessingCmd,
       QueryCmd, ResetCountersCmd, ResetTimelineHkCmd, RejectedLength,
       PlumbPurgeTimelineCmd, Command
  <2> QED
    BY <1>1, <1>3, <2>1
<1>9. ASSUME Wakeup \/ CycleStep PROVE GroupInv'
  <2>1. handler' = Idle \/ handler'.at = "cycle"
    BY <1>9, NeutralTypes DEF Wakeup, PausedCycle, BeginCycle, CycleStep, ExecuteDue, SkipLate,
       AbortLate, EndCycle, Due, KeepInCycle, HandlerType
  <2> QED
    BY <1>1, <2>1 DEF GroupInv
<1>10. ASSUME Restart \/ EndGroupCmd PROVE GroupInv'
  BY <1>1, <1>10 DEF Restart, EndGroupCmd
<1> QED
  BY <1>2, <1>5, <1>6, <1>7, <1>8, <1>9, <1>10 DEF Next, GroupStep, Tick, SetTime, vars

(***************************************************************************)
(* DeleteGroup and ExecuteGroup walk down the index while DeleteSlot       *)
(* shifts it, and still handle every addressable member of the group       *)
(* exactly once; one that does not keep them leaves none.                  *)
(***************************************************************************)
THEOREM GroupsAreHandledExactly == Spec => GroupCmdExact
<1>1. Init => GroupInv
  BY NeutralTypes DEF Init, GroupInv
<1>2. ASSUME IInv, GroupInv, EndGroupCmd
      PROVE  /\ handler.entries = 0
             /\ ~handler.persistent => GroupMembers(handler.group) = {}
  <2>1. handler.i \in Int /\ handler.i < 0
    BY <1>2, ConstantsAssumption DEF IInv, RestInv, HandlerType, EndGroupCmd
  <2>2. ToVisit = {}
    BY <2>1 DEF ToVisit
  <2> QED
    BY <1>2, <2>2, FS_EmptySet DEF EndGroupCmd, GroupInv
<1>3. IInv /\ GroupInv =>
        [EndGroupCmd => /\ handler.entries = 0
                        /\ ~handler.persistent => GroupMembers(handler.group) = {}]_vars
  BY <1>2
<1> QED
  BY <1>1, <1>3, NextKeepsGroupInv, Invariance, PTL DEF Spec, GroupCmdExact

(***************************************************************************)
(* The group loops of ttc_timeline.c: every member once, in order.         *)
(***************************************************************************)
THEOREM GroupCommandsAreSound == Spec => GroupCmdSound
<1> QED
  BY GroupsRunInOrder, GroupsAreHandledExactly, PTL DEF GroupCmdSound

(***************************************************************************)
(* DeleteSlot touches only a listed slot, and that one is PENDING.         *)
(***************************************************************************)
LEMMA DeleteTouchesPending ==
  ASSUME TimelineInv, NEW slot \in Slots, DeleteSlot(slot), NEW s \in Slots,
         Entries'[s] # Entries[s]
  PROVE  Entries[s].Status = "PENDING" /\ Entries'[s].Status = "EMPTY"
<1>1. InIndex(slot) /\ Entries' = [Entries EXCEPT ![slot] = EmptyEntry]
  BY DEF DeleteSlot, timeline
<1>2. s = slot
  BY <1>1 DEF TimelineInv, TimelineType
<1> QED
  BY <1>1, <1>2, EmptyEntryType DEF TimelineInv, TimelineType, IndexInv, IndexExact

(***************************************************************************)
(* ClearPending as well.                                                   *)
(***************************************************************************)
LEMMA ClearTouchesPending ==
  ASSUME TimelineInv, ClearPending, NEW s \in Slots, Entries'[s] # Entries[s]
  PROVE  Entries[s].Status = "PENDING" /\ Entries'[s].Status = "EMPTY"
<1>1. InIndex(s) /\ Entries'[s] = EmptyEntry
  BY DEF ClearPending
<1> QED
  BY <1>1, EmptyEntryType DEF TimelineInv, IndexInv, IndexExact

(***************************************************************************)
(* The steps of the loops, deletions and executions only free PENDING      *)
(* slots.                                                                  *)
(***************************************************************************)
LEMMA HandlersFreePending ==
  ASSUME IInv,
         \/ GroupStep
         \/ CycleStep
         \/ DeleteAllEntriesCmd
         \/ \E id \in EntryIds, group \in GroupIds :
              \/ DeleteEntryCmd(id, group)
              \/ \E persistent \in BOOLEAN : ExecuteEntryCmd(id, group, persistent),
         NEW s \in Slots, Entries'[s] # Entries[s]
  PROVE  Entries[s].Status = "PENDING" /\ Entries'[s].Status = "EMPTY"
<1>0. TimelineInv /\ RestInv /\ Count \in Nat
  BY DEF IInv, TimelineInv, TimelineType
<1>1. ASSUME NEW slot \in Slots, Entries[slot].Status = "PENDING",
             NEW persistent, NEW by, ExecuteEntry(slot, persistent, by)
      PROVE  Entries[s].Status = "PENDING" /\ Entries'[s].Status = "EMPTY"
  <2>1. DeleteSlot(slot)
    BY <1>1 DEF ExecuteEntry, timeline
  <2> QED
    BY <1>0, <2>1, DeleteTouchesPending
<1>2. ASSUME NEW id \in EntryIds, NEW group \in GroupIds, DeleteEntryCmd(id, group)
      PROVE  Entries[s].Status = "PENDING" /\ Entries'[s].Status = "EMPTY"
  <2> DEFINE slot == FindSlotByEntryId(id, group)
  <2>1. Found(slot) /\ DeleteSlot(slot)
    BY <1>2 DEF DeleteEntryCmd, timeline
  <2>2. slot \in Slots
    BY <2>1, SlotByEntryIdFound
  <2> QED
    BY <1>0, <2>1, <2>2, DeleteTouchesPending
<1>3. ASSUME NEW id \in EntryIds, NEW group \in GroupIds, NEW persistent \in BOOLEAN,
             ExecuteEntryCmd(id, group, persistent)
      PROVE  Entries[s].Status = "PENDING" /\ Entries'[s].Status = "EMPTY"
  <2> DEFINE slot == FindSlotByEntryId(id, group)
  <2>1. /\ Found(slot) /\ Entries[slot].Status = "PENDING"
        /\ ExecuteEntry(slot, persistent, "command")
    BY <1>3 DEF ExecuteEntryCmd
  <2>2. slot \in Slots
    BY <2>1, SlotByEntryIdFound
  <2> HIDE DEF slot
  <2> QED
    BY <1>1, <2>1, <2>2
<1>4. ASSUME handler.at \in {"delete", "execute"}, handler.i >= 0
      PROVE  SortedIndex[handler.i] \in Slots
  <2>1. handler.i \in 0 .. Count - 1
    BY <1>0, <1>4, ConstantsAssumption DEF RestInv, LoopInv, HandlerType
  <2> QED
    BY <1>0, <2>1 DEF TimelineInv, TimelineType
<1>5. ASSUME GroupStep
      PROVE  Entries[s].Status = "PENDING" /\ Entries'[s].Status = "EMPTY"
  <2>1. DeleteGroupStep \/ ExecuteGroupStep
    BY <1>5 DEF GroupStep, GroupPass, EndGroupCmd
  <2>2. CASE DeleteGroupStep
    BY <1>0, <1>4, <2>2, DeleteTouchesPending DEF DeleteGroupStep
  <2>3. CASE ExecuteGroupStep
    BY <1>1, <1>4, <2>3 DEF ExecuteGroupStep
  <2> QED
    BY <2>1, <2>2, <2>3
<1>6. ASSUME CycleStep
      PROVE  Entries[s].Status = "PENDING" /\ Entries'[s].Status = "EMPTY"
  <2>1. Count > 0 => NextSlot \in Slots /\ Entries[NextSlot].Status = "PENDING"
    BY <1>0, NextSlotIsEarliest
  <2>2. ~EndCycle
    BY <2>1 DEF EndCycle
  <2>3. CASE ExecuteDue
    BY <1>1, <2>1, <2>3 DEF ExecuteDue, Due
  <2>4. CASE SkipLate
    BY <1>0, <2>1, <2>4, DeleteTouchesPending DEF SkipLate, Due
  <2>5. CASE AbortLate
    BY <1>0, <2>5, ClearTouchesPending DEF AbortLate
  <2> QED
    BY <1>6, <2>2, <2>3, <2>4, <2>5 DEF CycleStep
<1>7. ASSUME DeleteAllEntriesCmd
      PROVE  Entries[s].Status = "PENDING" /\ Entries'[s].Status = "EMPTY"
  BY <1>0, <1>7, ClearTouchesPending DEF DeleteAllEntriesCmd
<1> QED
  BY <1>2, <1>3, <1>5, <1>6, <1>7

(***************************************************************************)
(* AddEntry writes to the EMPTY slot it has found, and an error path after *)
(* the reservation leaves that slot as it was.                             *)
(***************************************************************************)
LEMMA InsertEffect ==
  ASSUME IInv, NEW r \in Requests, InsertCmdEntryCmd(r)
  PROVE  \/ UNCHANGED timeline
         \/ /\ AddStatus(r) = "CFE_SUCCESS"
            /\ FindEmptySlot \in Slots
            /\ Entries[FindEmptySlot] = EmptyEntry
            /\ CommitSlot(FindEmptySlot, AddedEntry(FindEmptySlot, r), r)
<1> DEFINE slot == FindEmptySlot
<1> DEFINE status == AddStatus(r)
<1>1. TimelineInv
  BY DEF IInv
<1>2. ASSUME status \in AfterReservation \cup {"CFE_SUCCESS"}
      PROVE  slot \in Slots /\ Entries[slot] = EmptyEntry
  <2>1. Found(slot)
    BY <1>2 DEF AddStatus, AfterReservation
  <2> QED
    BY <1>1, <2>1, EmptySlotFound DEF TimelineInv, SlotsSound
<1>3. CASE status = "CFE_SUCCESS"
  BY <1>2, <1>3 DEF InsertCmdEntryCmd, AfterReservation
<1>4. CASE status \in AfterReservation
  <2>1. UndoReservation(slot, r)
    BY <1>4 DEF InsertCmdEntryCmd, AfterReservation
  <2>2. slot \in Slots /\ Entries[slot] = EmptyEntry
    BY <1>2, <1>4
  <2> HIDE DEF slot
  <2>3. Entries' = [Entries EXCEPT ![slot] = EmptyEntry]
    BY <1>1, <2>1, <2>2 DEF UndoReservation, TimelineInv, TimelineType
  <2>4. Entries' = Entries
    BY <1>1, <2>2, <2>3 DEF TimelineInv, TimelineType
  <2> QED
    BY <2>1, <2>4 DEF UndoReservation, timeline
<1>5. CASE status \notin AfterReservation \cup {"CFE_SUCCESS"}
  BY <1>5 DEF InsertCmdEntryCmd
<1> QED
  BY <1>3, <1>4, <1>5

(***************************************************************************)
(* A slot that is being uploaded (RESERVED) is left alone by every command *)
(* but the plumb commands, by the group loops and by the cycle, which take *)
(* slots from the index or EMPTY ones.                                     *)
(***************************************************************************)
THEOREM UploadsAreProtected == Spec => ReservedProtected
<1> DEFINE A == \/ GroupStep
                \/ CycleStep
                \/ DeleteAllEntriesCmd
                \/ \E r \in Requests : InsertCmdEntryCmd(r)
                \/ \E id \in EntryIds, group \in GroupIds :
                     \/ DeleteEntryCmd(id, group)
                     \/ \E persistent \in BOOLEAN : ExecuteEntryCmd(id, group, persistent)
<1>1. ASSUME IInv, A, NEW s \in Slots, Entries[s].Status = "RESERVED",
             Entries'[s] # Entries[s]
      PROVE  FALSE
  <2>1. CASE \E r \in Requests : InsertCmdEntryCmd(r)
    <3>1. PICK r \in Requests : InsertCmdEntryCmd(r)
      BY <2>1
    <3> DEFINE slot == FindEmptySlot
    <3>2. slot \in Slots /\ Entries[slot] = EmptyEntry
          /\ CommitSlot(slot, AddedEntry(slot, r), r)
      BY <1>1, <3>1, InsertEffect DEF timeline
    <3> HIDE DEF slot
    <3>3. s # slot
      BY <1>1, <3>2, EmptyEntryType
    <3> QED
      BY <1>1, <3>2, <3>3 DEF CommitSlot, IInv, TimelineInv, TimelineType
  <2>2. CASE ~\E r \in Requests : InsertCmdEntryCmd(r)
    BY <1>1, <2>2, HandlersFreePending
  <2> QED
    BY <2>1, <2>2
<1>2. IInv => [A => \A s \in Slots : Entries[s].Status = "RESERVED" =>
                                       Entries'[s] = Entries[s]]_vars
  BY <1>1
<1> QED
  BY <1>2, Invariance, PTL DEF Spec, ReservedProtected

(***************************************************************************)
(* A slot becomes PENDING only by a commit, of an insertion or of an       *)
(* upload, that the status checks of the command allow.                    *)
(***************************************************************************)
LEMMA CommitsOnly ==
  ASSUME IInv, Next, NEW s \in Slots,
         Entries[s].Status # "PENDING", Entries'[s].Status = "PENDING"
  PROVE  \E r \in Requests :
           /\ r.TimeTagType \in TagTypes
           /\ ~InPast(r)
           /\ Entries'[s].TimeTag = AbsTimeTag(r)
           /\ Entries'[s].EntryId = r.EntryId
           /\ Entries'[s].GroupId = r.GroupId
<1>0. TimelineInv /\ clock \in Times /\ Entries'[s] # Entries[s]
  BY DEF IInv, RestInv
<1>1. ASSUME NEW r \in Requests, NEW slot \in Slots, NEW e \in EntryType,
             CommitSlot(slot, e, r), e.EntryId = r.EntryId, e.GroupId = r.GroupId
      PROVE  /\ Entries'[s].TimeTag = AbsTimeTag(r)
             /\ Entries'[s].EntryId = r.EntryId
             /\ Entries'[s].GroupId = r.GroupId
  <2>1. /\ slot # s => Entries'[s] = Entries[s]
        /\ slot = s => Entries'[s] = [e EXCEPT !.TimeTag = AbsTimeTag(r),
                                               !.StalenessThreshold = r.StalenessThreshold,
                                               !.ExecutionType = r.ExecutionType,
                                               !.CmdSize = r.CmdSize,
                                               !.Status = "PENDING"]
    BY <1>0, <1>1 DEF CommitSlot, TimelineInv, TimelineType
  <2> QED
    BY <1>0, <1>1, <2>1 DEF EntryType
<1>2. ASSUME NEW r \in Requests, InsertCmdEntryCmd(r)
      PROVE  /\ r.TimeTagType \in TagTypes /\ ~InPast(r)
             /\ Entries'[s].TimeTag = AbsTimeTag(r)
             /\ Entries'[s].EntryId = r.EntryId
             /\ Entries'[s].GroupId = r.GroupId
  <2> DEFINE slot == FindEmptySlot
  <2>1. /\ AddStatus(r) = "CFE_SUCCESS"
        /\ slot \in Slots /\ Entries[slot] = EmptyEntry
        /\ CommitSlot(slot, AddedEntry(slot, r), r)
    BY <1>0, <1>2, InsertEffect DEF timeline
  <2>2. r.TimeTagType \in TagTypes /\ ~InPast(r)
    BY <2>1 DEF AddStatus
  <2> HIDE DEF slot
  <2>3. /\ AddedEntry(slot, r) \in EntryType
        /\ AddedEntry(slot, r).EntryId = r.EntryId
        /\ AddedEntry(slot, r).GroupId = r.GroupId
    <3>1. r.EntryId \in EntryIds /\ r.GroupId \in GroupIds /\ r.MsgSize \in Nat
      BY <1>0, RequestTypes
    <3> QED
      BY <2>1, <3>1, EmptyEntryType DEF AddedEntry, WriteToSlot, EntryType
  <2> QED
    BY <1>1, <2>1, <2>2, <2>3
<1>3. ASSUME NEW r \in Requests, PlumbEntryFinalizeCmd(r)
      PROVE  /\ r.TimeTagType \in TagTypes /\ ~InPast(r)
             /\ Entries'[s].TimeTag = AbsTimeTag(r)
             /\ Entries'[s].EntryId = r.EntryId
             /\ Entries'[s].GroupId = r.GroupId
  <2> DEFINE slot == FindReservedSlot(r.EntryId, r.GroupId)
  <2>1. FinalizeStatus(r) = "CFE_SUCCESS" /\ CommitSlot(slot, Entries[slot], r)
    BY <1>0, <1>3 DEF PlumbEntryFinalizeCmd, timeline
  <2>2. Found(slot) /\ r.TimeTagType \in TagTypes /\ ~InPast(r)
    BY <2>1 DEF FinalizeStatus
  <2>3. /\ slot \in Slots
        /\ Entries[slot].EntryId = r.EntryId
        /\ Entries[slot].GroupId = r.GroupId
    BY <2>2, ReservedSlotFound
  <2> HIDE DEF slot
  <2>4. Entries[slot] \in EntryType
    BY <1>0, <2>3 DEF TimelineInv, TimelineType
  <2> QED
    BY <1>1, <2>1, <2>2, <2>3, <2>4
<1>4. ASSUME NEW id \in EntryIds, NEW group \in GroupIds
      PROVE  /\ ~PlumbEntryInitCmd(id, group)
             /\ \A chunk \in Chunks : ~PlumbEntryWriteCmd(id, group, chunk)
             /\ ~PlumbDeleteReservedEntryCmd(id, group)
  <2>1. ~PlumbEntryInitCmd(id, group)
    <3> DEFINE e == [EmptyEntry EXCEPT !.EntryId = id, !.GroupId = group,
                                       !.TimeTag = TTC_TIMETAG_MAX,
                                       !.Status = "RESERVED"]
    <3>1. e.Status = "RESERVED"
      BY EmptyEntryType DEF EntryType
    <3>2. ASSUME PlumbEntryInitCmd(id, group)
          PROVE  Entries' = [Entries EXCEPT ![FindEmptySlot] = e]
      BY <1>0, <3>2 DEF PlumbEntryInitCmd
    <3> HIDE DEF e
    <3> QED
      BY <1>0, <3>1, <3>2 DEF TimelineInv, TimelineType
  <2>2. ASSUME NEW chunk \in Chunks, PlumbEntryWriteCmd(id, group, chunk)
        PROVE  FALSE
    <3> DEFINE slot == FindReservedSlot(id, group)
    <3>1. /\ Found(slot)
          /\ Entries' = [Entries EXCEPT ![slot] = WriteToSlot(Entries[slot], chunk)]
      BY <1>0, <2>2 DEF PlumbEntryWriteCmd
    <3>2. slot \in Slots /\ Entries[slot].Status = "RESERVED"
      BY <3>1, ReservedSlotFound
    <3> HIDE DEF slot
    <3>3. WriteToSlot(Entries[slot], chunk).Status = "RESERVED"
      BY <1>0, <3>2 DEF WriteToSlot, TimelineInv, TimelineType, EntryType
    <3> QED
      BY <1>0, <3>1, <3>2, <3>3 DEF TimelineInv, TimelineType
  <2>3. ~PlumbDeleteReservedEntryCmd(id, group)
    <3> DEFINE slot == FindReservedSlot(id, group)
    <3>1. PlumbDeleteReservedEntryCmd(id, group) =>
             Entries' = [Entries EXCEPT ![slot] = EmptyEntry]
      BY <1>0 DEF PlumbDeleteReservedEntryCmd, CancelSlot, timeline
    <3> HIDE DEF slot
    <3> QED
      BY <1>0, <3>1, EmptyEntryType DEF TimelineInv, TimelineType
  <2> QED
    BY <2>1, <2>2, <2>3
<1>5. ~ClearTimeline
  BY EmptyEntryType DEF ClearTimeline
<1>6. ~(\/ GroupStep
        \/ CycleStep
        \/ DeleteAllEntriesCmd
        \/ \E id \in EntryIds, group \in GroupIds :
             \/ DeleteEntryCmd(id, group)
             \/ \E persistent \in BOOLEAN : ExecuteEntryCmd(id, group, persistent))
  BY <1>0, HandlersFreePending
<1>7. ~Wakeup /\ ~Tick /\ ~Restart /\ \A t \in JumpTargets : ~SetTime(t)
  BY <1>0, <1>5 DEF Wakeup, PausedCycle, BeginCycle, Tick, Restart, SetTime
<1>8. /\ ~PauseTimelineProcessingCmd /\ ~ResumeTimelineProcessingCmd
      /\ ~QueryCmd /\ ~ResetCountersCmd /\ ~ResetTimelineHkCmd /\ ~RejectedLength
      /\ ~PlumbPurgeTimelineCmd
      /\ \A group \in GroupIds :
           /\ ~DeleteGroupCmd(group)
           /\ \A persistent \in BOOLEAN : ~ExecuteGroupCmd(group, persistent)
  BY <1>0, <1>5 DEF PauseTimelineProcessingCmd, ResumeTimelineProcessingCmd, QueryCmd,
     ResetCountersCmd, ResetTimelineHkCmd, RejectedLength, PlumbPurgeTimelineCmd,
     DeleteGroupCmd, ExecuteGroupCmd, BeginGroupCmd, timeline
<1>9. \E r \in Requests : InsertCmdEntryCmd(r) \/ PlumbEntryFinalizeCmd(r)
  BY <1>4, <1>6, <1>7, <1>8 DEF Next, GroundCommand, EntryCommand
<1> QED
  BY <1>2, <1>3, <1>9

(***************************************************************************)
(* An entry is accepted late only where the 32-bit sum of the present and  *)
(* a relative TimeTag wraps (AddEntry and PlumbEntryFinalize compare an    *)
(* absolute TimeTag with the present, and a relative one not at all).      *)
(***************************************************************************)
THEOREM EntriesAreAcceptedInTime == Spec => AcceptedInTime
<1>1. ASSUME IInv, Next, NEW s \in Slots,
             Entries[s].Status # "PENDING", Entries'[s].Status = "PENDING",
             Entries'[s].TimeTag < clock
      PROVE  \E r \in Requests :
               /\ r.TimeTagType = "RELATIVE"
               /\ <<r.EntryId, r.GroupId>> = <<Entries'[s].EntryId, Entries'[s].GroupId>>
               /\ Entries'[s].TimeTag = clock + r.TimeTag - TimeMod
  <2>1. PICK r \in Requests :
          /\ r.TimeTagType \in TagTypes
          /\ ~InPast(r)
          /\ Entries'[s].TimeTag = AbsTimeTag(r)
          /\ Entries'[s].EntryId = r.EntryId
          /\ Entries'[s].GroupId = r.GroupId
    BY <1>1, CommitsOnly
  <2>2. clock \in Times /\ r.TimeTag \in Times /\ TimeMod \in Nat \ {0}
    BY <1>1, ConstantsAssumption DEF IInv, RestInv, RequestType
  <2>3. r.TimeTagType = "RELATIVE"
    BY <1>1, <2>1, <2>2 DEF TagTypes, InPast, AbsTimeTag
  <2>4. (clock + r.TimeTag) % TimeMod < clock
    BY <1>1, <2>1, <2>3 DEF AbsTimeTag
  <2>5. (clock + r.TimeTag) % TimeMod = clock + r.TimeTag - TimeMod
    <3> DEFINE n == clock + r.TimeTag
    <3>1. /\ n \in Int /\ 0 <= n /\ n < 2 * TimeMod /\ n >= clock
          /\ clock \in Int /\ TimeMod \in Int
      BY <2>2 DEF Times
    <3> HIDE DEF n
    <3>2. n % TimeMod = IF n < TimeMod THEN n ELSE n - TimeMod
      BY <2>2, <3>1, ModOnce
    <3>3. n % TimeMod < clock
      BY <2>4 DEF n
    <3>4. n % TimeMod = n - TimeMod
      BY <3>1, <3>2, <3>3
    <3>5. n - TimeMod = clock + r.TimeTag - TimeMod
      BY <2>2 DEF n, Times
    <3> QED
      BY <3>4, <3>5, Zenon DEF n
  <2> QED
    BY <2>1, <2>3, <2>5 DEF AbsTimeTag
<1>2. IInv /\ [Next]_vars =>
        [\A s \in Slots :
           /\ Entries[s].Status # "PENDING"
           /\ Entries'[s].Status = "PENDING"
           /\ Entries'[s].TimeTag < clock
           => \E r \in Requests :
                /\ r.TimeTagType = "RELATIVE"
                /\ <<r.EntryId, r.GroupId>> = <<Entries'[s].EntryId, Entries'[s].GroupId>>
                /\ Entries'[s].TimeTag = clock + r.TimeTag - TimeMod]_vars
  BY <1>1
<1> QED
  BY <1>2, Invariance, PTL DEF Spec, AcceptedInTime

(***************************************************************************)
(* A telemetry counter that is incremented changes if it has more than one *)
(* value at all.                                                           *)
(***************************************************************************)
LEMMA IncrChanges ==
  ASSUME CounterMod # 1, NEW n \in Counters
  PROVE  Incr(n, 1) # n
<1>1. CounterMod \in Nat /\ CounterMod > 1 /\ n \in Int /\ 0 <= n /\ n < CounterMod
  BY ConstantsAssumption DEF Counters
<1>2. CASE n + 1 < CounterMod
  BY <1>1, <1>2 DEF Incr
<1>3. CASE n + 1 = CounterMod
  <2>1. CounterMod % CounterMod = 0
    BY <1>1
  <2> QED
    BY <1>1, <1>3, <2>1 DEF Incr
<1> QED
  BY <1>1, <1>2, <1>3

(***************************************************************************)
(* A handler that counts an error has changed nothing else: each error     *)
(* return of ttc_timeline.c comes before the first assignment, or AddEntry *)
(* has undone its reservation.                                             *)
(***************************************************************************)
THEOREM FailuresChangeNothing == Spec => FailedCommandChangesNothing
<1> DEFINE Counted == /\ App'.ErrCounter = Incr(App.ErrCounter, 1)
                      /\ App' # [CmdCounter |-> 0, ErrCounter |-> 0]
<1> DEFINE Nothing == /\ UNCHANGED <<Entries, SortedIndex, Count, Paused, PreviousTime, Hk>>
                      /\ sent' = NoEntry
<1>1. ASSUME IInv, IInv', Next, Counted PROVE Nothing
  <2>0. App.ErrCounter \in Counters /\ TimelineInv
    BY <1>1 DEF IInv, RestInv
  <2>1. CounterMod # 1
    <3>1. /\ App' \in [CmdCounter : Counters, ErrCounter : Counters]
          /\ CounterMod = 1 => Counters = {0}
      BY <1>1, ConstantsAssumption DEF IInv, RestInv, Counters
    <3> QED
      BY <1>1, <3>1
  <2>2. App'.ErrCounter # App.ErrCounter
    BY <1>1, <2>0, <2>1, IncrChanges
  <2>3. ~CountCommand("CFE_SUCCESS")
    BY <2>2 DEF CountCommand
  <2>4. ~(GroupPass \/ DeleteGroupStep \/ ExecuteGroupStep \/ Wakeup \/ CycleStep \/ Tick
          \/ Restart \/ \E t \in JumpTargets : SetTime(t))
    BY <1>1, <2>2 DEF GroupPass, DeleteGroupStep, ExecuteGroupStep, Wakeup, PausedCycle,
       BeginCycle, CycleStep, ExecuteDue, SkipLate, AbortLate, EndCycle, KeepInCycle,
       Tick, Restart, SetTime
  <2>5. CASE EndGroupCmd
    BY <2>5 DEF EndGroupCmd, KeepCycle
  <2>6. ASSUME NEW r \in Requests, InsertCmdEntryCmd(r) PROVE Nothing
    <3>1. AddStatus(r) # "CFE_SUCCESS"
      BY <2>3, <2>6 DEF InsertCmdEntryCmd
    <3>2. UNCHANGED timeline
      BY <1>1, <2>6, <3>1, InsertEffect
    <3> QED
      BY <2>6, <3>2 DEF InsertCmdEntryCmd, KeepCycle, timeline
  <2>7. ASSUME NEW r \in Requests, PlumbEntryFinalizeCmd(r) PROVE Nothing
    BY <2>3, <2>7 DEF PlumbEntryFinalizeCmd, KeepCycle, timeline
  <2>8. ASSUME NEW id \in EntryIds, NEW group \in GroupIds, EntryCommand(id, group)
        PROVE  Nothing
    <3>1. CASE DeleteEntryCmd(id, group)
      BY <2>3, <3>1 DEF DeleteEntryCmd, KeepCycle, timeline
    <3>2. ASSUME NEW persistent \in BOOLEAN, ExecuteEntryCmd(id, group, persistent)
          PROVE  Nothing
      BY <2>3, <3>2 DEF ExecuteEntryCmd
    <3>3. CASE PlumbEntryInitCmd(id, group)
      BY <2>3, <3>3 DEF PlumbEntryInitCmd, KeepCycle
    <3>4. ASSUME NEW chunk \in Chunks, PlumbEntryWriteCmd(id, group, chunk)
          PROVE  Nothing
      BY <2>3, <3>4 DEF PlumbEntryWriteCmd, KeepCycle
    <3>5. CASE PlumbDeleteReservedEntryCmd(id, group)
      BY <2>3, <3>5 DEF PlumbDeleteReservedEntryCmd, KeepCycle, timeline
    <3> QED
      BY <2>8, <3>1, <3>2, <3>3, <3>4, <3>5 DEF EntryCommand
  <2>9. ASSUME NEW group \in GroupIds
        PROVE  /\ ~DeleteGroupCmd(group)
               /\ \A persistent \in BOOLEAN : ~ExecuteGroupCmd(group, persistent)
    <3>1. App \in [CmdCounter : Counters, ErrCounter : Counters]
      BY <1>1 DEF IInv, RestInv
    <3> QED
      BY <2>2, <3>1 DEF DeleteGroupCmd, ExecuteGroupCmd, BeginGroupCmd
  <2>10. /\ ~DeleteAllEntriesCmd /\ ~PauseTimelineProcessingCmd
         /\ ~ResumeTimelineProcessingCmd /\ ~QueryCmd /\ ~ResetCountersCmd
         /\ ~ResetTimelineHkCmd /\ ~PlumbPurgeTimelineCmd
    BY <1>1, <2>3 DEF DeleteAllEntriesCmd, PauseTimelineProcessingCmd,
       ResumeTimelineProcessingCmd, QueryCmd, ResetCountersCmd, ResetTimelineHkCmd,
       PlumbPurgeTimelineCmd
  <2>11. CASE RejectedLength
    BY <2>11 DEF RejectedLength, KeepCycle, timeline
  <2> HIDE DEF Nothing
  <2> QED
    BY <1>1, <2>4, <2>5, <2>6, <2>7, <2>8, <2>9, <2>10, <2>11
       DEF Next, GroundCommand, GroupStep
<1>2. IInv /\ IInv' /\ [Next]_vars => [Counted => Nothing]_vars
  BY <1>1
<1> QED
  BY <1>2, Invariance, PTL DEF Spec, FailedCommandChangesNothing

(***************************************************************************)
(* In a cycle, the counters add up to the entries it has removed so far,   *)
(* up to the width of the counters.                                        *)
(***************************************************************************)
CountedInv ==
  handler.at = "cycle" =>
     Handled(Cycle) % CounterMod = (handler.entries - Count) % CounterMod

\* One of the three counters of the cycle goes up by n.
CountsUp(n) ==
  \/ Cycle' = [Cycle EXCEPT !.Executed = Incr(@, n)]
  \/ \E e \in Counters : Cycle' = [Cycle EXCEPT !.Skipped = Incr(@, n),
                                                !.ProcessingErrors = e]
  \/ Cycle' = [Cycle EXCEPT !.Aborted = Incr(@, n)]

(***************************************************************************)
(* A step that counts n entries and removes n.                             *)
(***************************************************************************)
LEMMA CountingKeepsCountedInv ==
  ASSUME IInv, CountedInv, handler.at = "cycle", UNCHANGED handler,
         NEW n \in Nat, Count' = Count - n, CountsUp(n)
  PROVE  CountedInv'
<1> DEFINE M == CounterMod
<1> DEFINE a == Cycle.Executed
<1> DEFINE b == Cycle.Skipped
<1> DEFINE c == Cycle.Aborted
<1> DEFINE d == handler.entries - Count
<1>1. /\ Count \in Int /\ handler.entries \in Int /\ M \in Nat \ {0}
      /\ a \in Int /\ b \in Int /\ c \in Int /\ n \in Int
  BY ConstantsAssumption DEF IInv, RestInv, HandlerType, Counters, TimelineInv, TimelineType
<1>2. (a + b + c) % M = d % M
  BY DEF CountedInv, Handled
<1>3. d \in Int /\ d + n = handler'.entries - Count'
  BY <1>1
<1>4. PICK p \in Int, k \in Int : /\ p + k = a + b + c
                                 /\ Handled(Cycle') = ((p + n) % M) + k
  <2>1. Cycle \in [Executed : Counters, Skipped : Counters, Aborted : Counters,
                   ProcessingErrors : Counters, Forward : BOOLEAN, Backward : BOOLEAN]
    BY DEF IInv, RestInv
  <2>2. \/ Cycle'.Executed = Incr(a, n) /\ Cycle'.Skipped = b /\ Cycle'.Aborted = c
        \/ Cycle'.Executed = a /\ Cycle'.Skipped = Incr(b, n) /\ Cycle'.Aborted = c
        \/ Cycle'.Executed = a /\ Cycle'.Skipped = b /\ Cycle'.Aborted = Incr(c, n)
    BY <2>1 DEF CountsUp
  <2> HIDE DEF a, b, c
  <2>3. \A x \in Int : Incr(x, n) = (x + n) % M /\ Incr(x, n) \in Int
    BY <1>1 DEF Incr
  <2>4. CASE Cycle'.Executed = Incr(a, n) /\ Cycle'.Skipped = b /\ Cycle'.Aborted = c
    <3>1. a + (b + c) = a + b + c /\ Handled(Cycle') = Incr(a, n) + (b + c)
      BY <1>1, <2>3, <2>4 DEF Handled
    <3>2. a \in Int /\ b + c \in Int /\ Incr(a, n) = (a + n) % M
      BY <1>1, <2>3
    <3> QED
      BY <3>1, <3>2, Zenon
  <2>5. CASE Cycle'.Executed = a /\ Cycle'.Skipped = Incr(b, n) /\ Cycle'.Aborted = c
    <3>1. b + (a + c) = a + b + c /\ Handled(Cycle') = Incr(b, n) + (a + c)
      BY <1>1, <2>3, <2>5 DEF Handled
    <3>2. b \in Int /\ a + c \in Int /\ Incr(b, n) = (b + n) % M
      BY <1>1, <2>3
    <3> QED
      BY <3>1, <3>2, Zenon
  <2>6. CASE Cycle'.Executed = a /\ Cycle'.Skipped = b /\ Cycle'.Aborted = Incr(c, n)
    <3>1. c + (a + b) = a + b + c /\ Handled(Cycle') = Incr(c, n) + (a + b)
      BY <1>1, <2>3, <2>6 DEF Handled
    <3>2. c \in Int /\ a + b \in Int /\ Incr(c, n) = (c + n) % M
      BY <1>1, <2>3
    <3> QED
      BY <3>1, <3>2, Zenon
  <2> QED
    BY <2>2, <2>4, <2>5, <2>6
<1>5. M \in Nat \ {0} /\ n \in Int /\ d \in Int /\ (p + k) % M = d % M
  BY <1>1, <1>2, <1>3, <1>4
<1> HIDE DEF M, a, b, c, d
<1>6. (((p + n) % M) + k) % M = (d + n) % M
  BY <1>5, ModCount
<1>7. Handled(Cycle') % M = (d + n) % M
  BY <1>4, <1>6, Zenon
<1> QED
  BY <1>3, <1>7, Zenon DEF CountedInv, M, Handled

(***************************************************************************)
(* Every step keeps CountedInv.                                            *)
(***************************************************************************)
LEMMA NextKeepsCountedInv == IInv /\ CountedInv /\ [Next]_vars => CountedInv'
<1> SUFFICES ASSUME IInv, CountedInv, [Next]_vars PROVE CountedInv'
  OBVIOUS
<1>0. TimelineInv /\ RestInv /\ Count \in Nat /\ Cycle.ProcessingErrors = 0
  BY DEF IInv, TimelineInv, TimelineType, RestInv, NoProcessingErrors
<1>1. ASSUME handler'.at # "cycle" PROVE CountedInv'
  BY <1>1 DEF CountedInv
<1>2. ASSUME UNCHANGED <<Count, Cycle, handler>> PROVE CountedInv'
  BY <1>2 DEF CountedInv, Handled
<1>3. Count > 0 => NextSlot \in Slots /\ InIndex(NextSlot)
                   /\ Entries[NextSlot].Status = "PENDING"
  BY <1>0, NextSlotIsEarliest
<1>4. ASSUME ExecuteDue PROVE CountedInv'
  <2>1. /\ handler.at = "cycle" /\ UNCHANGED handler /\ InIndex(NextSlot)
        /\ DeleteSlot(NextSlot) /\ Cycle' = [Cycle EXCEPT !.Executed = Incr(@, 1)]
    BY <1>3, <1>4 DEF ExecuteDue, Due, ExecuteEntry, KeepInCycle
  <2>2. Count' = Count - 1
    BY <2>1 DEF DeleteSlot
  <2> QED
    BY <2>1, <2>2, CountingKeepsCountedInv DEF CountsUp
<1>5. ASSUME SkipLate PROVE CountedInv'
  <2>1. /\ handler.at = "cycle" /\ UNCHANGED handler /\ InIndex(NextSlot)
        /\ DeleteSlot(NextSlot)
    BY <1>3, <1>5 DEF SkipLate, Due, KeepInCycle
  <2>2. Count' = Count - 1
    BY <2>1 DEF DeleteSlot
  <2>3. \E e \in Counters : Cycle' = [Cycle EXCEPT !.Skipped = Incr(@, 1),
                                                   !.ProcessingErrors = e]
    <3>1. Incr(Cycle.ProcessingErrors,
               IF Entries[NextSlot].ExecutionType = "SKIP_LATE" THEN 0 ELSE 1) \in Counters
      BY <1>0, IncrType
    <3> QED
      BY <1>5, <3>1, Zenon DEF SkipLate
  <2> QED
    BY <2>1, <2>2, <2>3, CountingKeepsCountedInv DEF CountsUp
<1>6. ASSUME AbortLate PROVE CountedInv'
  <2>1. /\ handler.at = "cycle" /\ UNCHANGED handler /\ Count' = 0
        /\ Cycle' = [Cycle EXCEPT !.Aborted = Incr(@, Count)]
    BY <1>6 DEF AbortLate, Due, KeepInCycle, ClearPending
  <2>2. Count' = Count - Count
    BY <1>0, <2>1
  <2> QED
    BY <1>0, <2>1, <2>2, CountingKeepsCountedInv DEF CountsUp
<1>7. ASSUME BeginCycle PROVE CountedInv'
  <2>1. /\ handler' = [Idle EXCEPT !.at = "cycle", !.now = clock, !.entries = Count]
        /\ Count' = Count /\ Cycle' = StartedCycle
    BY <1>7 DEF BeginCycle
  <2>2. handler'.entries = Count
    BY <2>1, NeutralTypes DEF HandlerType
  <2>3. Handled(Cycle') = 0
    <3>1. Cycle'.Executed = 0 /\ Cycle'.Skipped = 0 /\ Cycle'.Aborted = 0
      BY <2>1 DEF StartedCycle, ZeroCycle
    <3> QED
      BY <3>1 DEF Handled
  <2>4. handler'.entries - Count' = 0
    BY <1>0, <2>1, <2>2
  <2> QED
    BY <2>3, <2>4 DEF CountedInv, Handled
<1>8. ASSUME handler.at # "cycle", Next, ~BeginCycle PROVE CountedInv'
  <2>1. CASE GroundCommand
    <3>1. \/ handler' = Idle
          \/ \E what \in {"delete", "execute"}, group \in GroupIds, persistent \in BOOLEAN :
               handler' = [Idle EXCEPT !.at = what, !.i = Count - 1,
                                       !.entries = Cardinality(GroupMembers(group)),
                                       !.group = group, !.persistent = persistent]
      BY <2>1 DEF GroundCommand, EntryCommand, InsertCmdEntryCmd, PlumbEntryFinalizeCmd,
         DeleteEntryCmd, ExecuteEntryCmd, PlumbEntryInitCmd, PlumbEntryWriteCmd,
         PlumbDeleteReservedEntryCmd, DeleteGroupCmd, ExecuteGroupCmd, BeginGroupCmd,
         DeleteAllEntriesCmd, PauseTimelineProcessingCmd, ResumeTimelineProcessingCmd,
         QueryCmd, ResetCountersCmd, ResetTimelineHkCmd, RejectedLength,
         PlumbPurgeTimelineCmd, Command
    <3>2. handler'.at # "cycle"
      BY <3>1, NeutralTypes DEF HandlerType
    <3> QED
      BY <1>1, <3>2
  <2>2. CASE GroupStep
    <3>1. handler'.at = handler.at \/ handler' = Idle
      BY <1>0, <2>2 DEF GroupStep, GroupPass, DeleteGroupStep, ExecuteGroupStep,
         EndGroupCmd, RestInv, HandlerType
    <3> QED
      BY <1>1, <1>8, <3>1, NeutralTypes
  <2>3. CASE PausedCycle
    BY <1>1, <1>8, <2>3 DEF PausedCycle
  <2>4. CASE Restart
    BY <1>1, <2>4, NeutralTypes DEF Restart
  <2>5. ~CycleStep
    BY <1>8 DEF CycleStep, ExecuteDue, SkipLate, AbortLate, EndCycle, Due
  <2>6. CASE Tick \/ \E t \in JumpTargets : SetTime(t)
    BY <1>2, <2>6 DEF Tick, SetTime
  <2> QED
    BY <1>8, <2>1, <2>2, <2>3, <2>4, <2>5, <2>6 DEF Next, Wakeup
<1>9. ASSUME handler.at = "cycle", Next PROVE CountedInv'
  <2>1. CASE Restart \/ EndCycle
    BY <1>1, <2>1, NeutralTypes DEF Restart, EndCycle
  <2>2. ~GroupStep
    BY <1>9 DEF GroupStep, GroupPass, DeleteGroupStep, ExecuteGroupStep, EndGroupCmd
  <2> QED
    BY <1>2, <1>4, <1>5, <1>6, <1>9, <2>1, <2>2, StepsWhileBusy DEF CycleStep
<1> QED
  BY <1>2, <1>7, <1>8, <1>9 DEF vars

(***************************************************************************)
(* UpdateTimelineHousekeeping adds exactly the entries that the cycle      *)
(* removed, although each counter wraps at its own width.                  *)
(***************************************************************************)
THEOREM CyclesAreAccounted == Spec => CycleAccounting
<1>1. Init => CountedInv
  BY NeutralTypes DEF Init, CountedInv
<1>2. ASSUME IInv, CountedInv, EndCycle
      PROVE  (Handled(Hk) + handler.entries - Count) % CounterMod
               = Handled(Hk') % CounterMod
  <2> DEFINE M == CounterMod
  <2>1. /\ M \in Nat \ {0} /\ handler.entries \in Int /\ Count \in Int
        /\ Hk.Executed \in Int /\ Hk.Skipped \in Int /\ Hk.Aborted \in Int
        /\ Cycle.Executed \in Int /\ Cycle.Skipped \in Int /\ Cycle.Aborted \in Int
    BY <1>2, ConstantsAssumption
       DEF IInv, RestInv, HandlerType, Counters, TimelineInv, TimelineType
  <2>2. Count > 0 => NextSlot \in Slots
    BY <1>2, NextSlotIsEarliest DEF IInv
  <2>3. Hk' = UpdatedHk(Cycle) /\ handler.at = "cycle"
    BY <1>2, <2>2 DEF EndCycle
  <2> DEFINE a == Hk.Executed + Cycle.Executed
  <2> DEFINE b == Hk.Skipped + Cycle.Skipped
  <2> DEFINE c == Hk.Aborted + Cycle.Aborted
  <2>4. Handled(Hk') = (a % M) + (b % M) + (c % M)
    BY <2>3 DEF UpdatedHk, Handled, Incr
  <2>5. M \in Nat \ {0} /\ a \in Int /\ b \in Int /\ c \in Int
    BY <2>1
  <2>6. /\ a + b + c = Handled(Cycle) + Handled(Hk)
        /\ Handled(Cycle) \in Int /\ Handled(Hk) \in Int
    BY <2>1 DEF Handled
  <2> HIDE DEF a, b, c, M
  <2>7. ((a % M) + (b % M) + (c % M)) % M = (a + b + c) % M
    BY <2>5, ModSumOfThree, Zenon
  <2>8. Handled(Hk') % M = (a + b + c) % M
    BY <2>4, <2>7, Zenon
  <2>9. (Handled(Cycle) + Handled(Hk)) % M = ((handler.entries - Count) + Handled(Hk)) % M
    <3>1. Handled(Cycle) % M = (handler.entries - Count) % M
      BY <1>2, <2>3 DEF CountedInv, M
    <3>2. /\ M \in Nat \ {0} /\ handler.entries - Count \in Int
          /\ Handled(Cycle) \in Int /\ Handled(Hk) \in Int
      BY <2>1, <2>6
    <3> QED
      BY <3>1, <3>2, ModCongruent, Zenon
  <2>10. Handled(Hk) + handler.entries - Count = (handler.entries - Count) + Handled(Hk)
    BY <2>1, <2>6
  <2> QED
    BY <2>6, <2>8, <2>9, <2>10 DEF M
<1>3. IInv /\ CountedInv =>
        [EndCycle => (Handled(Hk) + handler.entries - Count) % CounterMod
                        = Handled(Hk') % CounterMod]_vars
  BY <1>2
<1> QED
  BY <1>1, <1>3, NextKeepsCountedInv, Invariance, PTL DEF Spec, CycleAccounting

------------------------------------------------------------------------------
(***************************************************************************)
(* The refinement.  What the abstract queue sees of a step is one of four  *)
(* things: nothing, an entry accepted, an entry gone, all entries gone.    *)
(***************************************************************************)
Same ==
  /\ Pending' = Pending
  /\ \A s \in Pending : Entries'[s] = Entries[s]
  /\ UNCHANGED <<SortedIndex, Count>>

Commits(slot) ==
  /\ slot \in Slots \ Pending
  /\ \E e \in EntryType : /\ e.Status = "PENDING"
                          /\ Entries' = [Entries EXCEPT ![slot] = e]
                          /\ InsertSlotToSortedIndex(e.TimeTag, slot)

Removes(slot) == slot \in Pending /\ DeleteSlot(slot)

Clears == Pending' = {} /\ Count' = 0

(***************************************************************************)
(* The index lists entries with equal TimeTags in the order of their       *)
(* acceptance, the first one nearest to the end it is served from.         *)
(***************************************************************************)
FifoInv ==
  \A i, j \in 0 .. Count - 1 :
     /\ i < j
     /\ Entries[SortedIndex[i]].TimeTag = Entries[SortedIndex[j]].TimeTag
     => <<SortedIndex[j], SortedIndex[i]>> \in arrival

OrderInv == arrival \subseteq Pending \X Pending /\ FifoInv

(***************************************************************************)
(* The listed slots are the PENDING ones.                                  *)
(***************************************************************************)
LEMMA ListedIsPending ==
  ASSUME TimelineInv
  PROVE  /\ Count \in Nat
         /\ \A i \in 0 .. Count - 1 : SortedIndex[i] \in Pending
         /\ \A s \in Pending : s \in Slots /\ \E i \in 0 .. Count - 1 : SortedIndex[i] = s
         /\ \A s \in Slots : Entries[s].TimeTag \in Int
BY ConstantsAssumption DEF TimelineInv, TimelineType, IndexInv, IndexExact, InIndex, Pending,
   EntryType, Times

(***************************************************************************)
(* A step that the queue does not see.                                     *)
(***************************************************************************)
LEMMA SameStep ==
  ASSUME TimelineInv, OrderInv, Same, arrival' = Recorded
  PROVE  OrderInv' /\ Accepted' = Accepted /\ arrival' = arrival
<1>1. arrival' = arrival
  BY DEF Recorded, Same, OrderInv
<1>2. Accepted' = Accepted
  BY DEF Accepted, Same
<1>3. FifoInv'
  BY <1>1, ListedIsPending DEF FifoInv, OrderInv, Same
<1> QED
  BY <1>1, <1>2, <1>3 DEF OrderInv, Same

(***************************************************************************)
(* An entry is accepted: FindSortedIndex puts it before the listed entries *)
(* that are not later, so before those with the same TimeTag.              *)
(***************************************************************************)
LEMMA CommitStep ==
  ASSUME TimelineInv, OrderInv, NEW slot, Commits(slot), arrival' = Recorded
  PROVE  /\ OrderInv'
         /\ slot \in DOMAIN Accepted' \ DOMAIN Accepted
         /\ DOMAIN Accepted' = DOMAIN Accepted \cup {slot}
         /\ \A g \in DOMAIN Accepted : Accepted'[g] = Accepted[g]
         /\ arrival' = arrival \cup ((DOMAIN Accepted) \X {slot})
<1>1. PICK e \in EntryType : /\ e.Status = "PENDING"
                             /\ Entries' = [Entries EXCEPT ![slot] = e]
                             /\ InsertSlotToSortedIndex(e.TimeTag, slot)
  BY DEF Commits
<1>2. slot \in Slots /\ slot \notin Pending
  BY DEF Commits
<1>3. /\ Entries'[slot] = e
      /\ \A s \in Slots \ {slot} : Entries'[s] = Entries[s]
  BY <1>1, <1>2 DEF TimelineInv, TimelineType
<1>4. Pending' = Pending \cup {slot}
  BY <1>1, <1>2, <1>3 DEF Pending
<1>5. DOMAIN Accepted = Pending /\ DOMAIN Accepted' = Pending'
  BY DEF Accepted
<1>6. \A g \in Pending : Accepted'[g] = Accepted[g]
  BY <1>2, <1>3, <1>4 DEF Accepted, Pending
<1>7. Pending' \ Pending = {slot}
  BY <1>2, <1>4
<1>8. arrival' = arrival \cup (Pending \X {slot})
  BY <1>4, <1>7 DEF Recorded, OrderInv
<1>9. arrival' \subseteq Pending' \X Pending'
  BY <1>4, <1>8 DEF OrderInv
<1>10. FifoInv'
  <2> DEFINE k == FindSortedIndex(e.TimeTag)
  <2> DEFINE T(i) == Entries[SortedIndex[i]].TimeTag
  <2>1. e.TimeTag \in Times /\ e.TimeTag \in Int
    BY ConstantsAssumption DEF EntryType, Times
  <2>2. /\ k \in 0 .. Count
        /\ \A i \in 0 .. k - 1 : e.TimeTag < T(i)
        /\ \A i \in k .. Count - 1 : e.TimeTag >= T(i)
    BY <2>1, InsertionPointSplits DEF TimelineInv, IndexInv
  <2>3. /\ SortedIndex' = [j \in 0 .. Count |->
                              IF j < k THEN SortedIndex[j]
                              ELSE IF j = k THEN slot ELSE SortedIndex[j - 1]]
        /\ Count' = Count + 1
    BY <1>1 DEF InsertSlotToSortedIndex
  <2> HIDE DEF k
  <2>4. /\ Count \in Nat
        /\ \A i \in 0 .. Count - 1 : /\ SortedIndex[i] \in Pending
                                     /\ SortedIndex[i] \in Slots \ {slot}
                                     /\ T(i) \in Int
                                     /\ Entries'[SortedIndex[i]].TimeTag = T(i)
    BY <1>2, <1>3, ListedIsPending
  <2>5. 0 .. Count' - 1 = 0 .. Count
    BY <2>3, <2>4
  <2>6. /\ \A j \in 0 .. Count : j < k => SortedIndex'[j] = SortedIndex[j] /\ j \in 0 .. Count - 1
        /\ SortedIndex'[k] = slot
        /\ \A j \in 0 .. Count : j > k => /\ SortedIndex'[j] = SortedIndex[j - 1]
                                          /\ j - 1 \in 0 .. Count - 1
    BY <2>2, <2>3, <2>4
  <2>7. \A i, j \in 0 .. Count - 1 : i < j /\ T(i) = T(j) =>
                                       <<SortedIndex[j], SortedIndex[i]>> \in arrival
    BY DEF OrderInv, FifoInv
  <2> SUFFICES ASSUME NEW i \in 0 .. Count, NEW j \in 0 .. Count, i < j,
                      Entries'[SortedIndex'[i]].TimeTag = Entries'[SortedIndex'[j]].TimeTag
               PROVE  <<SortedIndex'[j], SortedIndex'[i]>> \in arrival'
    BY <2>5 DEF FifoInv
  <2> HIDE DEF T
  <2>8. /\ i < k => Entries'[SortedIndex'[i]].TimeTag = T(i)
        /\ i > k => Entries'[SortedIndex'[i]].TimeTag = T(i - 1)
        /\ j < k => Entries'[SortedIndex'[j]].TimeTag = T(j)
        /\ j > k => Entries'[SortedIndex'[j]].TimeTag = T(j - 1)
        /\ Entries'[SortedIndex'[k]].TimeTag = e.TimeTag
    BY <1>3, <2>4, <2>6
  <2>9. CASE j < k
    <3>1. i < k /\ i \in 0 .. Count - 1 /\ j \in 0 .. Count - 1
      BY <2>2, <2>4, <2>9
    <3> QED
      BY <1>8, <2>6, <2>7, <2>8, <2>9, <3>1
  <2>10. CASE j = k
    <3>1. i \in 0 .. k - 1 /\ i < k /\ i \in 0 .. Count - 1
      BY <2>2, <2>4, <2>10
    <3> QED
      BY <2>1, <2>2, <2>4, <2>8, <2>10, <3>1
  <2>11. CASE j > k /\ i < k
    <3>1. i \in 0 .. k - 1 /\ j - 1 \in k .. Count - 1 /\ i \in 0 .. Count - 1
          /\ j - 1 \in 0 .. Count - 1
      BY <2>2, <2>4, <2>11
    <3> QED
      BY <2>1, <2>2, <2>4, <2>8, <2>11, <3>1
  <2>12. CASE j > k /\ i = k
    <3>1. SortedIndex'[j] \in Pending /\ SortedIndex'[i] = slot
      BY <2>4, <2>6, <2>12
    <3> QED
      BY <1>8, <3>1
  <2>13. CASE j > k /\ i > k
    <3>1. i - 1 < j - 1 /\ i - 1 \in 0 .. Count - 1 /\ j - 1 \in 0 .. Count - 1
      BY <2>2, <2>4, <2>13
    <3> QED
      BY <1>8, <2>6, <2>7, <2>8, <2>13, <3>1
  <2> QED
    BY <2>2, <2>4, <2>9, <2>10, <2>11, <2>12, <2>13
<1> QED
  BY <1>2, <1>4, <1>5, <1>6, <1>8, <1>9, <1>10 DEF OrderInv

(***************************************************************************)
(* An entry is gone: DeleteSlot keeps the order of the others.             *)
(***************************************************************************)
LEMMA RemoveStep ==
  ASSUME TimelineInv, OrderInv, NEW slot, Removes(slot), arrival' = Recorded
  PROVE  LET H == DOMAIN Accepted \ {slot}
         IN /\ OrderInv'
            /\ slot \in DOMAIN Accepted
            /\ Accepted' = [h \in H |-> Accepted[h]]
            /\ arrival' = arrival \cap (H \X H)
<1> DEFINE H == DOMAIN Accepted \ {slot}
<1>1. slot \in Pending /\ slot \in Slots /\ DeleteSlot(slot) /\ InIndex(slot)
  BY ListedIsPending DEF Removes, InIndex
<1> DEFINE p == CHOOSE i \in 0 .. Count - 1 : SortedIndex[i] = slot
<1>2. p \in 0 .. Count - 1 /\ SortedIndex[p] = slot
  BY <1>1 DEF InIndex
<1>3. /\ Entries' = [Entries EXCEPT ![slot] = EmptyEntry]
      /\ SortedIndex' = [j \in 0 .. Count - 2 |->
                           IF j < p THEN SortedIndex[j] ELSE SortedIndex[j + 1]]
      /\ Count' = Count - 1
  BY <1>1 DEF DeleteSlot
<1> HIDE DEF p
<1>4. Entries'[slot] = EmptyEntry /\ \A s \in Slots \ {slot} : Entries'[s] = Entries[s]
  BY <1>1, <1>3 DEF TimelineInv, TimelineType
<1>5. Pending' = Pending \ {slot} /\ DOMAIN Accepted = Pending
  BY <1>4, EmptyEntryType DEF Pending, Accepted
<1>6. Accepted' = [h \in H |-> Accepted[h]]
  BY <1>4, <1>5 DEF Accepted, Pending
<1>7. arrival' = arrival \cap (H \X H)
  BY <1>5 DEF Recorded
<1>8. FifoInv'
  <2>1. Count \in Nat /\ 0 .. Count' - 1 = 0 .. Count - 2
    BY <1>3, ListedIsPending
  <2> DEFINE from(j) == IF j < p THEN j ELSE j + 1
  <2>2. \A j \in 0 .. Count - 2 : /\ SortedIndex'[j] = SortedIndex[from(j)]
                                  /\ from(j) \in 0 .. Count - 1
                                  /\ from(j) # p
    BY <1>2, <1>3, <2>1
  <2>3. \A i, j \in 0 .. Count - 2 : i < j => from(i) < from(j)
    BY <1>2, <2>1
  <2> HIDE DEF from
  <2>4. \A j \in 0 .. Count - 2 : SortedIndex[from(j)] \in H
    BY <1>2, <1>5, <2>2, ListedIsPending DEF TimelineInv, IndexInv, IndexDistinct
  <2>5. \A j \in 0 .. Count - 2 : Entries'[SortedIndex'[j]] = Entries[SortedIndex[from(j)]]
    BY <1>4, <1>5, <2>2, <2>4 DEF Pending
  <2> SUFFICES ASSUME NEW i \in 0 .. Count - 2, NEW j \in 0 .. Count - 2, i < j,
                      Entries'[SortedIndex'[i]].TimeTag = Entries'[SortedIndex'[j]].TimeTag
               PROVE  <<SortedIndex'[j], SortedIndex'[i]>> \in arrival'
    BY <2>1 DEF FifoInv
  <2>6. <<SortedIndex[from(j)], SortedIndex[from(i)]>> \in arrival
    BY <2>2, <2>3, <2>5 DEF OrderInv, FifoInv
  <2> QED
    BY <1>7, <2>2, <2>4, <2>6
<1>9. OrderInv'
  BY <1>5, <1>7, <1>8 DEF OrderInv
<1> QED
  BY <1>1, <1>5, <1>6, <1>7, <1>9

(***************************************************************************)
(* All entries are gone.                                                   *)
(***************************************************************************)
LEMMA ClearStep ==
  ASSUME Clears, arrival' = Recorded
  PROVE  /\ OrderInv'
         /\ Accepted' = [h \in {} |-> Accepted[h]]
         /\ arrival' = arrival \cap ({} \X {})
<1>1. Pending' = {} /\ arrival' = {}
  BY DEF Clears, Recorded
<1>2. Accepted' = [h \in {} |-> Accepted[h]]
  BY <1>1 DEF Accepted
<1>3. FifoInv'
  BY DEF Clears, FifoInv
<1> QED
  BY <1>1, <1>2, <1>3 DEF OrderInv

(***************************************************************************)
(* The four ways, as steps of the queue.                                   *)
(***************************************************************************)
LEMMA QueueSteps ==
  ASSUME TimelineInv, OrderInv, arrival' = Recorded, CycleTime' = CycleTime
  PROVE  /\ Same /\ sent' = NoEntry => OrderInv' /\ Queue!Next
         /\ CycleTime = -1 =>
              /\ \A slot : Commits(slot) /\ sent' = NoEntry => OrderInv' /\ Queue!Next
              /\ \A slot : Removes(slot) /\ sent' = NoEntry => OrderInv' /\ Queue!Next
              /\ Clears /\ sent' = NoEntry => OrderInv' /\ Queue!Next
              /\ \A slot : /\ Removes(slot) \/ (slot \in Pending /\ Same)
                           /\ sent' = [by |-> "command", entry |-> Entries[slot]]
                           => OrderInv' /\ Queue!Next
<1>1. sent' = NoEntry => sent'.by = "none"
  BY DEF NoEntry
<1>2. \A s \in Pending : s \in DOMAIN Accepted /\ Accepted[s] = Entries[s]
  BY DEF Accepted
<1>3. ASSUME Same, sent' = NoEntry PROVE OrderInv' /\ Queue!Next
  <2>1. OrderInv' /\ Accepted' = Accepted /\ arrival' = arrival
    BY <1>3, SameStep
  <2>2. Queue!Other
    BY <1>1, <1>3, <2>1 DEF Queue!Other, Queue!Nothing
  <2> QED
    BY <2>1, <2>2 DEF Queue!Next
<1>4. ASSUME CycleTime = -1, NEW slot, Commits(slot), sent' = NoEntry
      PROVE  OrderInv' /\ Queue!Next
  <2>1. /\ OrderInv'
        /\ slot \in DOMAIN Accepted' \ DOMAIN Accepted
        /\ DOMAIN Accepted' = DOMAIN Accepted \cup {slot}
        /\ \A g \in DOMAIN Accepted : Accepted'[g] = Accepted[g]
        /\ arrival' = arrival \cup ((DOMAIN Accepted) \X {slot})
    BY <1>4, CommitStep
  <2>2. Queue!Accept
    BY <1>1, <1>4, <2>1 DEF Queue!Accept, Queue!Nothing, Queue!InCycle
  <2> QED
    BY <2>1, <2>2 DEF Queue!Next
<1>5. ASSUME CycleTime = -1, NEW slot, Removes(slot), sent' = NoEntry
      PROVE  OrderInv' /\ Queue!Next
  <2> DEFINE H == DOMAIN Accepted \ {slot}
  <2>1. OrderInv' /\ Queue!KeepOnly(H)
    BY <1>5, RemoveStep DEF Queue!KeepOnly
  <2>2. H \in SUBSET DOMAIN Accepted
    OBVIOUS
  <2> HIDE DEF H
  <2>3. Queue!Withdraw
    BY <1>1, <1>5, <2>1, <2>2 DEF Queue!Withdraw, Queue!Nothing, Queue!InCycle
  <2> QED
    BY <2>1, <2>3 DEF Queue!Next
<1>6. ASSUME CycleTime = -1, Clears, sent' = NoEntry PROVE OrderInv' /\ Queue!Next
  <2>1. OrderInv' /\ Queue!KeepOnly({})
    BY <1>6, ClearStep DEF Queue!KeepOnly
  <2>2. Queue!Withdraw
    BY <1>1, <1>6, <2>1 DEF Queue!Withdraw, Queue!Nothing, Queue!InCycle
  <2> QED
    BY <2>1, <2>2 DEF Queue!Next
<1>7. ASSUME CycleTime = -1, NEW slot,
             Removes(slot) \/ (slot \in Pending /\ Same),
             sent' = [by |-> "command", entry |-> Entries[slot]]
      PROVE  OrderInv' /\ Queue!Next
  <2>1. slot \in DOMAIN Accepted /\ sent' = [by |-> "command", entry |-> Accepted[slot]]
    BY <1>2, <1>7 DEF Removes
  <2>2. OrderInv' /\ ((UNCHANGED <<Accepted, arrival>>) \/ Queue!Remove(slot))
    <3>1. CASE Removes(slot)
      BY <3>1, RemoveStep DEF Queue!Remove, Queue!KeepOnly
    <3>2. CASE Same
      BY <3>2, SameStep
    <3> QED
      BY <1>7, <3>1, <3>2
  <2>3. Queue!SendOnCommand
    BY <1>7, <2>1, <2>2 DEF Queue!SendOnCommand, Queue!InCycle
  <2> QED
    BY <2>2, <2>3 DEF Queue!Next
<1> QED
  BY <1>3, <1>4, <1>5, <1>6, <1>7

(***************************************************************************)
(* Which way a step goes.                                                  *)
(***************************************************************************)
\* A step that leaves the timeline alone changes nothing for the queue.
LEMMA UnchangedIsSame ==
  ASSUME UNCHANGED timeline
  PROVE  Same
BY DEF timeline, Same, Pending

\* Nor does rewriting a slot that is not PENDING before or after: a reservation,
\* a chunk, a cancelled upload.
LEMMA EditIsSame ==
  ASSUME TimelineInv, NEW slot \in Slots, NEW e,
         Entries[slot].Status # "PENDING", e.Status # "PENDING",
         Entries' = [Entries EXCEPT ![slot] = e], UNCHANGED <<SortedIndex, Count>>
  PROVE  Same
<1>1. Entries'[slot] = e /\ \A s \in Slots \ {slot} : Entries'[s] = Entries[s]
  BY DEF TimelineInv, TimelineType
<1>2. Pending' = Pending
  BY <1>1 DEF Pending
<1> QED
  BY <1>1, <1>2 DEF Same, Pending

\* CommitSlot adds one entry.
LEMMA CommitSlotCommits ==
  ASSUME clock \in Times, NEW slot \in Slots, NEW e \in EntryType, NEW r \in Requests,
         Entries[slot].Status # "PENDING", CommitSlot(slot, e, r)
  PROVE  Commits(slot)
<1> DEFINE f == [e EXCEPT !.TimeTag = AbsTimeTag(r),
                          !.StalenessThreshold = r.StalenessThreshold,
                          !.ExecutionType = r.ExecutionType,
                          !.CmdSize = r.CmdSize,
                          !.Status = "PENDING"]
<1>1. /\ r.StalenessThreshold \in Nat /\ r.CmdSize \in Nat /\ AbsTimeTag(r) \in Times
      /\ r.ExecutionType \in ExecTypes \cup {"INVALID"}
  BY RequestTypes
<1>2. f \in EntryType /\ f.TimeTag = AbsTimeTag(r) /\ f.Status = "PENDING"
  BY <1>1 DEF EntryType
<1>3. Entries' = [Entries EXCEPT ![slot] = f] /\ InsertSlotToSortedIndex(f.TimeTag, slot)
  BY <1>2 DEF CommitSlot
<1> HIDE DEF f
<1>4. slot \notin Pending
  BY DEF Pending
<1> QED
  BY <1>2, <1>3, <1>4 DEF Commits

\* Executing an entry sends it, and removes it unless it is to be kept.
LEMMA ExecuteEffect ==
  ASSUME NEW slot \in Slots, Entries[slot].Status = "PENDING", NEW persistent, NEW by,
         ExecuteEntry(slot, persistent, by)
  PROVE  /\ sent' = [by |-> by, entry |-> Entries[slot]]
         /\ persistent => slot \in Pending /\ Same
         /\ ~persistent => Removes(slot)
<1>1. slot \in Pending
  BY DEF Pending
<1>2. /\ sent' = [by |-> by, entry |-> Entries[slot]]
      /\ IF persistent THEN UNCHANGED timeline ELSE DeleteSlot(slot)
  BY DEF ExecuteEntry
<1> QED
  BY <1>1, <1>2, UnchangedIsSame DEF Removes

\* TTC_TimelineInitialize leaves no entry, at a start as after the purge command.
LEMMA ClearTimelineClears ==
  ASSUME ClearTimeline
  PROVE  Clears
BY EmptyEntryType DEF ClearTimeline, Clears, Pending

\* Clearing the PENDING slots leaves no entry either, uploads aside.
LEMMA ClearPendingClears ==
  ASSUME TimelineInv, ClearPending
  PROVE  Clears
<1>1. \A s \in Slots : Entries'[s].Status # "PENDING"
  BY EmptyEntryType DEF ClearPending, TimelineInv, IndexInv, IndexExact
<1> QED
  BY <1>1 DEF ClearPending, Clears, Pending

(***************************************************************************)
(* Ground commands.                                                        *)
(***************************************************************************)
LEMMA CommandsRefine ==
  ASSUME IInv, OrderInv, arrival' = Recorded, GroundCommand
  PROVE  OrderInv' /\ Queue!Next
<1>0. TimelineInv /\ clock \in Times
  BY DEF IInv, RestInv
<1>1. CycleTime = -1 /\ CycleTime' = -1
  <2>1. \/ handler = Idle /\ handler' = Idle
        \/ \E what \in {"delete", "execute"}, group \in GroupIds, persistent \in BOOLEAN :
             BeginGroupCmd(what, group, persistent)
    BY DEF GroundCommand, EntryCommand, InsertCmdEntryCmd, PlumbEntryFinalizeCmd,
       DeleteEntryCmd, ExecuteEntryCmd, PlumbEntryInitCmd, PlumbEntryWriteCmd,
       PlumbDeleteReservedEntryCmd, DeleteGroupCmd, ExecuteGroupCmd,
       DeleteAllEntriesCmd, PauseTimelineProcessingCmd, ResumeTimelineProcessingCmd,
       QueryCmd, ResetCountersCmd, ResetTimelineHkCmd, RejectedLength,
       PlumbPurgeTimelineCmd, Command
  <2>2. CASE handler = Idle /\ handler' = Idle
    BY <2>2, NeutralTypes DEF CycleTime
  <2>3. ASSUME NEW what \in {"delete", "execute"}, NEW group \in GroupIds,
               NEW persistent \in BOOLEAN, BeginGroupCmd(what, group, persistent)
        PROVE  CycleTime = -1 /\ CycleTime' = -1
    <3>1. handler = Idle /\ handler'.at = what
      BY <2>3, NeutralTypes DEF BeginGroupCmd, HandlerType
    <3> QED
      BY <3>1, NeutralTypes DEF CycleTime
  <2> QED
    BY <2>1, <2>2, <2>3
<1>2. ASSUME UNCHANGED timeline, sent' = NoEntry PROVE OrderInv' /\ Queue!Next
  BY <1>0, <1>1, <1>2, UnchangedIsSame, QueueSteps
<1>3. ASSUME NEW slot \in Slots, NEW e \in EntryType, NEW r \in Requests,
             Entries[slot].Status # "PENDING", CommitSlot(slot, e, r), sent' = NoEntry
      PROVE  OrderInv' /\ Queue!Next
  <2>1. Commits(slot)
    BY <1>0, <1>3, CommitSlotCommits
  <2> QED
    BY <1>0, <1>1, <1>3, <2>1, QueueSteps
<1>4. ASSUME NEW slot \in Slots, NEW e, Entries[slot].Status # "PENDING",
             e.Status # "PENDING", Entries' = [Entries EXCEPT ![slot] = e],
             UNCHANGED <<SortedIndex, Count>>, sent' = NoEntry
      PROVE  OrderInv' /\ Queue!Next
  <2>1. Same
    BY <1>0, <1>4, EditIsSame
  <2> QED
    BY <1>0, <1>1, <1>4, <2>1, QueueSteps
<1>5. ASSUME NEW r \in Requests, InsertCmdEntryCmd(r) PROVE OrderInv' /\ Queue!Next
  <2> DEFINE slot == FindEmptySlot
  <2> DEFINE e == AddedEntry(slot, r)
  <2>1. sent' = NoEntry
    BY <1>5 DEF InsertCmdEntryCmd, KeepCycle
  <2>2. CASE UNCHANGED timeline
    BY <1>2, <2>1, <2>2
  <2>3. CASE slot \in Slots /\ Entries[slot] = EmptyEntry /\ CommitSlot(slot, e, r)
    <3> HIDE DEF slot
    <3>1. r.EntryId \in EntryIds /\ r.GroupId \in GroupIds /\ r.MsgSize \in Nat
      BY <1>0, RequestTypes
    <3>2. e \in EntryType /\ Entries[slot].Status # "PENDING"
      BY <2>3, <3>1, EmptyEntryType DEF AddedEntry, WriteToSlot, EntryType
    <3> HIDE DEF e
    <3> QED
      BY <1>3, <2>1, <2>3, <3>2
  <2> QED
    BY <1>5, <2>2, <2>3, InsertEffect
<1>6. ASSUME NEW r \in Requests, PlumbEntryFinalizeCmd(r) PROVE OrderInv' /\ Queue!Next
  <2> DEFINE slot == FindReservedSlot(r.EntryId, r.GroupId)
  <2>1. sent' = NoEntry
    BY <1>6 DEF PlumbEntryFinalizeCmd, KeepCycle
  <2>2. CASE UNCHANGED timeline
    BY <1>2, <2>1, <2>2
  <2>3. CASE FinalizeStatus(r) = "CFE_SUCCESS" /\ CommitSlot(slot, Entries[slot], r)
    <3>1. Found(slot)
      BY <2>3 DEF FinalizeStatus
    <3>2. slot \in Slots /\ Entries[slot].Status = "RESERVED"
      BY <3>1, ReservedSlotFound
    <3> HIDE DEF slot
    <3>3. Entries[slot] \in EntryType
      BY <1>0, <3>2 DEF TimelineInv, TimelineType
    <3> QED
      BY <1>3, <2>1, <2>3, <3>2, <3>3
  <2> QED
    BY <1>6, <2>2, <2>3 DEF PlumbEntryFinalizeCmd
<1>7. ASSUME NEW id \in EntryIds, NEW group \in GroupIds, DeleteEntryCmd(id, group)
      PROVE  OrderInv' /\ Queue!Next
  <2> DEFINE slot == FindSlotByEntryId(id, group)
  <2>1. sent' = NoEntry
    BY <1>7 DEF DeleteEntryCmd, KeepCycle
  <2>2. CASE UNCHANGED timeline
    BY <1>2, <2>1, <2>2
  <2>3. CASE Found(slot) /\ InIndex(slot) /\ DeleteSlot(slot)
    <3>1. slot \in Slots
      BY <2>3, SlotByEntryIdFound
    <3> HIDE DEF slot
    <3>2. Removes(slot)
      BY <1>0, <2>3, <3>1 DEF Removes, Pending, TimelineInv, IndexInv, IndexExact
    <3> QED
      BY <1>0, <1>1, <2>1, <3>2, QueueSteps
  <2> QED
    BY <1>7, <2>2, <2>3 DEF DeleteEntryCmd
<1>8. ASSUME NEW id \in EntryIds, NEW group \in GroupIds, NEW persistent \in BOOLEAN,
             ExecuteEntryCmd(id, group, persistent)
      PROVE  OrderInv' /\ Queue!Next
  <2> DEFINE slot == FindSlotByEntryId(id, group)
  <2>1. CASE UNCHANGED <<Entries, SortedIndex, Count>> /\ sent' = NoEntry
    BY <1>2, <2>1 DEF timeline
  <2>2. CASE /\ Found(slot) /\ Entries[slot].Status = "PENDING"
             /\ ExecuteEntry(slot, persistent, "command")
    <3>1. slot \in Slots
      BY <2>2, SlotByEntryIdFound
    <3> HIDE DEF slot
    <3>2. /\ sent' = [by |-> "command", entry |-> Entries[slot]]
          /\ Removes(slot) \/ (slot \in Pending /\ Same)
      BY <2>2, <3>1, ExecuteEffect
    <3> QED
      BY <1>0, <1>1, <3>2, QueueSteps
  <2> QED
    BY <1>8, <2>1, <2>2 DEF ExecuteEntryCmd
<1>9. ASSUME NEW id \in EntryIds, NEW group \in GroupIds, PlumbEntryInitCmd(id, group)
      PROVE  OrderInv' /\ Queue!Next
  <2> DEFINE slot == FindEmptySlot
  <2> DEFINE e == [EmptyEntry EXCEPT !.EntryId = id, !.GroupId = group,
                                     !.TimeTag = TTC_TIMETAG_MAX,
                                     !.Status = "RESERVED"]
  <2>1. sent' = NoEntry /\ UNCHANGED <<SortedIndex, Count>>
    BY <1>9 DEF PlumbEntryInitCmd, KeepCycle
  <2>2. Entries' = Entries \/ (Found(slot) /\ Entries' = [Entries EXCEPT ![slot] = e])
    BY <1>9 DEF PlumbEntryInitCmd
  <2>3. e.Status # "PENDING"
    BY EmptyEntryType DEF EntryType
  <2>4. Found(slot) => slot \in Slots /\ Entries[slot].Status # "PENDING"
    BY EmptySlotFound
  <2> HIDE DEF slot, e
  <2> QED
    BY <1>2, <1>4, <2>1, <2>2, <2>3, <2>4 DEF timeline
<1>10. ASSUME NEW id \in EntryIds, NEW group \in GroupIds, NEW chunk \in Chunks,
              PlumbEntryWriteCmd(id, group, chunk)
       PROVE  OrderInv' /\ Queue!Next
  <2> DEFINE slot == FindReservedSlot(id, group)
  <2> DEFINE e == WriteToSlot(Entries[slot], chunk)
  <2>1. sent' = NoEntry /\ UNCHANGED <<SortedIndex, Count>>
    BY <1>10 DEF PlumbEntryWriteCmd, KeepCycle
  <2>2. Entries' = Entries \/ (Found(slot) /\ Entries' = [Entries EXCEPT ![slot] = e])
    BY <1>10 DEF PlumbEntryWriteCmd
  <2>3. Found(slot) => slot \in Slots /\ Entries[slot].Status = "RESERVED"
    BY ReservedSlotFound
  <2> HIDE DEF slot
  <2>4. Found(slot) => e.Status # "PENDING"
    BY <1>0, <2>3 DEF WriteToSlot, TimelineInv, TimelineType, EntryType
  <2> HIDE DEF e
  <2> QED
    BY <1>2, <1>4, <2>1, <2>2, <2>3, <2>4 DEF timeline
<1>11. ASSUME NEW id \in EntryIds, NEW group \in GroupIds,
              PlumbDeleteReservedEntryCmd(id, group)
       PROVE  OrderInv' /\ Queue!Next
  <2> DEFINE slot == FindReservedSlot(id, group)
  <2>1. sent' = NoEntry
    BY <1>11 DEF PlumbDeleteReservedEntryCmd, KeepCycle
  <2>2. \/ UNCHANGED timeline
        \/ /\ Found(slot) /\ Entries' = [Entries EXCEPT ![slot] = EmptyEntry]
           /\ UNCHANGED <<SortedIndex, Count>>
    BY <1>11 DEF PlumbDeleteReservedEntryCmd, CancelSlot
  <2>3. Found(slot) => slot \in Slots /\ Entries[slot].Status = "RESERVED"
    BY ReservedSlotFound
  <2> HIDE DEF slot
  <2> QED
    BY <1>2, <1>4, <2>1, <2>2, <2>3, EmptyEntryType
<1>12. ASSUME DeleteAllEntriesCmd \/ PlumbPurgeTimelineCmd PROVE OrderInv' /\ Queue!Next
  <2>1. Clears /\ sent' = NoEntry
    BY <1>0, <1>12, ClearPendingClears, ClearTimelineClears
       DEF DeleteAllEntriesCmd, PlumbPurgeTimelineCmd, KeepCycle
  <2> QED
    BY <1>0, <1>1, <2>1, QueueSteps
<1>13. ASSUME \/ PauseTimelineProcessingCmd \/ ResumeTimelineProcessingCmd
              \/ QueryCmd \/ ResetCountersCmd \/ ResetTimelineHkCmd \/ RejectedLength
              \/ \E group \in GroupIds :
                   \/ DeleteGroupCmd(group)
                   \/ \E persistent \in BOOLEAN : ExecuteGroupCmd(group, persistent)
       PROVE  OrderInv' /\ Queue!Next
  <2>1. UNCHANGED timeline /\ sent' = NoEntry
    BY <1>13 DEF PauseTimelineProcessingCmd, ResumeTimelineProcessingCmd, QueryCmd,
       ResetCountersCmd, ResetTimelineHkCmd, RejectedLength, DeleteGroupCmd,
       ExecuteGroupCmd, BeginGroupCmd, KeepCycle, timeline
  <2> QED
    BY <1>2, <2>1
<1> QED
  BY <1>5, <1>6, <1>7, <1>8, <1>9, <1>10, <1>11, <1>12, <1>13 DEF GroundCommand, EntryCommand

(***************************************************************************)
(* Group loops.                                                            *)
(***************************************************************************)
LEMMA GroupStepsRefine ==
  ASSUME IInv, OrderInv, arrival' = Recorded, GroupStep
  PROVE  OrderInv' /\ Queue!Next
<1>0. TimelineInv /\ handler \in HandlerType
  BY DEF IInv, RestInv
<1>1. CycleTime = -1 /\ CycleTime' = -1
  <2>1. handler.at # "cycle" /\ handler'.at # "cycle"
    BY <1>0, NeutralTypes DEF GroupStep, GroupPass, DeleteGroupStep, ExecuteGroupStep,
       EndGroupCmd, HandlerType
  <2> QED
    BY <2>1 DEF CycleTime
<1>2. CASE GroupPass \/ EndGroupCmd
  <2>1. UNCHANGED timeline /\ sent' = NoEntry
    BY <1>2 DEF GroupPass, EndGroupCmd, KeepCycle, timeline
  <2> QED
    BY <1>0, <1>1, <2>1, UnchangedIsSame, QueueSteps
<1>3. ASSUME handler.at \in {"delete", "execute"}, handler.i >= 0
      PROVE  /\ SortedIndex[handler.i] \in Slots
             /\ SortedIndex[handler.i] \in Pending
             /\ Entries[SortedIndex[handler.i]].Status = "PENDING"
  <2>1. handler.i \in 0 .. Count - 1
    BY <1>0, <1>3, ConstantsAssumption
       DEF IInv, RestInv, LoopInv, HandlerType, TimelineInv, TimelineType
  <2> QED
    BY <1>0, <2>1, ListedIsPending DEF Pending
<1>4. CASE DeleteGroupStep
  <2>1. Removes(SortedIndex[handler.i]) /\ sent' = NoEntry
    BY <1>3, <1>4 DEF DeleteGroupStep, KeepCycle, Removes
  <2> QED
    BY <1>0, <1>1, <2>1, QueueSteps
<1>5. CASE ExecuteGroupStep
  <2> DEFINE slot == SortedIndex[handler.i]
  <2>1. /\ slot \in Slots /\ Entries[slot].Status = "PENDING"
        /\ ExecuteEntry(slot, handler.persistent, "command")
    BY <1>3, <1>5 DEF ExecuteGroupStep
  <2> HIDE DEF slot
  <2>2. /\ sent' = [by |-> "command", entry |-> Entries[slot]]
        /\ Removes(slot) \/ (slot \in Pending /\ Same)
    BY <2>1, ExecuteEffect
  <2> QED
    BY <1>0, <1>1, <2>2, QueueSteps
<1> QED
  BY <1>2, <1>4, <1>5 DEF GroupStep

(***************************************************************************)
(* The cycle: the last listed slot is the one whose turn it is.            *)
(***************************************************************************)
LEMMA CyclesRefine ==
  ASSUME IInv, OrderInv, arrival' = Recorded, Wakeup \/ CycleStep
  PROVE  OrderInv' /\ Queue!Next
<1>0. /\ TimelineInv /\ handler \in HandlerType /\ Count \in Nat
      /\ clock \in Int /\ 0 <= clock /\ handler.now \in Int /\ 0 <= handler.now
  BY ConstantsAssumption, ListedIsPending DEF IInv, RestInv, HandlerType, Times
<1>1. DOMAIN Accepted = Pending /\ \A s \in Pending : Accepted[s] = Entries[s]
  BY DEF Accepted
<1>2. ASSUME PausedCycle PROVE OrderInv' /\ Queue!Next
  <2>1. UNCHANGED timeline /\ sent' = NoEntry /\ CycleTime' = CycleTime
    BY <1>2 DEF PausedCycle, timeline, CycleTime
  <2> QED
    BY <1>0, <2>1, UnchangedIsSame, QueueSteps
<1>3. ASSUME BeginCycle PROVE OrderInv' /\ Queue!Next
  <2>1. UNCHANGED timeline /\ sent'.by = "none"
    BY <1>3 DEF BeginCycle, timeline, NoEntry
  <2>2. OrderInv' /\ Accepted' = Accepted /\ arrival' = arrival
    BY <1>0, <2>1, UnchangedIsSame, SameStep
  <2>3. handler'.at = "cycle" /\ handler'.now = clock /\ handler.at # "cycle"
    BY <1>3, NeutralTypes DEF BeginCycle, HandlerType
  <2>4. CycleTime = -1 /\ CycleTime' = clock
    BY <2>3 DEF CycleTime
  <2>5. Queue!BeginCycle
    BY <1>0, <2>1, <2>2, <2>4 DEF Queue!BeginCycle, Queue!InCycle, Queue!Nothing
  <2> QED
    BY <2>2, <2>5 DEF Queue!Next
<1>4. ASSUME handler.at = "cycle" PROVE CycleTime = handler.now /\ Queue!InCycle
  BY <1>0, <1>4 DEF CycleTime, Queue!InCycle
<1>5. ASSUME Due
      PROVE  /\ NextSlot \in Slots
             /\ NextSlot \in Pending
             /\ Entries[NextSlot].Status = "PENDING"
             /\ Entries[NextSlot].ExecutionType \in ExecTypes
             /\ Queue!Turn(NextSlot)
             /\ Queue!Due(NextSlot)
             /\ Queue!Late(NextSlot) <=> Stale(Entries[NextSlot], handler.now)
  <2>1. Count > 0 /\ handler.at = "cycle" /\ handler.now >= Entries[NextSlot].TimeTag
    BY <1>5 DEF Due
  <2>2. /\ NextSlot \in Slots /\ Entries[NextSlot].Status = "PENDING"
        /\ \A s \in Slots : Entries[s].Status = "PENDING" =>
                              Entries[s].TimeTag >= Entries[NextSlot].TimeTag
    BY <1>0, <2>1, NextSlotIsEarliest
  <2>3. NextSlot \in Pending /\ Entries[NextSlot].ExecutionType \in ExecTypes
    BY <1>0, <2>2 DEF Pending, TimelineInv, SlotsSound
  <2>4. ASSUME NEW g \in Pending
        PROVE  \/ Entries[NextSlot].TimeTag < Entries[g].TimeTag
               \/ /\ Entries[NextSlot].TimeTag = Entries[g].TimeTag
                  /\ g = NextSlot \/ <<NextSlot, g>> \in arrival
    <3>1. /\ Entries[NextSlot].TimeTag \in Int /\ Entries[g].TimeTag \in Int
          /\ Entries[g].TimeTag >= Entries[NextSlot].TimeTag
      BY <1>0, <2>2, ListedIsPending DEF Pending
    <3>2. PICK i \in 0 .. Count - 1 : SortedIndex[i] = g
      BY <1>0, ListedIsPending
    <3>3. CASE i = Count - 1
      BY <3>1, <3>2, <3>3 DEF NextSlot
    <3>4. CASE i < Count - 1
      <4>1. Count - 1 \in 0 .. Count - 1
        BY <1>0, <2>1
      <4>2. Entries[g].TimeTag = Entries[NextSlot].TimeTag => <<NextSlot, g>> \in arrival
        BY <3>2, <3>4, <4>1 DEF OrderInv, FifoInv, NextSlot
      <4> QED
        BY <3>1, <4>2
    <3> QED
      BY <1>0, <3>2, <3>3, <3>4
  <2>5. Queue!Turn(NextSlot)
    BY <1>1, <2>3, <2>4 DEF Queue!Turn
  <2>6. /\ Queue!Due(NextSlot)
        /\ Queue!Late(NextSlot) <=> Stale(Entries[NextSlot], handler.now)
    BY <1>1, <1>4, <2>1, <2>3 DEF Queue!Due, Queue!Late, Stale
  <2> QED
    BY <2>2, <2>3, <2>5, <2>6
<1>6. ASSUME ExecuteDue PROVE OrderInv' /\ Queue!Next
  <2> DEFINE slot == NextSlot
  <2>1. /\ Due /\ ExecuteEntry(slot, FALSE, "cycle") /\ UNCHANGED handler
        /\ Stale(Entries[slot], handler.now) => Entries[slot].ExecutionType = "FORCE"
    BY <1>6 DEF ExecuteDue, KeepInCycle
  <2>2. /\ slot \in Slots /\ slot \in Pending /\ Entries[slot].Status = "PENDING"
        /\ Queue!Turn(slot) /\ Queue!Due(slot)
        /\ Queue!Late(slot) <=> Stale(Entries[slot], handler.now)
    BY <1>5, <2>1
  <2> HIDE DEF slot
  <2>3. sent' = [by |-> "cycle", entry |-> Entries[slot]] /\ Removes(slot)
    BY <2>1, <2>2, ExecuteEffect
  <2>4. OrderInv' /\ Queue!Remove(slot)
    BY <1>0, <2>3, RemoveStep DEF Queue!Remove, Queue!KeepOnly
  <2>5. CycleTime' = CycleTime
    BY <2>1 DEF CycleTime
  <2>6. Queue!SendDue(slot)
    BY <1>1, <2>1, <2>2, <2>3, <2>4, <2>5 DEF Queue!SendDue
  <2> QED
    BY <1>1, <2>2, <2>4, <2>6 DEF Queue!Next
<1>7. ASSUME SkipLate PROVE OrderInv' /\ Queue!Next
  <2> DEFINE slot == NextSlot
  <2>1. /\ Due /\ DeleteSlot(slot) /\ UNCHANGED handler /\ sent'.by = "none"
        /\ Stale(Entries[slot], handler.now)
        /\ Entries[slot].ExecutionType \notin {"FORCE", "ABORT_LATE"}
    BY <1>7 DEF SkipLate, KeepInCycle, NoEntry
  <2>2. /\ slot \in Slots /\ slot \in Pending
        /\ Entries[slot].ExecutionType = "SKIP_LATE"
        /\ Queue!Turn(slot) /\ Queue!Due(slot) /\ Queue!Late(slot)
    BY <1>5, <2>1 DEF ExecTypes
  <2> HIDE DEF slot
  <2>3. Removes(slot)
    BY <2>1, <2>2 DEF Removes
  <2>4. OrderInv' /\ Queue!Remove(slot)
    BY <1>0, <2>3, RemoveStep DEF Queue!Remove, Queue!KeepOnly
  <2>5. CycleTime' = CycleTime
    BY <2>1 DEF CycleTime
  <2>6. Queue!SkipLate(slot)
    BY <1>1, <2>1, <2>2, <2>4, <2>5 DEF Queue!SkipLate, Queue!Nothing
  <2> QED
    BY <1>1, <2>2, <2>4, <2>6 DEF Queue!Next
<1>8. ASSUME AbortLate PROVE OrderInv' /\ Queue!Next
  <2> DEFINE slot == NextSlot
  <2>1. /\ Due /\ ClearPending /\ UNCHANGED handler /\ sent'.by = "none"
        /\ Stale(Entries[slot], handler.now)
        /\ Entries[slot].ExecutionType = "ABORT_LATE"
    BY <1>8 DEF AbortLate, KeepInCycle, NoEntry
  <2>2. /\ slot \in Slots /\ slot \in Pending
        /\ Queue!Turn(slot) /\ Queue!Due(slot) /\ Queue!Late(slot)
    BY <1>5, <2>1
  <2> HIDE DEF slot
  <2>3. Clears
    BY <1>0, <2>1, ClearPendingClears
  <2>4. OrderInv' /\ Queue!KeepOnly({})
    BY <2>3, ClearStep DEF Queue!KeepOnly
  <2>5. CycleTime' = CycleTime
    BY <2>1 DEF CycleTime
  <2>6. Queue!AbortLate(slot)
    BY <1>1, <2>1, <2>2, <2>4, <2>5 DEF Queue!AbortLate, Queue!Nothing
  <2> QED
    BY <1>1, <2>2, <2>4, <2>6 DEF Queue!Next
<1>9. ASSUME EndCycle PROVE OrderInv' /\ Queue!Next
  <2>1. Count > 0 => NextSlot \in Slots
    BY <1>0, NextSlotIsEarliest
  <2>2. /\ handler.at = "cycle" /\ ~Due /\ handler' = Idle /\ sent'.by = "none"
        /\ UNCHANGED timeline
    BY <1>9, <2>1 DEF EndCycle, timeline, NoEntry
  <2>3. OrderInv' /\ Accepted' = Accepted /\ arrival' = arrival
    BY <1>0, <2>2, UnchangedIsSame, SameStep
  <2>4. CycleTime = handler.now /\ Queue!InCycle /\ CycleTime' = -1
    BY <1>4, <2>2, NeutralTypes DEF CycleTime
  <2>5. ASSUME NEW h \in Pending PROVE ~Queue!Due(h)
    <3>1. Count > 0
      BY <1>0, ListedIsPending
    <3>2. /\ NextSlot \in Slots
          /\ Entries[h].TimeTag >= Entries[NextSlot].TimeTag
          /\ Entries[h].TimeTag \in Int /\ Entries[NextSlot].TimeTag \in Int
      BY <1>0, <3>1, NextSlotIsEarliest, ListedIsPending DEF Pending
    <3>3. ~(handler.now >= Entries[NextSlot].TimeTag)
      BY <2>2, <3>1, <3>2 DEF Due
    <3>4. ~(handler.now >= Entries[h].TimeTag)
      BY <1>0, <3>2, <3>3
    <3> QED
      BY <1>1, <2>4, <3>4 DEF Queue!Due
  <2>6. Queue!EndCycle
    BY <1>1, <2>2, <2>3, <2>4, <2>5 DEF Queue!EndCycle, Queue!Nothing
  <2> QED
    BY <2>3, <2>6 DEF Queue!Next
<1> QED
  BY <1>2, <1>3, <1>6, <1>7, <1>8, <1>9 DEF Wakeup, CycleStep

(***************************************************************************)
(* The timeline of ttc_timeline.c, with its slots, its sorted index and    *)
(* its shifts, implements the queue: accepted commands are served by       *)
(* TimeTag and first come first served among equal TimeTags, nothing is    *)
(* sent that was not accepted, and nothing leaves unseen.                  *)
(***************************************************************************)
THEOREM TimelineImplementsQueue == HSpec => QueueRefined
<1>1. HInit => OrderInv /\ Queue!Init
  <2> SUFFICES ASSUME HInit PROVE OrderInv /\ Queue!Init
    OBVIOUS
  <2>1. Pending = {} /\ arrival = {} /\ Count = 0 /\ handler = Idle /\ sent = NoEntry
    BY EmptyEntryType DEF HInit, Init, Pending
  <2>2. OrderInv
    BY <2>1 DEF OrderInv, FifoInv
  <2>3. CycleTime = -1 /\ sent.by = "none" /\ DOMAIN Accepted = {}
    BY <2>1, NeutralTypes DEF CycleTime, NoEntry, Accepted
  <2> QED
    BY <2>1, <2>2, <2>3 DEF Queue!Init
<1>2. IInv /\ OrderInv /\ [HNext]_<<vars, arrival>> =>
        OrderInv' /\ [Queue!Next]_<<Accepted, arrival, CycleTime, sent>>
  <2> SUFFICES ASSUME IInv, OrderInv, [HNext]_<<vars, arrival>>
               PROVE  OrderInv' /\ [Queue!Next]_<<Accepted, arrival, CycleTime, sent>>
    OBVIOUS
  <2>0. TimelineInv
    BY DEF IInv
  <2>1. CASE HNext
    <3>1. arrival' = Recorded /\ Next
      BY <2>1 DEF HNext
    <3>2. CASE Tick \/ \E t \in JumpTargets : SetTime(t)
      <4>1. UNCHANGED timeline /\ sent' = NoEntry /\ CycleTime' = CycleTime
        BY <3>2 DEF Tick, SetTime, timeline, CycleTime
      <4> QED
        BY <2>0, <3>1, <4>1, UnchangedIsSame, QueueSteps
    <3>3. CASE Restart
      <4>1. OrderInv' /\ Queue!KeepOnly({})
        BY <3>1, <3>3, ClearTimelineClears, ClearStep DEF Restart, Queue!KeepOnly
      <4>2. CycleTime' = -1 /\ sent'.by = "none"
        BY <3>3, NeutralTypes DEF Restart, CycleTime, NoEntry
      <4>3. Queue!Restart
        BY <4>1, <4>2 DEF Queue!Restart, Queue!Nothing
      <4> QED
        BY <4>1, <4>3 DEF Queue!Next
    <3> QED
      BY <3>1, <3>2, <3>3, CommandsRefine, GroupStepsRefine, CyclesRefine DEF Next
  <2>2. CASE UNCHANGED <<vars, arrival>>
    <3>1. UNCHANGED <<Accepted, arrival, CycleTime, sent>>
      BY <2>2 DEF vars, Accepted, Pending, CycleTime
    <3>2. OrderInv'
      BY <2>2 DEF vars, OrderInv, FifoInv, Pending
    <3> QED
      BY <3>1, <3>2
  <2> QED
    BY <2>1, <2>2
<1>3. HSpec => Spec
  <2>1. HInit => Init
    BY DEF HInit
  <2>2. [HNext]_<<vars, arrival>> => [Next]_vars
    BY DEF HNext
  <2> QED
    BY <2>1, <2>2, PTL DEF HSpec, Spec
<1> QED
  BY <1>1, <1>2, <1>3, Invariance, PTL DEF HSpec, QueueRefined, Queue!Spec
==============================================================================
