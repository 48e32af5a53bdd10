----------------------------- MODULE TtcTimeline -----------------------------
(***************************************************************************)
(* The time-tagged command timeline of the TTC application                 *)
(* (apps/ttc/fsw/src/ttc_timeline.c) with the command handlers that drive  *)
(* it (ttc_cmds.c) and the task that dispatches them (ttc_dispatch.c).     *)
(*                                                                         *)
(* The timeline is an array of slots.  A slot is EMPTY, RESERVED (being    *)
(* uploaded in chunks) or PENDING, and SortedIndex lists the PENDING slots *)
(* by descending TimeTag, so that its last element is executed next.       *)
(*                                                                         *)
(* One task owns all of this.  It takes one message at a time off its      *)
(* pipe: a ground command, or the 1Hz wakeup that runs one processing      *)
(* cycle.  A handler that loops over the index (a cycle, a group deletion, *)
(* a group execution) takes one step per iteration here, and `handler`     *)
(* says where it is; every other handler is one step.  The clock runs      *)
(* concurrently and the ground may set it to another time.                 *)
(***************************************************************************)
EXTENDS Integers, FiniteSetsExt

CONSTANTS
  MAX_COMMAND_ENTRIES,  \* TTC_PLATFORM_MAX_COMMAND_ENTRIES, slots of the timeline
  MAX_COMMAND_SIZE,     \* TTC_PLATFORM_MAX_COMMAND_SIZE
  EntryIds,             \* user-chosen entry identifiers, 0 is the anonymous one
  GroupIds,             \* user-chosen group identifiers, 0 is the anonymous one
  Requests,             \* the parameter lists of insert and finalize commands
  Chunks,               \* the chunks of plumb-write commands
  TimeMod,              \* 2^32 in the code: seconds are unsigned and wrap
  CounterMod,           \* width of the telemetry counters
  JumpTargets           \* times the ground may set the clock to

VARIABLES
  Entries,      \* Timeline.Entries
  Count,        \* Timeline.State.Count
  SortedIndex,  \* the used prefix of Timeline.State.SortedIndex
  Paused,       \* Timeline.State.ExecutionPaused
  PreviousTime, \* Timeline.CycleContext.PreviousTime
  Cycle,        \* the per-cycle counters of Timeline.CycleContext
  Hk,           \* the accumulated counters of TimelineHk
  App,          \* CmdCounter and ErrCounter of TTC_AppData
  handler,      \* the handler the task is in, with its loop variables
  clock,        \* CFE_TIME_GetTime().Seconds
  sent          \* the entry the last step handed to the software bus, if any

timeline == <<Entries, Count, SortedIndex>>
vars == <<Entries, Count, SortedIndex, Paused, PreviousTime, Cycle, Hk, App,
          handler, clock, sent>>

Slots == 0 .. MAX_COMMAND_ENTRIES - 1
Times == 0 .. TimeMod - 1
Counters == 0 .. CounterMod - 1
TTC_TIMETAG_MAX == TimeMod - 1
ExecTypes == {"SKIP_LATE", "FORCE", "ABORT_LATE"}
TagTypes == {"ABSOLUTE", "RELATIVE"}

ANONYMOUS_ENTRY_ID == 0
ANONYMOUS_GROUP_ID == 0

\* The length CFE_MSG_GetSize reads from an all-zero header.
ZERO_HEADER_SIZE == 7

\* The CCSDS primary header, which holds the length; no chunk splits it.
HEADER_SIZE == 6

(***************************************************************************)
(* Inputs.  MsgSize is the length field in the header of the command that  *)
(* the request or the chunk carries; CmdSize is the length the request     *)
(* claims.  A tag type or an execution type that does not exist is INVALID.*)
(***************************************************************************)
RequestType ==
  [TimeTagType : TagTypes \cup {"INVALID"}, EntryId : EntryIds,
   GroupId : GroupIds, TimeTag : Times, StalenessThreshold : Nat,
   ExecutionType : ExecTypes \cup {"INVALID"},
   MsgSize : Nat, CmdSize : Nat]

ChunkType == [Offset : Nat, Size : Nat, MsgSize : Nat]

ASSUME ConstantsAssumption ==
  /\ MAX_COMMAND_ENTRIES \in Nat \ {0}
  /\ MAX_COMMAND_SIZE \in Nat
  /\ 0 \in EntryIds
  /\ 0 \in GroupIds
  /\ Requests \subseteq RequestType
  /\ Chunks \subseteq ChunkType
  /\ \A r \in Requests : r.CmdSize = 0 \/ r.CmdSize >= HEADER_SIZE
  /\ \A c \in Chunks : \/ c.Offset = 0 /\ c.Size >= HEADER_SIZE
                       \/ c.Offset >= HEADER_SIZE
  /\ TimeMod \in Nat \ {0}
  /\ CounterMod \in Nat \ {0}
  /\ JumpTargets \subseteq Times

EntryType ==
  [TimeTag : Times, StalenessThreshold : Nat, EntryId : EntryIds,
   GroupId : GroupIds, ExecutionType : ExecTypes \cup {"INVALID"},
   Status : {"EMPTY", "PENDING", "RESERVED"}, CmdSize : Nat, MsgSize : Nat]

\* A slot cleared by memset.
EmptyEntry ==
  [TimeTag |-> 0, StalenessThreshold |-> 0, EntryId |-> 0, GroupId |-> 0,
   ExecutionType |-> "SKIP_LATE", Status |-> "EMPTY", CmdSize |-> 0,
   MsgSize |-> ZERO_HEADER_SIZE]

ZeroCycle == [Executed |-> 0, Skipped |-> 0, Aborted |-> 0,
              ProcessingErrors |-> 0, Forward |-> FALSE, Backward |-> FALSE]

ZeroHk == [Executed |-> 0, Skipped |-> 0, Aborted |-> 0,
           ProcessingErrors |-> 0, Forward |-> 0, Backward |-> 0]

NoEntry == [by |-> "none", entry |-> EmptyEntry]

\* The task waits for a message.  The other fields are the loop variables of a
\* handler: the time a cycle started at, and the position, group, mode and
\* result of a group command.  `entries` is a history variable: how many
\* entries the cycle started with, or the group command has still to handle.
Idle == [at |-> "idle", now |-> 0, entries |-> 0, i |-> 0, group |-> 0,
         persistent |-> FALSE, found |-> FALSE]
------------------------------------------------------------------------------
(***************************************************************************)
(* Lookups.                                                                *)
(***************************************************************************)
IsAnonymousEntry(id, group) ==
  id = ANONYMOUS_ENTRY_ID /\ group = ANONYMOUS_GROUP_ID

\* The lowest slot of S, or MAX_COMMAND_ENTRIES when S is empty.
FirstSlot(S) == Min(S \cup {MAX_COMMAND_ENTRIES})

FindEmptySlot == FirstSlot({s \in Slots : Entries[s].Status = "EMPTY"})

\* Mutant: a plumb command also finds an entry that is already committed.
FindReservedSlotAnyStatus(id, group) ==
  FirstSlot({s \in Slots : /\ ~IsAnonymousEntry(id, group)
                           /\ Entries[s].Status # "EMPTY"
                           /\ Entries[s].EntryId = id
                           /\ Entries[s].GroupId = group})

FindReservedSlot(id, group) ==
  FirstSlot({s \in Slots : /\ ~IsAnonymousEntry(id, group)
                           /\ Entries[s].Status = "RESERVED"
                           /\ Entries[s].EntryId = id
                           /\ Entries[s].GroupId = group})

\* Mutant: the duplicate check overlooks entries that are being uploaded.
FindSlotByEntryIdPendingOnly(id, group) ==
  FirstSlot({s \in Slots : /\ ~IsAnonymousEntry(id, group)
                           /\ Entries[s].Status = "PENDING"
                           /\ Entries[s].EntryId = id
                           /\ Entries[s].GroupId = group})

FindSlotByEntryId(id, group) ==
  FirstSlot({s \in Slots : /\ ~IsAnonymousEntry(id, group)
                           /\ Entries[s].Status # "EMPTY"
                           /\ Entries[s].EntryId = id
                           /\ Entries[s].GroupId = group})

Found(slot) == slot # MAX_COMMAND_ENTRIES

\* Mutant: the wrong end of the index.
NextSlotFarthest == SortedIndex[0]

\* GetNextSlot when Count > 0.
NextSlot == SortedIndex[Count - 1]

\* Mutant: a new entry goes behind the listed ones with the same TimeTag.
FindSortedIndexLifo(tag) ==
  Min({k \in 0 .. Count : k < Count => ~(tag <= Entries[SortedIndex[k]].TimeTag)})

\* Mutant: the comparison of the search the wrong way round.
FindSortedIndexAscending(tag) ==
  Min({k \in 0 .. Count : k < Count => ~(tag > Entries[SortedIndex[k]].TimeTag)})

(***************************************************************************)
(* The position at which a new TimeTag goes: before the first listed entry *)
(* that is not later.  Module TtcSearch shows that the binary search of    *)
(* the code computes it.                                                   *)
(***************************************************************************)
FindSortedIndex(tag) ==
  Min({k \in 0 .. Count : k < Count => ~(tag < Entries[SortedIndex[k]].TimeTag)})
------------------------------------------------------------------------------
(***************************************************************************)
(* Steps on one slot and on the index.  Each fixes Entries', SortedIndex'  *)
(* and Count'.                                                             *)
(***************************************************************************)
InIndex(slot) == \E i \in 0 .. Count - 1 : SortedIndex[i] = slot

InsertSlotToSortedIndex(tag, slot) ==
  LET k == FindSortedIndex(tag)
  IN /\ SortedIndex' = [j \in 0 .. Count |->
                          IF j < k THEN SortedIndex[j]
                          ELSE IF j = k THEN slot ELSE SortedIndex[j - 1]]
     /\ Count' = Count + 1

CancelSlot(slot) ==
  /\ Entries' = [Entries EXCEPT ![slot] = EmptyEntry]
  /\ UNCHANGED <<SortedIndex, Count>>

\* Removes the slot and closes the gap; a slot that is not listed is kept.
DeleteSlot(slot) ==
  IF InIndex(slot)
  THEN LET p == CHOOSE i \in 0 .. Count - 1 : SortedIndex[i] = slot
       IN /\ Entries' = [Entries EXCEPT ![slot] = EmptyEntry]
          /\ SortedIndex' = [j \in 0 .. Count - 2 |->
                               IF j < p THEN SortedIndex[j] ELSE SortedIndex[j + 1]]
          /\ Count' = Count - 1
  ELSE UNCHANGED timeline

\* Mutant: reserved slots are cleared as well.
ClearPendingAndReserved ==
  /\ Entries' = [s \in Slots |-> EmptyEntry]
  /\ SortedIndex' = << >>
  /\ Count' = 0

\* Clears every listed slot, as DeleteAllEntries and AbortPendingEntries do.
ClearPending ==
  /\ Entries' = [s \in Slots |-> IF InIndex(s) THEN EmptyEntry ELSE Entries[s]]
  /\ SortedIndex' = << >>
  /\ Count' = 0

ClearTimeline ==
  /\ Entries' = [s \in Slots |-> EmptyEntry]
  /\ SortedIndex' = << >>
  /\ Count' = 0

\* A chunk written over the start of the buffer replaces the header.
WriteToSlot(entry, chunk) ==
  IF chunk.Offset = 0 /\ chunk.Size > 0
  THEN [entry EXCEPT !.MsgSize = chunk.MsgSize] ELSE entry

\* Mutant: the sum in a type wide enough not to wrap.
AbsTimeTagNoWrap(r) ==
  IF r.TimeTagType = "RELATIVE" THEN clock + r.TimeTag ELSE r.TimeTag

AbsTimeTag(r) ==
  IF r.TimeTagType = "RELATIVE" THEN (clock + r.TimeTag) % TimeMod ELSE r.TimeTag

\* Mutant: an absolute TimeTag is not compared with the present.
InPastNever(r) == FALSE

InPast(r) == r.TimeTagType = "ABSOLUTE" /\ r.TimeTag < clock

\* Mutant: the execution type is not validated.
CommitStatusAnyExecType(entry, r) ==
  IF entry.MsgSize # r.CmdSize THEN "ERR_CMD_SIZE_MISMATCH"
  ELSE IF r.CmdSize > MAX_COMMAND_SIZE THEN "ERR_CMD_SIZE_TOO_LARGE"
  ELSE IF Count >= MAX_COMMAND_ENTRIES THEN "ERR_INSERT_SORTED_INDEX"
  ELSE "CFE_SUCCESS"

CommitStatus(entry, r) ==
  IF r.ExecutionType \notin ExecTypes THEN "ERR_INVALID_EXEC_TYPE"
  ELSE IF entry.MsgSize # r.CmdSize THEN "ERR_CMD_SIZE_MISMATCH"
  ELSE IF r.CmdSize > MAX_COMMAND_SIZE THEN "ERR_CMD_SIZE_TOO_LARGE"
  ELSE IF Count >= MAX_COMMAND_ENTRIES THEN "ERR_INSERT_SORTED_INDEX"
  ELSE "CFE_SUCCESS"

\* CommitSlot once CommitStatus is CFE_SUCCESS.
CommitSlot(slot, entry, r) ==
  /\ InsertSlotToSortedIndex(AbsTimeTag(r), slot)
  /\ Entries' = [Entries EXCEPT ![slot] =
                   [entry EXCEPT !.TimeTag = AbsTimeTag(r),
                                 !.StalenessThreshold = r.StalenessThreshold,
                                 !.ExecutionType = r.ExecutionType,
                                 !.CmdSize = r.CmdSize,
                                 !.Status = "PENDING"]]

Incr(n, by) == (n + by) % CounterMod

(***************************************************************************)
(* Hand the entry to the software bus.  The first branch is the one the    *)
(* code comments with "Shouldn't happen"; NoProcessingErrors says so.      *)
(***************************************************************************)
ExecuteEntry(slot, persistent, by) ==
  IF Entries[slot].Status # "PENDING"
  THEN /\ Cycle' = [Cycle EXCEPT !.ProcessingErrors = Incr(@, 1)]
       /\ sent' = NoEntry
       /\ IF InIndex(slot) THEN DeleteSlot(slot) ELSE CancelSlot(slot)
  ELSE /\ sent' = [by |-> by, entry |-> Entries[slot]]
       /\ IF persistent THEN UNCHANGED timeline ELSE DeleteSlot(slot)
       /\ Cycle' = [Cycle EXCEPT !.Executed = Incr(@, 1)]

\* The handlers of ttc_cmds.c count every command and every failed one.
CountCommand(status) ==
  App' = [CmdCounter |-> Incr(App.CmdCounter, 1),
          ErrCounter |-> IF status = "CFE_SUCCESS" THEN App.ErrCounter
                         ELSE Incr(App.ErrCounter, 1)]

\* A command handler that is one step starts and ends with the task at rest.
Command ==
  /\ handler = Idle
  /\ UNCHANGED <<handler, clock>>

\* What a command that only edits the timeline leaves alone.
KeepCycle == UNCHANGED <<Paused, PreviousTime, Cycle, Hk>> /\ sent' = NoEntry
------------------------------------------------------------------------------
(***************************************************************************)
(* Ground commands.                                                        *)
(***************************************************************************)
AddedEntry(slot, r) ==
  WriteToSlot([Entries[slot] EXCEPT !.Status = "RESERVED",
                                    !.EntryId = r.EntryId,
                                    !.GroupId = r.GroupId],
              [Offset |-> 0, Size |-> r.CmdSize, MsgSize |-> r.MsgSize])

AddStatus(r) ==
  IF r.TimeTagType \notin TagTypes THEN "ERR_INVALID_TIME_TAG_TYPE"
  ELSE IF r.CmdSize > MAX_COMMAND_SIZE THEN "ERR_CMD_SIZE_TOO_LARGE"
  ELSE IF Found(FindSlotByEntryId(r.EntryId, r.GroupId)) THEN "ERR_DUPLICATE_ENTRY"
  ELSE IF ~Found(FindEmptySlot) THEN "ERR_NO_EMPTY_SLOT"
  ELSE IF InPast(r) THEN "ERR_TIME_TAG_IN_PAST"
  ELSE CommitStatus(AddedEntry(FindEmptySlot, r), r)

\* Failures that TTC_TimelineAddEntry meets after it has reserved the slot.
AfterReservation ==
  {"ERR_TIME_TAG_IN_PAST", "ERR_INVALID_EXEC_TYPE", "ERR_CMD_SIZE_MISMATCH",
   "ERR_INSERT_SORTED_INDEX"}

\* Mutant: an error path that forgets CancelSlot.
KeepReservation(slot, r) ==
  /\ Entries' = [Entries EXCEPT ![slot] = AddedEntry(slot, r)]
  /\ UNCHANGED <<SortedIndex, Count>>

\* TTC_TimelineAddEntry gives back the slot it had reserved.
UndoReservation(slot, r) ==
  /\ Entries' = [[Entries EXCEPT ![slot] = AddedEntry(slot, r)]
                   EXCEPT ![slot] = EmptyEntry]
  /\ UNCHANGED <<SortedIndex, Count>>

InsertCmdEntryCmd(r) ==
  LET slot == FindEmptySlot
      status == AddStatus(r)
  IN /\ Command
     /\ r.TimeTagType \in TagTypes
     /\ \/ status = "CFE_SUCCESS" /\ CommitSlot(slot, AddedEntry(slot, r), r)
        \/ status \in AfterReservation /\ UndoReservation(slot, r)
        \/ /\ status \notin AfterReservation \cup {"CFE_SUCCESS"}
           /\ UNCHANGED timeline
     /\ CountCommand(status)
     /\ KeepCycle

DeleteEntryCmd(id, group) ==
  LET slot == FindSlotByEntryId(id, group)
      deleted == Found(slot) /\ InIndex(slot)
  IN /\ Command
     /\ IF deleted THEN DeleteSlot(slot) ELSE UNCHANGED timeline
     /\ CountCommand(IF deleted THEN "CFE_SUCCESS" ELSE "ERR_ENTRY_NOT_FOUND")
     /\ KeepCycle

DeleteAllEntriesCmd ==
  /\ Command
  /\ ClearPending
  /\ CountCommand("CFE_SUCCESS")
  /\ KeepCycle

ExecuteEntryCmd(id, group, persistent) ==
  LET slot == FindSlotByEntryId(id, group)
  IN /\ Command
     /\ UNCHANGED <<Paused, PreviousTime, Hk>>
     /\ \/ /\ Found(slot)
           /\ Entries[slot].Status = "PENDING"
           /\ ExecuteEntry(slot, persistent, "command")
           /\ CountCommand("CFE_SUCCESS")
        \/ /\ Found(slot) => Entries[slot].Status # "PENDING"
           /\ CountCommand("ERR_ENTRY_NOT_PENDING")
           /\ UNCHANGED <<Entries, SortedIndex, Count, Cycle>>
           /\ sent' = NoEntry

PauseTimelineProcessingCmd ==
  /\ Command
  /\ Paused' = TRUE
  /\ CountCommand("CFE_SUCCESS")
  /\ UNCHANGED <<Entries, SortedIndex, Count, PreviousTime, Cycle, Hk>>
  /\ sent' = NoEntry

ResumeTimelineProcessingCmd ==
  /\ Command
  /\ Paused' = FALSE
  /\ CountCommand("CFE_SUCCESS")
  /\ UNCHANGED <<Entries, SortedIndex, Count, PreviousTime, Cycle, Hk>>
  /\ sent' = NoEntry

\* Noop, Report and the commands that only read the timeline.
QueryCmd ==
  /\ Command
  /\ CountCommand("CFE_SUCCESS")
  /\ UNCHANGED timeline
  /\ KeepCycle

ResetCountersCmd ==
  /\ Command
  /\ App' = [CmdCounter |-> 0, ErrCounter |-> 0]
  /\ UNCHANGED timeline
  /\ KeepCycle

ResetTimelineHkCmd ==
  /\ Command
  /\ Hk' = ZeroHk
  /\ CountCommand("CFE_SUCCESS")
  /\ UNCHANGED <<Entries, SortedIndex, Count, Paused, PreviousTime, Cycle>>
  /\ sent' = NoEntry

\* A command of the wrong length is counted as an error and not as a command.
RejectedLength ==
  /\ Command
  /\ App' = [App EXCEPT !.ErrCounter = Incr(@, 1)]
  /\ UNCHANGED timeline
  /\ KeepCycle
------------------------------------------------------------------------------
(***************************************************************************)
(* Plumbing: a command too long for one uplink frame is uploaded in chunks *)
(* into a RESERVED slot and then committed.                                *)
(***************************************************************************)
PlumbEntryInitCmd(id, group) ==
  LET slot == FindEmptySlot
      status == IF IsAnonymousEntry(id, group) THEN "ERR_ANONYMOUS_ID"
                ELSE IF Found(FindSlotByEntryId(id, group)) THEN "ERR_DUPLICATE_ENTRY"
                ELSE IF ~Found(slot) THEN "ERR_NO_EMPTY_SLOT" ELSE "CFE_SUCCESS"
  IN /\ Command
     /\ Entries' = IF status = "CFE_SUCCESS"
                   THEN [Entries EXCEPT ![slot] =
                           [EmptyEntry EXCEPT !.EntryId = id, !.GroupId = group,
                                              !.TimeTag = TTC_TIMETAG_MAX,
                                              !.Status = "RESERVED"]]
                   ELSE Entries
     /\ UNCHANGED <<SortedIndex, Count>>
     /\ CountCommand(status)
     /\ KeepCycle

PlumbEntryWriteCmd(id, group, chunk) ==
  LET slot == FindReservedSlot(id, group)
      status == IF ~Found(slot) THEN "ERR_ENTRY_NOT_FOUND"
                ELSE IF chunk.Offset + chunk.Size > MAX_COMMAND_SIZE
                     THEN "ERR_WRITE_OUT_OF_BOUNDS" ELSE "CFE_SUCCESS"
  IN /\ Command
     /\ Entries' = IF status = "CFE_SUCCESS"
                   THEN [Entries EXCEPT ![slot] = WriteToSlot(@, chunk)]
                   ELSE Entries
     /\ UNCHANGED <<SortedIndex, Count>>
     /\ CountCommand(status)
     /\ KeepCycle

FinalizeStatus(r) ==
  LET slot == FindReservedSlot(r.EntryId, r.GroupId)
  IN IF IsAnonymousEntry(r.EntryId, r.GroupId) THEN "ERR_ANONYMOUS_ID"
     ELSE IF r.TimeTagType \notin TagTypes THEN "ERR_INVALID_TIME_TAG_TYPE"
     ELSE IF r.CmdSize = 0 \/ r.CmdSize > MAX_COMMAND_SIZE
          THEN "ERR_CMD_SIZE_TOO_LARGE"
     ELSE IF ~Found(slot) THEN "ERR_ENTRY_NOT_FOUND"
     ELSE IF InPast(r) THEN "ERR_TIME_TAG_IN_PAST"
     ELSE CommitStatus(Entries[slot], r)

\* A failed finalize leaves the slot RESERVED, to be retried or deleted.
PlumbEntryFinalizeCmd(r) ==
  LET slot == FindReservedSlot(r.EntryId, r.GroupId)
      status == FinalizeStatus(r)
  IN /\ Command
     /\ \/ status = "CFE_SUCCESS" /\ CommitSlot(slot, Entries[slot], r)
        \/ status # "CFE_SUCCESS" /\ UNCHANGED timeline
     /\ CountCommand(status)
     /\ KeepCycle

PlumbDeleteReservedEntryCmd(id, group) ==
  LET slot == FindReservedSlot(id, group)
  IN /\ Command
     /\ IF Found(slot) THEN CancelSlot(slot) ELSE UNCHANGED timeline
     /\ CountCommand(IF Found(slot) THEN "CFE_SUCCESS" ELSE "ERR_ENTRY_NOT_FOUND")
     /\ KeepCycle

PlumbPurgeTimelineCmd ==
  /\ Command
  /\ ClearTimeline
  /\ PreviousTime' = clock
  /\ Cycle' = ZeroCycle
  /\ CountCommand("CFE_SUCCESS")
  /\ UNCHANGED <<Paused, Hk>>
  /\ sent' = NoEntry
------------------------------------------------------------------------------
(***************************************************************************)
(* Group commands walk the index from the entry that is due first.         *)
(***************************************************************************)
\* Anonymous entries cannot be addressed through their group.
InGroup(slot, group) ==
  /\ Entries[slot].GroupId = group
  /\ ~IsAnonymousEntry(Entries[slot].EntryId, group)

\* The entries a group command has to handle.
GroupMembers(group) ==
  {s \in Slots : Entries[s].Status = "PENDING" /\ InGroup(s, group)}

\* Mutant: the walk starts at the wrong end, where nothing precedes it.
BeginGroupCmdAtZero(what, group, persistent) ==
  /\ handler = Idle
  /\ handler' = [Idle EXCEPT !.at = what, !.i = IF Count > 0 THEN 0 ELSE -1,
                             !.entries = Cardinality(GroupMembers(group)),
                             !.group = group, !.persistent = persistent]
  /\ App' = [App EXCEPT !.CmdCounter = Incr(@, 1)]
  /\ UNCHANGED <<Entries, SortedIndex, Count, clock>>
  /\ KeepCycle

BeginGroupCmd(what, group, persistent) ==
  /\ handler = Idle
  /\ handler' = [Idle EXCEPT !.at = what, !.i = Count - 1,
                             !.entries = Cardinality(GroupMembers(group)),
                             !.group = group, !.persistent = persistent]
  /\ App' = [App EXCEPT !.CmdCounter = Incr(@, 1)]
  /\ UNCHANGED <<Entries, SortedIndex, Count, clock>>
  /\ KeepCycle

DeleteGroupCmd(group) == BeginGroupCmd("delete", group, FALSE)

ExecuteGroupCmd(group, persistent) == BeginGroupCmd("execute", group, persistent)

\* One iteration of a group loop over an entry that it does not touch.
GroupPass ==
  /\ handler.at \in {"delete", "execute"}
  /\ handler.i >= 0
  /\ LET slot == SortedIndex[handler.i]
     IN \/ ~InGroup(slot, handler.group)
        \/ handler.at = "execute" /\ Entries[slot].Status # "PENDING"
  /\ handler' = [handler EXCEPT !.i = @ - 1]
  /\ UNCHANGED <<Entries, SortedIndex, Count, App, clock>>
  /\ KeepCycle

DeleteGroupStep ==
  /\ handler.at = "delete"
  /\ handler.i >= 0
  /\ InGroup(SortedIndex[handler.i], handler.group)
  /\ DeleteSlot(SortedIndex[handler.i])
  /\ handler' = [handler EXCEPT !.i = @ - 1, !.found = TRUE,
                                !.entries = @ - 1]
  /\ UNCHANGED <<App, clock>>
  /\ KeepCycle

ExecuteGroupStep ==
  /\ handler.at = "execute"
  /\ handler.i >= 0
  /\ InGroup(SortedIndex[handler.i], handler.group)
  /\ Entries[SortedIndex[handler.i]].Status = "PENDING"
  /\ ExecuteEntry(SortedIndex[handler.i], handler.persistent, "command")
  /\ handler' = [handler EXCEPT !.i = @ - 1, !.found = TRUE,
                                !.entries = @ - 1]
  /\ UNCHANGED <<Paused, PreviousTime, Hk, App, clock>>

EndGroupCmd ==
  /\ handler.at \in {"delete", "execute"}
  /\ handler.i < 0
  /\ handler' = Idle
  /\ App' = IF handler.found THEN App ELSE [App EXCEPT !.ErrCounter = Incr(@, 1)]
  /\ UNCHANGED <<Entries, SortedIndex, Count, clock>>
  /\ KeepCycle
------------------------------------------------------------------------------
(***************************************************************************)
(* TTC_ProcessTimeline, the 1Hz cycle.                                     *)
(***************************************************************************)
\* Mutant: the counters of the previous cycle are not reset.
StartedCycleNoReset ==
  [Cycle EXCEPT !.Forward = clock > (PreviousTime + 1) % TimeMod,
                !.Backward = clock < PreviousTime]

\* InitCycleContext and the detection of time jumps.
StartedCycle ==
  [ZeroCycle EXCEPT !.Forward = clock > (PreviousTime + 1) % TimeMod,
                    !.Backward = clock < PreviousTime]

FlagCount(flag) == IF flag THEN 1 ELSE 0

\* UpdateTimelineHousekeeping.  The fields of TimelineHk that only mirror
\* the next entry, Count and the pause flag are left out.
UpdatedHk(c) ==
  [Executed |-> Incr(Hk.Executed, c.Executed),
   Skipped |-> Incr(Hk.Skipped, c.Skipped),
   Aborted |-> Incr(Hk.Aborted, c.Aborted),
   ProcessingErrors |-> Incr(Hk.ProcessingErrors, c.ProcessingErrors),
   Forward |-> Incr(Hk.Forward, FlagCount(c.Forward)),
   Backward |-> Incr(Hk.Backward, FlagCount(c.Backward))]

PausedCycle ==
  /\ handler = Idle
  /\ Paused
  /\ Cycle' = StartedCycle
  /\ PreviousTime' = clock
  /\ Hk' = UpdatedHk(StartedCycle)
  /\ UNCHANGED <<Entries, SortedIndex, Count, Paused, App, handler, clock>>
  /\ sent' = NoEntry

BeginCycle ==
  /\ handler = Idle
  /\ ~Paused
  /\ Cycle' = StartedCycle
  /\ handler' = [Idle EXCEPT !.at = "cycle", !.now = clock, !.entries = Count]
  /\ UNCHANGED <<Entries, SortedIndex, Count, Paused, PreviousTime, Hk, App, clock>>
  /\ sent' = NoEntry

\* Mutant: an entry is due only after its TimeTag.
DueAfter ==
  /\ handler.at = "cycle"
  /\ Count > 0
  /\ NextSlot \in Slots
  /\ handler.now > Entries[NextSlot].TimeTag

\* The next entry is due in the running cycle.
Due ==
  /\ handler.at = "cycle"
  /\ Count > 0
  /\ NextSlot \in Slots
  /\ handler.now >= Entries[NextSlot].TimeTag

Stale(entry, now) == now - entry.TimeTag > entry.StalenessThreshold

KeepInCycle == UNCHANGED <<Paused, PreviousTime, Hk, App, handler, clock>>

ExecuteDue ==
  /\ Due
  /\ LET entry == Entries[NextSlot]
     IN Stale(entry, handler.now) => entry.ExecutionType = "FORCE"
  /\ ExecuteEntry(NextSlot, FALSE, "cycle")
  /\ KeepInCycle

\* SkipEntry, and the default case of the switch, which also counts an error.
SkipLate ==
  /\ Due
  /\ LET entry == Entries[NextSlot]
     IN /\ Stale(entry, handler.now)
        /\ entry.ExecutionType \notin {"FORCE", "ABORT_LATE"}
        /\ Cycle' = [Cycle EXCEPT
              !.Skipped = Incr(@, 1),
              !.ProcessingErrors =
                Incr(@, IF entry.ExecutionType = "SKIP_LATE" THEN 0 ELSE 1)]
  /\ DeleteSlot(NextSlot)
  /\ KeepInCycle
  /\ sent' = NoEntry

\* AbortPendingEntries.
AbortLate ==
  /\ Due
  /\ Stale(Entries[NextSlot], handler.now)
  /\ Entries[NextSlot].ExecutionType = "ABORT_LATE"
  /\ Cycle' = [Cycle EXCEPT !.Aborted = Incr(@, Count)]
  /\ ClearPending
  /\ KeepInCycle
  /\ sent' = NoEntry

\* The loop ends when nothing more is due, or on an index that cannot be
\* trusted: PurgeTimeline then also clears the cycle's counters.
EndCycle ==
  LET corrupt == Count > 0 /\ NextSlot \notin Slots
  IN /\ handler.at = "cycle"
     /\ ~Due
     /\ IF corrupt THEN ClearTimeline /\ Cycle' = ZeroCycle
        ELSE UNCHANGED <<Entries, SortedIndex, Count, Cycle>>
     /\ PreviousTime' = handler.now
     /\ Hk' = UpdatedHk(IF corrupt THEN ZeroCycle ELSE Cycle)
     /\ handler' = Idle
     /\ UNCHANGED <<Paused, App, clock>>
     /\ sent' = NoEntry
------------------------------------------------------------------------------
(***************************************************************************)
(* The environment: cFE time and a restart of the application, after which *)
(* TTC_Init clears everything, for nothing of the timeline is persistent.  *)
(***************************************************************************)
Tick ==
  /\ clock < TimeMod - 1
  /\ clock' = clock + 1
  /\ sent' = NoEntry
  /\ UNCHANGED <<Entries, Count, SortedIndex, Paused, PreviousTime, Cycle, Hk, App,
                 handler>>

SetTime(t) ==
  /\ clock' = t
  /\ sent' = NoEntry
  /\ UNCHANGED <<Entries, Count, SortedIndex, Paused, PreviousTime, Cycle, Hk, App,
                 handler>>

Restart ==
  /\ ClearTimeline
  /\ Paused' = FALSE
  /\ PreviousTime' = clock
  /\ Cycle' = ZeroCycle
  /\ Hk' = ZeroHk
  /\ App' = [CmdCounter |-> 0, ErrCounter |-> 0]
  /\ handler' = Idle
  /\ sent' = NoEntry
  /\ UNCHANGED clock

\* TTC_TimelineInitialize.
Init ==
  /\ Entries = [s \in Slots |-> EmptyEntry]
  /\ Count = 0
  /\ SortedIndex = << >>
  /\ Paused = FALSE
  /\ clock = 0
  /\ PreviousTime = clock
  /\ Cycle = ZeroCycle
  /\ Hk = ZeroHk
  /\ App = [CmdCounter |-> 0, ErrCounter |-> 0]
  /\ handler = Idle
  /\ sent = NoEntry

EntryCommand(id, group) ==
  \/ DeleteEntryCmd(id, group)
  \/ \E persistent \in BOOLEAN : ExecuteEntryCmd(id, group, persistent)
  \/ PlumbEntryInitCmd(id, group)
  \/ \E chunk \in Chunks : PlumbEntryWriteCmd(id, group, chunk)
  \/ PlumbDeleteReservedEntryCmd(id, group)

GroundCommand ==
  \/ \E r \in Requests : InsertCmdEntryCmd(r) \/ PlumbEntryFinalizeCmd(r)
  \/ \E id \in EntryIds, group \in GroupIds : EntryCommand(id, group)
  \/ \E group \in GroupIds :
       \/ DeleteGroupCmd(group)
       \/ \E persistent \in BOOLEAN : ExecuteGroupCmd(group, persistent)
  \/ DeleteAllEntriesCmd
  \/ PauseTimelineProcessingCmd
  \/ ResumeTimelineProcessingCmd
  \/ QueryCmd
  \/ ResetCountersCmd
  \/ ResetTimelineHkCmd
  \/ RejectedLength
  \/ PlumbPurgeTimelineCmd

GroupStep == GroupPass \/ DeleteGroupStep \/ ExecuteGroupStep \/ EndGroupCmd

CycleStep == ExecuteDue \/ SkipLate \/ AbortLate \/ EndCycle

Wakeup == PausedCycle \/ BeginCycle

Next ==
  \/ GroundCommand
  \/ GroupStep
  \/ Wakeup
  \/ CycleStep
  \/ Tick
  \/ \E t \in JumpTargets : SetTime(t)
  \/ Restart

Spec == Init /\ [][Next]_vars

(***************************************************************************)
(* Handlers run to completion, the 1Hz wakeup queues in the pipe like any  *)
(* command and is served in its turn however many commands there are, and  *)
(* time passes.  Nothing is assumed of the ground or of restarts.          *)
(***************************************************************************)
FairSpec ==
  /\ Spec
  /\ WF_vars(GroupStep)
  /\ WF_vars(CycleStep)
  /\ SF_vars(BeginCycle)
  /\ WF_vars(Tick)
------------------------------------------------------------------------------
(***************************************************************************)
(* Properties.                                                             *)
(***************************************************************************)
HandlerType ==
  [at : {"idle", "delete", "execute", "cycle"}, now : Times,
   entries : Int, i : -1 .. MAX_COMMAND_ENTRIES - 1,
   group : GroupIds, persistent : BOOLEAN, found : BOOLEAN]

\* Every variable holds a value of its C type.
TypeOK ==
  /\ Entries \in [Slots -> EntryType]
  /\ Count \in 0 .. MAX_COMMAND_ENTRIES
  /\ SortedIndex \in [0 .. Count - 1 -> Slots]
  /\ Paused \in BOOLEAN
  /\ PreviousTime \in Times
  /\ Cycle \in [Executed : Counters, Skipped : Counters, Aborted : Counters,
                ProcessingErrors : Counters, Forward : BOOLEAN, Backward : BOOLEAN]
  /\ Hk \in [Executed : Counters, Skipped : Counters, Aborted : Counters,
             ProcessingErrors : Counters, Forward : Counters, Backward : Counters]
  /\ App \in [CmdCounter : Counters, ErrCounter : Counters]
  /\ handler \in HandlerType
  /\ clock \in Times
  /\ sent \in [by : {"none", "cycle", "command"}, entry : EntryType]

\* No slot is listed twice.
IndexDistinct ==
  \A i, j \in 0 .. Count - 1 : SortedIndex[i] = SortedIndex[j] => i = j

\* Exactly the PENDING slots are listed.
IndexExact ==
  \A s \in Slots : Entries[s].Status = "PENDING" <=> InIndex(s)

\* The listed slots are in descending order of TimeTag.
IndexSorted ==
  \A i, j \in 0 .. Count - 1 :
     i <= j => Entries[SortedIndex[i]].TimeTag >= Entries[SortedIndex[j]].TimeTag

(***************************************************************************)
(* SortedIndex lists exactly the PENDING slots, each once, the farthest in *)
(* the future first, whatever sequence of insertions, chunked uploads,     *)
(* deletions, executions, aborts and purges led here.                      *)
(***************************************************************************)
IndexInv == IndexDistinct /\ IndexExact /\ IndexSorted

(***************************************************************************)
(* No two used slots answer to the same identifier pair, so a command      *)
(* addressed to an entry can only mean one; anonymous entries are exempt.  *)
(***************************************************************************)
UniqueIds ==
  \A s, t \in Slots :
     /\ Entries[s].Status # "EMPTY"
     /\ Entries[t].Status # "EMPTY"
     /\ Entries[s].EntryId = Entries[t].EntryId
     /\ Entries[s].GroupId = Entries[t].GroupId
     /\ ~IsAnonymousEntry(Entries[s].EntryId, Entries[s].GroupId)
     => s = t

(***************************************************************************)
(* Free slots are all zero, as FindEmptySlot and AddEntry take for         *)
(* granted, and what is PENDING can be sent: its execution type exists and *)
(* the size its header claims is the one that was committed and fits.      *)
(***************************************************************************)
SlotsSound ==
  \A s \in Slots :
     /\ Entries[s].Status = "EMPTY" => Entries[s] = EmptyEntry
     /\ Entries[s].Status = "PENDING" =>
          /\ Entries[s].ExecutionType \in ExecTypes
          /\ Entries[s].MsgSize = Entries[s].CmdSize
          /\ Entries[s].CmdSize <= MAX_COMMAND_SIZE

(***************************************************************************)
(* The branches the code marks "Shouldn't happen" (a listed entry that is  *)
(* not PENDING, an invalid execution type, an invalid next slot) are never *)
(* taken.                                                                  *)
(***************************************************************************)
NoProcessingErrors == Cycle.ProcessingErrors = 0 /\ Hk.ProcessingErrors = 0

(***************************************************************************)
(* The timeline is sound: slot numbers, counters and times are in range,   *)
(* identifiers are unique, the slots are what the look-ups and the cycle   *)
(* take for granted, and so no error of the cycle can happen.              *)
(***************************************************************************)
TimelineSound == TypeOK /\ UniqueIds /\ SlotsSound /\ NoProcessingErrors

(***************************************************************************)
(* When a cycle ends, nothing that was due at its start is left PENDING.   *)
(***************************************************************************)
CycleDrains ==
  [][handler.at = "cycle" /\ handler'.at = "idle" =>
       \A s \in Slots : Entries'[s].Status = "PENDING" =>
                           Entries'[s].TimeTag > handler.now]_vars

(***************************************************************************)
(* A cycle sends an entry only at or after its TimeTag, never once it is   *)
(* stale unless it is FORCE, and never ahead of an entry with an earlier   *)
(* TimeTag.                                                                *)
(***************************************************************************)
EarliestFirst ==
  [][sent'.by = "cycle" =>
       /\ handler.now >= sent'.entry.TimeTag
       /\ Stale(sent'.entry, handler.now) => sent'.entry.ExecutionType = "FORCE"
       /\ \A s \in Slots : Entries[s].Status = "PENDING" =>
                            Entries[s].TimeTag >= sent'.entry.TimeTag]_vars

(***************************************************************************)
(* "The execution is in increasing order of their TimeTags": a group       *)
(* execution sends an entry before the ones it has still to visit.         *)
(***************************************************************************)
GroupOrder ==
  [][handler.at = "execute" /\ sent'.by = "command" =>
       \A k \in 0 .. handler.i :
          Entries[SortedIndex[k]].TimeTag >= sent'.entry.TimeTag]_vars

(***************************************************************************)
(* A group command handles each addressable entry of the group exactly     *)
(* once although deletions shift the index under its feet, and one that    *)
(* deletes or executes without keeping leaves none of them.                *)
(***************************************************************************)
GroupCmdExact ==
  [][EndGroupCmd =>
       /\ handler.entries = 0
       /\ ~handler.persistent => GroupMembers(handler.group) = {}]_vars

(***************************************************************************)
(* A group command visits every member of its group once, and in order of  *)
(* their TimeTags, while it shifts the index it walks along.               *)
(***************************************************************************)
GroupCmdSound == GroupOrder /\ GroupCmdExact

Handled(hk) == hk.Executed + hk.Skipped + hk.Aborted

(***************************************************************************)
(* The housekeeping counters of a cycle add up to the entries it removed,  *)
(* so nothing leaves the timeline uncounted and entries executed by        *)
(* command are not counted ("Execution by this interface does not          *)
(* increment the housekeeping counter").                                   *)
(***************************************************************************)
CycleAccounting ==
  [][EndCycle =>
       (Handled(Hk) + handler.entries - Count) % CounterMod
          = Handled(Hk') % CounterMod]_vars

(***************************************************************************)
(* A command that is counted as failed has changed nothing, also where it  *)
(* fails after TTC_TimelineAddEntry has reserved a slot.                   *)
(***************************************************************************)
FailedCommandChangesNothing ==
  [][/\ App'.ErrCounter = Incr(App.ErrCounter, 1)
     /\ App' # [CmdCounter |-> 0, ErrCounter |-> 0]
     => /\ UNCHANGED <<Entries, SortedIndex, Count, Paused, PreviousTime, Hk>>
        /\ sent' = NoEntry]_vars

(***************************************************************************)
(* An upload in progress survives everything but the plumb commands that   *)
(* name it, a purge and a restart: not an insertion, a deletion (of all    *)
(* entries even), an execution, a group command or an aborting cycle.      *)
(***************************************************************************)
ReservedProtected ==
  [][\/ GroupStep
     \/ CycleStep
     \/ DeleteAllEntriesCmd
     \/ \E r \in Requests : InsertCmdEntryCmd(r)
     \/ \E id \in EntryIds, group \in GroupIds :
          \/ DeleteEntryCmd(id, group)
          \/ \E persistent \in BOOLEAN : ExecuteEntryCmd(id, group, persistent)
     => \A s \in Slots : Entries[s].Status = "RESERVED" =>
                            Entries'[s] = Entries[s]]_vars

(***************************************************************************)
(* A PENDING entry does not stay so for ever unless the ground pauses the  *)
(* timeline: a cycle executes, skips or aborts it once time has come.      *)
(***************************************************************************)
PendingHandled ==
  \A s \in Slots :
     Entries[s].Status = "PENDING" ~> (Entries[s].Status # "PENDING" \/ Paused)

(***************************************************************************)
(* An entry that is accepted is not already late ("will be executed when   *)
(* CFE_TIME reaches the specified TimeTag", ttc_timeline.h), neither by an *)
(* insertion nor by finalizing an upload begun long before, except where   *)
(* the sum of the present and a relative TimeTag wraps.                    *)
(***************************************************************************)
AcceptedInTime ==
  [][\A s \in Slots :
       /\ Entries[s].Status # "PENDING"
       /\ Entries'[s].Status = "PENDING"
       /\ Entries'[s].TimeTag < clock
       => \E r \in Requests :
            /\ r.TimeTagType = "RELATIVE"
            /\ <<r.EntryId, r.GroupId>> = <<Entries'[s].EntryId, Entries'[s].GroupId>>
            /\ Entries'[s].TimeTag = clock + r.TimeTag - TimeMod]_vars
==============================================================================
