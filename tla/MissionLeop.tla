----------------------------- MODULE MissionLeop -----------------------------
(***************************************************************************)
(* The launch and early orbit sequence (LEOP) of the MISSION application   *)
(* (apps/mission/fsw/src/mission_utils.c, mission_cmd.c, mission_task.c).  *)
(*                                                                         *)
(* A child task waits after the launch, then repeats REPEAT_COUNT times: a *)
(* burn of the deployment resistor (a GPIO held HIGH), the enabling of the *)
(* telemetry output, and a pause.  Its progress is kept in a state file,   *)
(* so that a reset resumes it.  The application's main task serves ground  *)
(* commands meanwhile; SetComplete ends the sequence from the ground.  The *)
(* two tasks share MISSION_Data, which the child task reads and writes     *)
(* without the mutex, and both write the state file.                       *)
(*                                                                         *)
(* One step here is a stretch of code during which the order of the task's *)
(* accesses to what is shared makes no difference to the other task.  Two  *)
(* of them hold several stores: MISSION_LEOP_Wait tests the request before *)
(* it clears LEOPWaitComplete, which the loop makes good at its first look *)
(* at the request; and the stores of MISSION_LEOP_RequestComplete, whose   *)
(* first one is the request that the child task tests.                     *)
(***************************************************************************)
EXTENDS Integers, FiniteSetsExt

CONSTANTS
  REPEAT_COUNT,      \* MISSION_LEOP_SEQUENCE_REPEAT_COUNT
  INITIAL_WAIT_SEC,  \* MISSION_LEOP_INITIAL_WAIT_SEC
  BURN_DURATION_SEC, \* MISSION_LEOP_BURN_DURATION_SEC
  POST_WAIT_SEC,     \* MISSION_LEOP_POST_BURN_WAIT_SEC
  SAVE_INTERVAL_SEC, \* MISSION_LEOP_SAVE_INTERVAL_SEC
  TimeMod,           \* 2^32 in the code: seconds are unsigned and wrap
  MaxDelay,          \* the longest a one-second delay may take
  Jumps,             \* by how much the ground may move the clock at once
  Faults,            \* the operations that may fail
  MaxCrashes, MaxRequests, MaxJumps, MaxFaults

VARIABLES
  data,   \* MISSION_Data, the fields both tasks use
  leop,   \* the child task: where it is, and its local variables
  save,   \* for each task, where in MISSION_LEOP_SaveState it is
  disk,   \* the state file, what a crash may leave of it, and its mutex
  out,    \* the deployment GPIO and the telemetry output
  env,    \* how many crashes, requests, clock jumps and file errors there were
  hist    \* what the properties remember of the past: the seconds of initial wait, those
          \* since the GPIO rose, whether a LOW was lost since then, the burns, those
          \* after a request, and whether a boot could not read the file

vars == <<data, leop, save, disk, out, env, hist>>

INITIAL_WAIT == "INITIAL_WAIT"
BURN == "BURN"
TO_ENABLE == "TO_ENABLE"
POST_WAIT == "POST_WAIT"
COMPLETE == "COMPLETE"
States == {INITIAL_WAIT, BURN, TO_ENABLE, POST_WAIT, COMPLETE}

Tasks == {"LEOP", "CMD"}
NoTask == "none"

Seconds == 0 .. TimeMod - 1

ASSUME SequenceAssumption ==
  /\ {REPEAT_COUNT, INITIAL_WAIT_SEC, BURN_DURATION_SEC, POST_WAIT_SEC,
      SAVE_INTERVAL_SEC, MaxDelay} \subseteq Nat \ {0}
  /\ TimeMod \in Nat
  /\ \A w \in {INITIAL_WAIT_SEC, BURN_DURATION_SEC, POST_WAIT_SEC} :
       w + SAVE_INTERVAL_SEC + MaxDelay < TimeMod

ASSUME EnvironmentAssumption ==
  /\ Jumps \subseteq Int
  /\ Faults \subseteq {"save", "load", "transmit"}
  /\ {MaxCrashes, MaxRequests, MaxJumps, MaxFaults} \subseteq Nat

-----------------------------------------------------------------------------
(* The state file.  Its signature, version and CRC are abstracted: a file  *)
(* that was not written in full is NoFile, and every other one is intact.  *)

NoFile == [state |-> "NONE", cycle |-> 0, elapsed |-> 0]

FileData == [state : States, cycle : 0 .. REPEAT_COUNT, elapsed : Seconds]

Complete == [state |-> COMPLETE, cycle |-> REPEAT_COUNT, elapsed |-> 0]

GetWaitDuration(s) ==
  CASE s = INITIAL_WAIT -> INITIAL_WAIT_SEC
    [] s = BURN         -> BURN_DURATION_SEC
    [] s = POST_WAIT    -> POST_WAIT_SEC
    [] OTHER            -> 0

\* What MISSION_LEOP_LoadState accepts.
ValidFile(fd) ==
  /\ fd # NoFile
  /\ fd.state = INITIAL_WAIT => fd.cycle = 0
  /\ fd.state = COMPLETE <=> fd.cycle = REPEAT_COUNT
  /\ fd.elapsed <= GetWaitDuration(fd.state)

CopyRuntimeToFile ==
  [state   |-> data.State,
   cycle   |-> data.CycleCount,
   elapsed |-> data.WaitElapsed]

AfterRenameInPlace(survivors, fd) == {NoFile, fd}

\* The temporary file is on the medium before it is renamed, and the
\* directory is not: a crash leaves the old file or the new one.
AfterRename(survivors, fd) == survivors \cup {fd}

-----------------------------------------------------------------------------
(* Initial states: the first boot, without a state file.                   *)

RuntimeZero ==
  [State |-> INITIAL_WAIT, CycleCount |-> 0, WaitElapsed |-> 0,
   WaitComplete |-> FALSE, CompleteRequested |-> FALSE]

\* The child task with nothing in its local variables.
TaskAt(label) ==
  [pc |-> label, ret |-> "none", dur |-> 0, Cycle |-> 0, read |-> NoFile,
   saved |-> 0, session |-> 0, nextSave |-> 0]

SaveIdle == [t \in Tasks |-> [pc |-> "idle", fd |-> NoFile, ok |-> TRUE]]

Init ==
  /\ data = RuntimeZero
  /\ leop = TaskAt("load")
  /\ save = SaveIdle
  /\ disk = [file |-> NoFile, survivors |-> {NoFile}, owner |-> NoTask]
  /\ out = [gpio |-> "LOW", downlink |-> FALSE]
  /\ env = [crashes |-> 0, requests |-> 0, jumps |-> 0, faults |-> 0]
  /\ hist = [quiet |-> 0, lit |-> 0, lost |-> FALSE, burns |-> 0, late |-> 0,
             unread |-> FALSE]

-----------------------------------------------------------------------------
(* MISSION_LEOP_SaveState, by either task.  The mutex of MISSION_Data      *)
(* covers the snapshot, the mutex of the file the rest.                    *)

CallSave(t) == save' = [save EXCEPT ![t].pc = "copy"]

\* Its status matters to LoadState; every other call of the child task
\* discards it, and the main task only reports it.
SaveReturn(t, ok) ==
  LET used == t = "LEOP" /\ leop.pc = "defaultsSaved"
  IN  [save EXCEPT ![t] = [pc |-> "idle", fd |-> NoFile, ok |-> used => ok]]

SaveCopy(t) ==
  /\ save[t].pc = "copy"
  /\ save' = [save EXCEPT ![t].pc = "store", ![t].fd = CopyRuntimeToFile]
  /\ UNCHANGED <<data, leop, disk, out, env, hist>>

\* The temporary file is written, synchronised and renamed.
SaveStore(t) ==
  /\ save[t].pc = "store"
  /\ disk.owner = NoTask
  /\ disk' = [file      |-> save[t].fd,
              survivors |-> AfterRename(disk.survivors, save[t].fd),
              owner     |-> t]
  /\ save' = [save EXCEPT ![t].pc = "sync"]
  /\ UNCHANGED <<data, leop, out, env, hist>>

\* An operation on a file fails, MaxFaults times at most.
FileFault(kind) ==
  /\ kind \in Faults
  /\ env.faults < MaxFaults
  /\ env' = [env EXCEPT !.faults = @ + 1]

\* Opening, writing, synchronising or renaming the temporary file fails.
SaveStoreFails(t) ==
  /\ FileFault("save")
  /\ save[t].pc = "store"
  /\ disk.owner = NoTask
  /\ save' = SaveReturn(t, FALSE)
  /\ UNCHANGED <<data, leop, disk, out, hist>>

\* The directory is synchronised and the file mutex given back.
SaveSync(t) ==
  /\ save[t].pc = "sync"
  /\ \/ /\ disk' = [disk EXCEPT !.survivors = {disk.file}, !.owner = NoTask]
        /\ save' = SaveReturn(t, TRUE)
        /\ UNCHANGED env
     \/ /\ FileFault("save")
        /\ disk' = [disk EXCEPT !.owner = NoTask]
        /\ save' = SaveReturn(t, FALSE)
  /\ UNCHANGED <<data, leop, out, hist>>

SaveStep(t) == SaveCopy(t) \/ SaveStore(t) \/ SaveStoreFails(t) \/ SaveSync(t)

-----------------------------------------------------------------------------
(* The child task runs one label after the other; it stays in SaveState    *)
(* while its save is not idle.                                             *)

At(label) == leop.pc = label /\ save["LEOP"].pc = "idle"

Goto(label) == leop' = [leop EXCEPT !.pc = label]

CallWait(dur, ret) == leop' = [leop EXCEPT !.pc = "wait", !.dur = dur, !.ret = ret]

Requested == data.CompleteRequested

LoadReadBelowRepeat ==
  /\ At("load")
  /\ disk.owner = NoTask
  /\ leop' = [leop EXCEPT !.pc = IF ValidFile(disk.file) /\ disk.file.cycle < REPEAT_COUNT
                                  THEN "copy" ELSE "defaults",
                          !.read = disk.file]
  /\ UNCHANGED <<data, save, disk, out, env, hist>>

\* MISSION_LEOP_LoadState, up to the end of its checks of what it has read.
LoadRead ==
  /\ At("load")
  /\ disk.owner = NoTask
  /\ leop' = [leop EXCEPT !.pc = IF ValidFile(disk.file) THEN "copy" ELSE "defaults",
                          !.read = disk.file]
  /\ UNCHANGED <<data, save, disk, out, env, hist>>

\* The file cannot be opened or positioned, and the defaults are not saved, or
\* its read fails, and the defaults replace it.
LoadFails ==
  /\ FileFault("load")
  /\ At("load")
  /\ Goto("failed") \/ Goto("defaults")
  /\ hist' = [hist EXCEPT !.unread = TRUE]
  /\ UNCHANGED <<data, save, disk, out>>

\* MISSION_LEOP_CopyFileToRuntime assigns field after field, without the
\* mutex: a completion request may come in between.
CopyCycle ==
  /\ At("copy")
  /\ data' = [data EXCEPT !.CycleCount = leop.read.cycle, !.WaitElapsed = 0,
                          !.WaitComplete = FALSE, !.State = INITIAL_WAIT]
  /\ Goto("copyState")
  /\ UNCHANGED <<save, disk, out, env, hist>>

CopyState ==
  /\ At("copyState")
  /\ data' = [data EXCEPT !.State = leop.read.state]
  /\ Goto("copyElapsed")
  /\ UNCHANGED <<save, disk, out, env, hist>>

CopyElapsed ==
  /\ At("copyElapsed")
  /\ data' = [data EXCEPT
       !.WaitElapsed = leop.read.elapsed,
       !.WaitComplete = @ \/ leop.read.elapsed >= GetWaitDuration(data.State)]
  /\ leop' = TaskAt("loaded")
  /\ UNCHANGED <<save, disk, out, env, hist>>

\* MISSION_LEOP_SetDefaults, in two stretches for the same reason.
DefaultCycle ==
  /\ \/ At("defaults") /\ Goto("defaultState")
     \/ At("failed") /\ Goto("failedState")
  /\ data' = [data EXCEPT !.WaitComplete = FALSE, !.WaitElapsed = 0, !.CycleCount = 0]
  /\ UNCHANGED <<save, disk, out, env, hist>>

\* An invalid file is replaced by the defaults at once ...
DefaultState ==
  /\ At("defaultState")
  /\ data' = [data EXCEPT !.State = INITIAL_WAIT]
  /\ CallSave("LEOP")
  /\ Goto("defaultsSaved")
  /\ UNCHANGED <<disk, out, env, hist>>

\* ... and when that fails, MISSION_LEOP_Process takes the load as failed.
DefaultsSaved ==
  /\ At("defaultsSaved")
  /\ leop' = TaskAt(IF save["LEOP"].ok THEN "loaded" ELSE "failed")
  /\ UNCHANGED <<data, save, disk, out, env, hist>>

FailedState ==
  /\ At("failedState")
  /\ data' = [data EXCEPT !.State = INITIAL_WAIT]
  /\ Goto("loaded")
  /\ UNCHANGED <<save, disk, out, env, hist>>

-----------------------------------------------------------------------------
(* MISSION_LEOP_Wait, called with leop.dur and leaving for leop.ret.       *)

WaitReturn == leop' = [TaskAt(leop.ret) EXCEPT !.Cycle = leop.Cycle]

WaitReset(d) == [d EXCEPT !.WaitComplete = FALSE, !.WaitElapsed = 0]

TotalElapsedTwice(saved, session) == (saved + saved + session) % TimeMod

TotalElapsedSwapped(saved, session) == saved - session

\* SavedElapsedSec + CFE_TIME_Subtract(Now, LEOPStartTime).Seconds, unsigned.
TotalElapsed(saved, session) == (saved + session) % TimeMod

SkipsWaitIgnoringRequest == data.WaitElapsed >= leop.dur

SkipsWait == Requested \/ data.WaitElapsed >= leop.dur

WaitEnter ==
  /\ At("wait")
  /\ ~SkipsWait
  /\ data' = [data EXCEPT !.WaitComplete = FALSE]
  /\ leop' = [leop EXCEPT !.pc = "loop", !.saved = data.WaitElapsed, !.session = 0,
                          !.nextSave = data.WaitElapsed + SAVE_INTERVAL_SEC]
  /\ UNCHANGED <<save, disk, out, env, hist>>

WaitSkip ==
  /\ At("wait")
  /\ SkipsWait
  /\ data' = WaitReset(data)
  /\ WaitReturn
  /\ UNCHANGED <<save, disk, out, env, hist>>

TicksSinceLastPoll(session, d) == d

Ticks(session, d) == (session + d) % TimeMod

\* The loop's test, and OS_TaskDelay when it goes on.
WaitLoop ==
  /\ At("loop")
  /\ \/ /\ data.WaitComplete
        /\ Goto("waitEnd")
        /\ UNCHANGED hist
     \/ /\ ~data.WaitComplete
        /\ \E d \in 1 .. MaxDelay :
             /\ leop' = [leop EXCEPT !.pc = "poll", !.session = Ticks(@, d)]
             /\ hist' = [hist EXCEPT
                  !.quiet = IF leop.ret = "initialEnd"
                              THEN Min({@ + d, INITIAL_WAIT_SEC}) ELSE @,
                  !.lit = IF out.gpio = "HIGH" THEN Min({@ + d, BURN_DURATION_SEC + MaxDelay}) ELSE @]
  /\ UNCHANGED <<data, save, disk, out, env>>

WaitPoll ==
  /\ At("poll")
  /\ Goto(IF Requested THEN "waitEnd" ELSE "note")
  /\ UNCHANGED <<data, save, disk, out, env, hist>>

WaitNote ==
  /\ At("note")
  /\ LET total == TotalElapsed(leop.saved, leop.session)
     IN  data' = [data EXCEPT !.WaitComplete = @ \/ total >= leop.dur,
                              !.WaitElapsed = Min({total, leop.dur})]
  /\ Goto("noteSave")
  /\ UNCHANGED <<save, disk, out, env, hist>>

WaitNoteSave ==
  /\ At("noteSave")
  /\ \/ /\ data.WaitComplete \/ data.WaitElapsed >= leop.nextSave
        /\ CallSave("LEOP")
        /\ Goto("noteNext")
     \/ /\ ~data.WaitComplete
        /\ data.WaitElapsed < leop.nextSave
        /\ Goto("loop")
        /\ UNCHANGED save
  /\ UNCHANGED <<data, disk, out, env, hist>>

WaitNoteNext ==
  /\ At("noteNext")
  /\ leop' = [leop EXCEPT !.pc = "loop", !.nextSave = data.WaitElapsed + SAVE_INTERVAL_SEC]
  /\ UNCHANGED <<data, save, disk, out, env, hist>>

WaitEnd ==
  /\ At("waitEnd")
  /\ data' = WaitReset(data)
  /\ WaitReturn
  /\ UNCHANGED <<save, disk, out, env, hist>>

WaitStep ==
  \/ WaitEnter \/ WaitSkip \/ WaitLoop \/ WaitPoll
  \/ WaitNote \/ WaitNoteSave \/ WaitNoteNext \/ WaitEnd

-----------------------------------------------------------------------------
(* MISSION_LEOP_Process, after the load.                                   *)

\* The message to TO_LAB or to GPIO is delivered, or its transmission fails.
Transmits(sent) ==
  \/ out' = sent
  \/ "transmit" \in Faults /\ out' = out

LoadedSilently ==
  /\ At("loaded")
  /\ Goto(IF data.State = COMPLETE THEN "done" ELSE "branch")
  /\ UNCHANGED <<data, save, disk, out, env, hist>>

\* A sequence that is over only enables the telemetry output.
Loaded ==
  /\ At("loaded")
  /\ \/ /\ data.State = COMPLETE
        /\ Transmits([out EXCEPT !.downlink = TRUE])
        /\ Goto("done")
     \/ /\ data.State # COMPLETE
        /\ Goto("branch")
        /\ UNCHANGED out
  /\ UNCHANGED <<data, save, disk, env, hist>>

Branch ==
  /\ At("branch")
  /\ IF data.State = INITIAL_WAIT
       THEN CallWait(INITIAL_WAIT_SEC, "initialEnd")
       ELSE Goto("for")
  /\ UNCHANGED <<data, save, disk, out, env, hist>>

\* The tests of LEOPCompleteRequested between the stages.
CheckRequest ==
  /\ \/ At("initialEnd") /\ Goto(IF Requested THEN "for" ELSE "toBurn")
     \/ At("burned") /\ Goto(IF Requested THEN "final" ELSE "saveBurned")
     \/ At("burnSaved") /\ Goto(IF Requested THEN "final" ELSE "toEnable")
     \/ At("enabled") /\ Goto(IF Requested THEN "final" ELSE "saveEnabled")
     \/ At("enableSaved") /\ Goto(IF Requested THEN "final" ELSE "toPost")
     \/ At("postEnd") /\ Goto(IF Requested THEN "final" ELSE "count")
  /\ UNCHANGED <<data, save, disk, out, env, hist>>

Saves ==
  /\ \/ At("saveBurned") /\ Goto("burnSaved")
     \/ At("saveEnabled") /\ Goto("enableSaved")
  /\ CallSave("LEOP")
  /\ UNCHANGED <<data, disk, out, env, hist>>

ToBurn ==
  /\ At("toBurn")
  /\ data' = [data EXCEPT !.State = BURN]
  /\ CallSave("LEOP")
  /\ Goto("for")
  /\ UNCHANGED <<disk, out, env, hist>>

LoopEntersOnceMore(cycle) == cycle <= REPEAT_COUNT /\ ~Requested

LoopEntersOnceLess(cycle) == cycle + 1 < REPEAT_COUNT /\ ~Requested

LoopEnters(cycle) == cycle < REPEAT_COUNT /\ ~Requested

\* The loop starts from LEOPCycleCount, and later increments its own Cycle.
For ==
  /\ \/ /\ At("for")
        /\ leop' = [leop EXCEPT !.Cycle = data.CycleCount,
                                !.pc = IF LoopEnters(data.CycleCount) THEN "burnStart" ELSE "final"]
     \/ /\ At("next")
        /\ leop' = [leop EXCEPT !.Cycle = @ + 1,
                                !.pc = IF LoopEnters(leop.Cycle + 1) THEN "burnStart" ELSE "final"]
  /\ UNCHANGED <<data, save, disk, out, env, hist>>

BurnStartResumed(d) == [d EXCEPT !.State = BURN]

\* MISSION_LEOP_Wait(0) forgets the time the file had recorded.
BurnStart(d) == [WaitReset(d) EXCEPT !.State = BURN]

StartBurn ==
  /\ At("burnStart")
  /\ data' = BurnStart(data)
  /\ Goto("gpioHigh")
  /\ UNCHANGED <<save, disk, out, env, hist>>

\* MISSION_LEOP_GpioHigh: HIGH, the burn, LOW; without HIGH there is no burn.
GpioHigh ==
  /\ At("gpioHigh")
  /\ \/ /\ out' = [out EXCEPT !.gpio = "HIGH"]
        /\ CallWait(BURN_DURATION_SEC, "gpioLow")
        /\ hist' = [hist EXCEPT !.burns = @ + 1, !.late = IF Requested THEN @ + 1 ELSE @]
     \/ /\ "transmit" \in Faults
        /\ Goto("burned")
        /\ UNCHANGED <<out, hist>>
  /\ UNCHANGED <<data, save, disk, env>>

GpioLowUnlessRequested ==
  /\ At("gpioLow")
  /\ IF Requested THEN UNCHANGED out ELSE Transmits([out EXCEPT !.gpio = "LOW"])
  /\ Goto("burned")
  /\ UNCHANGED <<data, save, disk, env, hist>>

GpioLow ==
  /\ At("gpioLow")
  /\ Transmits([out EXCEPT !.gpio = "LOW"])
  /\ hist' = [hist EXCEPT !.lit = IF out'.gpio = "LOW" THEN 0 ELSE @,
                          !.lost = out'.gpio = "HIGH"]
  /\ Goto("burned")
  /\ UNCHANGED <<data, save, disk, env>>

ToEnable ==
  /\ At("toEnable")
  /\ data' = [data EXCEPT !.State = TO_ENABLE]
  /\ Transmits([out EXCEPT !.downlink = TRUE])
  /\ Goto("enabled")
  /\ UNCHANGED <<save, disk, env, hist>>

ToPost ==
  /\ At("toPost")
  /\ data' = [data EXCEPT !.State = POST_WAIT]
  /\ CallSave("LEOP")
  /\ CallWait(POST_WAIT_SEC, "postEnd")
  /\ UNCHANGED <<disk, out, env, hist>>

NextStateOffByOne(n) == IF n <= REPEAT_COUNT THEN BURN ELSE COMPLETE

NextState(n) == IF n < REPEAT_COUNT THEN BURN ELSE COMPLETE

CountCycle ==
  /\ At("count")
  /\ data' = [data EXCEPT !.CycleCount = leop.Cycle + 1]
  /\ Goto("countState")
  /\ UNCHANGED <<save, disk, out, env, hist>>

\* LEOPCycleCount is not volatile: the compiler may read it again, after a
\* completion request, or use the value it has just assigned.
CountState ==
  /\ At("countState")
  /\ \E n \in {leop.Cycle + 1, data.CycleCount} :
       data' = [data EXCEPT !.State = NextState(n)]
  /\ CallSave("LEOP")
  /\ Goto("next")
  /\ UNCHANGED <<disk, out, env, hist>>

Final ==
  /\ At("final")
  /\ data' = [data EXCEPT !.WaitElapsed = 0, !.WaitComplete = TRUE,
                          !.CycleCount = REPEAT_COUNT, !.State = COMPLETE]
  /\ CallSave("LEOP")
  /\ Goto("done")
  /\ UNCHANGED <<disk, out, env, hist>>

LeopStep ==
  \/ LoadRead \/ LoadFails \/ CopyCycle \/ CopyState \/ CopyElapsed
  \/ DefaultCycle \/ DefaultState \/ DefaultsSaved \/ FailedState
  \/ WaitStep
  \/ Loaded \/ Branch \/ CheckRequest \/ Saves \/ ToBurn \/ For \/ StartBurn
  \/ GpioHigh \/ GpioLow \/ ToEnable \/ ToPost \/ CountCycle \/ CountState
  \/ Final

-----------------------------------------------------------------------------
(* The main task, and the environment.                                     *)

\* MISSION_LEOP_RequestComplete, whose SaveState follows.
RequestComplete ==
  /\ env.requests < MaxRequests
  /\ save["CMD"].pc = "idle"
  /\ data' = [State |-> COMPLETE, CycleCount |-> REPEAT_COUNT, WaitElapsed |-> 0,
              WaitComplete |-> TRUE, CompleteRequested |-> TRUE]
  /\ CallSave("CMD")
  /\ env' = [env EXCEPT !.requests = @ + 1]
  /\ UNCHANGED <<leop, disk, out, hist>>

\* A reset: MISSION_Init clears MISSION_Data and starts the child task again,
\* GPIO drives DEP1_EN LOW and TO_LAB starts without output.
Crash ==
  /\ env.crashes < MaxCrashes
  /\ data' = RuntimeZero
  /\ leop' = TaskAt("load")
  /\ save' = SaveIdle
  /\ \E fd \in disk.survivors :
       disk' = [file |-> fd, survivors |-> {fd}, owner |-> NoTask]
  /\ out' = [gpio |-> "LOW", downlink |-> FALSE]
  /\ env' = [env EXCEPT !.crashes = @ + 1]
  /\ hist' = [hist EXCEPT !.lit = 0, !.lost = FALSE, !.late = 0]

\* The spacecraft time is set while the child task measures a wait.
ClockJump ==
  /\ env.jumps < MaxJumps
  /\ leop.pc \in {"loop", "poll", "note", "noteSave", "noteNext"}
  /\ \E j \in Jumps : leop' = [leop EXCEPT !.session = (@ + j) % TimeMod]
  /\ env' = [env EXCEPT !.jumps = @ + 1]
  /\ UNCHANGED <<data, save, disk, out, hist>>

Next ==
  \/ LeopStep
  \/ \E t \in Tasks : SaveStep(t)
  \/ RequestComplete
  \/ Crash
  \/ ClockJump

Spec == Init /\ [][Next]_vars

\* Both tasks keep running: each sleeps or pends when it has nothing to do,
\* so that neither keeps the processor from the other.
Fairness ==
  /\ WF_vars(LeopStep)
  /\ \A t \in Tasks : WF_vars(SaveStep(t))

FairSpec == Spec /\ Fairness

-----------------------------------------------------------------------------
(* Properties.                                                             *)

WaitPcs == {"wait", "loop", "poll", "note", "noteSave", "noteNext", "waitEnd"}

LoadPcs == {"load", "copy", "copyState", "copyElapsed", "defaults", "defaultState",
            "defaultsSaved", "failed", "failedState"}

StagePcs == {"loaded", "branch", "initialEnd", "toBurn", "for", "burnStart",
             "gpioHigh", "gpioLow", "burned", "saveBurned", "burnSaved",
             "toEnable", "enabled", "saveEnabled", "enableSaved", "toPost",
             "postEnd", "count", "countState", "next", "final", "done"}

\* The variables have their types: no state the two tasks write without a
\* common lock leaves its range, and the loop counter stays below its limit.
TypeOK ==
  /\ data \in [State : States, CycleCount : 0 .. REPEAT_COUNT, WaitElapsed : Seconds,
               WaitComplete : BOOLEAN, CompleteRequested : BOOLEAN]
  /\ leop \in [pc : LoadPcs \cup WaitPcs \cup StagePcs,
               ret : {"none", "initialEnd", "gpioLow", "postEnd"},
               dur : Seconds, Cycle : 0 .. REPEAT_COUNT, read : FileData \cup {NoFile},
               saved : Seconds, session : Seconds, nextSave : Seconds]
  /\ save \in [Tasks -> [pc : {"idle", "copy", "store", "sync"},
                         fd : FileData \cup {NoFile}, ok : BOOLEAN]]
  /\ disk.file \in FileData \cup {NoFile}
  /\ disk.file \in disk.survivors
  /\ disk.survivors \subseteq FileData \cup {NoFile}
  /\ disk.owner \in Tasks \cup {NoTask}
  /\ out \in [gpio : {"LOW", "HIGH"}, downlink : BOOLEAN]

\* LoadState rejects a state file only at the first boot, or because a
\* completion request raced with the child task: the sequence alone, over
\* resets, never writes a file that would make it start over.
RejectedOnlyInRace ==
  ~ValidFile(disk.file) => Requested \/ leop.pc \in LoadPcs

Rank(fd) ==
  CASE fd = NoFile             -> 0
    [] fd.state = INITIAL_WAIT -> 1
    [] OTHER                   -> 2 + fd.cycle

LeastRank(d) == Min({Rank(fd) : fd \in d.survivors})

\* A reset at any moment, even inside SaveState, or a failing save, costs no
\* finished cycle: what the medium is sure to hold after a reset never goes
\* back, unless the ground completes the sequence or the file could not be
\* read at a boot, which starts over from the defaults.
ProgressIsKept ==
  [][(env'.requests = 0 /\ ~hist'.unread)
       => LeastRank(disk') >= LeastRank(disk)]_vars

\* The sequence is recorded as complete only after every cycle has burned,
\* however often it was reset (the completion not being commanded).
AllCyclesBurned ==
  (env.requests = 0 /\ \E fd \in disk.survivors : fd.state = COMPLETE)
    => hist.burns >= REPEAT_COUNT

\* A reset repeats at most the burn of the cycle it interrupts.
BurnsBounded ==
  env.requests = 0 => hist.burns <= REPEAT_COUNT + env.crashes

\* Over all boots every cycle burns, and none burns again but the one that a
\* reset has interrupted.
BurnsExact == AllCyclesBurned /\ BurnsBounded

\* The deployment never starts before the initial wait is over, counted over
\* resets, the elapsed seconds being resumed from the state file.
NoEarlyBurn ==
  (out.gpio = "HIGH" /\ env.jumps = 0) => hist.quiet >= INITIAL_WAIT_SEC

\* The shared fields keep their ranges under failing saves and loads, and no
\* failure brings the first burn forward.
LeopSound == TypeOK /\ NoEarlyBurn

\* When the resistor is released, neither by a request nor by a reset, it has
\* been HIGH for the time of a burn, and for no longer than the task's last delay
\* oversleeps unless a message that should have released it was lost; a burn
\* started after a reset is not shortened by the seconds its predecessor recorded.
BurnLastsItsTime ==
  [][(/\ out.gpio = "HIGH" /\ out'.gpio = "LOW"
      /\ env'.crashes = env.crashes /\ env.jumps = 0 /\ ~Requested)
     => /\ hist.lit >= BURN_DURATION_SEC
        /\ hist.lost \/ hist.lit < BURN_DURATION_SEC + MaxDelay]_vars

\* The resistor is HIGH only while the child task is in the burn's wait or
\* about to drive it LOW, whatever the ground commands meanwhile.
GpioReleased ==
  out.gpio = "HIGH" =>
    \/ leop.pc = "gpioLow"
    \/ leop.pc \in WaitPcs /\ leop.ret = "gpioLow"

\* A completion request lets at most the burn start that has passed the
\* loop's test, and that burn is released without a second of waiting, unless
\* the message that should have released an earlier one was lost.
RequestStopsBurning ==
  hist.late <= 1 /\ (hist.late = 1 => hist.lit = 0 \/ hist.lost)

\* When the child task ends by itself the telemetry output is on, after a
\* reset of a finished sequence too.
TelemetryOn ==
  (leop.pc = "done" /\ ~Requested) => out.downlink

\* The sequence leaves what it commands as it should be: the resistor released
\* and, if it ends by itself, the telemetry on.
OutputsLeftSafe == GpioReleased /\ TelemetryOn

Settled ==
  /\ leop.pc = "done"
  /\ \A t \in Tasks : save[t].pc = "idle"
  /\ disk.survivors = {Complete}

\* Once the task has ended and the file says COMPLETE, no reset makes the file
\* say anything else or starts another burn, as long as the ground does not
\* repeat its request: one that meets the load after a reset may be saved as
\* a file that is half COMPLETE and half default.
CompletionIsFinal ==
  \A n \in 0 .. MaxRequests :
    [](Settled /\ env.requests = n
         => [](env.requests = n => disk.file = Complete /\ out.gpio = "LOW"))

\* The sequence ends, in spite of resets, clock jumps and requests, and
\* unless it raced with a request it is recorded as complete.
EventuallyComplete ==
  <>[](/\ leop.pc = "done"
       /\ out.gpio = "LOW"
       /\ Requested \/ disk.survivors = {Complete})
==============================================================================
