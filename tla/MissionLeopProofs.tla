-------------------------- MODULE MissionLeopProofs --------------------------
(***************************************************************************)
(* Proofs about the LEOP sequence: for every number of cycles, every       *)
(* duration, clock and bound, and for every interleaving of the child      *)
(* task, the commands of the ground, resets, faults and clock jumps that   *)
(* MissionLeop allows.                                                     *)
(***************************************************************************)
EXTENDS MissionLeop, WellFoundedInduction, TLAPS

-----------------------------------------------------------------------------
(* The inductive invariant, for all constants.                              *)

Files == FileData \cup {NoFile}

\* TypeOK, with the types of what it leaves open.
TypeInv ==
  /\ TypeOK
  /\ disk \in [file : Files, survivors : SUBSET Files, owner : Tasks \cup {NoTask}]
  /\ env \in [crashes : Nat, requests : Nat, jumps : Nat, faults : Nat]
  /\ hist \in [quiet : 0 .. INITIAL_WAIT_SEC, lit : Nat, lost : BOOLEAN, burns : Nat, late : Nat,
             unread : BOOLEAN]

CopyPcs == {"copy", "copyState", "copyElapsed"}
TimingPcs == {"loop", "poll", "note", "noteSave", "noteNext"}
BurnPcs == {"gpioHigh", "gpioLow", "burned", "saveBurned", "burnSaved", "toEnable"}
EnablePcs == {"enabled", "saveEnabled", "enableSaved", "toPost"}
PostPcs == {"postEnd", "count", "countState"}

Waiting(ret) == leop.pc \in WaitPcs /\ leop.ret = ret

Burning == leop.pc \in BurnPcs \/ Waiting("gpioLow")
Posting == leop.pc \in PostPcs \/ Waiting("postEnd")

\* Inside a cycle of MISSION_LEOP_Process.
InLoop == leop.pc \in {"burnStart", "next"} \cup EnablePcs \/ Burning \/ Posting

\* Where the child task is while its SaveState runs.
SavePcs == {"defaultsSaved", "noteNext", "burnSaved", "enableSaved", "for", "wait", "next", "done"}

WaitTime(ret) ==
  CASE ret = "initialEnd" -> INITIAL_WAIT_SEC
    [] ret = "gpioLow"    -> BURN_DURATION_SEC
    [] ret = "postEnd"    -> POST_WAIT_SEC
    [] OTHER              -> 0

\* The child task's own variables, and the seconds of the shared wait that a
\* request cannot bring out of step with them.
ControlInv ==
  /\ leop.pc \in WaitPcs => leop.ret # "none" /\ leop.dur = WaitTime(leop.ret)
  /\ leop.pc \in CopyPcs => leop.read \in FileData /\ ValidFile(leop.read)
  /\ InLoop => leop.Cycle < REPEAT_COUNT
  /\ leop.pc \in TimingPcs => data.WaitElapsed <= leop.dur
  /\ \/ leop.pc \in {"copyState", "copyElapsed", "defaultState", "failedState", "defaultsSaved",
                     "initialEnd", "toBurn", "next"}
     \/ leop.pc \in BurnPcs \cup EnablePcs \cup PostPcs
     \/ leop.pc = "wait" /\ leop.ret # "initialEnd"
     => data.WaitElapsed = 0
  /\ save["LEOP"].pc # "idle" => leop.pc \in SavePcs
  /\ Requested => env.requests > 0
  /\ ~Requested => save["CMD"].pc = "idle"

\* The shared fields, as long as no request has overwritten them: the state is
\* that of the stage the child task is in, and what is saved would be accepted.
DataInv ==
  ~Requested =>
    /\ leop.pc = "copyState" => data.State = INITIAL_WAIT
    /\ leop.pc = "copyElapsed" => data.State = leop.read.state
    /\ leop.pc \in {"copyState", "copyElapsed"} => data.CycleCount = leop.read.cycle
    /\ leop.pc \in {"defaultState", "failedState", "defaultsSaved"} => data.CycleCount = 0
    /\ leop.pc = "defaultsSaved" => data.State = INITIAL_WAIT
    /\ leop.pc = "branch" => data.State # COMPLETE
    /\ Waiting("initialEnd") \/ leop.pc \in {"initialEnd", "toBurn"} => data.State = INITIAL_WAIT
    /\ leop.pc \in {"for", "burnStart"} => data.State \in {BURN, TO_ENABLE, POST_WAIT}
    /\ Burning => data.State = BURN
    /\ leop.pc \in EnablePcs => data.State = TO_ENABLE
    /\ Posting => data.State = POST_WAIT
    /\ leop.pc = "burnStart" \/ Burning \/ leop.pc \in EnablePcs \/ (Posting /\ leop.pc # "countState")
       => data.CycleCount = leop.Cycle
    /\ leop.pc \in {"countState", "next"} => data.CycleCount = leop.Cycle + 1
    /\ leop.pc = "next" => data.State = NextState(data.CycleCount)
    /\ leop.pc \in {"final", "done"} => data.State = COMPLETE
    /\ leop.pc \notin LoadPcs \cup {"countState"} => ValidFile(CopyRuntimeToFile)

\* The GPIO is HIGH only in a burn, or because a message LOW was lost.
Held(l) == l.pc = "gpioLow" \/ (l.pc \in WaitPcs /\ l.ret = "gpioLow")

LineInv ==
  /\ out.gpio = "HIGH" => hist.lost \/ Held(leop)
  /\ out.gpio = "LOW" => hist.lit = 0 /\ ~hist.lost
  /\ hist.lost => "transmit" \in Faults

\* A completion request lets the burn start that has passed the test, no other.
LateInv ==
  \/ hist.late = 0
  \/ /\ hist.late = 1 /\ (hist.lit = 0 \/ hist.lost) /\ Requested
     /\ \/ leop.pc = "wait" /\ leop.ret = "gpioLow"
        \/ leop.pc \in {"gpioLow", "burned", "final", "done"}

\* The initial wait, as long as the clock is not set: what memory and file know
\* of the sequence has been waited for.
Waited == hist.quiet >= INITIAL_WAIT_SEC

Past(quiet, state, elapsed) ==
  /\ state \in {BURN, TO_ENABLE, POST_WAIT} => quiet >= INITIAL_WAIT_SEC
  /\ state = INITIAL_WAIT => elapsed <= quiet

\* The state and the seconds in memory, in a snapshot and on the medium.
PastInv ==
  /\ Past(hist.quiet, data.State, data.WaitElapsed)
  /\ Past(hist.quiet, leop.read.state, leop.read.elapsed)
  /\ \A t \in Tasks : Past(hist.quiet, save[t].fd.state, save[t].fd.elapsed)
  /\ \A fd \in disk.survivors : Past(hist.quiet, fd.state, fd.elapsed)

\* Where the child task is.
StageInv ==
  /\ out.gpio = "HIGH" \/ InLoop \/ leop.pc = "toBurn" => Waited
  /\ leop.pc \in {"initialEnd", "for"} => Requested \/ Waited
  /\ leop.pc = "branch" /\ data.State = COMPLETE => Requested
  /\ leop.pc = "copyElapsed" => data.State \in {leop.read.state, COMPLETE}
  /\ InLoop => data.State # INITIAL_WAIT
  /\ leop.pc \in TimingPcs /\ leop.ret = "initialEnd" =>
       /\ Waited \/ leop.saved + leop.session <= hist.quiet
       /\ data.WaitComplete => Requested \/ Waited
  /\ Waiting("initialEnd") /\ leop.pc = "waitEnd" => Requested \/ Waited

QuietInv == env.jumps = 0 => PastInv /\ StageInv

\* The burn, as long as the clock is not set: MISSION_LEOP_Wait counts the
\* seconds it is lit, all of them if no message LOW was lost before.
Counts == leop.session <= hist.lit /\ (~hist.lost => leop.session = hist.lit)

LitInv ==
  env.jumps = 0 =>
    /\ leop.pc = "wait" /\ leop.ret = "gpioLow" =>
         out.gpio = "HIGH" /\ (~hist.lost => hist.lit = 0)
    /\ leop.pc \in TimingPcs /\ leop.ret = "gpioLow" =>
         /\ out.gpio = "HIGH"
         /\ leop.saved = 0 /\ Counts
         /\ leop.session < BURN_DURATION_SEC + MaxDelay
         /\ ~Requested =>
              /\ leop.pc \in {"poll", "note"} => ~data.WaitComplete
              /\ leop.pc \notin {"poll", "note"} /\ data.WaitComplete => leop.session >= BURN_DURATION_SEC
         /\ leop.pc \notin {"poll", "note"} /\ ~data.WaitComplete => leop.session < BURN_DURATION_SEC
    /\ leop.pc = "gpioLow" \/ (Waiting("gpioLow") /\ leop.pc = "waitEnd") =>
         /\ hist.lost \/ hist.lit < BURN_DURATION_SEC + MaxDelay
         /\ Requested \/ hist.lit >= BURN_DURATION_SEC

LeopInv ==
  TypeInv /\ ControlInv /\ DataInv /\ LineInv /\ LateInv /\ QuietInv /\ LitInv

-----------------------------------------------------------------------------
(* The invariants that faults disturb.                                      *)

\* Without a failing save or load.
AcceptedInv ==
  /\ leop.pc \notin {"failed", "failedState"}
  /\ save["LEOP"].ok
  /\ ~Requested =>
    /\ save["LEOP"].pc = "store" => ValidFile(save["LEOP"].fd)
    /\ \/ leop.pc \notin LoadPcs
       \/ leop.pc \in CopyPcs
       \/ leop.pc = "defaultsSaved" /\ save["LEOP"].pc \in {"sync", "idle"}
       => ValidFile(disk.file)

\* Before any request, and while every boot could read the file: the child
\* task is not behind the file, and no file on the medium would be rejected.
Kept ==
  /\ \A fd \in disk.survivors : fd = NoFile \/ ValidFile(fd)
  /\ leop.pc \in CopyPcs => leop.read = disk.file
  /\ leop.pc \in LoadPcs \ (CopyPcs \cup {"load", "defaultsSaved"}) => Rank(disk.file) <= 1
  /\ leop.pc \notin LoadPcs \/ leop.pc = "defaultsSaved" => Rank(disk.file) <= Rank(CopyRuntimeToFile)
  /\ save["LEOP"].pc = "store" => save["LEOP"].fd = CopyRuntimeToFile

KeptInv == env.requests = 0 /\ ~hist.unread => Kept

\* Whether the cycle's burn has started.
Burned ==
  IF leop.pc \in {"gpioLow", "burned", "saveBurned", "burnSaved", "toEnable"} \cup EnablePcs
       \/ Waiting("gpioLow") \/ (Posting /\ leop.pc # "countState")
    THEN 1 ELSE 0

\* Before any request and without faults: how often it has burned, as far as
\* the medium and MISSION_Data know.
Counted ==
  /\ save["LEOP"].pc # "sync" => disk.survivors = {disk.file}
  /\ \A fd \in disk.survivors :
       fd.cycle <= hist.burns /\ hist.burns <= fd.cycle + env.crashes + 1
  /\ leop.pc \in LoadPcs => hist.burns <= disk.file.cycle + env.crashes
  /\ leop.pc \notin LoadPcs =>
       /\ \/ disk.file.cycle = data.CycleCount
          \/ leop.pc = "countState"
          \/ leop.pc = "next" /\ save["LEOP"].pc \in {"copy", "store"}
       /\ data.CycleCount + Burned <= hist.burns
       /\ hist.burns <= data.CycleCount + Burned + env.crashes

CountedInv == env.requests = 0 => ~hist.unread /\ Counted

-----------------------------------------------------------------------------
(* Constants and operators.                                                 *)

LEMMA Constants ==
  /\ REPEAT_COUNT \in Nat /\ REPEAT_COUNT > 0
  /\ INITIAL_WAIT_SEC \in Nat /\ INITIAL_WAIT_SEC > 0
  /\ BURN_DURATION_SEC \in Nat /\ BURN_DURATION_SEC > 0
  /\ POST_WAIT_SEC \in Nat /\ POST_WAIT_SEC > 0
  /\ SAVE_INTERVAL_SEC \in Nat /\ SAVE_INTERVAL_SEC > 0
  /\ MaxDelay \in Nat /\ MaxDelay > 0
  /\ TimeMod \in Nat /\ TimeMod > 0
  /\ INITIAL_WAIT_SEC + SAVE_INTERVAL_SEC + MaxDelay < TimeMod
  /\ BURN_DURATION_SEC + SAVE_INTERVAL_SEC + MaxDelay < TimeMod
  /\ POST_WAIT_SEC + SAVE_INTERVAL_SEC + MaxDelay < TimeMod
<1>1. /\ REPEAT_COUNT \in Nat \ {0} /\ INITIAL_WAIT_SEC \in Nat \ {0}
      /\ BURN_DURATION_SEC \in Nat \ {0} /\ POST_WAIT_SEC \in Nat \ {0}
      /\ SAVE_INTERVAL_SEC \in Nat \ {0} /\ MaxDelay \in Nat \ {0} /\ TimeMod \in Nat
  BY SequenceAssumption
<1>2. /\ INITIAL_WAIT_SEC + SAVE_INTERVAL_SEC + MaxDelay < TimeMod
      /\ BURN_DURATION_SEC + SAVE_INTERVAL_SEC + MaxDelay < TimeMod
      /\ POST_WAIT_SEC + SAVE_INTERVAL_SEC + MaxDelay < TimeMod
  BY SequenceAssumption
<1> QED
  BY <1>1, <1>2

LEMMA MinPair ==
  ASSUME NEW a \in Int, NEW b \in Int
  PROVE  Min({a, b}) = IF a <= b THEN a ELSE b
<1> DEFINE m == IF a <= b THEN a ELSE b
<1>1. m \in {a, b} /\ \A y \in {a, b} : m <= y
  OBVIOUS
<1>2. \A x \in {a, b} : (\A y \in {a, b} : x <= y) => x = m
  OBVIOUS
<1> HIDE DEF m
<1>3. Min({a, b}) = m
  BY <1>1, <1>2 DEF Min
<1> QED
  BY <1>3 DEF m

\* Seconds are counted modulo 2^32.
LEMMA Modulo ==
  ASSUME NEW n \in Nat
  PROVE  n % TimeMod \in Seconds /\ n % TimeMod <= n /\ (n < TimeMod => n % TimeMod = n)
BY Constants DEF Seconds

LEMMA ModuloInt ==
  ASSUME NEW n \in Int
  PROVE  n % TimeMod \in Seconds
BY Constants DEF Seconds

LEMMA WaitTimes ==
  /\ WaitTime("initialEnd") = INITIAL_WAIT_SEC
  /\ WaitTime("gpioLow") = BURN_DURATION_SEC
  /\ WaitTime("postEnd") = POST_WAIT_SEC
BY DEF WaitTime

LEMMA WaitDurations ==
  /\ GetWaitDuration(INITIAL_WAIT) = INITIAL_WAIT_SEC
  /\ GetWaitDuration(BURN) = BURN_DURATION_SEC
  /\ GetWaitDuration(TO_ENABLE) = 0
  /\ GetWaitDuration(POST_WAIT) = POST_WAIT_SEC
  /\ GetWaitDuration(COMPLETE) = 0
BY DEF GetWaitDuration, INITIAL_WAIT, BURN, TO_ENABLE, POST_WAIT, COMPLETE

LEMMA StateNames ==
  /\ INITIAL_WAIT # BURN /\ INITIAL_WAIT # TO_ENABLE /\ INITIAL_WAIT # POST_WAIT
  /\ INITIAL_WAIT # COMPLETE /\ BURN # TO_ENABLE /\ BURN # POST_WAIT /\ BURN # COMPLETE
  /\ TO_ENABLE # POST_WAIT /\ TO_ENABLE # COMPLETE /\ POST_WAIT # COMPLETE
  /\ "NONE" \notin States
BY DEF States, INITIAL_WAIT, BURN, TO_ENABLE, POST_WAIT, COMPLETE

\* MISSION_Data and the child task, field by field.
DataType == [State : States, CycleCount : 0 .. REPEAT_COUNT, WaitElapsed : Seconds,
             WaitComplete : BOOLEAN, CompleteRequested : BOOLEAN]

LeopType == [pc : LoadPcs \cup WaitPcs \cup StagePcs,
             ret : {"none", "initialEnd", "gpioLow", "postEnd"},
             dur : Seconds, Cycle : 0 .. REPEAT_COUNT, read : Files,
             saved : Seconds, session : Seconds, nextSave : Seconds]

SaveType == [pc : {"idle", "copy", "store", "sync"}, fd : Files, ok : BOOLEAN]

DiskOK ==
  /\ disk \in [file : Files, survivors : SUBSET Files, owner : Tasks \cup {NoTask}]
  /\ disk.file \in disk.survivors

EnvOK == env \in [crashes : Nat, requests : Nat, jumps : Nat, faults : Nat]

HistOK == hist \in [quiet : 0 .. INITIAL_WAIT_SEC, lit : Nat, lost : BOOLEAN, burns : Nat, late : Nat,
             unread : BOOLEAN]

OutOK == out \in [gpio : {"LOW", "HIGH"}, downlink : BOOLEAN]

LEMMA TypeParts ==
  TypeInv <=> /\ data \in DataType /\ leop \in LeopType /\ save \in [Tasks -> SaveType]
              /\ DiskOK /\ OutOK /\ EnvOK /\ HistOK
BY DEF TypeInv, TypeOK, DataType, LeopType, SaveType, DiskOK, OutOK, EnvOK, HistOK, Files

LEMMA FileOfData ==
  ASSUME data \in DataType
  PROVE  /\ CopyRuntimeToFile \in FileData /\ CopyRuntimeToFile # NoFile
         /\ CopyRuntimeToFile.state = data.State /\ CopyRuntimeToFile.cycle = data.CycleCount
         /\ CopyRuntimeToFile.elapsed = data.WaitElapsed
BY StateNames DEF CopyRuntimeToFile, DataType, FileData, NoFile

LEMMA RestTypes ==
  /\ NoFile \in Files /\ 0 \in Seconds
  /\ RuntimeZero \in DataType /\ SaveIdle \in [Tasks -> SaveType]
  /\ \A label \in LoadPcs \cup WaitPcs \cup StagePcs : TaskAt(label) \in LeopType
<1>1. NoFile \in Files /\ 0 \in Seconds /\ 0 \in 0 .. REPEAT_COUNT
  BY Constants DEF Files, Seconds
<1>2. RuntimeZero \in DataType
  BY <1>1 DEF RuntimeZero, DataType, States
<1>3. SaveIdle \in [Tasks -> SaveType]
  BY <1>1 DEF SaveIdle, SaveType
<1>4. ASSUME NEW label \in LoadPcs \cup WaitPcs \cup StagePcs PROVE TaskAt(label) \in LeopType
  BY <1>1, <1>4 DEF TaskAt, LeopType
<1> QED
  BY <1>1, <1>2, <1>3, <1>4
-----------------------------------------------------------------------------
(* Types.                                                                   *)

LEMMA InitTypes == Init => TypeInv
<1> SUFFICES ASSUME Init PROVE TypeInv
  OBVIOUS
<1>1. data \in DataType /\ leop \in LeopType /\ save \in [Tasks -> SaveType]
  BY RestTypes DEF Init, LoadPcs
<1>2. DiskOK
  BY RestTypes DEF Init, DiskOK
<1>3. OutOK /\ EnvOK /\ HistOK
  BY Constants DEF Init, OutOK, EnvOK, HistOK
<1> QED
  BY <1>1, <1>2, <1>3, TypeParts

LEMMA NextDataType ==
  ASSUME TypeInv, ControlInv, Next
  PROVE  data' \in DataType
<1>0. data \in DataType /\ leop \in LeopType
  BY TypeParts
<1>c. 0 \in Seconds /\ 0 \in 0 .. REPEAT_COUNT /\ REPEAT_COUNT \in 0 .. REPEAT_COUNT
  BY Constants, RestTypes
<1>s. {INITIAL_WAIT, BURN, TO_ENABLE, POST_WAIT, COMPLETE} \subseteq States
  BY DEF States
<1>w. WaitReset(data) \in DataType
  BY <1>0, <1>c DEF WaitReset, DataType
<1>1. CASE CopyCycle \/ CopyState \/ CopyElapsed
  <2>1. /\ leop.read.cycle \in 0 .. REPEAT_COUNT /\ leop.read.state \in States
        /\ leop.read.elapsed \in Seconds
    BY <1>1 DEF CopyCycle, CopyState, CopyElapsed, At, ControlInv, CopyPcs, FileData
  <2>2. CASE CopyCycle \/ CopyState
    BY <1>0, <1>c, <1>s, <2>1, <2>2 DEF CopyCycle, CopyState, DataType
  <2>3. CASE CopyElapsed
    <3> DEFINE b == data.WaitComplete \/ leop.read.elapsed >= GetWaitDuration(data.State)
    <3>1. b \in BOOLEAN /\ data' = [data EXCEPT !.WaitElapsed = leop.read.elapsed, !.WaitComplete = b]
      BY <2>3 DEF CopyElapsed
    <3> HIDE DEF b
    <3> QED
      BY <1>0, <2>1, <3>1 DEF DataType
  <2> QED
    BY <1>1, <2>2, <2>3
<1>2. CASE DefaultCycle \/ DefaultState \/ FailedState
  BY <1>0, <1>c, <1>s, <1>2 DEF DefaultCycle, DefaultState, FailedState, DataType
<1>3. CASE WaitEnter
  BY <1>0, <1>3 DEF WaitEnter, DataType
<1>4. CASE WaitSkip \/ WaitEnd
  BY <1>w, <1>4 DEF WaitSkip, WaitEnd
<1>5. CASE WaitNote
  <2> DEFINE total == TotalElapsed(leop.saved, leop.session)
             b == data.WaitComplete \/ total >= leop.dur
             e == Min({total, leop.dur})
  <2>1. total \in Seconds /\ leop.dur \in Seconds
    BY <1>0, Modulo DEF TotalElapsed, LeopType, Seconds
  <2>2. e \in Seconds
    BY <2>1, MinPair DEF Seconds
  <2>3. b \in BOOLEAN /\ data' = [data EXCEPT !.WaitComplete = b, !.WaitElapsed = e]
    BY <1>5 DEF WaitNote
  <2> HIDE DEF b, e
  <2> QED
    BY <1>0, <2>2, <2>3 DEF DataType
<1>6. CASE ToBurn \/ ToEnable \/ ToPost
  BY <1>0, <1>s, <1>6 DEF ToBurn, ToEnable, ToPost, DataType
<1>7. CASE StartBurn
  <2>1. data' = [WaitReset(data) EXCEPT !.State = BURN]
    BY <1>7 DEF StartBurn, BurnStart
  <2> QED
    BY <1>s, <1>w, <2>1 DEF DataType
<1>8. CASE CountCycle
  <2>1. leop.Cycle + 1 \in 0 .. REPEAT_COUNT
    BY <1>0, <1>8, Constants DEF CountCycle, At, ControlInv, InLoop, Posting, PostPcs, LeopType
  <2> QED
    BY <1>0, <1>8, <2>1 DEF CountCycle, DataType
<1>9. CASE CountState
  BY <1>0, <1>s, <1>9 DEF CountState, NextState, DataType
<1>10. CASE Final
  BY <1>0, <1>c, <1>s, <1>10 DEF Final, DataType
<1>11. CASE RequestComplete
  BY <1>c, <1>s, <1>11 DEF RequestComplete, DataType
<1>12. CASE Crash
  BY <1>12, RestTypes DEF Crash
<1>13. CASE LoadRead \/ LoadFails \/ DefaultsSaved \/ WaitLoop \/ WaitPoll \/ WaitNoteSave \/ WaitNoteNext
  BY <1>0, <1>13 DEF LoadRead, LoadFails, DefaultsSaved, WaitLoop, WaitPoll, WaitNoteSave, WaitNoteNext
<1>14. CASE Loaded \/ Branch \/ CheckRequest \/ Saves \/ For \/ GpioHigh \/ GpioLow
  BY <1>0, <1>14 DEF Loaded, Branch, CheckRequest, Saves, For, GpioHigh, GpioLow
<1>15. CASE ClockJump \/ \E t \in Tasks : SaveStep(t)
  BY <1>0, <1>15 DEF ClockJump, SaveStep, SaveCopy, SaveStore, SaveStoreFails, SaveSync
<1> QED
  BY <1>1, <1>2, <1>3, <1>4, <1>5, <1>6, <1>7, <1>8, <1>9, <1>10, <1>11, <1>12, <1>13, <1>14, <1>15
  DEF Next, LeopStep, WaitStep

LEMMA NextLeopType ==
  ASSUME TypeInv, ControlInv, Next
  PROVE  leop' \in LeopType
<1>0. data \in DataType /\ leop \in LeopType /\ disk.file \in Files
  BY TypeParts DEF DiskOK
<1>g. ASSUME NEW label \in LoadPcs \cup WaitPcs \cup StagePcs PROVE [leop EXCEPT !.pc = label] \in LeopType
  BY <1>0, <1>g DEF LeopType
<1>c. ASSUME NEW dur \in {INITIAL_WAIT_SEC, BURN_DURATION_SEC, POST_WAIT_SEC},
             NEW ret \in {"initialEnd", "gpioLow", "postEnd"}, CallWait(dur, ret)
      PROVE  leop' \in LeopType
  <2>1. dur \in Seconds
    BY Constants DEF Seconds
  <2> QED
    BY <1>0, <1>c, <2>1 DEF CallWait, LeopType, WaitPcs
<1>r. ASSUME leop.pc \in WaitPcs, WaitReturn PROVE leop' \in LeopType
  <2>1. leop.ret \in StagePcs /\ leop.Cycle \in 0 .. REPEAT_COUNT
    BY <1>0, <1>r DEF ControlInv, LeopType, StagePcs
  <2>2. TaskAt(leop.ret) \in LeopType
    BY <2>1, RestTypes
  <2> QED
    BY <1>r, <2>1, <2>2 DEF WaitReturn, LeopType
<1>n. ASSUME NEW n \in Nat, n <= leop.dur, leop.pc \in WaitPcs
      PROVE  n + SAVE_INTERVAL_SEC \in Seconds
  <2>1. leop.dur \in {INITIAL_WAIT_SEC, BURN_DURATION_SEC, POST_WAIT_SEC}
    BY <1>0, <1>n, WaitTimes DEF ControlInv, LeopType
  <2> QED
    BY <1>n, <2>1, Constants DEF Seconds
<1>1. CASE LoadRead
  BY <1>0, <1>1 DEF LoadRead, LeopType, LoadPcs
<1>2. CASE LoadFails \/ CopyCycle \/ CopyState \/ DefaultCycle \/ DefaultState \/ FailedState
  BY <1>g, <1>2 DEF LoadFails, CopyCycle, CopyState, DefaultCycle, DefaultState, FailedState, Goto,
    LoadPcs, StagePcs
<1>3. CASE CopyElapsed \/ DefaultsSaved
  BY <1>3, RestTypes DEF CopyElapsed, DefaultsSaved, LoadPcs, StagePcs
<1>4. CASE WaitEnter
  <2>1. data.WaitElapsed \in Nat /\ data.WaitElapsed \in Seconds /\ data.WaitElapsed <= leop.dur
    BY <1>0, <1>4 DEF WaitEnter, SkipsWait, DataType, LeopType, Seconds
  <2>2. data.WaitElapsed + SAVE_INTERVAL_SEC \in Seconds
    BY <1>4, <1>n, <2>1 DEF WaitEnter, At, WaitPcs
  <2> QED
    BY <1>0, <1>4, <2>1, <2>2, RestTypes DEF WaitEnter, LeopType, WaitPcs
<1>5. CASE WaitSkip \/ WaitEnd
  BY <1>r, <1>5 DEF WaitSkip, WaitEnd, At, WaitPcs
<1>6. CASE WaitLoop
  <2>1. CASE data.WaitComplete /\ Goto("waitEnd")
    BY <1>g, <2>1 DEF Goto, WaitPcs
  <2>2. ASSUME NEW d \in 1 .. MaxDelay,
               leop' = [leop EXCEPT !.pc = "poll", !.session = Ticks(@, d)]
        PROVE  leop' \in LeopType
    <3>1. leop.session \in Nat /\ d \in Nat
      BY <1>0, Constants DEF LeopType, Seconds
    <3>2. Ticks(leop.session, d) \in Seconds
      BY <3>1, Modulo DEF Ticks
    <3> QED
      BY <1>0, <2>2, <3>2 DEF LeopType, WaitPcs
  <2> QED
    BY <1>6, <2>1, <2>2 DEF WaitLoop
<1>7. CASE WaitPoll \/ WaitNote \/ WaitNoteSave
  BY <1>g, <1>7 DEF WaitPoll, WaitNote, WaitNoteSave, Goto, WaitPcs
<1>8. CASE WaitNoteNext
  <2>1. data.WaitElapsed \in Nat /\ data.WaitElapsed <= leop.dur /\ leop.pc \in WaitPcs
    BY <1>0, <1>8 DEF WaitNoteNext, At, ControlInv, TimingPcs, DataType, Seconds, WaitPcs
  <2>2. data.WaitElapsed + SAVE_INTERVAL_SEC \in Seconds
    BY <1>n, <2>1
  <2> QED
    BY <1>0, <1>8, <2>2 DEF WaitNoteNext, LeopType, WaitPcs
<1>9. CASE Loaded \/ CheckRequest \/ Saves \/ ToBurn \/ StartBurn \/ GpioLow \/ ToEnable
  BY <1>g, <1>9 DEF Loaded, CheckRequest, Saves, ToBurn, StartBurn, GpioLow, ToEnable, Goto, StagePcs
<1>10. CASE Branch
  BY <1>g, <1>c, <1>10 DEF Branch, Goto, StagePcs
<1>11. CASE For
  <2>1. At("next") => leop.Cycle + 1 \in 0 .. REPEAT_COUNT
    BY <1>0, Constants DEF At, ControlInv, InLoop, LeopType
  <2>2. data.CycleCount \in 0 .. REPEAT_COUNT
    BY <1>0 DEF DataType
  <2> QED
    BY <1>0, <1>11, <2>1, <2>2 DEF For, LeopType, StagePcs
<1>12. CASE GpioHigh
  BY <1>g, <1>c, <1>12 DEF GpioHigh, Goto, StagePcs
<1>13. CASE ToPost
  BY <1>c, <1>13 DEF ToPost
<1>14. CASE CountCycle \/ CountState \/ Final
  BY <1>g, <1>14 DEF CountCycle, CountState, Final, Goto, StagePcs
<1>15. CASE Crash
  BY <1>15, RestTypes DEF Crash, LoadPcs
<1>16. CASE ClockJump
  <2>1. PICK j \in Jumps : leop' = [leop EXCEPT !.session = (@ + j) % TimeMod]
    BY <1>16 DEF ClockJump
  <2>2. leop.session + j \in Int
    BY <1>0, EnvironmentAssumption DEF LeopType, Seconds
  <2>3. (leop.session + j) % TimeMod \in Seconds
    BY <2>2, ModuloInt
  <2> QED
    BY <1>0, <2>1, <2>3 DEF LeopType
<1>17. CASE RequestComplete \/ \E t \in Tasks : SaveStep(t)
  BY <1>0, <1>17 DEF RequestComplete, SaveStep, SaveCopy, SaveStore, SaveStoreFails, SaveSync
<1> QED
  BY <1>1, <1>2, <1>3, <1>4, <1>5, <1>6, <1>7, <1>8, <1>9, <1>10, <1>11, <1>12, <1>13, <1>14, <1>15,
     <1>16, <1>17 DEF Next, LeopStep, WaitStep

LEMMA NextSaveType ==
  ASSUME TypeInv, Next
  PROVE  save' \in [Tasks -> SaveType] /\ DiskOK'
<1>0. data \in DataType /\ save \in [Tasks -> SaveType] /\ DiskOK
  BY TypeParts
<1>u. ASSUME UNCHANGED <<save, disk>> PROVE save' \in [Tasks -> SaveType] /\ DiskOK'
  BY <1>0, <1>u DEF DiskOK
<1>c. ASSUME NEW t \in Tasks, CallSave(t), UNCHANGED disk
      PROVE  save' \in [Tasks -> SaveType] /\ DiskOK'
  BY <1>0, <1>c DEF CallSave, SaveType, DiskOK
<1>r. ASSUME NEW t \in Tasks, NEW ok \in BOOLEAN PROVE SaveReturn(t, ok) \in [Tasks -> SaveType]
  <2> DEFINE b == (t = "LEOP" /\ leop.pc = "defaultsSaved") => ok
  <2>1. b \in BOOLEAN /\ SaveReturn(t, ok) = [save EXCEPT ![t] = [pc |-> "idle", fd |-> NoFile, ok |-> b]]
    BY DEF SaveReturn
  <2> HIDE DEF b
  <2> QED
    BY <1>0, <2>1, RestTypes DEF SaveType
<1>1. ASSUME NEW t \in Tasks, SaveStep(t) PROVE save' \in [Tasks -> SaveType] /\ DiskOK'
  <2>1. CASE SaveCopy(t)
    <3>1. CopyRuntimeToFile \in Files
      BY <1>0, FileOfData DEF Files
    <3> QED
      BY <1>0, <2>1, <3>1 DEF SaveCopy, SaveType, DiskOK
  <2>2. CASE SaveStore(t)
    <3>1. save[t].fd \in Files
      BY <1>0 DEF SaveType
    <3> QED
      BY <1>0, <2>2, <3>1 DEF SaveStore, SaveType, DiskOK, AfterRename
  <2>3. CASE SaveStoreFails(t)
    BY <1>0, <1>r, <2>3 DEF SaveStoreFails, DiskOK
  <2>4. CASE SaveSync(t)
    BY <1>0, <1>r, <2>4 DEF SaveSync, DiskOK
  <2> QED
    BY <1>1, <2>1, <2>2, <2>3, <2>4 DEF SaveStep
<1>2. CASE DefaultState \/ Saves \/ ToBurn \/ ToPost \/ CountState \/ Final
  BY <1>c, <1>2 DEF DefaultState, Saves, ToBurn, ToPost, CountState, Final, Tasks
<1>3. CASE WaitNoteSave
  BY <1>c, <1>u, <1>3 DEF WaitNoteSave, Tasks
<1>4. CASE RequestComplete
  BY <1>c, <1>4 DEF RequestComplete, Tasks
<1>5. CASE Crash
  BY <1>0, <1>5, RestTypes DEF Crash, DiskOK
<1>6. CASE LoadRead \/ LoadFails \/ CopyCycle \/ CopyState \/ CopyElapsed \/ DefaultCycle \/ DefaultsSaved
           \/ FailedState
  BY <1>u, <1>6 DEF LoadRead, LoadFails, CopyCycle, CopyState, CopyElapsed, DefaultCycle, DefaultsSaved,
    FailedState
<1>7. CASE WaitEnter \/ WaitSkip \/ WaitLoop \/ WaitPoll \/ WaitNote \/ WaitNoteNext \/ WaitEnd
  BY <1>u, <1>7 DEF WaitEnter, WaitSkip, WaitLoop, WaitPoll, WaitNote, WaitNoteNext, WaitEnd
<1>8. CASE Loaded \/ Branch \/ CheckRequest \/ For \/ StartBurn \/ GpioHigh \/ GpioLow \/ ToEnable
           \/ CountCycle \/ ClockJump
  BY <1>u, <1>8 DEF Loaded, Branch, CheckRequest, For, StartBurn, GpioHigh, GpioLow, ToEnable, CountCycle,
    ClockJump
<1> QED
  BY <1>1, <1>2, <1>3, <1>4, <1>5, <1>6, <1>7, <1>8 DEF Next, LeopStep, WaitStep

\* The test of the wait's loop: it is over, or a delay passes, which the
\* history counts.
LEMMA LoopEffect ==
  ASSUME TypeInv, WaitLoop
  PROVE  \/ /\ data.WaitComplete /\ hist' = hist
            /\ leop' = [leop EXCEPT !.pc = "waitEnd"]
         \/ /\ ~data.WaitComplete
            /\ \E d \in 1 .. MaxDelay, q \in 0 .. INITIAL_WAIT_SEC, l \in Nat :
                 /\ leop' = [leop EXCEPT !.pc = "poll", !.session = Ticks(leop.session, d)]
                 /\ hist' = [hist EXCEPT !.quiet = q, !.lit = l]
                 /\ q >= hist.quiet
                 /\ leop.ret = "initialEnd" => q = hist.quiet + d \/ q = INITIAL_WAIT_SEC
                 /\ \/ out.gpio # "HIGH" /\ l = hist.lit
                    \/ /\ out.gpio = "HIGH"
                       /\ hist.lit + d <= BURN_DURATION_SEC + MaxDelay => l = hist.lit + d
                       /\ l = hist.lit + d \/ l = BURN_DURATION_SEC + MaxDelay
<1>1. CASE data.WaitComplete
  BY <1>1 DEF WaitLoop, Goto
<1>2. CASE ~data.WaitComplete
  <2>1. PICK d \in 1 .. MaxDelay :
          /\ leop' = [leop EXCEPT !.pc = "poll", !.session = Ticks(leop.session, d)]
          /\ hist' = [hist EXCEPT
               !.quiet = IF leop.ret = "initialEnd"
                           THEN Min({hist.quiet + d, INITIAL_WAIT_SEC}) ELSE hist.quiet,
               !.lit = IF out.gpio = "HIGH"
                         THEN Min({hist.lit + d, BURN_DURATION_SEC + MaxDelay}) ELSE hist.lit]
    BY <1>2 DEF WaitLoop
  <2> DEFINE q == IF leop.ret = "initialEnd"
                    THEN Min({hist.quiet + d, INITIAL_WAIT_SEC}) ELSE hist.quiet
             l == IF out.gpio = "HIGH"
                    THEN Min({hist.lit + d, BURN_DURATION_SEC + MaxDelay}) ELSE hist.lit
  <2>2. hist.quiet \in 0 .. INITIAL_WAIT_SEC /\ hist.lit \in Nat /\ d \in Nat
    BY TypeParts, Constants DEF HistOK
  <2>3. /\ q \in 0 .. INITIAL_WAIT_SEC /\ q >= hist.quiet
        /\ leop.ret = "initialEnd" => q = hist.quiet + d \/ q = INITIAL_WAIT_SEC
    BY <2>2, Constants, MinPair
  <2>4. /\ l \in Nat
        /\ \/ out.gpio # "HIGH" /\ l = hist.lit
           \/ /\ out.gpio = "HIGH"
              /\ hist.lit + d <= BURN_DURATION_SEC + MaxDelay => l = hist.lit + d
              /\ l = hist.lit + d \/ l = BURN_DURATION_SEC + MaxDelay
    BY <2>2, Constants, MinPair
  <2>5. hist' = [hist EXCEPT !.quiet = q, !.lit = l]
    BY <2>1
  <2> HIDE DEF q, l
  <2> QED
    BY <1>2, <2>1, <2>3, <2>4, <2>5
<1> QED
  BY <1>1, <1>2

LEMMA NextRestType ==
  ASSUME TypeInv, Next
  PROVE  OutOK' /\ EnvOK' /\ HistOK'
<1>0. OutOK /\ EnvOK /\ HistOK
  BY TypeParts
<1>u. ASSUME UNCHANGED <<out, env, hist>> PROVE OutOK' /\ EnvOK' /\ HistOK'
  BY <1>0, <1>u DEF OutOK, EnvOK, HistOK
<1>f. ASSUME NEW kind, FileFault(kind) PROVE EnvOK'
  BY <1>0, <1>f DEF FileFault, EnvOK
<1>1. ASSUME NEW t \in Tasks, SaveStep(t) PROVE OutOK' /\ EnvOK' /\ HistOK'
  <2>1. UNCHANGED <<out, hist>> /\ (UNCHANGED env \/ FileFault("save"))
    BY <1>1 DEF SaveStep, SaveCopy, SaveStore, SaveStoreFails, SaveSync
  <2> QED
    BY <1>0, <1>f, <2>1 DEF OutOK, EnvOK, HistOK
<1>2. CASE LoadFails
  BY <1>0, <1>f, <1>2 DEF LoadFails, OutOK, HistOK
<1>3. CASE Loaded \/ ToEnable
  BY <1>0, <1>3 DEF Loaded, ToEnable, Transmits, OutOK, EnvOK, HistOK
<1>4. CASE WaitLoop
  <2>1. HistOK'
    BY <1>0, <1>4, LoopEffect DEF HistOK
  <2> QED
    BY <1>0, <1>4, <2>1 DEF WaitLoop, OutOK, EnvOK
<1>5. CASE GpioHigh
  <2> DEFINE l == IF Requested THEN hist.late + 1 ELSE hist.late
             b == hist.burns + 1
  <2>1. l \in Nat /\ b \in Nat
    BY <1>0 DEF HistOK
  <2>2. hist' = hist \/ hist' = [hist EXCEPT !.burns = b, !.late = l]
    BY <1>5 DEF GpioHigh
  <2> HIDE DEF l, b
  <2>3. HistOK'
    BY <1>0, <2>1, <2>2 DEF HistOK
  <2> QED
    BY <1>0, <1>5, <2>3 DEF GpioHigh, OutOK, EnvOK
<1>6. CASE GpioLow
  BY <1>0, <1>6 DEF GpioLow, Transmits, OutOK, EnvOK, HistOK
<1>7. CASE RequestComplete
  BY <1>0, <1>7 DEF RequestComplete, OutOK, EnvOK, HistOK
<1>8. CASE Crash
  <2>1. EnvOK'
    BY <1>0, <1>8 DEF Crash, EnvOK
  <2>2. HistOK'
    BY <1>0, <1>8 DEF Crash, HistOK
  <2>3. OutOK'
    BY <1>8 DEF Crash, OutOK
  <2> QED
    BY <2>1, <2>2, <2>3
<1>9. CASE ClockJump
  BY <1>0, <1>9 DEF ClockJump, OutOK, EnvOK, HistOK
<1>10. CASE LoadRead \/ CopyCycle \/ CopyState \/ CopyElapsed \/ DefaultCycle \/ DefaultState
            \/ DefaultsSaved \/ FailedState
  BY <1>u, <1>10 DEF LoadRead, CopyCycle, CopyState, CopyElapsed, DefaultCycle, DefaultState, DefaultsSaved,
    FailedState
<1>11. CASE WaitEnter \/ WaitSkip \/ WaitPoll \/ WaitNote \/ WaitNoteSave \/ WaitNoteNext \/ WaitEnd
  BY <1>u, <1>11 DEF WaitEnter, WaitSkip, WaitPoll, WaitNote, WaitNoteSave, WaitNoteNext, WaitEnd
<1>12. CASE Branch \/ CheckRequest \/ Saves \/ ToBurn \/ For \/ StartBurn \/ ToPost \/ CountCycle
            \/ CountState \/ Final
  BY <1>u, <1>12 DEF Branch, CheckRequest, Saves, ToBurn, For, StartBurn, ToPost, CountCycle, CountState,
    Final
<1> QED
  BY <1>1, <1>2, <1>3, <1>4, <1>5, <1>6, <1>7, <1>8, <1>9, <1>10, <1>11, <1>12 DEF Next, LeopStep, WaitStep

LEMMA NextTypes ==
  ASSUME TypeInv, ControlInv, Next
  PROVE  TypeInv'
<1>1. /\ data' \in DataType /\ leop' \in LeopType /\ save' \in [Tasks -> SaveType]
      /\ DiskOK' /\ OutOK' /\ EnvOK' /\ HistOK'
  BY NextDataType, NextLeopType, NextSaveType, NextRestType
<1> QED
  BY <1>1 DEF TypeInv, TypeOK, DataType, LeopType, SaveType, DiskOK, OutOK, EnvOK, HistOK, Files

-----------------------------------------------------------------------------
(* The fields that a step of the child task changes.                        *)

LEMMA GotoEffect ==
  ASSUME leop \in LeopType, NEW label, Goto(label)
  PROVE  /\ leop'.pc = label /\ leop'.ret = leop.ret /\ leop'.dur = leop.dur
         /\ leop'.Cycle = leop.Cycle /\ leop'.read = leop.read /\ leop'.saved = leop.saved
         /\ leop'.session = leop.session
BY DEF Goto, LeopType

LEMMA CallWaitEffect ==
  ASSUME leop \in LeopType, NEW dur, NEW ret, CallWait(dur, ret)
  PROVE  /\ leop'.pc = "wait" /\ leop'.ret = ret /\ leop'.dur = dur
         /\ leop'.Cycle = leop.Cycle /\ leop'.read = leop.read
BY DEF CallWait, LeopType

LEMMA WaitReturnEffect ==
  ASSUME WaitReturn
  PROVE  leop'.pc = leop.ret /\ leop'.Cycle = leop.Cycle /\ leop'.read = NoFile
BY DEF WaitReturn, TaskAt

LEMMA TaskAtEffect ==
  ASSUME NEW label, leop' = TaskAt(label)
  PROVE  leop'.pc = label /\ leop'.ret = "none" /\ leop'.read = NoFile /\ leop'.Cycle = 0
BY DEF TaskAt

LEMMA CallSaveEffect ==
  ASSUME save \in [Tasks -> SaveType], NEW t \in Tasks, CallSave(t)
  PROVE  /\ save'[t].pc = "copy" /\ save'[t].fd = save[t].fd /\ save'[t].ok = save[t].ok
         /\ \A u \in Tasks \ {t} : save'[u] = save[u]
BY DEF CallSave, SaveType

LEMMA SaveStepEffect ==
  ASSUME TypeInv, NEW t \in Tasks, SaveStep(t)
  PROVE  /\ UNCHANGED <<data, leop, out, hist>>
         /\ env'.requests = env.requests /\ env'.jumps = env.jumps /\ env'.crashes = env.crashes
         /\ save[t].pc # "idle"
         /\ \A u \in Tasks \ {t} : save'[u] = save[u]
<1>0. save \in [Tasks -> SaveType] /\ EnvOK
  BY TypeParts
<1>f. ASSUME FileFault("save")
      PROVE  env'.requests = env.requests /\ env'.jumps = env.jumps /\ env'.crashes = env.crashes
  BY <1>0, <1>f DEF FileFault, EnvOK
<1>1. UNCHANGED <<data, leop, out, hist>> /\ (UNCHANGED env \/ FileFault("save")) /\ save[t].pc # "idle"
  BY DEF SaveStep, SaveCopy, SaveStore, SaveStoreFails, SaveSync
<1>2. \A u \in Tasks \ {t} : save'[u] = save[u]
  BY <1>0 DEF SaveStep, SaveCopy, SaveStore, SaveStoreFails, SaveSync, SaveReturn
<1> QED
  BY <1>1, <1>2, <1>f

-----------------------------------------------------------------------------
(* The control of the child task.                                           *)

LEMMA InitControl == Init => ControlInv
BY DEF Init, ControlInv, TaskAt, RuntimeZero, SaveIdle, Tasks, InLoop, Burning, Posting, Waiting, Requested,
  WaitPcs, CopyPcs, TimingPcs, BurnPcs, EnablePcs, PostPcs

\* Where the child task is and what its own variables then hold: no other step than
\* its own and a reset changes them, so a request does not disturb this.
LEMMA NextControl ==
  ASSUME TypeInv, ControlInv, Next
  PROVE  ControlInv'
<1>0. /\ data \in DataType /\ leop \in LeopType /\ save \in [Tasks -> SaveType] /\ EnvOK
      /\ "LEOP" \in Tasks /\ "CMD" \in Tasks
  BY TypeParts DEF Tasks
<1> DEFINE Elsewhere(pc) == pc \notin WaitPcs \cup CopyPcs
           Zero(pc) == \/ pc \in {"copyState", "copyElapsed", "defaultState", "failedState",
                                  "defaultsSaved", "initialEnd", "toBurn", "next"}
                       \/ pc \in BurnPcs \cup EnablePcs \cup PostPcs
           Loop(pc) == pc \in {"burnStart", "next"} \cup BurnPcs \cup EnablePcs \cup PostPcs
<1> USE DEF WaitPcs, CopyPcs, TimingPcs, BurnPcs, EnablePcs, PostPcs, SavePcs
\* A step to a label outside the waits.
<1>g. ASSUME NEW pc, leop'.pc = pc, Elsewhere(pc),
             Loop(pc) => leop'.Cycle < REPEAT_COUNT,
             Zero(pc) => data'.WaitElapsed = 0,
             save'["LEOP"].pc # "idle" => pc \in SavePcs,
             data'.CompleteRequested = data.CompleteRequested, env'.requests = env.requests,
             save'["CMD"] = save["CMD"]
      PROVE  ControlInv'
  BY <1>g DEF ControlInv, InLoop, Burning, Posting, Waiting, Requested
<1>1. CASE LoadRead
  <2>1. /\ leop'.pc = IF ValidFile(disk.file) THEN "copy" ELSE "defaults"
        /\ leop'.read = disk.file
    BY <1>0, <1>1 DEF LoadRead, LeopType
  <2>2. ValidFile(disk.file) => disk.file \in FileData
    BY TypeParts DEF DiskOK, Files, ValidFile
  <2> QED
    BY <1>1, <2>1, <2>2 DEF LoadRead, ControlInv, At, InLoop, Burning, Posting, Waiting, Requested
<1>2. CASE LoadFails
  <2>1. leop'.pc \in {"failed", "defaults"} /\ env'.requests = env.requests
    BY <1>0, <1>2, GotoEffect DEF LoadFails, FileFault, EnvOK
  <2> QED
    BY <1>2, <1>g, <2>1 DEF LoadFails, At
<1>3. CASE CopyCycle \/ CopyState
  <2>1. leop'.pc \in {"copyState", "copyElapsed"} /\ leop'.read = leop.read /\ leop.pc \in CopyPcs
    BY <1>0, <1>3, GotoEffect DEF CopyCycle, CopyState, At
  <2>2. data'.WaitElapsed = 0 /\ data'.CompleteRequested = data.CompleteRequested
    BY <1>0, <1>3 DEF CopyCycle, CopyState, At, ControlInv, DataType
  <2> QED
    BY <1>3, <2>1, <2>2 DEF CopyCycle, CopyState, At, ControlInv, InLoop, Burning, Posting, Waiting, Requested
<1>4. CASE CopyElapsed
  <2>1. leop'.pc = "loaded" /\ data'.CompleteRequested = data.CompleteRequested
    BY <1>0, <1>4, TaskAtEffect DEF CopyElapsed, DataType
  <2> QED
    BY <1>4, <1>g, <2>1 DEF CopyElapsed, At
<1>5. CASE DefaultCycle
  <2>1. leop'.pc \in {"defaultState", "failedState"}
    BY <1>0, <1>5, GotoEffect DEF DefaultCycle
  <2>2. data'.WaitElapsed = 0 /\ data'.CompleteRequested = data.CompleteRequested
    BY <1>0, <1>5 DEF DefaultCycle, DataType
  <2> QED
    BY <1>5, <1>g, <2>1, <2>2 DEF DefaultCycle, At
<1>6. CASE DefaultState
  <2>1. leop'.pc = "defaultsSaved"
    BY <1>0, <1>6, GotoEffect DEF DefaultState
  <2>2. data'.WaitElapsed = 0 /\ data'.CompleteRequested = data.CompleteRequested
    BY <1>0, <1>6 DEF DefaultState, At, ControlInv, DataType
  <2>3. save'["CMD"] = save["CMD"]
    BY <1>0, <1>6, CallSaveEffect DEF DefaultState
  <2> QED
    BY <1>6, <1>g, <2>1, <2>2, <2>3 DEF DefaultState
<1>7. CASE DefaultsSaved
  <2>1. leop'.pc \in {"loaded", "failed"}
    BY <1>7, TaskAtEffect DEF DefaultsSaved
  <2> QED
    BY <1>7, <1>g, <2>1 DEF DefaultsSaved, At
<1>8. CASE FailedState
  <2>1. leop'.pc = "loaded" /\ data'.CompleteRequested = data.CompleteRequested
    BY <1>0, <1>8, GotoEffect DEF FailedState, DataType
  <2> QED
    BY <1>8, <1>g, <2>1 DEF FailedState, At
<1>9. CASE Loaded
  <2>1. leop'.pc \in {"done", "branch"}
    BY <1>0, <1>9, GotoEffect DEF Loaded
  <2> QED
    BY <1>9, <1>g, <2>1 DEF Loaded, At
<1>10. CASE CheckRequest \/ Saves
  <2>1. /\ leop'.Cycle = leop.Cycle /\ leop.pc \in {"initialEnd"} \cup BurnPcs \cup EnablePcs \cup PostPcs
        /\ leop'.pc \in {"for", "toBurn", "final"} \cup BurnPcs \cup EnablePcs \cup PostPcs
        /\ Loop(leop'.pc) => Loop(leop.pc)
        /\ save["LEOP"].pc = "idle"
        /\ save' # save => leop'.pc \in SavePcs
    BY <1>0, <1>10, GotoEffect DEF CheckRequest, Saves, At
  <2>2. save'["CMD"] = save["CMD"]
    BY <1>0, <1>10, CallSaveEffect DEF CheckRequest, Saves
  <2> QED
    BY <1>10, <1>g, <2>1, <2>2 DEF CheckRequest, Saves, ControlInv, InLoop, Burning, Posting
<1>11. CASE ToBurn
  <2>1. leop'.pc = "for" /\ data'.CompleteRequested = data.CompleteRequested
    BY <1>0, <1>11, GotoEffect DEF ToBurn, DataType
  <2>2. save'["CMD"] = save["CMD"]
    BY <1>0, <1>11, CallSaveEffect DEF ToBurn
  <2> QED
    BY <1>11, <1>g, <2>1, <2>2 DEF ToBurn
<1>12. CASE For
  <2>1. leop'.pc \in {"burnStart", "final"} /\ (leop'.pc = "burnStart" => leop'.Cycle < REPEAT_COUNT)
    BY <1>0, <1>12 DEF For, LoopEnters, LeopType
  <2> QED
    BY <1>12, <1>g, <2>1 DEF For, At
<1>13. CASE StartBurn
  <2>1. leop'.pc = "gpioHigh" /\ leop'.Cycle = leop.Cycle
    BY <1>0, <1>13, GotoEffect DEF StartBurn
  <2>2. data'.WaitElapsed = 0 /\ data'.CompleteRequested = data.CompleteRequested
    BY <1>0, <1>13 DEF StartBurn, BurnStart, WaitReset, DataType
  <2> QED
    BY <1>13, <1>g, <2>1, <2>2 DEF StartBurn, At, ControlInv, InLoop
<1>14. CASE GpioLow \/ ToEnable \/ CountCycle
  <2>1. leop'.pc \in {"burned", "enabled", "countState"} /\ leop'.Cycle = leop.Cycle
    BY <1>0, <1>14, GotoEffect DEF GpioLow, ToEnable, CountCycle
  <2>2. data'.WaitElapsed = 0 /\ data'.CompleteRequested = data.CompleteRequested
    BY <1>0, <1>14 DEF GpioLow, ToEnable, CountCycle, At, ControlInv, DataType
  <2> QED
    BY <1>14, <1>g, <2>1, <2>2 DEF GpioLow, ToEnable, CountCycle, At, ControlInv, InLoop, Burning, Posting
<1>15. CASE CountState
  <2>1. leop'.pc = "next" /\ leop'.Cycle = leop.Cycle
    BY <1>0, <1>15, GotoEffect DEF CountState
  <2>2. data'.WaitElapsed = 0 /\ data'.CompleteRequested = data.CompleteRequested
    BY <1>0, <1>15 DEF CountState, At, ControlInv, DataType
  <2>3. save'["CMD"] = save["CMD"]
    BY <1>0, <1>15, CallSaveEffect DEF CountState
  <2> QED
    BY <1>15, <1>g, <2>1, <2>2, <2>3 DEF CountState, At, ControlInv, InLoop, Posting
<1>16. CASE Final
  <2>1. leop'.pc = "done" /\ data'.CompleteRequested = data.CompleteRequested
    BY <1>0, <1>16, GotoEffect DEF Final, DataType
  <2>2. save'["CMD"] = save["CMD"]
    BY <1>0, <1>16, CallSaveEffect DEF Final
  <2> QED
    BY <1>16, <1>g, <2>1, <2>2 DEF Final
\* The calls of MISSION_LEOP_Wait.
<1>17. CASE Branch
  <2>1. CASE leop'.pc = "for"
    BY <1>17, <1>g, <2>1 DEF Branch, At
  <2>2. CASE CallWait(INITIAL_WAIT_SEC, "initialEnd")
    BY <1>0, <1>17, <2>2, CallWaitEffect, WaitTimes
    DEF Branch, At, ControlInv, InLoop, Burning, Posting, Waiting, Requested
  <2> QED
    BY <1>0, <1>17, <2>1, <2>2, GotoEffect DEF Branch
<1>18. CASE GpioHigh
  <2>0. leop.Cycle < REPEAT_COUNT /\ data.WaitElapsed = 0
    BY <1>18 DEF GpioHigh, At, ControlInv, InLoop, Burning
  <2>1. CASE Goto("burned")
    <3>1. leop'.pc = "burned" /\ leop'.Cycle = leop.Cycle
      BY <1>0, <2>1, GotoEffect
    <3> QED
      BY <1>18, <1>g, <2>0, <3>1 DEF GpioHigh, At
  <2>2. CASE CallWait(BURN_DURATION_SEC, "gpioLow")
    BY <1>0, <1>18, <2>0, <2>2, CallWaitEffect, WaitTimes
    DEF GpioHigh, At, ControlInv, InLoop, Burning, Posting, Waiting, Requested
  <2> QED
    BY <1>18, <2>1, <2>2 DEF GpioHigh
<1>19. CASE ToPost
  <2>0. leop.Cycle < REPEAT_COUNT /\ data.WaitElapsed = 0
    BY <1>19 DEF ToPost, At, ControlInv, InLoop
  <2>1. data'.WaitElapsed = 0 /\ data'.CompleteRequested = data.CompleteRequested
    BY <1>0, <1>19, <2>0 DEF ToPost, DataType
  <2>2. save'["CMD"] = save["CMD"]
    BY <1>0, <1>19, CallSaveEffect DEF ToPost
  <2>3. /\ leop'.pc = "wait" /\ leop'.ret = "postEnd" /\ leop'.dur = POST_WAIT_SEC
        /\ leop'.Cycle = leop.Cycle
    BY <1>0, <1>19, CallWaitEffect DEF ToPost
  <2> QED
    BY <1>19, <2>0, <2>1, <2>2, <2>3, WaitTimes
    DEF ToPost, ControlInv, InLoop, Burning, Posting, Waiting, Requested
\* Inside the wait.
<1>w. ASSUME leop.pc \in WaitPcs, leop'.pc \in WaitPcs, leop'.pc # "wait",
             leop'.ret = leop.ret, leop'.dur = leop.dur, leop'.Cycle = leop.Cycle,
             leop'.pc \in TimingPcs => data'.WaitElapsed <= leop.dur,
             save'["LEOP"].pc # "idle" => leop'.pc \in SavePcs,
             data'.CompleteRequested = data.CompleteRequested, env'.requests = env.requests,
             save'["CMD"] = save["CMD"]
      PROVE  ControlInv'
  BY <1>w DEF ControlInv, InLoop, Burning, Posting, Waiting, Requested
<1>20. CASE WaitEnter
  <2>1. /\ leop'.pc = "loop" /\ leop'.ret = leop.ret /\ leop'.dur = leop.dur /\ leop'.Cycle = leop.Cycle
        /\ data'.CompleteRequested = data.CompleteRequested /\ data'.WaitElapsed = data.WaitElapsed
    BY <1>0, <1>20 DEF WaitEnter, LeopType, DataType
  <2>2. data.WaitElapsed <= leop.dur
    BY <1>0, <1>20 DEF WaitEnter, SkipsWait, DataType, LeopType, Seconds
  <2> QED
    BY <1>20, <1>w, <2>1, <2>2 DEF WaitEnter, At
<1>21. CASE WaitSkip \/ WaitEnd
  <2>1. leop'.pc = leop.ret /\ leop'.Cycle = leop.Cycle /\ leop.pc \in {"wait", "waitEnd"}
    BY <1>21, WaitReturnEffect DEF WaitSkip, WaitEnd, At
  <2>2. data'.WaitElapsed = 0 /\ data'.CompleteRequested = data.CompleteRequested
    BY <1>0, <1>21 DEF WaitSkip, WaitEnd, WaitReset, DataType
  <2>3. leop.ret \in {"initialEnd", "gpioLow", "postEnd"}
    BY <1>0, <2>1 DEF ControlInv, LeopType
  <2> QED
    BY <1>21, <1>g, <2>1, <2>2, <2>3
    DEF WaitSkip, WaitEnd, At, ControlInv, InLoop, Burning, Posting, Waiting
<1>22. CASE WaitLoop
  <2>1. /\ leop'.pc \in {"waitEnd", "poll"} /\ leop'.ret = leop.ret /\ leop'.dur = leop.dur
        /\ leop'.Cycle = leop.Cycle
    BY <1>0, <1>22, LoopEffect DEF LeopType
  <2> QED
    BY <1>22, <1>w, <2>1 DEF WaitLoop, At, ControlInv
<1>23. CASE WaitPoll
  <2>1. /\ leop'.pc \in {"waitEnd", "note"} /\ leop'.ret = leop.ret /\ leop'.dur = leop.dur
        /\ leop'.Cycle = leop.Cycle
    BY <1>0, <1>23, GotoEffect DEF WaitPoll
  <2> QED
    BY <1>23, <1>w, <2>1 DEF WaitPoll, At, ControlInv
<1>24. CASE WaitNote
  <2>1. /\ leop'.pc = "noteSave" /\ leop'.ret = leop.ret /\ leop'.dur = leop.dur
        /\ leop'.Cycle = leop.Cycle
    BY <1>0, <1>24, GotoEffect DEF WaitNote
  <2>2. /\ data'.CompleteRequested = data.CompleteRequested
        /\ data'.WaitElapsed = Min({TotalElapsed(leop.saved, leop.session), leop.dur})
    BY <1>0, <1>24 DEF WaitNote, DataType
  <2>3. data'.WaitElapsed <= leop.dur
    <3>1. TotalElapsed(leop.saved, leop.session) \in Nat /\ leop.dur \in Nat
      BY <1>0, Modulo DEF TotalElapsed, LeopType, Seconds
    <3> QED
      BY <2>2, <3>1, MinPair
  <2> QED
    BY <1>24, <1>w, <2>1, <2>2, <2>3 DEF WaitNote, At
<1>25. CASE WaitNoteSave
  <2>1. /\ leop'.pc \in {"noteNext", "loop"} /\ leop'.ret = leop.ret /\ leop'.dur = leop.dur
        /\ leop'.Cycle = leop.Cycle
        /\ save' # save => leop'.pc = "noteNext"
    BY <1>0, <1>25, GotoEffect DEF WaitNoteSave
  <2>2. save'["CMD"] = save["CMD"]
    BY <1>0, <1>25, CallSaveEffect DEF WaitNoteSave
  <2> QED
    BY <1>25, <1>w, <2>1, <2>2 DEF WaitNoteSave, At, ControlInv
<1>26. CASE WaitNoteNext
  <2>1. /\ leop'.pc = "loop" /\ leop'.ret = leop.ret /\ leop'.dur = leop.dur
        /\ leop'.Cycle = leop.Cycle
    BY <1>0, <1>26 DEF WaitNoteNext, LeopType
  <2> QED
    BY <1>26, <1>w, <2>1 DEF WaitNoteNext, At, ControlInv
\* The main task and the environment.
<1>27. ASSUME NEW t \in Tasks, SaveStep(t) PROVE ControlInv'
  BY <1>0, <1>27, SaveStepEffect DEF ControlInv, InLoop, Burning, Posting, Waiting, Requested, Tasks
<1>28. CASE RequestComplete
  <2>1. data'.WaitElapsed = 0 /\ data'.CompleteRequested /\ env'.requests > 0
    BY <1>0, <1>28 DEF RequestComplete, EnvOK
  <2>2. save'["LEOP"] = save["LEOP"] /\ leop' = leop
    BY <1>0, <1>28, CallSaveEffect DEF RequestComplete
  <2>3. leop.dur \in Nat
    BY <1>0 DEF LeopType, Seconds
  <2> QED
    BY <2>1, <2>2, <2>3 DEF ControlInv, InLoop, Burning, Posting, Waiting, Requested
<1>29. CASE Crash
  <2>1. leop'.pc = "load" /\ save'["LEOP"].pc = "idle" /\ save'["CMD"].pc = "idle"
        /\ data'.CompleteRequested = FALSE
    BY <1>0, <1>29, TaskAtEffect DEF Crash, SaveIdle, RuntimeZero
  <2> QED
    BY <2>1 DEF ControlInv, InLoop, Burning, Posting, Waiting, Requested
<1>30. CASE ClockJump
  <2>1. /\ leop'.pc = leop.pc /\ leop'.ret = leop.ret /\ leop'.dur = leop.dur
        /\ leop'.Cycle = leop.Cycle /\ leop.pc \in TimingPcs /\ env'.requests = env.requests
    BY <1>0, <1>30 DEF ClockJump, LeopType, EnvOK
  <2> QED
    BY <1>30, <1>w, <2>1 DEF ClockJump, ControlInv
<1> QED
  BY <1>1, <1>2, <1>3, <1>4, <1>5, <1>6, <1>7, <1>8, <1>9, <1>10, <1>11, <1>12, <1>13, <1>14, <1>15,
     <1>16, <1>17, <1>18, <1>19, <1>20, <1>21, <1>22, <1>23, <1>24, <1>25, <1>26, <1>27, <1>28, <1>29,
     <1>30 DEF Next, LeopStep, WaitStep

-----------------------------------------------------------------------------
(* The shared fields before a request.                                      *)

FileOf(d) == [state |-> d.State, cycle |-> d.CycleCount, elapsed |-> d.WaitElapsed]

\* What LoadState would accept of the shared fields.
Accepted(d) ==
  /\ d.State = INITIAL_WAIT => d.CycleCount = 0
  /\ d.State = COMPLETE <=> d.CycleCount = REPEAT_COUNT
  /\ d.WaitElapsed <= GetWaitDuration(d.State)

\* MISSION_LEOP_LoadState takes back exactly what fits the state it was saved in.
LEMMA AcceptedFile ==
  ASSUME NEW d \in DataType
  PROVE  ValidFile(FileOf(d)) <=> Accepted(d)
<1>1. FileOf(d) # NoFile
  BY StateNames DEF FileOf, NoFile, DataType
<1>2. /\ FileOf(d).state = d.State /\ FileOf(d).cycle = d.CycleCount
      /\ FileOf(d).elapsed = d.WaitElapsed
  BY DEF FileOf
<1> QED
  BY <1>1, <1>2 DEF ValidFile, Accepted

LEMMA CopyIsFile == CopyRuntimeToFile = FileOf(data) /\ CopyRuntimeToFile' = FileOf(data')
BY DEF CopyRuntimeToFile, FileOf

LEMMA InitData == Init => DataInv
BY DEF Init, DataInv, TaskAt, Burning, Posting, Waiting, WaitPcs, BurnPcs, EnablePcs, PostPcs, LoadPcs

\* Until a request, MISSION_Data is what the child task last wrote to it.
LEMMA NextData ==
  ASSUME TypeInv, ControlInv, DataInv, Next
  PROVE  DataInv'
<1>0. /\ data \in DataType /\ leop \in LeopType /\ save \in [Tasks -> SaveType]
      /\ data' \in DataType /\ leop' \in LeopType
  BY TypeParts, NextDataType, NextLeopType
<1> SUFFICES ASSUME ~Requested' PROVE DataInv'
  BY DEF DataInv
<1>a. /\ ValidFile(CopyRuntimeToFile) <=> Accepted(data)
      /\ ValidFile(CopyRuntimeToFile)' <=> Accepted(data')
  <2>1. ValidFile(CopyRuntimeToFile)' <=> ValidFile(FileOf(data'))
    BY CopyIsFile DEF ValidFile
  <2> QED
    BY <1>0, <2>1, AcceptedFile, CopyIsFile
<1> USE DEF WaitPcs, TimingPcs, BurnPcs, EnablePcs, PostPcs, LoadPcs
\* A step that keeps the shared fields and the stage.
<1>k. ASSUME ~Requested, data'.State = data.State, data'.CycleCount = data.CycleCount,
             leop'.Cycle = leop.Cycle, Accepted(data'),
             leop.pc \notin LoadPcs \cup {"countState", "next"},
             leop'.pc \notin LoadPcs \cup {"branch", "countState", "next", "burnStart"},
             leop'.pc \in {"final", "done"} => data.State = COMPLETE,
             Waiting("initialEnd")' \/ leop'.pc \in {"initialEnd", "toBurn"} => data.State = INITIAL_WAIT,
             leop'.pc = "for" => data.State \in {BURN, TO_ENABLE, POST_WAIT},
             Burning' => Burning, leop'.pc \in EnablePcs => leop.pc \in EnablePcs, Posting' => Posting
      PROVE  DataInv'
  BY <1>a, <1>k DEF DataInv
<1>1. CASE LoadRead \/ LoadFails
  <2>1. leop'.pc \in {"copy", "defaults", "failed"}
    BY <1>0, <1>1, GotoEffect DEF LoadRead, LoadFails, LeopType
  <2> QED
    BY <2>1 DEF DataInv, Waiting, Burning, Posting
<1>2. CASE CopyCycle \/ CopyState
  <2>1. leop'.read = leop.read /\ leop'.pc = IF leop.pc = "copy" THEN "copyState" ELSE "copyElapsed"
    BY <1>0, <1>2, GotoEffect DEF CopyCycle, CopyState, At
  <2>2. \/ /\ leop.pc = "copy" /\ data'.State = INITIAL_WAIT /\ data'.CycleCount = leop.read.cycle
        \/ /\ leop.pc = "copyState" /\ data'.State = leop.read.state /\ data'.CycleCount = data.CycleCount
           /\ data'.CompleteRequested = data.CompleteRequested
    BY <1>0, <1>2 DEF CopyCycle, CopyState, At, DataType
  <2> QED
    BY <2>1, <2>2 DEF DataInv, Waiting, Burning, Posting, Requested
<1>3. CASE CopyElapsed
  <2>1. leop'.pc = "loaded" /\ leop.pc = "copyElapsed"
    BY <1>3, TaskAtEffect DEF CopyElapsed, At
  <2>2. /\ data'.State = data.State /\ data'.CycleCount = data.CycleCount
        /\ data'.WaitElapsed = leop.read.elapsed /\ data'.CompleteRequested = data.CompleteRequested
    BY <1>0, <1>3 DEF CopyElapsed, DataType
  <2>3. data.State = leop.read.state /\ data.CycleCount = leop.read.cycle /\ ValidFile(leop.read)
    BY <2>1, <2>2 DEF DataInv, ControlInv, CopyPcs, Requested
  <2>4. Accepted(data')
    BY <2>2, <2>3 DEF Accepted, ValidFile
  <2> QED
    BY <1>a, <2>1, <2>4 DEF DataInv, Waiting, Burning, Posting
<1>4. CASE DefaultCycle
  <2>1. leop'.pc \in {"defaultState", "failedState"} /\ data'.CycleCount = 0
    BY <1>0, <1>4, GotoEffect DEF DefaultCycle, DataType
  <2> QED
    BY <2>1 DEF DataInv, Waiting, Burning, Posting
<1>5. CASE DefaultState \/ FailedState
  <2>1. leop.pc \in {"defaultState", "failedState"} /\ leop'.pc \in {"defaultsSaved", "loaded"}
    BY <1>0, <1>5, GotoEffect DEF DefaultState, FailedState, At
  <2>2. /\ data'.State = INITIAL_WAIT /\ data'.CycleCount = data.CycleCount
        /\ data'.WaitElapsed = data.WaitElapsed /\ data'.CompleteRequested = data.CompleteRequested
    BY <1>0, <1>5 DEF DefaultState, FailedState, DataType
  <2>3. data.CycleCount = 0 /\ data.WaitElapsed = 0
    BY <2>1, <2>2 DEF DataInv, ControlInv, Requested
  <2>4. Accepted(data')
    BY <2>2, <2>3, Constants, WaitDurations, StateNames DEF Accepted
  <2> QED
    BY <1>a, <2>1, <2>2, <2>3, <2>4 DEF DataInv, Waiting, Burning, Posting
<1>6. CASE DefaultsSaved
  <2>1. leop'.pc \in {"loaded", "failed"} /\ leop.pc = "defaultsSaved" /\ data' = data
    BY <1>6, TaskAtEffect DEF DefaultsSaved, At
  <2>2. Accepted(data')
    BY <2>1, Constants, WaitDurations, StateNames DEF Accepted, DataInv, ControlInv, Requested
  <2> QED
    BY <1>a, <2>1, <2>2 DEF DataInv, Waiting, Burning, Posting
<1>7. CASE Loaded
  <2>1. /\ leop.pc = "loaded" /\ data' = data
        /\ leop'.pc = IF data.State = COMPLETE THEN "done" ELSE "branch"
    BY <1>0, <1>7, GotoEffect DEF Loaded, At
  <2> QED
    BY <1>a, <2>1 DEF DataInv, Waiting, Burning, Posting, Requested
<1>8. CASE Branch
  <2>1. /\ leop.pc = "branch" /\ data' = data
        /\ \/ data.State = INITIAL_WAIT /\ leop'.pc = "wait" /\ leop'.ret = "initialEnd"
           \/ data.State # INITIAL_WAIT /\ leop'.pc = "for"
    BY <1>0, <1>8, GotoEffect, CallWaitEffect DEF Branch, At
  <2>2. data.State \in States
    BY <1>0 DEF DataType
  <2> QED
    BY <1>a, <2>1, <2>2 DEF DataInv, Waiting, Burning, Posting, Requested, States
<1>9. CASE CheckRequest \/ Saves
  <2>1. /\ leop'.Cycle = leop.Cycle /\ data' = data /\ ~Requested
        /\ \/ leop.pc = "initialEnd" /\ leop'.pc = "toBurn"
           \/ leop.pc \in BurnPcs /\ leop'.pc \in BurnPcs
           \/ leop.pc \in EnablePcs /\ leop'.pc \in EnablePcs
           \/ leop.pc = "postEnd" /\ leop'.pc = "count"
    BY <1>0, <1>9, GotoEffect DEF CheckRequest, Saves, At, Requested
  <2>2. Accepted(data')
    BY <1>a, <2>1 DEF DataInv
  <2> QED
    BY <1>k, <2>1, <2>2 DEF DataInv, Waiting, Burning, Posting
<1>10. CASE ToBurn
  <2>1. leop.pc = "toBurn" /\ leop'.pc = "for"
    BY <1>0, <1>10, GotoEffect DEF ToBurn, At
  <2>2. /\ data'.State = BURN /\ data'.CycleCount = data.CycleCount
        /\ data'.WaitElapsed = data.WaitElapsed /\ data'.CompleteRequested = data.CompleteRequested
    BY <1>0, <1>10 DEF ToBurn, DataType
  <2>3. data.CycleCount = 0 /\ data.WaitElapsed = 0
    BY <1>a, <2>1, <2>2 DEF DataInv, ControlInv, Accepted, Requested
  <2>4. Accepted(data')
    BY <2>2, <2>3, Constants, WaitDurations, StateNames DEF Accepted
  <2> QED
    BY <1>a, <2>1, <2>2, <2>4 DEF DataInv, Waiting, Burning, Posting
<1>11. CASE For
  <2>0. data' = data /\ ~Requested /\ data.CycleCount \in 0 .. REPEAT_COUNT /\ Accepted(data)
    BY <1>0, <1>11, <1>a DEF For, At, DataInv, DataType, Requested
  <2>1. CASE At("for")
    <3>1. data.State \in {BURN, TO_ENABLE, POST_WAIT} /\ data.CycleCount < REPEAT_COUNT
      BY <2>0, <2>1, Constants, StateNames DEF At, DataInv, Accepted
    <3>2. leop'.pc = "burnStart" /\ leop'.Cycle = data.CycleCount
      BY <1>0, <1>11, <2>0, <2>1, <3>1 DEF For, At, LoopEnters, LeopType
    <3> QED
      BY <1>a, <2>0, <3>1, <3>2 DEF DataInv, Waiting, Burning, Posting
  <2>2. CASE At("next")
    <3>1. data.CycleCount = leop.Cycle + 1 /\ data.State = NextState(data.CycleCount)
      BY <2>0, <2>2 DEF At, DataInv
    <3>2. /\ leop'.Cycle = data.CycleCount
          /\ leop'.pc = IF data.CycleCount < REPEAT_COUNT THEN "burnStart" ELSE "final"
      BY <1>0, <1>11, <2>0, <2>2, <3>1 DEF For, At, LoopEnters, LeopType
    <3> QED
      BY <1>a, <2>0, <3>1, <3>2 DEF DataInv, NextState, Waiting, Burning, Posting
  <2> QED
    BY <1>11, <2>1, <2>2 DEF For
<1>12. CASE StartBurn
  <2>1. leop.pc = "burnStart" /\ leop'.pc = "gpioHigh" /\ leop'.Cycle = leop.Cycle
    BY <1>0, <1>12, GotoEffect DEF StartBurn, At
  <2>2. /\ data'.State = BURN /\ data'.CycleCount = data.CycleCount
        /\ data'.WaitElapsed = 0 /\ data'.CompleteRequested = data.CompleteRequested
    BY <1>0, <1>12 DEF StartBurn, BurnStart, WaitReset, DataType
  <2>3. data.State \in {BURN, TO_ENABLE, POST_WAIT} /\ Accepted(data) /\ data.CycleCount = leop.Cycle
    BY <1>a, <2>1, <2>2 DEF DataInv, Requested
  <2>4. Accepted(data')
    BY <2>2, <2>3, Constants, WaitDurations, StateNames DEF Accepted
  <2> QED
    BY <1>a, <2>1, <2>2, <2>3, <2>4 DEF DataInv, Waiting, Burning, Posting
<1>13. CASE GpioHigh \/ GpioLow
  <2>1. /\ leop.pc \in {"gpioHigh", "gpioLow"} /\ leop'.Cycle = leop.Cycle /\ data' = data
        /\ leop'.pc = "burned" \/ (leop'.pc = "wait" /\ leop'.ret = "gpioLow")
    BY <1>0, <1>13, GotoEffect, CallWaitEffect DEF GpioHigh, GpioLow, At
  <2>2. ~Requested /\ Accepted(data')
    BY <1>a, <2>1 DEF DataInv, Requested
  <2> QED
    BY <1>k, <2>1, <2>2 DEF DataInv, Waiting, Burning, Posting
<1>14. CASE ToEnable \/ ToPost
  <2>1. /\ leop'.Cycle = leop.Cycle
        /\ \/ leop.pc = "toEnable" /\ leop'.pc = "enabled" /\ data'.State = TO_ENABLE
           \/ /\ leop.pc = "toPost" /\ leop'.pc = "wait" /\ leop'.ret = "postEnd"
              /\ data'.State = POST_WAIT
    BY <1>0, <1>14, GotoEffect, CallWaitEffect DEF ToEnable, ToPost, At, DataType
  <2>2. /\ data'.CycleCount = data.CycleCount
        /\ data'.WaitElapsed = data.WaitElapsed /\ data'.CompleteRequested = data.CompleteRequested
    BY <1>0, <1>14 DEF ToEnable, ToPost, DataType
  <2>3. /\ data.State \in {BURN, TO_ENABLE} /\ Accepted(data) /\ data.CycleCount = leop.Cycle
        /\ data.WaitElapsed = 0
    BY <1>a, <2>1, <2>2 DEF DataInv, ControlInv, Requested, Burning
  <2>4. Accepted(data')
    BY <2>1, <2>2, <2>3, Constants, WaitDurations, StateNames DEF Accepted
  <2> QED
    BY <1>a, <2>1, <2>2, <2>3, <2>4 DEF DataInv, Waiting, Burning, Posting
<1>15. CASE CountCycle
  <2>1. leop.pc = "count" /\ leop'.pc = "countState" /\ leop'.Cycle = leop.Cycle
    BY <1>0, <1>15, GotoEffect DEF CountCycle, At
  <2>2. /\ data'.State = data.State /\ data'.CycleCount = leop.Cycle + 1
        /\ data'.CompleteRequested = data.CompleteRequested
    BY <1>0, <1>15 DEF CountCycle, DataType
  <2> QED
    BY <2>1, <2>2 DEF DataInv, Waiting, Burning, Posting, Requested
<1>16. CASE CountState
  <2>1. leop.pc = "countState" /\ leop'.pc = "next" /\ leop'.Cycle = leop.Cycle
    BY <1>0, <1>16, GotoEffect DEF CountState, At
  <2>2. /\ data'.CycleCount = data.CycleCount /\ data'.WaitElapsed = data.WaitElapsed
        /\ data'.CompleteRequested = data.CompleteRequested
        /\ data'.State \in {NextState(leop.Cycle + 1), NextState(data.CycleCount)}
    BY <1>0, <1>16 DEF CountState, DataType
  <2>3. data.CycleCount = leop.Cycle + 1 /\ data.WaitElapsed = 0
    BY <2>1, <2>2 DEF DataInv, ControlInv, Requested
  <2>4. data'.State = NextState(data'.CycleCount) /\ data'.WaitElapsed = 0
        /\ data'.CycleCount = leop'.Cycle + 1
    BY <2>1, <2>2, <2>3
  <2>5. Accepted(data')
    <3>1. data'.CycleCount \in 0 .. REPEAT_COUNT
      BY <1>0 DEF DataType
    <3> QED
      BY <2>4, <3>1, Constants, WaitDurations, StateNames DEF Accepted, NextState
  <2> QED
    BY <1>a, <2>1, <2>4, <2>5 DEF DataInv, Waiting, Burning, Posting
<1>17. CASE Final
  <2>1. leop'.pc = "done"
    BY <1>0, <1>17, GotoEffect DEF Final
  <2>2. data'.State = COMPLETE /\ data'.CycleCount = REPEAT_COUNT /\ data'.WaitElapsed = 0
    BY <1>0, <1>17 DEF Final, DataType
  <2>3. Accepted(data')
    BY <2>2, WaitDurations, StateNames DEF Accepted
  <2> QED
    BY <1>a, <2>1, <2>2, <2>3 DEF DataInv, Waiting, Burning, Posting
\* Inside the wait.
<1>18. CASE WaitSkip \/ WaitEnd
  <2>1. leop'.pc = leop.ret /\ leop'.Cycle = leop.Cycle /\ leop.pc \in {"wait", "waitEnd"}
    BY <1>18, WaitReturnEffect DEF WaitSkip, WaitEnd, At
  <2>2. /\ data'.State = data.State /\ data'.CycleCount = data.CycleCount /\ data'.WaitElapsed = 0
        /\ data'.CompleteRequested = data.CompleteRequested
    BY <1>0, <1>18 DEF WaitSkip, WaitEnd, WaitReset, DataType
  <2>3. leop.ret \in {"initialEnd", "gpioLow", "postEnd"}
    BY <1>0, <2>1 DEF ControlInv, LeopType
  <2>4. ~Requested /\ Accepted(data) /\ data.State \in States
    BY <1>0, <1>a, <2>1, <2>2 DEF DataInv, DataType, Requested
  <2>5. Accepted(data')
    BY <2>2, <2>4, Constants, WaitDurations DEF Accepted, States
  <2> QED
    BY <1>k, <2>1, <2>2, <2>3, <2>4, <2>5 DEF DataInv, Waiting, Burning, Posting
<1>w. ASSUME leop.pc \in WaitPcs, leop'.pc \in WaitPcs, leop'.ret = leop.ret, leop'.Cycle = leop.Cycle,
             data'.State = data.State, data'.CycleCount = data.CycleCount,
             data'.CompleteRequested = data.CompleteRequested,
             data'.WaitElapsed = data.WaitElapsed \/ data'.WaitElapsed <= leop.dur
      PROVE  DataInv'
  <2>1. ~Requested /\ Accepted(data) /\ leop.ret \in {"initialEnd", "gpioLow", "postEnd"}
    BY <1>0, <1>a, <1>w DEF DataInv, ControlInv, LeopType, Requested
  <2>2. leop.dur = GetWaitDuration(data.State)
    BY <1>w, <2>1, WaitTimes, WaitDurations DEF ControlInv, DataInv, Waiting, Burning, Posting
  <2>3. Accepted(data')
    BY <1>w, <2>1, <2>2 DEF Accepted
  <2> QED
    BY <1>k, <1>w, <2>1, <2>3 DEF DataInv, Waiting, Burning, Posting
<1>19. CASE WaitEnter \/ WaitNoteNext
  <2>1. /\ leop'.pc = "loop" /\ leop'.ret = leop.ret /\ leop'.Cycle = leop.Cycle /\ leop.pc \in WaitPcs
    BY <1>0, <1>19 DEF WaitEnter, WaitNoteNext, At, LeopType
  <2>2. /\ data'.State = data.State /\ data'.CycleCount = data.CycleCount
        /\ data'.CompleteRequested = data.CompleteRequested /\ data'.WaitElapsed = data.WaitElapsed
    BY <1>0, <1>19 DEF WaitEnter, WaitNoteNext, DataType
  <2> QED
    BY <1>w, <2>1, <2>2
<1>20. CASE WaitLoop \/ WaitPoll \/ WaitNoteSave
  <2>1. /\ leop'.pc \in WaitPcs /\ leop'.ret = leop.ret /\ leop'.Cycle = leop.Cycle /\ leop.pc \in WaitPcs
    <3>1. CASE WaitLoop
      BY <1>0, <3>1, LoopEffect DEF WaitLoop, At, LeopType
    <3>2. CASE WaitPoll \/ WaitNoteSave
      BY <1>0, <3>2, GotoEffect DEF WaitPoll, WaitNoteSave, At
    <3> QED
      BY <1>20, <3>1, <3>2
  <2> QED
    BY <1>20, <1>w, <2>1 DEF WaitLoop, WaitPoll, WaitNoteSave
<1>21. CASE WaitNote
  <2>1. /\ leop'.pc = "noteSave" /\ leop'.ret = leop.ret /\ leop'.Cycle = leop.Cycle /\ leop.pc \in WaitPcs
    BY <1>0, <1>21, GotoEffect DEF WaitNote, At
  <2>2. /\ data'.State = data.State /\ data'.CycleCount = data.CycleCount
        /\ data'.CompleteRequested = data.CompleteRequested
        /\ data'.WaitElapsed = Min({TotalElapsed(leop.saved, leop.session), leop.dur})
    BY <1>0, <1>21 DEF WaitNote, DataType
  <2>3. data'.WaitElapsed <= leop.dur
    <3>1. TotalElapsed(leop.saved, leop.session) \in Nat /\ leop.dur \in Nat
      BY <1>0, Modulo DEF TotalElapsed, LeopType, Seconds
    <3> QED
      BY <2>2, <3>1, MinPair
  <2> QED
    BY <1>w, <2>1, <2>2, <2>3
<1>22. CASE ClockJump
  <2>1. /\ leop'.pc = leop.pc /\ leop'.ret = leop.ret /\ leop'.Cycle = leop.Cycle /\ leop.pc \in WaitPcs
    BY <1>0, <1>22 DEF ClockJump, LeopType
  <2> QED
    BY <1>22, <1>w, <2>1 DEF ClockJump
\* The main task and the environment.
<1>23. ASSUME NEW t \in Tasks, SaveStep(t) PROVE DataInv'
  BY <1>23, SaveStepEffect DEF DataInv, Waiting, Burning, Posting, Requested, CopyRuntimeToFile
<1>24. CASE RequestComplete
  BY <1>24 DEF RequestComplete, Requested
<1>25. CASE Crash
  BY <1>25, TaskAtEffect DEF Crash, DataInv, Waiting, Burning, Posting
<1> QED
  BY <1>1, <1>2, <1>3, <1>4, <1>5, <1>6, <1>7, <1>8, <1>9, <1>10, <1>11, <1>12, <1>13, <1>14, <1>15,
     <1>16, <1>17, <1>18, <1>19, <1>20, <1>21, <1>22, <1>23, <1>24, <1>25 DEF Next, LeopStep, WaitStep

-----------------------------------------------------------------------------
(* The burn that a request finds past the test.                             *)

\* The steps that leave the outputs and their history alone.
Plain ==
  \/ LoadRead \/ CopyCycle \/ CopyState \/ CopyElapsed \/ DefaultCycle \/ DefaultState
  \/ DefaultsSaved \/ FailedState
  \/ WaitEnter \/ WaitSkip \/ WaitPoll \/ WaitNote \/ WaitNoteSave \/ WaitNoteNext \/ WaitEnd
  \/ Branch \/ CheckRequest \/ Saves \/ ToBurn \/ For \/ StartBurn \/ ToPost \/ CountCycle
  \/ CountState \/ Final

LEMMA PlainEffect ==
  ASSUME Plain
  PROVE  UNCHANGED <<out, env, hist>>
<1>1. CASE LoadRead \/ CopyCycle \/ CopyState \/ CopyElapsed \/ DefaultCycle \/ DefaultState
           \/ DefaultsSaved \/ FailedState
  BY <1>1 DEF LoadRead, CopyCycle, CopyState, CopyElapsed, DefaultCycle, DefaultState, DefaultsSaved,
    FailedState
<1>2. CASE WaitEnter \/ WaitSkip \/ WaitPoll \/ WaitNote \/ WaitNoteSave \/ WaitNoteNext \/ WaitEnd
  BY <1>2 DEF WaitEnter, WaitSkip, WaitPoll, WaitNote, WaitNoteSave, WaitNoteNext, WaitEnd
<1>3. CASE Branch \/ CheckRequest \/ Saves \/ ToBurn \/ For \/ StartBurn \/ ToPost \/ CountCycle
           \/ CountState \/ Final
  BY <1>3 DEF Branch, CheckRequest, Saves, ToBurn, For, StartBurn, ToPost, CountCycle, CountState, Final
<1> QED
  BY <1>1, <1>2, <1>3 DEF Plain

\* The steps that touch the outputs, the environment or the history, and the rest.
LEMMA Steps ==
  ASSUME Next
  PROVE  \/ Plain
         \/ LoadFails \/ WaitLoop \/ Loaded \/ GpioHigh \/ GpioLow \/ ToEnable
         \/ \E t \in Tasks : SaveStep(t)
         \/ RequestComplete \/ Crash \/ ClockJump
BY DEF Next, LeopStep, WaitStep, Plain

\* Only a reset takes a request back.
LEMMA RequestStays ==
  ASSUME TypeInv, Next, ~Crash
  PROVE  Requested => Requested'
<1>0. data \in DataType
  BY TypeParts
<1> SUFFICES ASSUME data.CompleteRequested PROVE data'.CompleteRequested
  BY DEF Requested
<1>1. CASE CopyCycle \/ CopyState \/ CopyElapsed \/ DefaultCycle \/ DefaultState \/ FailedState
  BY <1>0, <1>1 DEF CopyCycle, CopyState, CopyElapsed, DefaultCycle, DefaultState, FailedState, DataType
<1>2. CASE WaitEnter \/ WaitSkip \/ WaitNote \/ WaitEnd
  BY <1>0, <1>2 DEF WaitEnter, WaitSkip, WaitNote, WaitEnd, WaitReset, DataType
<1>3. CASE ToBurn \/ StartBurn \/ ToEnable \/ ToPost \/ CountCycle \/ CountState \/ Final
  BY <1>0, <1>3 DEF ToBurn, StartBurn, BurnStart, WaitReset, ToEnable, ToPost, CountCycle, CountState, Final,
    DataType
<1>4. CASE RequestComplete
  BY <1>4 DEF RequestComplete
<1>5. CASE LoadRead \/ LoadFails \/ DefaultsSaved \/ WaitLoop \/ WaitPoll \/ WaitNoteSave \/ WaitNoteNext
  BY <1>5 DEF LoadRead, LoadFails, DefaultsSaved, WaitLoop, WaitPoll, WaitNoteSave, WaitNoteNext
<1>6. CASE Loaded \/ Branch \/ CheckRequest \/ Saves \/ For \/ GpioHigh \/ GpioLow
  BY <1>6 DEF Loaded, Branch, CheckRequest, Saves, For, GpioHigh, GpioLow
<1>7. CASE ClockJump \/ \E t \in Tasks : SaveStep(t)
  BY <1>7 DEF ClockJump, SaveStep, SaveCopy, SaveStore, SaveStoreFails, SaveSync
<1> QED
  BY <1>1, <1>2, <1>3, <1>4, <1>5, <1>6, <1>7 DEF Next, LeopStep, WaitStep

\* MISSION_LEOP_GpioHigh drives the line LOW before it returns, if its message
\* arrives.
LEMMA NextLine ==
  ASSUME TypeInv, ControlInv, LineInv, Next
  PROVE  LineInv'
<1>0. leop \in LeopType /\ OutOK /\ HistOK
  BY TypeParts
<1> USE DEF WaitPcs, Held
<1>k. ASSUME out'.gpio = out.gpio, hist'.lost = hist.lost, hist'.lit = hist.lit \/ out.gpio = "HIGH",
             Held(leop) => Held(leop')
      PROVE  LineInv'
  BY <1>0, <1>k DEF LineInv, OutOK
<1>n. ASSUME out'.gpio = out.gpio, hist'.lost = hist.lost, hist'.lit = hist.lit, ~Held(leop)
      PROVE  LineInv'
  BY <1>n, <1>k
<1>1. CASE LoadRead \/ LoadFails \/ CopyCycle \/ CopyState \/ CopyElapsed \/ DefaultCycle \/ DefaultState
           \/ DefaultsSaved \/ FailedState
  BY <1>0, <1>1, <1>n DEF HistOK, LoadRead, LoadFails, CopyCycle, CopyState, CopyElapsed, DefaultCycle, DefaultState,
    DefaultsSaved, FailedState, At
<1>2. CASE Branch \/ CheckRequest \/ Saves \/ ToBurn \/ For \/ StartBurn
  BY <1>2, <1>n DEF Branch, CheckRequest, Saves, ToBurn, For, StartBurn, At
<1>3. CASE ToPost \/ CountCycle \/ CountState \/ Final
  BY <1>3, <1>n DEF ToPost, CountCycle, CountState, Final, At
<1>4. CASE Loaded \/ ToEnable
  <2>1. out'.gpio = out.gpio /\ hist' = hist
    BY <1>0, <1>4 DEF Loaded, ToEnable, Transmits, OutOK
  <2>2. ~Held(leop)
    BY <1>4 DEF Loaded, ToEnable, At
  <2> QED
    BY <1>n, <2>1, <2>2
<1>5. CASE GpioHigh
  <2>1. CASE UNCHANGED <<out, hist>>
    BY <1>5, <1>n, <2>1 DEF GpioHigh, At
  <2>2. CASE /\ out' = [out EXCEPT !.gpio = "HIGH"] /\ CallWait(BURN_DURATION_SEC, "gpioLow")
             /\ hist' = [hist EXCEPT !.burns = @ + 1, !.late = IF Requested THEN @ + 1 ELSE @]
    <3>1. leop'.pc = "wait" /\ leop'.ret = "gpioLow"
      BY <1>0, <2>2, CallWaitEffect
    <3>2. out'.gpio = "HIGH" /\ hist'.lost = hist.lost
      BY <1>0, <2>2 DEF OutOK, HistOK
    <3> QED
      BY <3>1, <3>2 DEF LineInv
  <2> QED
    BY <1>5, <2>1, <2>2 DEF GpioHigh
<1>6. CASE GpioLow
  <2>1. CASE out' = [out EXCEPT !.gpio = "LOW"]
    <3>1. out'.gpio = "LOW"
      BY <1>0, <2>1 DEF OutOK
    <3>2. hist'.lit = 0 /\ ~hist'.lost
      BY <1>0, <1>6, <3>1 DEF GpioLow, HistOK
    <3> QED
      BY <3>1, <3>2 DEF LineInv
  <2>2. CASE "transmit" \in Faults /\ out' = out
    <3>1. CASE out.gpio = "LOW"
      BY <1>0, <1>6, <2>2, <3>1 DEF GpioLow, HistOK, LineInv
    <3>2. CASE out.gpio = "HIGH"
      BY <1>0, <1>6, <2>2, <3>2 DEF GpioLow, HistOK, LineInv
    <3> QED
      BY <1>0, <3>1, <3>2 DEF OutOK
  <2> QED
    BY <1>6, <2>1, <2>2 DEF GpioLow, Transmits
<1>7. CASE WaitEnter \/ WaitNoteNext \/ ClockJump
  BY <1>0, <1>7, <1>k DEF WaitEnter, WaitNoteNext, ClockJump, At, LeopType
<1>8. CASE WaitSkip \/ WaitEnd
  <2>1. leop'.pc = leop.ret /\ out' = out /\ hist' = hist /\ leop.pc # "gpioLow"
    BY <1>8, WaitReturnEffect DEF WaitSkip, WaitEnd, At
  <2> QED
    BY <1>k, <2>1
<1>9. CASE WaitPoll \/ WaitNote \/ WaitNoteSave
  <2>1. leop'.ret = leop.ret /\ leop'.pc \in WaitPcs /\ leop.pc \in WaitPcs /\ UNCHANGED <<out, hist>>
    BY <1>0, <1>9, GotoEffect DEF WaitPoll, WaitNote, WaitNoteSave, At
  <2> QED
    BY <1>k, <2>1
<1>10. CASE WaitLoop
  <2>1. leop'.pc \in {"waitEnd", "poll"} /\ leop'.ret = leop.ret
    BY <1>0, <1>10, LoopEffect DEF LeopType
  <2>2. hist'.lost = hist.lost /\ (hist'.lit = hist.lit \/ out.gpio = "HIGH")
    BY <1>0, <1>10, LoopEffect DEF HistOK
  <2> QED
    BY <1>10, <1>k, <2>1, <2>2 DEF WaitLoop, At
<1>11. ASSUME NEW t \in Tasks, SaveStep(t) PROVE LineInv'
  BY <1>11, <1>k, SaveStepEffect
<1>12. CASE RequestComplete
  BY <1>12, <1>k DEF RequestComplete
<1>13. CASE Crash
  <2>1. out'.gpio = "LOW" /\ hist'.lit = 0 /\ ~hist'.lost
    BY <1>0, <1>13 DEF Crash, HistOK
  <2> QED
    BY <2>1 DEF LineInv
<1> QED
  BY <1>1, <1>2, <1>3, <1>4, <1>5, <1>6, <1>7, <1>8, <1>9, <1>10, <1>11, <1>12, <1>13
  DEF Next, LeopStep, WaitStep

\* After a request no burn starts but the one that has passed the test.
LEMMA NextLate ==
  ASSUME TypeInv, LineInv, LateInv, Next
  PROVE  LateInv'
<1>0. leop \in LeopType /\ HistOK /\ OutOK
  BY TypeParts
<1> DEFINE Released(l) == \/ l.pc = "wait" /\ l.ret = "gpioLow"
                          \/ l.pc \in {"gpioLow", "burned", "final", "done"}
<1>k. ASSUME hist'.late = hist.late, hist'.lit = hist.lit, hist'.lost = hist.lost,
             Requested /\ Released(leop) => Requested' /\ Released(leop')
      PROVE  LateInv'
  BY <1>k DEF LateInv
<1>1. CASE GpioHigh
  <2>0. hist.late = 0
    BY <1>1 DEF GpioHigh, At, LateInv
  <2>1. CASE UNCHANGED hist
    BY <2>0, <2>1 DEF LateInv
  <2>2. CASE /\ CallWait(BURN_DURATION_SEC, "gpioLow")
             /\ hist' = [hist EXCEPT !.burns = @ + 1, !.late = IF Requested THEN @ + 1 ELSE @]
    <3>1. leop'.pc = "wait" /\ leop'.ret = "gpioLow" /\ data' = data
      BY <1>0, <1>1, <2>2, CallWaitEffect DEF GpioHigh
    <3>2. /\ hist'.lit = hist.lit /\ hist'.lost = hist.lost
          /\ hist'.late = IF Requested THEN 1 ELSE 0
      BY <1>0, <2>0, <2>2 DEF HistOK
    <3>3. hist.lit = 0 \/ hist.lost
      BY <1>0, <1>1 DEF GpioHigh, At, LineInv, Held, WaitPcs, OutOK
    <3> QED
      BY <3>1, <3>2, <3>3 DEF LateInv, Requested
  <2> QED
    BY <1>1, <2>1, <2>2 DEF GpioHigh
<1>2. CASE GpioLow
  <2>1. leop'.pc = "burned" /\ data' = data
    BY <1>0, <1>2, GotoEffect DEF GpioLow
  <2>2. hist'.late = hist.late /\ (hist'.lit = 0 \/ hist'.lost)
    BY <1>0, <1>2 DEF GpioLow, Transmits, OutOK, HistOK
  <2> QED
    BY <2>1, <2>2 DEF LateInv, Requested
<1>3. CASE Crash
  <2>1. hist'.late = 0
    BY <1>0, <1>3 DEF Crash, HistOK
  <2> QED
    BY <2>1 DEF LateInv
<1>4. CASE WaitLoop
  <2>1. hist.late = 0
    BY <1>4 DEF WaitLoop, At, LateInv
  <2>2. hist'.late = hist.late
    BY <1>0, <1>4, LoopEffect DEF HistOK
  <2> QED
    BY <2>1, <2>2 DEF LateInv
<1>5. CASE LoadFails \/ Loaded \/ ToEnable \/ ClockJump
  <2>1. hist'.late = hist.late /\ hist'.lit = hist.lit /\ hist'.lost = hist.lost
    BY <1>0, <1>5 DEF LoadFails, Loaded, ToEnable, ClockJump, HistOK
  <2>2. ~Released(leop)
    BY <1>5 DEF LoadFails, Loaded, ToEnable, ClockJump, At
  <2> QED
    BY <1>k, <2>1, <2>2
<1>6. ASSUME NEW t \in Tasks, SaveStep(t) PROVE LateInv'
  BY <1>k, <1>6, SaveStepEffect DEF Requested
<1>7. CASE RequestComplete
  BY <1>7, <1>k DEF RequestComplete, Requested
<1>8. CASE Plain
  <2>1. CASE Requested /\ Released(leop)
    <3>1. WaitSkip \/ CheckRequest \/ Final
      BY <1>8, <2>1 DEF Plain, LoadRead, CopyCycle, CopyState, CopyElapsed, DefaultCycle, DefaultState,
        DefaultsSaved, FailedState, WaitEnter, SkipsWait, WaitPoll, WaitNote, WaitNoteSave, WaitNoteNext,
        WaitEnd, Branch, Saves, ToBurn, For, StartBurn, ToPost, CountCycle, CountState, At
    <3>2. leop'.pc \in {"gpioLow", "final", "done"}
      BY <1>0, <2>1, <3>1, GotoEffect, WaitReturnEffect DEF WaitSkip, CheckRequest, Final, At
    <3>3. ~Crash
      BY <1>0, <3>2, TaskAtEffect DEF Crash
    <3> QED
      BY <1>8, <1>k, <2>1, <3>2, <3>3, PlainEffect, RequestStays
  <2>2. CASE ~(Requested /\ Released(leop))
    BY <1>8, <1>k, <2>2, PlainEffect
  <2> QED
    BY <2>1, <2>2
<1> QED
  BY <1>1, <1>2, <1>3, <1>4, <1>5, <1>6, <1>7, <1>8, Steps

-----------------------------------------------------------------------------
(* The length of a burn.                                                    *)

LEMMA InitLate == Init => LineInv /\ LateInv /\ LitInv
BY DEF Init, LineInv, Held, LateInv, LitInv, TaskAt, Waiting, WaitPcs, TimingPcs

\* Clock jumps are not forgotten.
LEMMA JumpsStay ==
  ASSUME TypeInv, Next, env'.jumps = 0
  PROVE  env.jumps = 0 /\ ~ClockJump
<1>0. EnvOK
  BY TypeParts
<1>1. CASE Plain \/ WaitLoop \/ Loaded \/ GpioHigh \/ GpioLow \/ ToEnable
  <2>1. env' = env
    BY <1>1, PlainEffect DEF WaitLoop, Loaded, GpioHigh, GpioLow, ToEnable
  <2>2. ~ClockJump
    BY <1>0, <2>1 DEF ClockJump, EnvOK
  <2> QED
    BY <2>1, <2>2
<1>2. CASE LoadFails \/ RequestComplete \/ Crash \/ \E t \in Tasks : SaveStep(t)
  <2>1. env'.jumps = env.jumps
    BY <1>0, <1>2, SaveStepEffect DEF LoadFails, FileFault, RequestComplete, Crash, EnvOK
  <2>2. ~ClockJump
    BY <1>0, <2>1 DEF ClockJump, EnvOK
  <2> QED
    BY <2>1, <2>2
<1>3. CASE ClockJump
  BY <1>0, <1>3 DEF ClockJump, EnvOK
<1> QED
  BY <1>1, <1>2, <1>3, Steps

\* Each second that MISSION_LEOP_Wait counts is a second of burning.
LEMMA NextLit ==
  ASSUME TypeInv, ControlInv, LineInv, LitInv, Next
  PROVE  LitInv'
<1>0. /\ data \in DataType /\ leop \in LeopType /\ HistOK /\ OutOK
      /\ hist.lit \in Nat /\ leop.session \in Nat /\ leop.saved \in Nat
  BY TypeParts DEF HistOK, LeopType, Seconds
<1> SUFFICES ASSUME env'.jumps = 0 PROVE LitInv'
  BY DEF LitInv
<1>j. env.jumps = 0 /\ ~ClockJump
  BY JumpsStay
<1> USE DEF WaitPcs, TimingPcs, Counts
<1>x. ASSUME leop'.pc \notin WaitPcs \cup {"gpioLow"} \/ (leop'.pc \in WaitPcs /\ leop'.ret # "gpioLow")
      PROVE  LitInv'
  BY <1>x DEF LitInv, Waiting
<1>1. CASE GpioHigh
  <2>1. CASE Goto("burned")
    BY <1>0, <1>x, <2>1, GotoEffect
  <2>2. CASE /\ out' = [out EXCEPT !.gpio = "HIGH"] /\ CallWait(BURN_DURATION_SEC, "gpioLow")
             /\ hist' = [hist EXCEPT !.burns = @ + 1, !.late = IF Requested THEN @ + 1 ELSE @]
    <3>1. leop'.pc = "wait" /\ leop'.ret = "gpioLow" /\ out'.gpio = "HIGH"
          /\ hist'.lit = hist.lit /\ hist'.lost = hist.lost
      BY <1>0, <2>2, CallWaitEffect DEF HistOK, OutOK
    <3>2. hist.lit = 0 \/ hist.lost
      BY <1>0, <1>1 DEF GpioHigh, At, LineInv, Held, OutOK
    <3> QED
      BY <3>1, <3>2 DEF LitInv, Waiting
  <2> QED
    BY <1>1, <2>1, <2>2 DEF GpioHigh
<1>2. CASE WaitEnter
  <2>1. /\ leop.pc = "wait" /\ leop'.pc = "loop" /\ leop'.ret = leop.ret
        /\ leop'.saved = data.WaitElapsed /\ leop'.session = 0
        /\ ~data'.WaitComplete /\ UNCHANGED <<out, hist>>
    BY <1>0, <1>2 DEF WaitEnter, At, LeopType, DataType
  <2>2. leop.ret = "gpioLow" => 
          data.WaitElapsed = 0 /\ (hist.lost \/ hist.lit = 0) /\ out.gpio = "HIGH"
    BY <1>j, <2>1 DEF ControlInv, LitInv
  <2> QED
    BY <1>0, <1>x, <2>1, <2>2, Constants DEF LitInv, Waiting
<1>3. CASE WaitSkip \/ WaitEnd
  <2>1. leop'.pc = leop.ret /\ leop.pc \in {"wait", "waitEnd"} /\ hist' = hist
    BY <1>3, WaitReturnEffect DEF WaitSkip, WaitEnd, At
  <2>2. data'.CompleteRequested = data.CompleteRequested
    BY <1>0, <1>3 DEF WaitSkip, WaitEnd, WaitReset, DataType
  <2>3. leop.ret \in {"initialEnd", "gpioLow", "postEnd"}
    BY <1>0, <2>1 DEF ControlInv, LeopType
  <2>4. CASE leop.ret = "gpioLow"
    <3>1. WaitSkip => Requested /\ (hist.lost \/ hist.lit = 0)
      BY <1>j, <2>4, Constants, WaitTimes DEF WaitSkip, SkipsWait, At, ControlInv, LitInv
    <3>2. /\ hist.lost \/ hist.lit < BURN_DURATION_SEC + MaxDelay
          /\ Requested \/ hist.lit >= BURN_DURATION_SEC
      BY <1>3, <1>j, <2>4, <3>1, Constants DEF WaitEnd, At, LitInv, Waiting
    <3> QED
      BY <2>1, <2>2, <2>4, <3>2 DEF LitInv, Waiting, Requested
  <2> QED
    BY <1>x, <2>1, <2>3, <2>4
<1>4. CASE WaitLoop
  <2>0. data' = data /\ out' = out /\ leop.pc = "loop"
    BY <1>4 DEF WaitLoop, At
  <2>1. CASE data.WaitComplete /\ hist' = hist /\ leop' = [leop EXCEPT !.pc = "waitEnd"]
    <3>1. leop'.pc = "waitEnd" /\ leop'.ret = leop.ret
      BY <1>0, <2>1 DEF LeopType
    <3> QED
      BY <1>0, <1>j, <2>0, <2>1, <3>1, Constants DEF LitInv, Waiting, Requested
  <2>2. ASSUME ~data.WaitComplete, NEW d \in 1 .. MaxDelay, NEW q \in 0 .. INITIAL_WAIT_SEC, NEW l \in Nat,
               leop' = [leop EXCEPT !.pc = "poll", !.session = Ticks(leop.session, d)],
               hist' = [hist EXCEPT !.quiet = q, !.lit = l],
               out.gpio = "HIGH" =>
                 /\ hist.lit + d <= BURN_DURATION_SEC + MaxDelay => l = hist.lit + d
                 /\ l = hist.lit + d \/ l = BURN_DURATION_SEC + MaxDelay
        PROVE  LitInv'
    <3>1. /\ leop'.pc = "poll" /\ leop'.ret = leop.ret /\ leop'.saved = leop.saved
          /\ leop'.session = Ticks(leop.session, d) /\ hist'.lit = l /\ hist'.lost = hist.lost
      BY <1>0, <2>2 DEF LeopType, HistOK
    <3>2. CASE leop.ret = "gpioLow"
      <4>1. /\ out.gpio = "HIGH" /\ leop.saved = 0 /\ Counts
            /\ leop.session < BURN_DURATION_SEC
        BY <1>j, <2>0, <2>2, <3>2 DEF LitInv
      <4>2. d \in Nat /\ leop.session + d < BURN_DURATION_SEC + MaxDelay
        BY <1>0, <4>1, Constants
      <4>3. leop.session + d <= l /\ (~hist.lost => leop.session + d = l)
        BY <1>0, <2>2, <4>1, <4>2, Constants
      <4>4. Ticks(leop.session, d) = leop.session + d
        BY <1>0, <4>1, <4>2, Constants, Modulo DEF Ticks
      <4> QED
        BY <2>0, <2>2, <3>1, <3>2, <4>1, <4>2, <4>3, <4>4 DEF LitInv, Waiting
    <3> QED
      BY <1>x, <3>1, <3>2
  <2>3. CASE ~data.WaitComplete
    <3>1. PICK d \in 1 .. MaxDelay, q \in 0 .. INITIAL_WAIT_SEC, l \in Nat :
            /\ leop' = [leop EXCEPT !.pc = "poll", !.session = Ticks(leop.session, d)]
            /\ hist' = [hist EXCEPT !.quiet = q, !.lit = l]
            /\ q >= hist.quiet
            /\ leop.ret = "initialEnd" => q = hist.quiet + d \/ q = INITIAL_WAIT_SEC
            /\ \/ out.gpio # "HIGH" /\ l = hist.lit
               \/ /\ out.gpio = "HIGH"
                  /\ hist.lit + d <= BURN_DURATION_SEC + MaxDelay => l = hist.lit + d
                  /\ l = hist.lit + d \/ l = BURN_DURATION_SEC + MaxDelay
      BY <1>4, <2>3, LoopEffect, Zenon
    <3> QED
      BY <2>2, <2>3, <3>1
  <2>4. CASE data.WaitComplete
    BY <1>4, <2>1, <2>4, LoopEffect
  <2> QED
    BY <2>3, <2>4
<1>5. CASE WaitPoll
  <2>1. /\ leop.pc = "poll" /\ leop'.ret = leop.ret /\ leop'.saved = leop.saved
        /\ leop'.session = leop.session /\ leop'.pc = IF Requested THEN "waitEnd" ELSE "note"
    BY <1>0, <1>5, GotoEffect DEF WaitPoll, At
  <2> QED
    BY <1>5, <1>j, <2>1 DEF WaitPoll, LitInv, Waiting, Requested
<1>6. CASE WaitNote
  <2>1. /\ leop.pc = "note" /\ leop'.ret = leop.ret /\ leop'.saved = leop.saved
        /\ leop'.session = leop.session /\ leop'.pc = "noteSave" /\ UNCHANGED <<out, hist>>
    BY <1>0, <1>6, GotoEffect DEF WaitNote, At
  <2>2. /\ data'.CompleteRequested = data.CompleteRequested
        /\ data'.WaitComplete <=> data.WaitComplete \/ TotalElapsed(leop.saved, leop.session) >= leop.dur
    BY <1>0, <1>6 DEF WaitNote, DataType
  <2>3. CASE leop.ret = "gpioLow"
    <3>1. /\ out.gpio = "HIGH" /\ leop.saved = 0 /\ Counts
          /\ leop.session < BURN_DURATION_SEC + MaxDelay
          /\ ~Requested => ~data.WaitComplete
      BY <1>j, <2>1, <2>3 DEF LitInv
    <3>2. TotalElapsed(leop.saved, leop.session) = leop.session
      BY <1>0, <3>1, Constants, Modulo DEF TotalElapsed
    <3>3. leop.dur = BURN_DURATION_SEC
      BY <2>1, <2>3, WaitTimes DEF ControlInv
    <3> QED
      BY <1>0, <2>1, <2>2, <2>3, <3>1, <3>2, <3>3, Constants DEF LitInv, Waiting, Requested
  <2> QED
    BY <1>x, <2>1, <2>3
<1>7. CASE WaitNoteSave \/ WaitNoteNext
  <2>1. /\ leop.pc \in {"noteSave", "noteNext"} /\ leop'.pc \in {"noteNext", "loop"}
        /\ leop'.ret = leop.ret /\ leop'.saved = leop.saved /\ leop'.session = leop.session
        /\ UNCHANGED <<data, out, hist>>
    BY <1>0, <1>7, GotoEffect DEF WaitNoteSave, WaitNoteNext, At, LeopType
  <2> QED
    BY <1>j, <2>1 DEF LitInv, Waiting, Requested
<1>8. CASE LoadRead \/ LoadFails \/ CopyCycle \/ CopyState \/ CopyElapsed \/ DefaultCycle \/ DefaultState
           \/ DefaultsSaved \/ FailedState
  <2>1. leop'.pc \in LoadPcs \cup {"loaded"}
    BY <1>0, <1>8, GotoEffect, TaskAtEffect DEF LoadRead, LoadFails, CopyCycle, CopyState, CopyElapsed,
      DefaultCycle, DefaultState, DefaultsSaved, FailedState, LoadPcs, LeopType
  <2> QED
    BY <1>x, <2>1 DEF LoadPcs
<1>9. CASE Loaded \/ CheckRequest \/ Saves \/ ToBurn \/ For \/ StartBurn \/ GpioLow \/ ToEnable
           \/ CountCycle \/ CountState \/ Final
  <2>1. leop'.pc \notin WaitPcs \cup {"gpioLow"}
    <3>1. CASE For
      <4>1. leop'.pc \in {"burnStart", "final"}
        BY <1>0, <3>1 DEF For, LeopType
      <4> QED
        BY <4>1
    <3>2. CASE Loaded \/ Saves \/ ToBurn \/ StartBurn \/ GpioLow \/ ToEnable \/ CountCycle \/ CountState
               \/ Final
      BY <1>0, <3>2, GotoEffect DEF Loaded, Saves, ToBurn, StartBurn, GpioLow, ToEnable, CountCycle,
        CountState, Final
    <3>3. CASE CheckRequest
      BY <1>0, <3>3, GotoEffect DEF CheckRequest
    <3> QED
      BY <1>9, <3>1, <3>2, <3>3
  <2> QED
    BY <1>x, <2>1
<1>10. CASE Branch \/ ToPost
  BY <1>0, <1>10, <1>x, GotoEffect, CallWaitEffect DEF Branch, ToPost
<1>11. ASSUME NEW t \in Tasks, SaveStep(t) PROVE LitInv'
  BY <1>j, <1>11, SaveStepEffect DEF LitInv, Waiting, Requested
<1>12. CASE RequestComplete
  <2>1. data'.CompleteRequested /\ data'.WaitComplete /\ UNCHANGED <<leop, out, hist>>
    BY <1>12 DEF RequestComplete
  <2> QED
    BY <1>j, <2>1 DEF LitInv, Waiting, Requested
<1>13. CASE Crash
  BY <1>13, <1>x, TaskAtEffect DEF Crash
<1> QED
  BY <1>1, <1>2, <1>3, <1>4, <1>5, <1>6, <1>7, <1>8, <1>9, <1>10, <1>11, <1>12, <1>13, <1>j
  DEF Next, LeopStep, WaitStep

-----------------------------------------------------------------------------
(* The initial wait.                                                        *)

LEMMA InitQuiet == Init => QuietInv
<1> SUFFICES ASSUME Init PROVE PastInv /\ StageInv
  BY DEF QuietInv
<1>1. PastInv
  <2>1. hist.quiet = 0 /\ data.State = INITIAL_WAIT /\ data.WaitElapsed = 0
    BY DEF Init, RuntimeZero
  <2>2. leop.read = NoFile /\ (\A t \in Tasks : save[t].fd = NoFile) /\ disk.survivors = {NoFile}
    BY DEF Init, TaskAt, SaveIdle
  <2> QED
    BY <2>1, <2>2, StateNames DEF PastInv, Past, NoFile, States
<1>2. StageInv
  BY DEF Init, StageInv, TaskAt, InLoop, Burning, Posting, Waiting, WaitPcs, TimingPcs, BurnPcs, EnablePcs,
    PostPcs
<1> QED
  BY <1>1, <1>2

\* What was long enough to save once is so for ever.
LEMMA PastGrows ==
  ASSUME NEW q \in Nat, NEW r \in Nat, q <= r, NEW fd \in Files, Past(q, fd.state, fd.elapsed)
  PROVE  Past(r, fd.state, fd.elapsed)
<1>1. fd.elapsed \in Nat
  BY DEF Files, FileData, NoFile, Seconds
<1> QED
  BY <1>1, Constants DEF Past

LEMMA PastOfNoFile ==
  ASSUME NEW q \in Nat
  PROVE  Past(q, NoFile.state, NoFile.elapsed)
BY StateNames DEF Past, NoFile, States

\* What is known of the sequence moves from the medium to the child task, from
\* MISSION_Data to a snapshot, and from a snapshot to the medium.
LEMMA ReadMoves ==
  ASSUME TypeInv, Next
  PROVE  leop'.read \in {leop.read, disk.file, NoFile}
<1>0. leop \in LeopType
  BY TypeParts
<1>1. CASE LoadRead
  BY <1>0, <1>1 DEF LoadRead, LeopType
<1>2. CASE LoadFails \/ CopyCycle \/ CopyState \/ DefaultCycle \/ DefaultState \/ FailedState
  BY <1>0, <1>2, GotoEffect DEF LoadFails, CopyCycle, CopyState, DefaultCycle, DefaultState, FailedState
<1>3. CASE CopyElapsed \/ DefaultsSaved \/ Crash
  BY <1>3, TaskAtEffect DEF CopyElapsed, DefaultsSaved, Crash
<1>4. CASE WaitSkip \/ WaitEnd
  BY <1>4, WaitReturnEffect DEF WaitSkip, WaitEnd
<1>5. CASE WaitPoll \/ WaitNote \/ WaitNoteSave
  BY <1>0, <1>5, GotoEffect DEF WaitPoll, WaitNote, WaitNoteSave
<1>6. CASE WaitEnter \/ WaitNoteNext \/ For \/ ClockJump
  BY <1>0, <1>6 DEF WaitEnter, WaitNoteNext, For, ClockJump, LeopType
<1>7. CASE WaitLoop
  BY <1>0, <1>7, LoopEffect DEF LeopType
<1>8. CASE Loaded \/ CheckRequest \/ Saves \/ ToBurn \/ StartBurn \/ GpioLow \/ ToEnable \/ CountCycle
           \/ CountState \/ Final
  BY <1>0, <1>8, GotoEffect DEF Loaded, CheckRequest, Saves, ToBurn, StartBurn, GpioLow, ToEnable,
    CountCycle, CountState, Final
<1>9. CASE Branch \/ GpioHigh \/ ToPost
  BY <1>0, <1>9, GotoEffect, CallWaitEffect DEF Branch, GpioHigh, ToPost
<1>10. ASSUME NEW t \in Tasks, SaveStep(t) PROVE leop' = leop
  BY <1>10, SaveStepEffect
<1>11. CASE RequestComplete
  BY <1>11 DEF RequestComplete
<1> QED
  BY <1>1, <1>2, <1>3, <1>4, <1>5, <1>6, <1>7, <1>8, <1>9, <1>10, <1>11 DEF Next, LeopStep, WaitStep

\* The steps that call SaveState, and those that leave the saves alone.
LEMMA SaveCalls ==
  ASSUME Next
  PROVE  \/ UNCHANGED <<save, disk>>
         \/ UNCHANGED disk /\ \E t \in Tasks : CallSave(t)
         \/ \E t \in Tasks : SaveStep(t)
         \/ Crash
<1>t. "LEOP" \in Tasks /\ "CMD" \in Tasks
  BY DEF Tasks
<1>1. CASE LoadRead \/ LoadFails \/ CopyCycle \/ CopyState \/ CopyElapsed \/ DefaultCycle
           \/ DefaultsSaved \/ FailedState
  BY <1>1 DEF LoadRead, LoadFails, CopyCycle, CopyState, CopyElapsed, DefaultCycle, DefaultsSaved, FailedState
<1>2. CASE WaitEnter \/ WaitSkip \/ WaitLoop \/ WaitPoll \/ WaitNote \/ WaitNoteNext \/ WaitEnd
  BY <1>2 DEF WaitEnter, WaitSkip, WaitLoop, WaitPoll, WaitNote, WaitNoteNext, WaitEnd
<1>3. CASE Loaded \/ Branch \/ CheckRequest \/ For \/ StartBurn \/ GpioHigh \/ GpioLow \/ ToEnable
           \/ CountCycle \/ ClockJump
  BY <1>3 DEF Loaded, Branch, CheckRequest, For, StartBurn, GpioHigh, GpioLow, ToEnable, CountCycle, ClockJump
<1>4. CASE DefaultState \/ WaitNoteSave \/ Saves \/ ToBurn \/ ToPost \/ CountState \/ Final
           \/ RequestComplete
  BY <1>4, <1>t DEF DefaultState, WaitNoteSave, Saves, ToBurn, ToPost, CountState, Final, RequestComplete
<1> QED
  BY <1>1, <1>2, <1>3, <1>4 DEF Next, LeopStep, WaitStep

\* A snapshot is MISSION_Data or older, and what a reset may leave is a snapshot or
\* was there before.
LEMMA SavesMove ==
  ASSUME TypeInv, Next
  PROVE  /\ \A t \in Tasks : save'[t].fd \in {save[t].fd, CopyRuntimeToFile, NoFile}
         /\ \A fd \in disk'.survivors : fd \in disk.survivors \/ \E t \in Tasks : fd = save[t].fd
<1>0. save \in [Tasks -> SaveType] /\ DiskOK
  BY TypeParts
<1>1. ASSUME NEW t \in Tasks, CallSave(t) PROVE \A u \in Tasks : save'[u].fd = save[u].fd
  BY <1>0, <1>1, CallSaveEffect
<1>2. ASSUME NEW t \in Tasks, SaveStep(t)
      PROVE  /\ \A u \in Tasks : save'[u].fd \in {save[u].fd, CopyRuntimeToFile, NoFile}
             /\ \A fd \in disk'.survivors : fd \in disk.survivors \/ fd = save[t].fd
  <2>1. CASE SaveCopy(t)
    BY <1>0, <2>1 DEF SaveCopy, SaveType
  <2>2. CASE SaveStore(t)
    <3>1. \A u \in Tasks : save'[u].fd = save[u].fd
      BY <1>0, <2>2 DEF SaveStore, SaveType
    <3>2. disk'.survivors = disk.survivors \cup {save[t].fd}
      BY <2>2 DEF SaveStore, AfterRename
    <3> QED
      BY <3>1, <3>2
  <2>3. CASE SaveStoreFails(t) \/ SaveSync(t)
    <3>1. \A u \in Tasks : save'[u].fd \in {save[u].fd, NoFile}
      BY <1>0, <2>3 DEF SaveStoreFails, SaveSync, SaveReturn, SaveType
    <3>2. disk'.survivors \in {disk.survivors, {disk.file}}
      BY <1>0, <2>3 DEF SaveStoreFails, SaveSync, DiskOK
    <3> QED
      BY <1>0, <3>1, <3>2 DEF DiskOK
  <2> QED
    BY <1>2, <2>1, <2>2, <2>3 DEF SaveStep
<1>3. CASE Crash
  <2>1. \A t \in Tasks : save'[t].fd = NoFile
    BY <1>3 DEF Crash, SaveIdle
  <2>2. \E fd \in disk.survivors : disk'.survivors = {fd}
    BY <1>3 DEF Crash
  <2> QED
    BY <2>1, <2>2
<1> QED
  BY <1>1, <1>2, <1>3, SaveCalls

\* The seconds waited before the first burn are counted over all boots.
LEMMA QuietGrows ==
  ASSUME TypeInv, Next
  PROVE  hist.quiet \in Nat /\ hist'.quiet \in Nat /\ hist.quiet <= hist'.quiet
<1>0. HistOK /\ hist.quiet \in 0 .. INITIAL_WAIT_SEC
  BY TypeParts DEF HistOK
<1>1. CASE Plain \/ Loaded \/ ToEnable \/ ClockJump \/ RequestComplete
  BY <1>0, <1>1, PlainEffect DEF Loaded, ToEnable, ClockJump, RequestComplete
<1>2. CASE LoadFails \/ GpioHigh \/ GpioLow \/ Crash
  <2>1. hist'.quiet = hist.quiet
    BY <1>0, <1>2 DEF LoadFails, GpioHigh, GpioLow, Crash, HistOK
  <2> QED
    BY <1>0, <2>1
<1>3. CASE WaitLoop
  <2>1. CASE hist' = hist
    BY <1>0, <2>1
  <2>2. CASE hist' # hist
    <3>1. PICK d \in 1 .. MaxDelay, q \in 0 .. INITIAL_WAIT_SEC, l \in Nat :
            /\ leop' = [leop EXCEPT !.pc = "poll", !.session = Ticks(leop.session, d)]
            /\ hist' = [hist EXCEPT !.quiet = q, !.lit = l]
            /\ q >= hist.quiet
            /\ leop.ret = "initialEnd" => q = hist.quiet + d \/ q = INITIAL_WAIT_SEC
            /\ \/ out.gpio # "HIGH" /\ l = hist.lit
               \/ /\ out.gpio = "HIGH"
                  /\ hist.lit + d <= BURN_DURATION_SEC + MaxDelay => l = hist.lit + d
                  /\ l = hist.lit + d \/ l = BURN_DURATION_SEC + MaxDelay
      BY <1>3, <2>2, LoopEffect, Zenon
    <3>2. hist'.quiet = q
      BY <1>0, <3>1 DEF HistOK
    <3> QED
      BY <1>0, <3>1, <3>2
  <2> QED
    BY <2>1, <2>2
<1>4. ASSUME NEW t \in Tasks, SaveStep(t) PROVE hist' = hist
  BY <1>4, SaveStepEffect
<1> QED
  BY <1>0, <1>1, <1>2, <1>3, <1>4, Steps

\* No copy of the sequence claims more waiting than there was.
LEMMA NextPast ==
  ASSUME TypeInv, ControlInv, PastInv, StageInv, Next
  PROVE  PastInv'
<1>0. /\ data \in DataType /\ leop \in LeopType /\ save \in [Tasks -> SaveType] /\ DiskOK
      /\ data.WaitElapsed \in Nat
  BY TypeParts DEF DataType, Seconds
<1>q. hist.quiet \in Nat /\ hist'.quiet \in Nat /\ hist.quiet <= hist'.quiet
  BY QuietGrows
<1> DEFINE Old(fd) == fd \in Files /\ Past(hist.quiet, fd.state, fd.elapsed)
<1>n. Old(NoFile)
  BY <1>q, PastOfNoFile DEF Files
<1>c. Old(CopyRuntimeToFile)
  BY <1>0, FileOfData DEF PastInv, Files
<1>r. leop.read \in Files /\ Old(leop.read)
  BY <1>0 DEF PastInv, LeopType
<1>f. Old(disk.file)
  BY <1>0 DEF PastInv, DiskOK
<1>s. \A t \in Tasks : Old(save[t].fd)
  BY <1>0 DEF PastInv, SaveType
<1>d. \A fd \in disk.survivors : Old(fd)
  BY <1>0 DEF PastInv, DiskOK
<1>g. ASSUME NEW fd, Old(fd) PROVE Past(hist'.quiet, fd.state, fd.elapsed)
  BY <1>g, <1>q, PastGrows
<1> HIDE DEF Old
<1>1. Past(hist'.quiet, leop'.read.state, leop'.read.elapsed)
  BY <1>g, <1>n, <1>r, <1>f, ReadMoves
<1>2. ASSUME NEW t \in Tasks PROVE Past(hist'.quiet, save'[t].fd.state, save'[t].fd.elapsed)
  BY <1>g, <1>n, <1>c, <1>s, SavesMove
<1>3. ASSUME NEW fd \in disk'.survivors PROVE Past(hist'.quiet, fd.state, fd.elapsed)
  BY <1>3, <1>g, <1>s, <1>d, SavesMove
\* MISSION_Data.
<1> DEFINE Goal == Past(hist'.quiet, data'.State, data'.WaitElapsed)
<1>k. ASSUME data'.State = data.State, data'.WaitElapsed \in {0, data.WaitElapsed} PROVE Goal
  BY <1>0, <1>k, <1>q, Constants DEF PastInv, Past
<1>z. ASSUME data'.State \in {INITIAL_WAIT, COMPLETE}, data'.WaitElapsed = 0 PROVE Goal
  BY <1>z, <1>q, StateNames DEF Past
<1>w. ASSUME data'.State # INITIAL_WAIT, Waited PROVE Goal
  BY <1>w, <1>q, Constants DEF Past, Waited
<1>4. Goal
  <2>1. CASE CopyCycle
    BY <1>0, <1>z, <2>1 DEF CopyCycle, DataType
  <2>2. CASE CopyState
    <3>1. data'.State = leop.read.state /\ data'.WaitElapsed = 0
      BY <1>0, <2>2 DEF CopyState, At, ControlInv, DataType
    <3> QED
      BY <1>q, <1>r, <3>1, Constants DEF Past, PastInv
  <2>3. CASE CopyElapsed
    <3>1. data'.State = data.State /\ data'.WaitElapsed = leop.read.elapsed
      BY <1>0, <2>3 DEF CopyElapsed, DataType
    <3>2. data.State \in {leop.read.state, COMPLETE}
      BY <2>3 DEF CopyElapsed, At, StageInv
    <3>3. Past(hist'.quiet, leop.read.state, leop.read.elapsed)
      BY <1>g, <1>r
    <3> QED
      BY <3>1, <3>2, <3>3, StateNames DEF Past
  <2>4. CASE DefaultCycle
    BY <1>0, <1>k, <2>4 DEF DefaultCycle, DataType
  <2>5. CASE DefaultState \/ FailedState
    BY <1>0, <1>z, <2>5 DEF DefaultState, FailedState, At, ControlInv, DataType
  <2>6. CASE WaitEnter
    BY <1>0, <1>k, <2>6 DEF WaitEnter, DataType
  <2>7. CASE WaitSkip \/ WaitEnd
    BY <1>0, <1>k, <2>7 DEF WaitSkip, WaitEnd, WaitReset, DataType
  <2>8. CASE WaitNote
    <3> DEFINE total == TotalElapsed(leop.saved, leop.session)
    <3>1. data'.State = data.State /\ data'.WaitElapsed = Min({total, leop.dur}) /\ leop.pc = "note"
      BY <1>0, <2>8 DEF WaitNote, At, DataType
    <3>2. leop.saved \in Nat /\ leop.session \in Nat /\ leop.dur \in Nat
      BY <1>0 DEF LeopType, Seconds
    <3>3. total \in Nat /\ total <= leop.saved + leop.session
      BY <3>2, Modulo DEF TotalElapsed, Seconds
    <3>4. data'.WaitElapsed <= total /\ data'.WaitElapsed <= leop.dur /\ data'.WaitElapsed \in Nat
      BY <3>1, <3>2, <3>3, MinPair
    <3> HIDE DEF total
    <3>5. CASE leop.ret = "initialEnd"
      <4>1. leop.dur = INITIAL_WAIT_SEC
        BY <3>1, <3>5, WaitTimes DEF ControlInv, WaitPcs
      <4>2. hist.quiet >= INITIAL_WAIT_SEC \/ leop.saved + leop.session <= hist.quiet
        BY <3>1, <3>5 DEF StageInv, TimingPcs, Waited
      <4>3. data'.WaitElapsed <= hist'.quiet
        BY <1>q, <3>2, <3>3, <3>4, <4>1, <4>2, Constants
      <4>4. data.State \in {BURN, TO_ENABLE, POST_WAIT} => hist'.quiet >= INITIAL_WAIT_SEC
        BY <1>q, Constants DEF PastInv, Past
      <4> QED
        BY <3>1, <4>3, <4>4 DEF Past
    <3>6. CASE leop.ret # "initialEnd"
      <4>1. InLoop
        BY <1>0, <3>1, <3>6 DEF ControlInv, InLoop, Burning, Posting, Waiting, WaitPcs, LeopType
      <4> QED
        BY <1>w, <3>1, <4>1 DEF StageInv
    <3> QED
      BY <3>5, <3>6
  <2>9. CASE ToBurn
    BY <1>0, <1>w, <2>9, StateNames DEF ToBurn, At, StageInv, DataType
  <2>10. CASE StartBurn \/ ToEnable \/ ToPost \/ CountState
    <3>1. InLoop
      BY <2>10 DEF StartBurn, ToEnable, ToPost, CountState, At, InLoop, Burning, Posting, BurnPcs, EnablePcs,
        PostPcs
    <3>2. data'.State \in {BURN, TO_ENABLE, POST_WAIT, COMPLETE}
      BY <1>0, <2>10 DEF StartBurn, BurnStart, WaitReset, ToEnable, ToPost, CountState, NextState, DataType
    <3> QED
      BY <1>w, <3>1, <3>2, StateNames DEF StageInv
  <2>11. CASE CountCycle
    BY <1>0, <1>k, <2>11 DEF CountCycle, DataType
  <2>12. CASE Final
    BY <1>0, <1>z, <2>12 DEF Final, DataType
  <2>13. CASE RequestComplete
    BY <1>z, <2>13 DEF RequestComplete
  <2>14. CASE Crash
    BY <1>z, <2>14 DEF Crash, RuntimeZero
  <2>15. CASE LoadRead \/ LoadFails \/ DefaultsSaved \/ WaitLoop \/ WaitPoll \/ WaitNoteSave \/ WaitNoteNext
    BY <1>k, <2>15 DEF LoadRead, LoadFails, DefaultsSaved, WaitLoop, WaitPoll, WaitNoteSave, WaitNoteNext
  <2>16. CASE Loaded \/ Branch \/ CheckRequest \/ Saves \/ For \/ GpioHigh \/ GpioLow
    BY <1>k, <2>16 DEF Loaded, Branch, CheckRequest, Saves, For, GpioHigh, GpioLow
  <2>17. CASE ClockJump \/ \E t \in Tasks : SaveStep(t)
    BY <1>k, <2>17, SaveStepEffect DEF ClockJump
  <2> QED
    BY <2>1, <2>2, <2>3, <2>4, <2>5, <2>6, <2>7, <2>8, <2>9, <2>10, <2>11, <2>12, <2>13, <2>14, <2>15,
       <2>16, <2>17 DEF Next, LeopStep, WaitStep
<1> QED
  BY <1>1, <1>2, <1>3, <1>4 DEF PastInv

\* Nor does the child task go on before it has waited.
LEMMA NextStage ==
  ASSUME TypeInv, ControlInv, DataInv, PastInv, StageInv, Next, ~ClockJump
  PROVE  StageInv'
<1>0. /\ data \in DataType /\ leop \in LeopType /\ OutOK /\ HistOK
      /\ data.WaitElapsed \in Nat /\ leop.saved \in Nat /\ leop.session \in Nat /\ leop.dur \in Nat
  BY TypeParts DEF DataType, LeopType, Seconds
<1>q. hist.quiet \in Nat /\ hist'.quiet \in Nat /\ hist.quiet <= hist'.quiet
  BY QuietGrows
<1>v. Waited => Waited'
  BY <1>q, Constants DEF Waited
<1>h. out.gpio = "HIGH" \/ InLoop \/ leop.pc = "toBurn" => Waited'
  BY <1>v DEF StageInv
<1> USE DEF WaitPcs, TimingPcs
\* A step to a stage that is neither the load's end nor the initial wait's.
<1>s. ASSUME leop'.pc \notin {"initialEnd", "for", "branch", "copyElapsed"},
             leop'.pc \in WaitPcs => leop'.ret # "initialEnd",
             out'.gpio = "HIGH" \/ InLoop' \/ leop'.pc = "toBurn" => Waited',
             InLoop' => data'.State # INITIAL_WAIT
      PROVE  StageInv'
  BY <1>s DEF StageInv, Waiting
\* A step outside the loop, and a step inside it.
<1>o. ASSUME leop'.pc \notin WaitPcs \cup {"initialEnd", "for", "branch", "copyElapsed", "toBurn"},
             ~InLoop', out'.gpio \in {out.gpio, "LOW"}
      PROVE  StageInv'
  BY <1>o, <1>s, <1>h
<1>i. ASSUME InLoop, data'.State # INITIAL_WAIT,
             leop'.pc \notin {"initialEnd", "for", "branch", "copyElapsed"},
             leop'.pc \in WaitPcs => leop'.ret # "initialEnd"
      PROVE  StageInv'
  BY <1>i, <1>s, <1>h
<1> DEFINE Load == LoadPcs \cup {"loaded", "final", "done"}
<1>l. ASSUME leop'.pc \in Load \ {"copyElapsed"}, out'.gpio \in {out.gpio, "LOW"} PROVE StageInv'
  <2>1. ~InLoop'
    BY <1>l DEF InLoop, Burning, Posting, Waiting, BurnPcs, EnablePcs, PostPcs, LoadPcs
  <2> QED
    BY <1>l, <1>o, <2>1 DEF LoadPcs
<1>1. CASE LoadRead \/ LoadFails \/ CopyCycle \/ CopyElapsed \/ DefaultCycle \/ DefaultState
           \/ DefaultsSaved \/ FailedState
  <2>1. leop'.pc \in Load \ {"copyElapsed"}
    <3>1. CASE LoadRead
      <4>1. leop'.pc \in {"copy", "defaults"}
        BY <1>0, <3>1 DEF LoadRead, LeopType
      <4> QED
        BY <4>1 DEF LoadPcs
    <3>2. CASE CopyElapsed \/ DefaultsSaved
      BY <3>2, TaskAtEffect DEF CopyElapsed, DefaultsSaved, LoadPcs
    <3>3. CASE LoadFails \/ CopyCycle \/ DefaultCycle \/ DefaultState \/ FailedState
      BY <1>0, <3>3, GotoEffect DEF LoadFails, CopyCycle, DefaultCycle, DefaultState, FailedState, LoadPcs
    <3> QED
      BY <1>1, <3>1, <3>2, <3>3
  <2>2. out' = out
    BY <1>1 DEF LoadRead, LoadFails, CopyCycle, CopyElapsed, DefaultCycle, DefaultState, DefaultsSaved,
      FailedState
  <2> QED
    BY <1>l, <2>1, <2>2
<1>2. CASE CopyState
  <2>1. /\ leop'.pc = "copyElapsed" /\ leop'.read = leop.read /\ data'.State = leop.read.state /\ out' = out
    BY <1>0, <1>2, GotoEffect DEF CopyState, DataType
  <2> QED
    BY <1>h, <2>1 DEF StageInv, InLoop, Burning, Posting, Waiting, BurnPcs, EnablePcs, PostPcs
<1>3. CASE Loaded
  <2>1. /\ data' = data /\ out'.gpio = out.gpio
        /\ leop'.pc = "done" \/ (leop'.pc = "branch" /\ data.State # COMPLETE)
    BY <1>0, <1>3, GotoEffect DEF Loaded, Transmits, OutOK
  <2> QED
    BY <1>l, <1>h, <2>1 DEF StageInv, InLoop, Burning, Posting, Waiting, BurnPcs, EnablePcs, PostPcs
<1>4. CASE Branch
  <2>0. data' = data /\ out' = out
    BY <1>4 DEF Branch
  <2>1. CASE data.State = INITIAL_WAIT
    <3>1. leop'.pc = "wait" /\ leop'.ret = "initialEnd"
      BY <1>0, <1>4, <2>1, CallWaitEffect DEF Branch
    <3> QED
      BY <1>h, <2>0, <3>1 DEF StageInv, InLoop, Burning, Posting, Waiting, BurnPcs, EnablePcs, PostPcs
  <2>2. CASE data.State # INITIAL_WAIT
    <3>1. leop'.pc = "for"
      BY <1>0, <1>4, <2>2, GotoEffect DEF Branch
    <3>2. data.State = COMPLETE => Requested
      BY <1>4 DEF Branch, At, StageInv
    <3>3. data.State \in {BURN, TO_ENABLE, POST_WAIT, COMPLETE}
      BY <1>0, <2>2 DEF DataType, States
    <3>4. Requested \/ Waited
      BY <3>2, <3>3 DEF PastInv, Past, Waited
    <3>5. Requested' \/ Waited'
      BY <1>v, <2>0, <3>4 DEF Requested
    <3> QED
      BY <1>h, <2>0, <3>1, <3>5 DEF StageInv, InLoop, Burning, Posting, Waiting, BurnPcs, EnablePcs, PostPcs
  <2> QED
    BY <2>1, <2>2
\* The initial wait.
<1>5. CASE WaitEnter
  <2>0. /\ leop.pc = "wait" /\ leop'.pc = "loop" /\ leop'.ret = leop.ret /\ leop'.saved = data.WaitElapsed
        /\ leop'.session = 0 /\ data'.State = data.State /\ ~data'.WaitComplete /\ out' = out /\ ~Requested
    BY <1>0, <1>5 DEF WaitEnter, SkipsWait, At, LeopType, DataType
  <2>1. CASE leop.ret = "initialEnd"
    <3>1. data.State = INITIAL_WAIT
      BY <2>0, <2>1 DEF DataInv, Waiting
    <3>2. data.WaitElapsed + 0 <= hist'.quiet
      BY <1>0, <1>q, <3>1 DEF PastInv, Past
    <3> QED
      BY <1>h, <2>0, <2>1, <3>2 DEF StageInv, InLoop, Burning, Posting, Waiting, BurnPcs, EnablePcs, PostPcs
  <2>2. CASE leop.ret # "initialEnd"
    <3>1. InLoop
      BY <1>0, <2>0, <2>2 DEF ControlInv, InLoop, Burning, Posting, Waiting, LeopType
    <3> QED
      BY <1>i, <2>0, <2>2, <3>1 DEF StageInv
  <2> QED
    BY <2>1, <2>2
<1>6. CASE WaitSkip \/ WaitEnd
  <2>0. /\ leop'.pc = leop.ret /\ leop.pc \in {"wait", "waitEnd"} /\ out' = out
        /\ data'.State = data.State /\ data'.CompleteRequested = data.CompleteRequested
    BY <1>0, <1>6, WaitReturnEffect DEF WaitSkip, WaitEnd, At, WaitReset, DataType
  <2>1. CASE leop.ret = "initialEnd"
    <3>1. WaitSkip => Requested \/ Waited
      <4> SUFFICES ASSUME WaitSkip, ~Requested PROVE Waited
        OBVIOUS
      <4>1. leop.pc = "wait" /\ data.WaitElapsed >= leop.dur
        BY DEF WaitSkip, SkipsWait, At
      <4>2. leop.dur = INITIAL_WAIT_SEC /\ data.State = INITIAL_WAIT
        BY <2>1, <4>1, WaitTimes DEF ControlInv, DataInv, Waiting
      <4> QED
        BY <1>0, <1>q, <4>1, <4>2, Constants DEF PastInv, Past, Waited
    <3>2. WaitEnd => Requested \/ Waited
      BY <2>1 DEF WaitEnd, At, StageInv, Waiting
    <3>3. Requested' \/ Waited'
      BY <1>6, <1>v, <2>0, <3>1, <3>2 DEF Requested
    <3> QED
      BY <1>h, <2>0, <2>1, <3>3 DEF StageInv, InLoop, Burning, Posting, Waiting, BurnPcs, EnablePcs, PostPcs
  <2>2. CASE leop.ret # "initialEnd"
    <3>1. InLoop /\ leop.ret \in {"gpioLow", "postEnd"}
      BY <1>0, <2>0, <2>2 DEF ControlInv, InLoop, Burning, Posting, Waiting, LeopType
    <3> QED
      BY <1>i, <2>0, <3>1 DEF StageInv
  <2> QED
    BY <2>1, <2>2
<1>w. ASSUME leop.pc \in WaitPcs, leop'.pc \in WaitPcs, leop'.ret = leop.ret, out' = out,
             data'.State = data.State,
             leop.ret = "initialEnd" /\ leop'.pc \in TimingPcs =>
               /\ Waited' \/ leop'.saved + leop'.session <= hist'.quiet
               /\ data'.WaitComplete => Requested' \/ Waited',
             leop.ret = "initialEnd" /\ leop'.pc = "waitEnd" => Requested' \/ Waited'
      PROVE  StageInv'
  <2>1. CASE leop.ret = "initialEnd"
    BY <1>w, <1>h, <2>1 DEF StageInv, InLoop, Burning, Posting, Waiting, BurnPcs, EnablePcs, PostPcs
  <2>2. CASE leop.ret # "initialEnd"
    <3>1. InLoop
      BY <1>0, <1>w, <2>2 DEF ControlInv, InLoop, Burning, Posting, Waiting, LeopType
    <3> QED
      BY <1>w, <1>i, <2>2, <3>1 DEF StageInv
  <2> QED
    BY <2>1, <2>2
<1>7. CASE WaitLoop
  <2>0. data' = data /\ out' = out /\ leop.pc = "loop"
    BY <1>7 DEF WaitLoop, At
  <2>1. CASE data.WaitComplete
    <3>1. leop'.pc = "waitEnd" /\ leop'.ret = leop.ret
      BY <1>0, <1>7, <2>1, LoopEffect DEF LeopType
    <3>2. leop.ret = "initialEnd" => Requested' \/ Waited'
      BY <1>v, <2>0, <2>1 DEF StageInv, Requested
    <3> QED
      BY <1>w, <2>0, <3>1, <3>2
  <2>2. CASE ~data.WaitComplete
    <3>1. PICK d \in 1 .. MaxDelay, q \in 0 .. INITIAL_WAIT_SEC, l \in Nat :
            /\ leop' = [leop EXCEPT !.pc = "poll", !.session = Ticks(leop.session, d)]
            /\ hist' = [hist EXCEPT !.quiet = q, !.lit = l]
            /\ q >= hist.quiet
            /\ leop.ret = "initialEnd" => q = hist.quiet + d \/ q = INITIAL_WAIT_SEC
            /\ \/ out.gpio # "HIGH" /\ l = hist.lit
               \/ /\ out.gpio = "HIGH"
                  /\ hist.lit + d <= BURN_DURATION_SEC + MaxDelay => l = hist.lit + d
                  /\ l = hist.lit + d \/ l = BURN_DURATION_SEC + MaxDelay
      BY <1>7, <2>2, LoopEffect, Zenon
    <3>2. /\ leop'.pc = "poll" /\ leop'.ret = leop.ret /\ leop'.saved = leop.saved
          /\ leop'.session = Ticks(leop.session, d) /\ hist'.quiet = q
      BY <1>0, <3>1 DEF LeopType, HistOK
    <3>3. d \in Nat /\ leop.session + d \in Nat
      BY <1>0
    <3>4. leop'.session \in Nat /\ leop'.session <= leop.session + d
      BY <3>2, <3>3, Modulo DEF Ticks, Seconds
    <3>5. leop.ret = "initialEnd" => Waited' \/ leop'.saved + leop'.session <= hist'.quiet
      <4> SUFFICES ASSUME leop.ret = "initialEnd", q # INITIAL_WAIT_SEC
                   PROVE  Waited' \/ leop.saved + leop'.session <= hist'.quiet
        BY <3>1, <3>2, Constants DEF Waited
      <4>1. q = hist.quiet + d
        BY <3>1
      <4>2. Waited \/ leop.saved + leop.session <= hist.quiet
        BY <2>0 DEF StageInv
      <4>3. CASE leop.saved + leop.session <= hist.quiet
        <5> DEFINE se == leop'.session
                   hq == hist'.quiet
        <5>1. se \in Nat /\ se <= leop.session + d /\ hq = hist.quiet + d
          BY <3>2, <3>4, <4>1
        <5> HIDE DEF se, hq
        <5>2. leop.saved + se <= hq
          BY <1>0, <1>q, <3>3, <4>3, <5>1
        <5> QED
          BY <5>2 DEF se, hq
      <4> QED
        BY <1>v, <4>2, <4>3
    <3> QED
      BY <1>w, <2>0, <2>2, <3>2, <3>5
  <2> QED
    BY <2>1, <2>2
<1>8. CASE WaitPoll
  <2>1. /\ leop.pc = "poll" /\ leop'.ret = leop.ret /\ leop'.saved = leop.saved /\ leop'.session = leop.session
        /\ leop'.pc = IF Requested THEN "waitEnd" ELSE "note"
    BY <1>0, <1>8, GotoEffect DEF WaitPoll, At
  <2>2. data' = data /\ out' = out /\ hist' = hist
    BY <1>8 DEF WaitPoll
  <2> QED
    BY <1>w, <2>1, <2>2 DEF StageInv, Requested, Waited
<1>9. CASE WaitNote
  <2> DEFINE total == TotalElapsed(leop.saved, leop.session)
             b == data.WaitComplete \/ total >= leop.dur
  <2>1. /\ leop.pc = "note" /\ leop'.ret = leop.ret /\ leop'.saved = leop.saved /\ leop'.session = leop.session
        /\ leop'.pc = "noteSave" /\ out' = out /\ hist' = hist
    BY <1>0, <1>9, GotoEffect DEF WaitNote, At
  <2>2. b \in BOOLEAN /\ data' = [data EXCEPT !.WaitComplete = b, !.WaitElapsed = Min({total, leop.dur})]
    BY <1>9 DEF WaitNote
  <2>3. total \in Nat /\ total <= leop.saved + leop.session
    BY <1>0, Modulo DEF TotalElapsed, Seconds
  <2>4. leop.ret = "initialEnd" /\ total >= leop.dur => Waited
    <3> SUFFICES ASSUME leop.ret = "initialEnd", total >= leop.dur PROVE Waited
      OBVIOUS
    <3> HIDE DEF total
    <3>1. leop.dur = INITIAL_WAIT_SEC
      BY <2>1, WaitTimes DEF ControlInv
    <3>2. Waited \/ leop.saved + leop.session <= hist.quiet
      BY <2>1 DEF StageInv
    <3> QED
      BY <1>0, <1>q, <2>3, <3>1, <3>2, Constants DEF Waited
  <2>5. leop.ret = "initialEnd" /\ b => Requested \/ Waited
    BY <2>1, <2>4 DEF StageInv
  <2> HIDE DEF b
  <2>6. data'.State = data.State /\ data'.CompleteRequested = data.CompleteRequested /\ data'.WaitComplete = b
    BY <1>0, <2>2 DEF DataType
  <2> QED
    BY <1>w, <2>1, <2>5, <2>6 DEF StageInv, Requested, Waited
<1>10. CASE WaitNoteSave \/ WaitNoteNext
  <2>1. /\ leop.pc \in {"noteSave", "noteNext"} /\ leop'.pc \in {"noteNext", "loop"}
        /\ leop'.ret = leop.ret /\ leop'.saved = leop.saved /\ leop'.session = leop.session
        /\ UNCHANGED <<data, out, hist>>
    BY <1>0, <1>10, GotoEffect DEF WaitNoteSave, WaitNoteNext, At, LeopType
  <2> QED
    BY <1>w, <2>1 DEF StageInv, Requested, Waited
\* The stages.
<1>11. CASE CheckRequest
  <2>0. data' = data /\ out' = out
    BY <1>11 DEF CheckRequest
  <2>1. CASE At("initialEnd")
    <3>1. leop'.pc = IF Requested THEN "for" ELSE "toBurn"
      BY <1>0, <1>11, <2>1, GotoEffect DEF CheckRequest, At
    <3>2. Requested \/ Waited'
      BY <1>v, <2>1 DEF At, StageInv
    <3> QED
      BY <1>h, <2>0, <3>1, <3>2 DEF StageInv, InLoop, Burning, Posting, Waiting, BurnPcs, EnablePcs, PostPcs,
        Requested
  <2>2. CASE leop.pc # "initialEnd"
    <3>1. leop'.pc \in {"final", "saveBurned", "toEnable", "saveEnabled", "toPost", "count"}
      BY <1>0, <1>11, <2>2, GotoEffect DEF CheckRequest, At
    <3>2. InLoop
      BY <1>11, <2>2 DEF CheckRequest, At, InLoop, Burning, Posting, BurnPcs, EnablePcs, PostPcs
    <3> QED
      BY <1>i, <2>0, <3>1, <3>2 DEF StageInv
  <2> QED
    BY <1>11, <2>1, <2>2 DEF CheckRequest, At
<1>12. CASE ToBurn
  <2>1. leop'.pc = "for" /\ out' = out
    BY <1>0, <1>12, GotoEffect DEF ToBurn
  <2>2. Waited'
    BY <1>12, <1>h DEF ToBurn, At
  <2> QED
    BY <2>1, <2>2 DEF StageInv, InLoop, Burning, Posting, Waiting, BurnPcs, EnablePcs, PostPcs
<1>13. CASE For
  <2>0. /\ leop'.pc \in {"burnStart", "final"} /\ leop.pc \in {"for", "next"} /\ data' = data /\ out' = out
        /\ leop'.pc = "burnStart" => ~Requested
    <3>1. CASE At("for")
      <4>1. leop'.pc = IF LoopEnters(data.CycleCount) THEN "burnStart" ELSE "final"
        BY <1>0, <1>13, <3>1 DEF For, At, LeopType
      <4> QED
        BY <1>13, <3>1, <4>1 DEF For, At, LoopEnters
    <3>2. CASE At("next")
      <4>1. leop'.pc = IF LoopEnters(leop.Cycle + 1) THEN "burnStart" ELSE "final"
        BY <1>0, <1>13, <3>2 DEF For, At, LeopType
      <4> QED
        BY <1>13, <3>2, <4>1 DEF For, At, LoopEnters
    <3> QED
      BY <1>13, <3>1, <3>2 DEF For
  <2>1. CASE leop'.pc = "final"
    BY <1>l, <2>0, <2>1
  <2>2. CASE leop'.pc = "burnStart"
    <3>1. Waited
      BY <2>0, <2>2 DEF StageInv, InLoop
    <3>2. data.State # INITIAL_WAIT
      BY <2>0, <2>2, StateNames DEF StageInv, InLoop, DataInv
    <3> QED
      BY <1>s, <1>v, <2>0, <2>2, <3>1, <3>2
  <2> QED
    BY <2>0, <2>1, <2>2
<1>14. CASE StartBurn \/ GpioLow \/ ToEnable \/ CountCycle \/ CountState \/ Saves
  <2>1. InLoop
    BY <1>14 DEF StartBurn, GpioLow, ToEnable, CountCycle, CountState, Saves, At, InLoop, Burning, Posting,
      BurnPcs, EnablePcs, PostPcs
  <2>2. leop'.pc \in {"gpioHigh", "burned", "enabled", "countState", "next", "burnSaved", "enableSaved"}
    BY <1>0, <1>14, GotoEffect DEF StartBurn, GpioLow, ToEnable, CountCycle, CountState, Saves
  <2>3. data'.State \in {data.State, BURN, TO_ENABLE, COMPLETE}
    BY <1>0, <1>14 DEF StartBurn, BurnStart, WaitReset, GpioLow, ToEnable, CountCycle, CountState, NextState,
      Saves, DataType
  <2>4. data'.State # INITIAL_WAIT
    BY <2>1, <2>3, StateNames DEF StageInv
  <2> QED
    BY <1>i, <2>1, <2>2, <2>4
<1>15. CASE GpioHigh
  <2>1. InLoop /\ data' = data
    BY <1>15 DEF GpioHigh, At, InLoop, Burning, BurnPcs
  <2>2. leop'.pc = "burned" \/ (leop'.pc = "wait" /\ leop'.ret = "gpioLow")
    BY <1>0, <1>15, GotoEffect, CallWaitEffect DEF GpioHigh
  <2> QED
    BY <1>i, <2>1, <2>2 DEF StageInv
<1>16. CASE ToPost
  <2>1. InLoop
    BY <1>16 DEF ToPost, At, InLoop, EnablePcs
  <2>2. leop'.pc = "wait" /\ leop'.ret = "postEnd"
    BY <1>0, <1>16, CallWaitEffect DEF ToPost
  <2>3. data'.State # INITIAL_WAIT
    BY <1>0, <1>16, StateNames DEF ToPost, DataType
  <2> QED
    BY <1>i, <2>1, <2>2, <2>3
<1>17. CASE Final
  <2>1. leop'.pc = "done" /\ out' = out
    BY <1>0, <1>17, GotoEffect DEF Final
  <2> QED
    BY <1>l, <2>1
\* The main task and the environment.
<1>18. ASSUME NEW t \in Tasks, SaveStep(t) PROVE StageInv'
  BY <1>18, SaveStepEffect DEF StageInv, InLoop, Burning, Posting, Waiting, Requested, Waited
<1>19. CASE RequestComplete
  <2>1. data'.State = COMPLETE /\ data'.CompleteRequested /\ UNCHANGED <<leop, out, hist>>
    BY <1>19 DEF RequestComplete
  <2> QED
    BY <2>1, StateNames DEF StageInv, InLoop, Burning, Posting, Waiting, Requested, Waited
<1>20. CASE Crash
  <2>1. leop'.pc = "load" /\ out'.gpio = "LOW"
    BY <1>20, TaskAtEffect DEF Crash
  <2> QED
    BY <1>l, <2>1 DEF LoadPcs
<1> QED
  BY <1>1, <1>2, <1>3, <1>4, <1>5, <1>6, <1>7, <1>8, <1>9, <1>10, <1>11, <1>12, <1>13, <1>14, <1>15, <1>16,
     <1>17, <1>18, <1>19, <1>20 DEF Next, LeopStep, WaitStep

LEMMA NextQuiet ==
  ASSUME TypeInv, ControlInv, DataInv, QuietInv, Next
  PROVE  QuietInv'
<1> SUFFICES ASSUME env'.jumps = 0 PROVE PastInv' /\ StageInv'
  BY DEF QuietInv
<1>1. PastInv /\ StageInv /\ ~ClockJump
  BY JumpsStay DEF QuietInv
<1> QED
  BY <1>1, NextPast, NextStage

-----------------------------------------------------------------------------
(* The theorems that hold whatever may fail.                                *)

LEMMA InitLeop == Init => LeopInv
<1>1. Init => DataInv
  BY InitData
<1> QED
  BY <1>1, InitTypes, InitControl, InitLate, InitQuiet DEF LeopInv

LEMMA NextLeop == LeopInv /\ [Next]_vars => LeopInv'
<1> SUFFICES ASSUME LeopInv, [Next]_vars PROVE LeopInv'
  OBVIOUS
<1>0. TypeInv /\ ControlInv /\ DataInv /\ LineInv /\ LateInv /\ QuietInv /\ LitInv
  BY DEF LeopInv
<1>1. CASE Next
  <2>1. TypeInv' /\ ControlInv' /\ DataInv'
    BY <1>0, <1>1, NextTypes, NextControl, NextData
  <2>2. LineInv' /\ LateInv' /\ QuietInv' /\ LitInv'
    BY <1>0, <1>1, NextLine, NextLate, NextQuiet, NextLit
  <2> QED
    BY <2>1, <2>2 DEF LeopInv
<1>2. CASE UNCHANGED vars
  <2>1. UNCHANGED <<data, leop, save, disk, out, env, hist>>
    BY <1>2 DEF vars
  <2>2. TypeInv'
    BY <1>0, <2>1 DEF TypeInv, TypeOK
  <2>3. ControlInv' /\ DataInv'
    BY <1>0, <2>1 DEF ControlInv, DataInv, InLoop, Burning, Posting, Waiting, Requested, CopyRuntimeToFile
  <2>4. LineInv' /\ LateInv' /\ LitInv'
    BY <1>0, <2>1 DEF LineInv, Held, LateInv, LitInv, Counts, Waiting, Requested
  <2>5. QuietInv'
    BY <1>0, <2>1 DEF QuietInv, PastInv, StageInv, InLoop, Burning, Posting, Waiting, Requested, Waited
  <2> QED
    BY <2>2, <2>3, <2>4, <2>5 DEF LeopInv
<1> QED
  BY <1>1, <1>2

\* The inductive invariant of the child task, the shared fields, the state file
\* and the outputs, over resets, requests, faults and clock jumps.
THEOREM LeopInvariance == Spec => []LeopInv
<1>1. Init => LeopInv
  BY InitLeop
<1>2. LeopInv /\ [Next]_vars => LeopInv'
  BY NextLeop
<1> QED
  BY <1>1, <1>2, PTL DEF Spec

\* The fields that both tasks write without a common lock keep their ranges,
\* and the resistor is not driven HIGH before the initial wait is over, counted
\* over all boots: MISSION_LEOP_Wait resumes the seconds the file holds.
THEOREM LeopIsSound == Spec => []LeopSound
<1>1. LeopInv => LeopSound
  BY DEF LeopInv, TypeInv, QuietInv, StageInv, LeopSound, NoEarlyBurn, Waited
<1> QED
  BY <1>1, LeopInvariance, PTL

\* MISSION_LEOP_RequestComplete stops the burning: at most the burn starts that
\* has passed the loop's test, and it ends without a second of waiting unless a
\* message LOW was lost before.
THEOREM RequestsStopBurning == Spec => []RequestStopsBurning
<1>1. LeopInv => RequestStopsBurning
  BY DEF LeopInv, LateInv, RequestStopsBurning
<1> QED
  BY <1>1, LeopInvariance, PTL

\* Only MISSION_LEOP_GpioHigh's end releases the resistor between two resets.
LEMMA OnlyGpioLowReleases ==
  ASSUME TypeInv, Next, out.gpio = "HIGH", out'.gpio = "LOW", env'.crashes = env.crashes
  PROVE  GpioLow
<1>0. OutOK /\ EnvOK
  BY TypeParts
<1>1. out' # out
  OBVIOUS
<1>2. ~Plain /\ ~LoadFails /\ ~WaitLoop /\ ~RequestComplete /\ ~ClockJump
  BY <1>1, PlainEffect DEF LoadFails, WaitLoop, RequestComplete, ClockJump
<1>3. ASSUME NEW t \in Tasks PROVE ~SaveStep(t)
  BY <1>1, SaveStepEffect
<1>4. ~Crash
  BY <1>0 DEF Crash, EnvOK
<1>5. ~Loaded /\ ~ToEnable /\ ~GpioHigh
  BY <1>0 DEF Loaded, ToEnable, GpioHigh, Transmits, OutOK
<1> QED
  BY <1>2, <1>3, <1>4, <1>5, Steps

\* The GPIO falls, but for a request or a reset, after BURN_DURATION_SEC at least,
\* and less than a late delay later unless a message LOW was lost since it rose,
\* while the clock is not set: the seconds that an interrupted burn left in the
\* file do not shorten the next one.
THEOREM BurnsLastTheirTime == Spec => BurnLastsItsTime
<1>1. ASSUME LeopInv, [Next]_vars, out.gpio = "HIGH", out'.gpio = "LOW", env'.crashes = env.crashes,
             env.jumps = 0, ~Requested
      PROVE  /\ hist.lit >= BURN_DURATION_SEC
             /\ hist.lost \/ hist.lit < BURN_DURATION_SEC + MaxDelay
  <2>0. TypeInv /\ LitInv
    BY <1>1 DEF LeopInv
  <2>1. Next
    BY <1>1 DEF vars
  <2>2. GpioLow
    BY <1>1, <2>0, <2>1, OnlyGpioLowReleases
  <2> QED
    BY <1>1, <2>0, <2>2 DEF GpioLow, At, LitInv
<1>2. LeopInv /\ [Next]_vars =>
        [(/\ out.gpio = "HIGH" /\ out'.gpio = "LOW"
          /\ env'.crashes = env.crashes /\ env.jumps = 0 /\ ~Requested)
         => /\ hist.lit >= BURN_DURATION_SEC
            /\ hist.lost \/ hist.lit < BURN_DURATION_SEC + MaxDelay]_vars
  BY <1>1
<1> QED
  BY <1>2, LeopInvariance, PTL DEF Spec, BurnLastsItsTime

-----------------------------------------------------------------------------
(* The outputs, when no message to GPIO or TO_LAB fails.                    *)

\* The stages that follow MISSION_LEOP_EnableTo.
Enabled == leop.pc \in EnablePcs \cup {"next", "final", "done"} \/ Posting

DownlinkInv == ~Requested /\ Enabled => out.downlink

\* A stage behind MISSION_LEOP_EnableTo is reached, or resumed, with the output on.
LEMMA NextDownlink ==
  ASSUME TypeInv, ControlInv, DataInv, DownlinkInv, Next, "transmit" \notin Faults
  PROVE  DownlinkInv'
<1>0. data \in DataType /\ leop \in LeopType /\ OutOK
  BY TypeParts
<1> USE DEF WaitPcs, EnablePcs, PostPcs
<1>k. ASSUME ~Crash, out'.downlink = out.downlink, Enabled' => Enabled PROVE DownlinkInv'
  BY <1>k, RequestStays DEF DownlinkInv
<1>e. Enabled <=> \/ leop.pc \in EnablePcs \cup PostPcs \cup {"next", "final", "done"}
                  \/ leop.pc \in WaitPcs /\ leop.ret = "postEnd"
  BY DEF Enabled, Posting, Waiting
<1>f. Enabled' <=> \/ leop'.pc \in EnablePcs \cup PostPcs \cup {"next", "final", "done"}
                   \/ leop'.pc \in WaitPcs /\ leop'.ret = "postEnd"
  BY DEF Enabled, Posting, Waiting
<1>c. ASSUME Crash PROVE leop'.pc = "load"
  BY <1>c, TaskAtEffect DEF Crash
<1>n. ASSUME leop'.pc \notin EnablePcs \cup PostPcs \cup WaitPcs \cup {"next", "final", "done"}
      PROVE  DownlinkInv'
  BY <1>f, <1>n DEF DownlinkInv
<1>1. CASE LoadRead \/ CopyElapsed \/ DefaultsSaved
  <2>1. leop'.pc \in {"copy", "defaults", "loaded", "failed"}
    BY <1>0, <1>1, TaskAtEffect DEF LoadRead, CopyElapsed, DefaultsSaved, LeopType
  <2> QED
    BY <1>n, <2>1
<1>2. CASE LoadFails \/ CopyCycle \/ CopyState \/ DefaultCycle \/ DefaultState \/ FailedState
  <2>1. leop'.pc \in {"failed", "defaults", "copyState", "copyElapsed", "defaultState", "failedState",
                      "defaultsSaved", "loaded"}
    BY <1>0, <1>2, GotoEffect DEF LoadFails, CopyCycle, CopyState, DefaultCycle, DefaultState, FailedState
  <2> QED
    BY <1>n, <2>1
<1>3. CASE Loaded \/ ToEnable
  <2>1. out'.downlink \/ leop'.pc = "branch"
    BY <1>0, <1>3, GotoEffect DEF Loaded, ToEnable, Transmits, OutOK
  <2> QED
    BY <1>n, <2>1 DEF DownlinkInv
<1>4. CASE Branch
  <2>1. leop'.pc = "for" \/ (leop'.pc = "wait" /\ leop'.ret = "initialEnd")
    BY <1>0, <1>4, GotoEffect, CallWaitEffect DEF Branch
  <2> QED
    BY <1>f, <2>1 DEF DownlinkInv
<1>5. CASE CheckRequest
  <2>1. data' = data /\ out' = out
    BY <1>5 DEF CheckRequest
  <2>2. \/ leop'.pc = "final" /\ Requested
        \/ leop'.pc \in {"for", "toBurn", "saveBurned", "toEnable"}
        \/ Enabled
    BY <1>0, <1>5, <1>e, GotoEffect DEF CheckRequest, At
  <2> QED
    BY <1>n, <2>1, <2>2 DEF DownlinkInv, Requested
<1>6. CASE For
  <2>0. data' = data /\ out' = out
    BY <1>6 DEF For
  <2>1. CASE At("for")
    <3>1. leop'.pc = IF LoopEnters(data.CycleCount) THEN "burnStart" ELSE "final"
      BY <1>0, <1>6, <2>1 DEF For, At, LeopType
    <3>2. ~Requested => data.CycleCount # REPEAT_COUNT
      BY <1>0, <2>1, FileOfData, StateNames DEF At, DataInv, ValidFile, LoadPcs
    <3>3. ~Requested => LoopEnters(data.CycleCount)
      BY <1>0, <3>2, Constants DEF LoopEnters, DataType
    <3> QED
      BY <1>n, <2>0, <3>1, <3>3 DEF DownlinkInv, Requested
  <2>2. CASE At("next")
    BY <1>e, <2>0, <2>2 DEF At, DownlinkInv, Requested
  <2> QED
    BY <1>6, <2>1, <2>2 DEF For
<1>7. CASE Saves \/ ToBurn \/ StartBurn \/ CountCycle \/ CountState \/ Final
  <2>1. out' = out /\ leop'.pc # "load"
    BY <1>0, <1>7, GotoEffect DEF Saves, ToBurn, StartBurn, CountCycle, CountState, Final
  <2>2. leop'.pc \in {"burnSaved", "for", "gpioHigh"} \/ Enabled
    BY <1>0, <1>7, <1>e, GotoEffect DEF Saves, ToBurn, StartBurn, CountCycle, CountState, Final, At
  <2> QED
    BY <1>n, <1>k, <1>c, <2>1, <2>2
<1>8. CASE GpioHigh
  <2>1. leop'.pc = "burned" \/ (leop'.pc = "wait" /\ leop'.ret = "gpioLow")
    BY <1>0, <1>8, GotoEffect, CallWaitEffect DEF GpioHigh
  <2> QED
    BY <1>f, <2>1 DEF DownlinkInv
<1>9. CASE GpioLow
  BY <1>0, <1>9, <1>n, GotoEffect DEF GpioLow
<1>10. CASE ToPost
  <2>1. leop'.pc = "wait" /\ out' = out /\ leop.pc = "toPost"
    BY <1>0, <1>10, CallWaitEffect DEF ToPost, At
  <2> QED
    BY <1>k, <1>c, <1>e, <2>1
<1>11. CASE WaitEnter \/ WaitNoteNext \/ ClockJump
  <2>1. leop'.pc \in WaitPcs /\ leop'.ret = leop.ret /\ leop.pc \in WaitPcs /\ out' = out
    BY <1>0, <1>11 DEF WaitEnter, WaitNoteNext, ClockJump, At, LeopType
  <2> QED
    BY <1>k, <1>c, <1>e, <1>f, <2>1
<1>12. CASE WaitPoll \/ WaitNote \/ WaitNoteSave
  <2>1. leop'.pc \in WaitPcs /\ leop'.ret = leop.ret /\ leop.pc \in WaitPcs /\ out' = out
    BY <1>0, <1>12, GotoEffect DEF WaitPoll, WaitNote, WaitNoteSave, At
  <2> QED
    BY <1>k, <1>c, <1>e, <1>f, <2>1
<1>13. CASE WaitLoop
  <2>1. leop'.pc \in {"waitEnd", "poll"} /\ leop'.ret = leop.ret /\ leop.pc = "loop" /\ out' = out
    BY <1>0, <1>13, LoopEffect DEF WaitLoop, At, LeopType
  <2> QED
    BY <1>k, <1>c, <1>e, <1>f, <2>1
<1>14. CASE WaitSkip \/ WaitEnd
  <2>1. leop'.pc = leop.ret /\ leop.pc \in WaitPcs /\ out' = out
    BY <1>14, WaitReturnEffect DEF WaitSkip, WaitEnd, At
  <2>2. leop.ret \in {"initialEnd", "gpioLow", "postEnd"}
    BY <1>0, <2>1 DEF ControlInv, LeopType
  <2> QED
    BY <1>k, <1>c, <1>e, <1>f, <2>1, <2>2
<1>15. ASSUME NEW t \in Tasks, SaveStep(t) PROVE DownlinkInv'
  BY <1>15, SaveStepEffect DEF DownlinkInv, Enabled, Posting, Waiting, Requested
<1>16. CASE RequestComplete
  BY <1>16 DEF RequestComplete, DownlinkInv, Requested
<1>17. CASE Crash
  BY <1>17, <1>c, <1>n
<1> QED
  BY <1>1, <1>2, <1>3, <1>4, <1>5, <1>6, <1>7, <1>8, <1>9, <1>10, <1>11, <1>12, <1>13, <1>14, <1>15, <1>16,
     <1>17 DEF Next, LeopStep, WaitStep

\* While no message to GPIO or TO_LAB fails, the resistor is HIGH only inside a
\* burn, whatever the ground commands, and a task that ends by itself leaves the
\* telemetry output on, after the reset of a finished sequence too.
THEOREM OutputsAreLeftSafe == "transmit" \notin Faults => (Spec => []OutputsLeftSafe)
<1> SUFFICES ASSUME "transmit" \notin Faults PROVE Spec => []OutputsLeftSafe
  OBVIOUS
<1>0. LeopInv => GpioReleased
  BY DEF LeopInv, LineInv, Held, GpioReleased
<1> DEFINE Inv == DownlinkInv
<1>1. Init => Inv
  BY DEF Init, TaskAt, DownlinkInv, Enabled, Posting, Waiting, WaitPcs, EnablePcs, PostPcs
<1>2. LeopInv /\ Inv /\ [Next]_vars => Inv'
  <2> SUFFICES ASSUME LeopInv, Inv, [Next]_vars PROVE Inv'
    OBVIOUS
  <2>1. CASE Next
    BY <2>1, NextDownlink DEF LeopInv
  <2>2. CASE UNCHANGED vars
    BY <2>2 DEF vars, DownlinkInv, Enabled, Posting, Waiting, Requested
  <2> QED
    BY <2>1, <2>2
<1>3. LeopInv /\ Inv => OutputsLeftSafe
  BY <1>0 DEF OutputsLeftSafe, TelemetryOn, DownlinkInv, Enabled
<1> HIDE DEF Inv
<1> QED
  BY <1>1, <1>2, <1>3, LeopInvariance, PTL DEF Spec

-----------------------------------------------------------------------------
(* The state file, when no save and no load fails.                          *)

\* After the load the child task stays past it, and only calls SaveState.
LEMMA AfterLoad ==
  ASSUME TypeInv, ControlInv, LeopStep, leop.pc \notin LoadPcs
  PROVE  leop'.pc \notin LoadPcs /\ disk' = disk /\ (save' = save \/ CallSave("LEOP"))
<1>0. leop \in LeopType
  BY TypeParts
<1> USE DEF LoadPcs
<1>1. CASE WaitEnter \/ WaitNoteNext \/ For
  BY <1>0, <1>1 DEF WaitEnter, WaitNoteNext, For, LeopType
<1>2. CASE WaitSkip \/ WaitEnd
  <2>1. leop'.pc = leop.ret /\ leop.pc \in WaitPcs /\ disk' = disk /\ save' = save
    BY <1>2, WaitReturnEffect DEF WaitSkip, WaitEnd, At, WaitPcs
  <2>2. leop.ret \in {"initialEnd", "gpioLow", "postEnd"}
    BY <1>0, <2>1 DEF ControlInv, LeopType
  <2> QED
    BY <2>1, <2>2
<1>3. CASE WaitLoop
  <2>1. leop'.pc \in {"waitEnd", "poll"}
    BY <1>0, <1>3, LoopEffect DEF LeopType
  <2> QED
    BY <1>3, <2>1 DEF WaitLoop
<1>4. CASE WaitPoll \/ WaitNote \/ WaitNoteSave
  BY <1>0, <1>4, GotoEffect DEF WaitPoll, WaitNote, WaitNoteSave
<1>5. CASE Loaded \/ CheckRequest \/ Saves \/ ToBurn \/ StartBurn \/ GpioLow
  BY <1>0, <1>5, GotoEffect DEF Loaded, CheckRequest, Saves, ToBurn, StartBurn, GpioLow
<1>6. CASE ToEnable \/ CountCycle \/ CountState \/ Final
  BY <1>0, <1>6, GotoEffect DEF ToEnable, CountCycle, CountState, Final
<1>7. CASE Branch \/ GpioHigh \/ ToPost
  BY <1>0, <1>7, GotoEffect, CallWaitEffect DEF Branch, GpioHigh, ToPost
<1>8. ~(LoadRead \/ LoadFails \/ CopyCycle \/ CopyState \/ CopyElapsed \/ DefaultCycle \/ DefaultState
        \/ DefaultsSaved \/ FailedState)
  BY DEF LoadRead, LoadFails, CopyCycle, CopyState, CopyElapsed, DefaultCycle, DefaultState, DefaultsSaved,
    FailedState, At
<1> QED
  BY <1>1, <1>2, <1>3, <1>4, <1>5, <1>6, <1>7, <1>8 DEF LeopStep, WaitStep

\* The steps of MISSION_LEOP_LoadState.
LEMMA LoadSteps ==
  ASSUME LeopStep, leop.pc \in LoadPcs
  PROVE  \/ LoadRead \/ LoadFails \/ CopyCycle \/ CopyState \/ CopyElapsed
         \/ DefaultCycle \/ DefaultState \/ DefaultsSaved \/ FailedState
<1> USE DEF LoadPcs
<1>1. ~WaitStep
  BY DEF WaitStep, WaitEnter, WaitSkip, WaitLoop, WaitPoll, WaitNote, WaitNoteSave, WaitNoteNext, WaitEnd, At
<1>2. ~(Loaded \/ Branch \/ CheckRequest \/ Saves \/ ToBurn \/ For \/ StartBurn \/ GpioHigh \/ GpioLow)
  BY DEF Loaded, Branch, CheckRequest, Saves, ToBurn, For, StartBurn, GpioHigh, GpioLow, At
<1>3. ~(ToEnable \/ ToPost \/ CountCycle \/ CountState \/ Final)
  BY DEF ToEnable, ToPost, CountCycle, CountState, Final, At
<1> QED
  BY <1>1, <1>2, <1>3 DEF LeopStep

\* What SaveState writes would be accepted, unless it raced with a request.
LEMMA SnapshotValid ==
  ASSUME TypeInv, ControlInv, DataInv, ~Requested, save["LEOP"].pc # "idle"
  PROVE  ValidFile(CopyRuntimeToFile)
<1>1. leop.pc \in SavePcs
  BY DEF ControlInv
<1>2. CASE leop.pc = "defaultsSaved"
  <2>1. data \in DataType /\ data.WaitElapsed = 0 /\ data.State = INITIAL_WAIT /\ data.CycleCount = 0
    BY <1>2, TypeParts DEF ControlInv, DataInv
  <2> QED
    BY <2>1, FileOfData, StateNames, WaitDurations, Constants DEF ValidFile
<1>3. CASE leop.pc # "defaultsSaved"
  BY <1>1, <1>3 DEF DataInv, SavePcs, LoadPcs
<1> QED
  BY <1>2, <1>3

\* Without faults the files that the sequence alone leaves are accepted.
LEMMA NextAccepted ==
  ASSUME TypeInv, ControlInv, DataInv, AcceptedInv, Next, "save" \notin Faults, "load" \notin Faults
  PROVE  AcceptedInv'
<1>0. /\ data \in DataType /\ leop \in LeopType /\ save \in [Tasks -> SaveType] /\ DiskOK
      /\ "LEOP" \in Tasks /\ "CMD" \in Tasks
  BY TypeParts DEF Tasks
<1> USE DEF LoadPcs, CopyPcs
<1>1. CASE LoadRead
  <2>1. /\ leop'.pc = IF ValidFile(disk.file) THEN "copy" ELSE "defaults"
        /\ save["LEOP"].pc = "idle" /\ UNCHANGED <<data, save, disk>>
    BY <1>0, <1>1 DEF LoadRead, At, LeopType
  <2> QED
    BY <2>1 DEF AcceptedInv, Requested
<1>2. CASE CopyCycle \/ CopyState \/ CopyElapsed
  <2>1. leop.pc \in CopyPcs /\ leop'.pc \in {"copyState", "copyElapsed", "loaded"} /\ UNCHANGED <<save, disk>>
    BY <1>0, <1>2, GotoEffect, TaskAtEffect DEF CopyCycle, CopyState, CopyElapsed, At
  <2>2. data'.CompleteRequested = data.CompleteRequested
    BY <1>0, <1>2 DEF CopyCycle, CopyState, CopyElapsed, DataType
  <2> QED
    BY <2>1, <2>2 DEF AcceptedInv, Requested
<1>3. CASE DefaultCycle
  <2>1. leop.pc = "defaults" /\ leop'.pc = "defaultState" /\ UNCHANGED <<save, disk>>
    BY <1>0, <1>3, GotoEffect DEF DefaultCycle, At, AcceptedInv
  <2>2. data'.CompleteRequested = data.CompleteRequested
    BY <1>0, <1>3 DEF DefaultCycle, DataType
  <2> QED
    BY <2>1, <2>2 DEF AcceptedInv, Requested
<1>4. CASE DefaultState
  <2>1. leop'.pc = "defaultsSaved" /\ save'["LEOP"].pc = "copy" /\ save'["LEOP"].ok
    BY <1>0, <1>4, GotoEffect, CallSaveEffect DEF DefaultState, AcceptedInv
  <2> QED
    BY <2>1 DEF AcceptedInv
<1>5. CASE DefaultsSaved
  <2>1. /\ leop.pc = "defaultsSaved" /\ leop'.pc = "loaded" /\ save["LEOP"].pc = "idle"
        /\ UNCHANGED <<data, save, disk>>
    BY <1>5, TaskAtEffect DEF DefaultsSaved, At, AcceptedInv
  <2> QED
    BY <2>1 DEF AcceptedInv, Requested
<1>6. ~LoadFails /\ ~FailedState
  BY DEF LoadFails, FileFault, FailedState, At, AcceptedInv
<1>7. CASE LeopStep /\ leop.pc \notin LoadPcs
  <2>1. leop'.pc \notin LoadPcs /\ disk' = disk /\ (save' = save \/ CallSave("LEOP"))
    BY <1>7, AfterLoad
  <2>2. ~Crash
    BY <2>1, TaskAtEffect DEF Crash
  <2>3. /\ save'["LEOP"].ok = save["LEOP"].ok
        /\ save'["LEOP"] = save["LEOP"] \/ save'["LEOP"].pc = "copy"
    BY <1>0, <2>1, CallSaveEffect
  <2> QED
    BY <1>7, <2>1, <2>2, <2>3, RequestStays DEF AcceptedInv
<1>8. CASE SaveStep("LEOP")
  <2>0. UNCHANGED <<data, leop>>
    BY <1>0, <1>8, SaveStepEffect
  <2>1. CASE SaveCopy("LEOP")
    <3>1. /\ save["LEOP"].pc = "copy" /\ save'["LEOP"].pc = "store" /\ save'["LEOP"].fd = CopyRuntimeToFile
          /\ save'["LEOP"].ok = save["LEOP"].ok /\ disk' = disk
      BY <1>0, <2>1 DEF SaveCopy, SaveType
    <3>2. ~Requested => ValidFile(CopyRuntimeToFile)
      BY <3>1, SnapshotValid
    <3> QED
      BY <2>0, <3>1, <3>2 DEF AcceptedInv, Requested
  <2>2. CASE SaveStore("LEOP")
    <3>1. /\ save["LEOP"].pc = "store" /\ save'["LEOP"].pc = "sync" /\ disk'.file = save["LEOP"].fd
          /\ save'["LEOP"].ok = save["LEOP"].ok
      BY <1>0, <2>2 DEF SaveStore, SaveType
    <3> QED
      BY <2>0, <3>1 DEF AcceptedInv, Requested
  <2>3. CASE SaveSync("LEOP")
    <3>1. /\ save["LEOP"].pc = "sync" /\ save'["LEOP"].pc = "idle" /\ save'["LEOP"].ok
          /\ disk'.file = disk.file
      <4>1. save' = SaveReturn("LEOP", TRUE) /\ disk' = [disk EXCEPT !.survivors = {disk.file}, !.owner = NoTask]
        BY <2>3 DEF SaveSync, FileFault
      <4>2. save'["LEOP"].pc = "idle" /\ save'["LEOP"].ok
        BY <1>0, <4>1 DEF SaveReturn
      <4> QED
        BY <1>0, <2>3, <4>1, <4>2 DEF SaveSync, DiskOK
    <3> QED
      BY <2>0, <3>1 DEF AcceptedInv, Requested
  <2>4. ~SaveStoreFails("LEOP")
    BY DEF SaveStoreFails, FileFault
  <2> QED
    BY <1>8, <2>1, <2>2, <2>3, <2>4 DEF SaveStep
<1>9. CASE SaveStep("CMD")
  <2>1. UNCHANGED <<data, leop>> /\ save'["LEOP"] = save["LEOP"] /\ save["CMD"].pc # "idle"
    BY <1>0, <1>9, SaveStepEffect
  <2>2. Requested
    BY <2>1 DEF ControlInv
  <2> QED
    BY <2>1, <2>2 DEF AcceptedInv, Requested
<1>10. CASE RequestComplete
  <2>1. data'.CompleteRequested /\ leop' = leop /\ save'["LEOP"] = save["LEOP"]
    BY <1>0, <1>10, CallSaveEffect DEF RequestComplete
  <2> QED
    BY <2>1 DEF AcceptedInv, Requested
<1>11. CASE Crash
  <2>1. leop'.pc = "load" /\ save'["LEOP"].pc = "idle" /\ save'["LEOP"].ok
    BY <1>0, <1>11, TaskAtEffect DEF Crash, SaveIdle
  <2> QED
    BY <2>1 DEF AcceptedInv
<1>12. CASE ClockJump
  <2>1. leop'.pc = leop.pc /\ UNCHANGED <<data, save, disk>>
    BY <1>0, <1>12 DEF ClockJump, LeopType
  <2> QED
    BY <2>1 DEF AcceptedInv, Requested
<1>13. CASE LeopStep /\ leop.pc \in LoadPcs
  BY <1>1, <1>2, <1>3, <1>4, <1>5, <1>6, <1>13, LoadSteps
<1> QED
  BY <1>7, <1>8, <1>9, <1>10, <1>11, <1>12, <1>13 DEF Next, Tasks

\* While no save and no load fails, MISSION_LEOP_LoadState rejects a file only
\* at the first boot or after a race with a completion request: over resets the
\* sequence alone never writes a file that would make it start over.
THEOREM RejectedOnlyAfterARace ==
  "save" \notin Faults /\ "load" \notin Faults => (Spec => []RejectedOnlyInRace)
<1> SUFFICES ASSUME "save" \notin Faults, "load" \notin Faults PROVE Spec => []RejectedOnlyInRace
  OBVIOUS
<1>1. Init => AcceptedInv
  BY DEF Init, TaskAt, SaveIdle, Tasks, AcceptedInv, LoadPcs, CopyPcs
<1>2. LeopInv /\ AcceptedInv /\ [Next]_vars => AcceptedInv'
  <2> SUFFICES ASSUME LeopInv, AcceptedInv, [Next]_vars PROVE AcceptedInv'
    OBVIOUS
  <2>1. CASE Next
    BY <2>1, NextAccepted DEF LeopInv
  <2>2. CASE UNCHANGED vars
    BY <2>2 DEF vars, AcceptedInv, Requested
  <2> QED
    BY <2>1, <2>2
<1>3. AcceptedInv => RejectedOnlyInRace
  BY DEF AcceptedInv, RejectedOnlyInRace
<1> QED
  BY <1>1, <1>2, <1>3, LeopInvariance, PTL DEF Spec

-----------------------------------------------------------------------------
(* The progress that the medium keeps.                                      *)

\* The least member of a set of numbers is one of them.
LEMMA LeastOfNats ==
  ASSUME NEW S, S \subseteq Nat, S # {}
  PROVE  Min(S) \in S /\ \A y \in S : Min(S) <= y
<1> DEFINE R == OpToRel(<, Nat)
<1>0. IsWellFoundedOn(R, Nat) /\ \A x, y \in Nat : y < x => <<y, x>> \in R
  BY NatLessThanWellFounded DEF OpToRel
<1> HIDE DEF R
<1>1. PICK x \in S : \A y \in S : ~(<<y, x>> \in R)
  BY <1>0, WFMin
<1>2. ASSUME NEW y \in S PROVE x <= y
  <2>1. ~(y < x)
    BY <1>0, <1>1
  <2>2. x \in Nat /\ y \in Nat
    OBVIOUS
  <2> QED
    BY <2>1, <2>2
<1>3. \E m \in S : \A y \in S : m <= y
  BY <1>2
<1> QED
  BY <1>3 DEF Min

LEMMA Ranks ==
  /\ Rank(NoFile) = 0
  /\ \A fd \in Files : Rank(fd) \in Nat
  /\ \A fd \in FileData : Rank(fd) = IF fd.state = INITIAL_WAIT THEN 1 ELSE 2 + fd.cycle
<1>1. Rank(NoFile) = 0
  BY DEF Rank, NoFile, INITIAL_WAIT
<1>2. ASSUME NEW fd \in FileData
      PROVE  Rank(fd) \in Nat /\ Rank(fd) = IF fd.state = INITIAL_WAIT THEN 1 ELSE 2 + fd.cycle
  <2>1. fd # NoFile /\ fd.cycle \in Nat
    BY StateNames, Constants DEF FileData, NoFile
  <2> QED
    BY <2>1 DEF Rank
<1> QED
  BY <1>1, <1>2 DEF Files

\* If every file a reset may leave is as advanced as an earlier one, nothing is lost.
LEMMA LeastRankGrows ==
  ASSUME NEW d, NEW e, d.survivors \subseteq Files, d.survivors # {},
         e.survivors \subseteq Files, e.survivors # {},
         \A fd \in e.survivors : \E old \in d.survivors : Rank(old) <= Rank(fd)
  PROVE  LeastRank(e) >= LeastRank(d)
<1> DEFINE D == {Rank(fd) : fd \in d.survivors}
           E == {Rank(fd) : fd \in e.survivors}
<1>1. D \subseteq Nat /\ D # {} /\ E \subseteq Nat /\ E # {}
  BY Ranks
<1>2. \A x \in E : \E y \in D : y <= x
  OBVIOUS
<1>3. LeastRank(d) = Min(D) /\ LeastRank(e) = Min(E)
  BY DEF LeastRank
<1> HIDE DEF D, E
<1>4. Min(E) \in E /\ Min(D) \in D /\ \A y \in D : Min(D) <= y
  BY <1>1, LeastOfNats
<1>5. PICK y \in D : y <= Min(E)
  BY <1>2, <1>4
<1>6. Min(D) <= y /\ Min(D) \in Nat /\ Min(E) \in Nat /\ y \in Nat
  BY <1>1, <1>4
<1> QED
  BY <1>3, <1>5, <1>6

LEMMA RankOfData ==
  ASSUME data \in DataType
  PROVE  /\ Rank(CopyRuntimeToFile) = IF data.State = INITIAL_WAIT THEN 1 ELSE 2 + data.CycleCount
         /\ Rank(CopyRuntimeToFile) \in Nat
BY FileOfData, Ranks, Constants DEF DataType

\* Requests and unread files are not forgotten.
LEMMA RequestsCount ==
  ASSUME TypeInv, Next
  PROVE  \/ env'.requests = env.requests /\ ~RequestComplete
         \/ env'.requests = env.requests + 1
<1>0. EnvOK
  BY TypeParts
<1>1. RequestComplete => env'.requests = env.requests + 1
  BY <1>0 DEF RequestComplete, EnvOK
<1>2. CASE Plain \/ WaitLoop \/ Loaded \/ GpioHigh \/ GpioLow \/ ToEnable
  BY <1>1, <1>2, PlainEffect DEF WaitLoop, Loaded, GpioHigh, GpioLow, ToEnable
<1>3. CASE LoadFails \/ Crash \/ ClockJump
  <2>1. env'.requests = env.requests
    BY <1>0, <1>3 DEF LoadFails, FileFault, Crash, ClockJump, EnvOK
  <2> QED
    BY <1>1, <2>1
<1>4. CASE \E t \in Tasks : SaveStep(t)
  BY <1>1, <1>4, SaveStepEffect
<1> QED
  BY <1>1, <1>2, <1>3, <1>4, Steps

LEMMA RequestsCounted ==
  ASSUME TypeInv, Next, env'.requests = 0
  PROVE  env.requests = 0 /\ ~RequestComplete
<1>1. env.requests \in Nat
  BY TypeParts DEF EnvOK
<1> QED
  BY <1>1, RequestsCount

LEMMA UnreadStays ==
  ASSUME TypeInv, Next, ~hist'.unread
  PROVE  ~hist.unread /\ ~LoadFails
<1>0. HistOK
  BY TypeParts
<1>1. ~LoadFails
  BY <1>0 DEF LoadFails, HistOK
<1>2. CASE Plain \/ Loaded \/ ToEnable \/ RequestComplete \/ ClockJump
  BY <1>1, <1>2, PlainEffect DEF Loaded, ToEnable, RequestComplete, ClockJump
<1>3. CASE GpioLow \/ Crash
  BY <1>0, <1>1, <1>3 DEF GpioLow, Crash, HistOK
<1>4. CASE GpioHigh
  BY <1>0, <1>1, <1>4 DEF GpioHigh, HistOK
<1>5. CASE WaitLoop
  BY <1>0, <1>1, <1>5, LoopEffect DEF HistOK
<1>6. CASE \E t \in Tasks : SaveStep(t)
  BY <1>1, <1>6, SaveStepEffect
<1> QED
  BY <1>1, <1>2, <1>3, <1>4, <1>5, <1>6, Steps

\* After the load, the child task never goes back a cycle.
LEMMA RankGrows ==
  ASSUME TypeInv, ControlInv, DataInv, Next, LeopStep, ~Requested, leop.pc \notin LoadPcs
  PROVE  Rank(CopyRuntimeToFile) <= Rank(CopyRuntimeToFile')
<1>0. data \in DataType /\ leop \in LeopType /\ data' \in DataType /\ data.CycleCount \in Nat
  BY TypeParts, NextDataType, Constants DEF DataType
<1>r. /\ Rank(CopyRuntimeToFile) = IF data.State = INITIAL_WAIT THEN 1 ELSE 2 + data.CycleCount
      /\ Rank(CopyRuntimeToFile') = IF data'.State = INITIAL_WAIT THEN 1 ELSE 2 + data'.CycleCount
  <2>1. CopyRuntimeToFile' = [state |-> data'.State, cycle |-> data'.CycleCount, elapsed |-> data'.WaitElapsed]
    BY DEF CopyRuntimeToFile
  <2>2. CopyRuntimeToFile' \in FileData
    BY <1>0, <2>1 DEF DataType, FileData
  <2> QED
    BY <1>0, <2>1, <2>2, RankOfData, Ranks
<1>k. ASSUME data'.State = data.State, data'.CycleCount = data.CycleCount
      PROVE  Rank(CopyRuntimeToFile) <= Rank(CopyRuntimeToFile')
  BY <1>0, <1>k, <1>r
<1>g. ASSUME data'.State # INITIAL_WAIT, data'.CycleCount \in Nat, data'.CycleCount >= data.CycleCount
      PROVE  Rank(CopyRuntimeToFile) <= Rank(CopyRuntimeToFile')
  BY <1>0, <1>g, <1>r
<1>1. CASE WaitEnter \/ WaitSkip \/ WaitNote \/ WaitEnd
  BY <1>0, <1>1, <1>k DEF WaitEnter, WaitSkip, WaitNote, WaitEnd, WaitReset, DataType
<1>2. CASE WaitLoop \/ WaitPoll \/ WaitNoteSave \/ WaitNoteNext
  BY <1>2, <1>k DEF WaitLoop, WaitPoll, WaitNoteSave, WaitNoteNext
<1>3. CASE Loaded \/ Branch \/ CheckRequest \/ Saves \/ For \/ GpioHigh \/ GpioLow
  BY <1>3, <1>k DEF Loaded, Branch, CheckRequest, Saves, For, GpioHigh, GpioLow
<1>4. CASE ToBurn \/ StartBurn \/ ToEnable \/ ToPost
  <2>1. data'.CycleCount = data.CycleCount /\ data'.State \in {BURN, TO_ENABLE, POST_WAIT}
    BY <1>0, <1>4 DEF ToBurn, StartBurn, BurnStart, WaitReset, ToEnable, ToPost, DataType
  <2> QED
    BY <1>0, <1>g, <2>1, StateNames
<1>5. CASE CountCycle
  <2>1. data'.CycleCount = leop.Cycle + 1 /\ data'.State = data.State
    BY <1>0, <1>5 DEF CountCycle, DataType
  <2>2. data.CycleCount = leop.Cycle /\ data.State = POST_WAIT
    BY <1>5 DEF CountCycle, At, DataInv, Posting, PostPcs
  <2> QED
    BY <1>0, <1>g, <2>1, <2>2, StateNames
<1>6. CASE CountState
  <2>1. data'.CycleCount = data.CycleCount /\ data'.State \in {BURN, COMPLETE}
    BY <1>0, <1>6 DEF CountState, NextState, DataType
  <2> QED
    BY <1>0, <1>g, <2>1, StateNames
<1>7. CASE Final
  <2>1. data'.CycleCount = REPEAT_COUNT /\ data'.State = COMPLETE
    BY <1>0, <1>7 DEF Final, DataType
  <2>2. data.CycleCount <= REPEAT_COUNT
    BY <1>0, Constants DEF DataType
  <2> QED
    BY <1>g, <2>1, <2>2, StateNames, Constants
<1>8. ~(LoadRead \/ LoadFails \/ CopyCycle \/ CopyState \/ CopyElapsed \/ DefaultCycle \/ DefaultState
        \/ DefaultsSaved \/ FailedState)
  BY DEF LoadRead, LoadFails, CopyCycle, CopyState, CopyElapsed, DefaultCycle, DefaultState, DefaultsSaved,
    FailedState, At, LoadPcs
<1> QED
  BY <1>1, <1>2, <1>3, <1>4, <1>5, <1>6, <1>7, <1>8 DEF LeopStep, WaitStep

\* MISSION_Data is at least as advanced as a snapshot of it, and a snapshot as the
\* file that it replaces.
LEMMA NextKept ==
  ASSUME TypeInv, ControlInv, DataInv, Kept, Next, ~Requested, ~RequestComplete, ~LoadFails
  PROVE  Kept'
<1>0. /\ data \in DataType /\ leop \in LeopType /\ save \in [Tasks -> SaveType] /\ DiskOK
      /\ disk.file \in Files /\ Rank(disk.file) \in Nat /\ data' \in DataType
      /\ "LEOP" \in Tasks /\ "CMD" \in Tasks
  BY TypeParts, NextDataType, Ranks DEF Tasks, DiskOK
<1>r. /\ Rank(CopyRuntimeToFile) = IF data.State = INITIAL_WAIT THEN 1 ELSE 2 + data.CycleCount
      /\ Rank(CopyRuntimeToFile') = IF data'.State = INITIAL_WAIT THEN 1 ELSE 2 + data'.CycleCount
      /\ Rank(CopyRuntimeToFile) \in Nat
  <2>1. CopyRuntimeToFile' = [state |-> data'.State, cycle |-> data'.CycleCount, elapsed |-> data'.WaitElapsed]
    BY DEF CopyRuntimeToFile
  <2>2. CopyRuntimeToFile' \in FileData
    BY <1>0, <2>1 DEF DataType, FileData
  <2> QED
    BY <1>0, <2>1, <2>2, RankOfData, Ranks
<1> USE DEF LoadPcs, CopyPcs
<1>1. CASE LoadRead
  <2>1. /\ leop'.pc = IF ValidFile(disk.file) THEN "copy" ELSE "defaults"
        /\ leop'.read = disk.file /\ save["LEOP"].pc = "idle" /\ UNCHANGED <<data, save, disk>>
    BY <1>0, <1>1 DEF LoadRead, At, LeopType
  <2>2. ~ValidFile(disk.file) => Rank(disk.file) = 0
    BY <1>0, Ranks DEF Kept, DiskOK
  <2> QED
    BY <2>1, <2>2 DEF Kept
<1>2. CASE CopyCycle \/ CopyState
  <2>1. /\ leop.pc \in CopyPcs /\ leop'.pc \in {"copyState", "copyElapsed"} /\ leop'.read = leop.read
        /\ save["LEOP"].pc = "idle" /\ UNCHANGED <<save, disk>>
    BY <1>0, <1>2, GotoEffect DEF CopyCycle, CopyState, At
  <2> QED
    BY <2>1 DEF Kept
<1>3. CASE CopyElapsed
  <2>1. leop.pc = "copyElapsed" /\ leop'.pc = "loaded" /\ save["LEOP"].pc = "idle" /\ UNCHANGED <<save, disk>>
    BY <1>3, TaskAtEffect DEF CopyElapsed, At
  <2>2. data'.State = leop.read.state /\ data'.CycleCount = leop.read.cycle /\ leop.read = disk.file
    BY <1>0, <1>3, <2>1 DEF CopyElapsed, DataInv, Kept, DataType
  <2>3. disk.file \in FileData
    BY <2>1, <2>2 DEF ControlInv
  <2>4. Rank(disk.file) = Rank(CopyRuntimeToFile')
    BY <1>r, <2>2, <2>3, Ranks
  <2> QED
    BY <1>0, <2>1, <2>4 DEF Kept
<1>4. CASE DefaultCycle
  <2>1. /\ leop.pc \in {"defaults", "failed"} /\ leop'.pc \in {"defaultState", "failedState"}
        /\ save["LEOP"].pc = "idle" /\ UNCHANGED <<save, disk>>
    BY <1>0, <1>4, GotoEffect DEF DefaultCycle, At
  <2> QED
    BY <2>1 DEF Kept
<1>5. CASE DefaultState \/ FailedState
  <2>1. /\ leop.pc \in {"defaultState", "failedState"} /\ leop'.pc \in {"defaultsSaved", "loaded"} /\ disk' = disk
        /\ save'["LEOP"].pc \in {"idle", "copy"}
    BY <1>0, <1>5, GotoEffect, CallSaveEffect DEF DefaultState, FailedState, At
  <2>2. data'.State = INITIAL_WAIT
    BY <1>0, <1>5 DEF DefaultState, FailedState, DataType
  <2> QED
    BY <1>r, <2>1, <2>2 DEF Kept
<1>6. CASE DefaultsSaved
  <2>1. /\ leop.pc = "defaultsSaved" /\ leop'.pc \in {"loaded", "failed"} /\ save["LEOP"].pc = "idle"
        /\ UNCHANGED <<data, save, disk>>
    BY <1>6, TaskAtEffect DEF DefaultsSaved, At
  <2>2. data.State = INITIAL_WAIT /\ CopyRuntimeToFile' = CopyRuntimeToFile
    BY <2>1 DEF DataInv, CopyRuntimeToFile
  <2> QED
    BY <1>r, <2>1, <2>2 DEF Kept
<1>7. CASE LeopStep /\ leop.pc \notin LoadPcs
  <2>1. leop'.pc \notin LoadPcs /\ disk' = disk /\ (save' = save \/ CallSave("LEOP"))
    BY <1>7, AfterLoad
  <2>2. save["LEOP"].pc = "idle"
    BY <1>7 DEF LeopStep, WaitStep, LoadRead, LoadFails, CopyCycle, CopyState, CopyElapsed, DefaultCycle,
      DefaultState, DefaultsSaved, FailedState, WaitEnter, WaitSkip, WaitLoop, WaitPoll, WaitNote, WaitNoteSave,
      WaitNoteNext, WaitEnd, Loaded, Branch, CheckRequest, Saves, ToBurn, For, StartBurn, GpioHigh, GpioLow,
      ToEnable, ToPost, CountCycle, CountState, Final, At
  <2>3. save'["LEOP"].pc \in {"idle", "copy"}
    BY <1>0, <2>1, <2>2, CallSaveEffect
  <2>4. Rank(CopyRuntimeToFile) <= Rank(CopyRuntimeToFile')
    BY <1>7, RankGrows
  <2>5. Rank(disk.file) <= Rank(CopyRuntimeToFile)
    BY <1>7 DEF Kept
  <2>6. Rank(CopyRuntimeToFile') \in Nat
    BY <1>0, <1>r, Constants DEF DataType
  <2>7. Rank(disk.file) <= Rank(CopyRuntimeToFile')
    BY <1>0, <1>r, <2>4, <2>5, <2>6
  <2> QED
    BY <2>1, <2>3, <2>7 DEF Kept
<1>8. CASE SaveStep("LEOP")
  <2>0. UNCHANGED <<data, leop>> /\ save["LEOP"].pc # "idle" /\ CopyRuntimeToFile' = CopyRuntimeToFile
    BY <1>0, <1>8, SaveStepEffect DEF CopyRuntimeToFile
  <2>1. CASE SaveCopy("LEOP")
    <3>1. save'["LEOP"].fd = CopyRuntimeToFile /\ disk' = disk
      BY <1>0, <2>1 DEF SaveCopy, SaveType
    <3> QED
      BY <2>0, <3>1 DEF Kept
  <2>2. CASE SaveStore("LEOP")
    <3>1. /\ save["LEOP"].pc = "store" /\ save'["LEOP"].pc = "sync" /\ disk'.file = save["LEOP"].fd
          /\ disk'.survivors = disk.survivors \cup {save["LEOP"].fd}
      BY <1>0, <2>2 DEF SaveStore, AfterRename, SaveType
    <3>2. save["LEOP"].fd = CopyRuntimeToFile /\ ValidFile(CopyRuntimeToFile)
      BY <3>1, SnapshotValid DEF Kept
    <3>3. leop.pc \notin LoadPcs \/ leop.pc = "defaultsSaved"
      BY <2>0 DEF ControlInv, SavePcs
    <3> QED
      BY <1>r, <2>0, <3>1, <3>2, <3>3 DEF Kept
  <2>3. CASE SaveStoreFails("LEOP") \/ SaveSync("LEOP")
    <3>1. save'["LEOP"].pc = "idle"
      BY <1>0, <2>3 DEF SaveStoreFails, SaveSync, SaveReturn
    <3>2. disk'.file = disk.file /\ disk'.survivors \in {disk.survivors, {disk.file}}
      BY <1>0, <2>3 DEF SaveStoreFails, SaveSync, DiskOK
    <3> QED
      BY <1>0, <2>0, <3>1, <3>2 DEF Kept, DiskOK
  <2> QED
    BY <1>8, <2>1, <2>2, <2>3 DEF SaveStep
<1>9. ~SaveStep("CMD")
  BY <1>0, SaveStepEffect DEF ControlInv
<1>10. CASE Crash
  <2>1. leop'.pc = "load" /\ save'["LEOP"].pc = "idle"
    BY <1>0, <1>10, TaskAtEffect DEF Crash, SaveIdle
  <2>2. \E fd \in disk.survivors : disk'.survivors = {fd}
    BY <1>10 DEF Crash
  <2> QED
    BY <2>1, <2>2 DEF Kept
<1>11. CASE ClockJump
  <2>1. leop'.pc = leop.pc /\ leop'.read = leop.read /\ UNCHANGED <<data, save, disk>>
    BY <1>0, <1>11 DEF ClockJump, LeopType
  <2> QED
    BY <2>1 DEF Kept, CopyRuntimeToFile
<1>12. CASE LeopStep /\ leop.pc \in LoadPcs
  BY <1>1, <1>2, <1>3, <1>4, <1>5, <1>6, <1>12, LoadSteps
<1> QED
  BY <1>7, <1>8, <1>9, <1>10, <1>11, <1>12 DEF Next, Tasks

\* What the medium is sure to hold after a reset does not go back.
LEMMA NextProgress ==
  ASSUME TypeInv, TypeInv', ControlInv, Kept, Next, ~Requested
  PROVE  LeastRank(disk') >= LeastRank(disk)
<1>0. /\ save \in [Tasks -> SaveType] /\ DiskOK /\ data \in DataType
      /\ "LEOP" \in Tasks /\ "CMD" \in Tasks
  BY TypeParts DEF Tasks
<1>1. disk.survivors \subseteq Files /\ disk.survivors # {} /\ disk.file \in disk.survivors
  BY <1>0 DEF DiskOK
<1>2. disk'.survivors \subseteq Files /\ disk'.survivors # {}
  BY DEF TypeInv, TypeOK
<1>3. \A fd \in Files : Rank(fd) <= Rank(fd)
  BY Ranks
<1>4. ASSUME NEW fd \in disk'.survivors PROVE \E old \in disk.survivors : Rank(old) <= Rank(fd)
  <2>1. CASE fd \in disk.survivors
    BY <1>1, <1>3, <2>1
  <2>2. CASE fd \notin disk.survivors
    <3>1. SaveStep("LEOP")
      <4>1. disk' # disk /\ ~Crash
        BY <1>4, <2>2 DEF Crash
      <4>2. ~SaveStep("CMD")
        BY <1>0, SaveStepEffect DEF ControlInv
      <4> QED
        BY <4>1, <4>2, SaveCalls DEF Tasks
    <3>2. SaveStore("LEOP")
      <4>1. ~(SaveCopy("LEOP") \/ SaveStoreFails("LEOP"))
        BY <1>4, <2>2 DEF SaveCopy, SaveStoreFails
      <4>2. SaveSync("LEOP") => disk'.survivors \in {disk.survivors, {disk.file}}
        BY <1>0 DEF SaveSync, DiskOK
      <4> QED
        BY <1>1, <1>4, <2>2, <3>1, <4>1, <4>2 DEF SaveStep
    <3>3. fd = save["LEOP"].fd /\ save["LEOP"].pc = "store"
      BY <1>4, <2>2, <3>2 DEF SaveStore, AfterRename
    <3>4. fd = CopyRuntimeToFile /\ Rank(disk.file) <= Rank(CopyRuntimeToFile)
      BY <3>3 DEF Kept, ControlInv, SavePcs, LoadPcs
    <3> QED
      BY <1>1, <3>4
  <2> QED
    BY <2>1, <2>2
<1> QED
  BY <1>1, <1>2, <1>4, LeastRankGrows

LEMMA InitKept == Init => KeptInv
<1> SUFFICES ASSUME Init PROVE Kept
  BY DEF KeptInv
<1>1. disk.survivors = {NoFile} /\ leop.pc = "load" /\ save["LEOP"].pc = "idle"
  BY DEF Init, TaskAt, SaveIdle, Tasks
<1> QED
  BY <1>1 DEF Kept, CopyPcs, LoadPcs

LEMMA NextKeptInv ==
  ASSUME LeopInv, KeptInv, Next
  PROVE  /\ KeptInv'
         /\ env'.requests = 0 /\ ~hist'.unread => LeastRank(disk') >= LeastRank(disk)
<1> SUFFICES ASSUME env'.requests = 0, ~hist'.unread PROVE Kept' /\ LeastRank(disk') >= LeastRank(disk)
  BY DEF KeptInv
<1>1. TypeInv /\ ControlInv /\ DataInv /\ TypeInv'
  BY NextTypes DEF LeopInv
<1>2. env.requests = 0 /\ ~RequestComplete /\ ~hist.unread /\ ~LoadFails
  BY <1>1, RequestsCounted, UnreadStays
<1>3. Kept /\ ~Requested
  BY <1>1, <1>2 DEF KeptInv, ControlInv
<1> QED
  BY <1>1, <1>2, <1>3, NextKept, NextProgress

\* The inductive part of ProgressIsNotLost: without a request, and as long as every
\* file could be read, what MISSION_LEOP_SaveState writes is never behind what it
\* replaces.
THEOREM KeptInvariance == Spec => []KeptInv
<1>1. LeopInv /\ KeptInv /\ [Next]_vars => KeptInv'
  <2> SUFFICES ASSUME LeopInv, KeptInv, [Next]_vars PROVE KeptInv'
    OBVIOUS
  <2>1. CASE Next
    BY <2>1, NextKeptInv
  <2>2. CASE UNCHANGED vars
    BY <2>2 DEF vars, KeptInv, Kept, CopyRuntimeToFile
  <2> QED
    BY <2>1, <2>2
<1> QED
  BY <1>1, InitKept, LeopInvariance, PTL DEF Spec

\* A reset at any moment, even inside MISSION_LEOP_SaveState, or a failing save
\* costs no finished cycle: of the files that a reset may leave, the one least
\* advanced never goes back, until the ground completes the sequence or a boot
\* cannot read the file.
THEOREM ProgressIsNotLost == Spec => ProgressIsKept
<1>1. LeopInv /\ KeptInv /\ [Next]_vars =>
        [(env'.requests = 0 /\ ~hist'.unread) => LeastRank(disk') >= LeastRank(disk)]_vars
  BY NextKeptInv
<1> QED
  BY <1>1, LeopInvariance, KeptInvariance, PTL DEF Spec, ProgressIsKept

-----------------------------------------------------------------------------
(* The number of burns, when nothing fails.                                 *)

\* The cycle counter runs behind the burns by those that resets have repeated.
LEMMA NextCounted ==
  ASSUME TypeInv, ControlInv, DataInv, AcceptedInv, Kept, Counted, Next, ~Requested, ~RequestComplete,
         Faults = {}
  PROVE  Counted'
<1>0. /\ data \in DataType /\ leop \in LeopType /\ save \in [Tasks -> SaveType] /\ DiskOK
      /\ disk.file \in Files /\ disk.file \in disk.survivors /\ HistOK /\ EnvOK
      /\ "LEOP" \in Tasks /\ "CMD" \in Tasks
      /\ data.CycleCount \in Nat /\ hist.burns \in Nat /\ env.crashes \in Nat
  BY TypeParts, Constants DEF Tasks, DiskOK, HistOK, EnvOK, DataType
<1>c. \A fd \in Files : fd.cycle \in Nat
  BY Constants DEF Files, FileData, NoFile
<1>b. Burned \in {0, 1}
  BY DEF Burned
<1>z. Rank(disk.file) <= 1 => disk.file.cycle = 0
  <2>1. CASE disk.file = NoFile
    BY <2>1 DEF NoFile
  <2>2. CASE disk.file # NoFile
    <3>1. disk.file \in FileData /\ ValidFile(disk.file)
      BY <1>0, <2>2 DEF Files, Kept
    <3>2. disk.file.state = INITIAL_WAIT => disk.file.cycle = 0
      BY <3>1 DEF ValidFile
    <3> QED
      BY <1>0, <1>c, <3>1, <3>2, Ranks
  <2> QED
    BY <2>1, <2>2
<1>f. ~LoadFails /\ ~FailedState /\ (\A kind : ~FileFault(kind))
  BY DEF LoadFails, FileFault, FailedState, At, AcceptedInv
<1> USE DEF LoadPcs, CopyPcs, WaitPcs, EnablePcs, PostPcs
<1>e. Burned = IF \/ leop.pc \in {"gpioLow", "burned", "saveBurned", "burnSaved", "toEnable"}
                               \cup EnablePcs \cup (PostPcs \ {"countState"})
                  \/ leop.pc \in WaitPcs /\ leop.ret \in {"gpioLow", "postEnd"}
               THEN 1 ELSE 0
  BY DEF Burned, Posting, Waiting
<1>g. Burned' = IF \/ leop'.pc \in {"gpioLow", "burned", "saveBurned", "burnSaved", "toEnable"}
                                 \cup EnablePcs \cup (PostPcs \ {"countState"})
                   \/ leop'.pc \in WaitPcs /\ leop'.ret \in {"gpioLow", "postEnd"}
                THEN 1 ELSE 0
  BY DEF Burned, Posting, Waiting
\* A step within the load.
<1>l. ASSUME leop.pc \in LoadPcs, leop'.pc \in LoadPcs, disk' = disk, env'.crashes = env.crashes,
             hist'.burns = hist.burns, save["LEOP"].pc = "idle"
      PROVE  Counted'
  BY <1>l DEF Counted
\* The end of the load.
<1>m. ASSUME leop.pc \in LoadPcs, leop'.pc = "loaded", disk' = disk, env'.crashes = env.crashes,
             hist'.burns = hist.burns, save["LEOP"].pc = "idle", data'.CycleCount = disk.file.cycle
      PROVE  Counted'
  <2>1. Burned' = 0
    BY <1>g, <1>m
  <2>2. disk.file.cycle <= hist.burns /\ hist.burns <= disk.file.cycle + env.crashes
    BY <1>0, <1>m DEF Counted
  <2>3. disk.file.cycle + 0 <= hist.burns /\ hist.burns <= disk.file.cycle + 0 + env.crashes
    BY <1>0, <1>c, <2>2
  <2> QED
    BY <1>m, <2>1, <2>3 DEF Counted
\* A step after the load that neither burns nor counts.
<1>k. ASSUME leop.pc \notin LoadPcs, leop'.pc \notin LoadPcs, disk' = disk, env'.crashes = env.crashes,
             hist'.burns = hist.burns, data'.CycleCount = data.CycleCount, Burned' = Burned,
             save["LEOP"].pc = "idle",
             leop.pc = "countState" => leop'.pc = "next" /\ save'["LEOP"].pc = "copy"
      PROVE  Counted'
  BY <1>k DEF Counted
<1>1. CASE LoadRead \/ CopyCycle \/ CopyState \/ DefaultCycle \/ DefaultState
  <2>1. leop.pc \in LoadPcs /\ UNCHANGED <<disk, env, hist>> /\ save["LEOP"].pc = "idle"
    BY <1>1 DEF LoadRead, CopyCycle, CopyState, DefaultCycle, DefaultState, At
  <2>2. leop'.pc \in LoadPcs
    <3>1. CASE LoadRead
      <4>1. leop'.pc \in {"copy", "defaults"}
        BY <1>0, <3>1 DEF LoadRead, LeopType
      <4> QED
        BY <4>1
    <3>2. CASE CopyCycle \/ CopyState \/ DefaultCycle \/ DefaultState
      BY <1>0, <3>2, GotoEffect DEF CopyCycle, CopyState, DefaultCycle, DefaultState
    <3> QED
      BY <1>1, <3>1, <3>2
  <2> QED
    BY <1>l, <2>1, <2>2
<1>2. CASE CopyElapsed
  <2>1. /\ leop.pc = "copyElapsed" /\ leop'.pc = "loaded" /\ save["LEOP"].pc = "idle"
        /\ UNCHANGED <<disk, env, hist>>
    BY <1>2, TaskAtEffect DEF CopyElapsed, At
  <2>2. data'.CycleCount = disk.file.cycle
    BY <1>0, <1>2, <2>1 DEF CopyElapsed, DataInv, Kept, DataType
  <2> QED
    BY <1>m, <2>1, <2>2
<1>3. CASE DefaultsSaved
  <2>1. /\ leop.pc = "defaultsSaved" /\ leop'.pc = "loaded" /\ save["LEOP"].pc = "idle"
        /\ UNCHANGED <<data, disk, env, hist>>
    BY <1>3, TaskAtEffect DEF DefaultsSaved, At, AcceptedInv
  <2>2. data.CycleCount = 0 /\ Rank(disk.file) <= 1
    BY <1>0, <2>1, RankOfData DEF DataInv, Kept
  <2> QED
    BY <1>m, <1>z, <2>1, <2>2
<1>4. CASE WaitEnter \/ WaitNoteNext \/ WaitPoll \/ WaitNote \/ WaitNoteSave \/ WaitLoop
  <2>1. /\ leop.pc \in WaitPcs /\ leop'.pc \in WaitPcs /\ leop'.ret = leop.ret
    <3>1. CASE WaitEnter \/ WaitNoteNext
      BY <1>0, <3>1 DEF WaitEnter, WaitNoteNext, At, LeopType
    <3>2. CASE WaitPoll \/ WaitNote \/ WaitNoteSave
      BY <1>0, <3>2, GotoEffect DEF WaitPoll, WaitNote, WaitNoteSave, At
    <3>3. CASE WaitLoop
      <4>1. leop'.pc \in {"waitEnd", "poll"} /\ leop'.ret = leop.ret
        BY <1>0, <3>3, LoopEffect DEF LeopType
      <4> QED
        BY <3>3, <4>1 DEF WaitLoop, At
    <3> QED
      BY <1>4, <3>1, <3>2, <3>3
  <2>2. disk' = disk /\ env' = env /\ save["LEOP"].pc = "idle"
    BY <1>4 DEF WaitEnter, WaitNoteNext, WaitPoll, WaitNote, WaitNoteSave, WaitLoop, At
  <2>3. hist'.burns = hist.burns
    <3>1. CASE WaitLoop
      BY <1>0, <3>1, LoopEffect DEF HistOK
    <3> QED
      BY <1>4, <3>1 DEF WaitEnter, WaitNoteNext, WaitPoll, WaitNote, WaitNoteSave
  <2>4. data'.CycleCount = data.CycleCount
    BY <1>0, <1>4 DEF WaitEnter, WaitNoteNext, WaitPoll, WaitNote, WaitNoteSave, WaitLoop, DataType
  <2>5. leop.pc \notin LoadPcs /\ leop'.pc \notin LoadPcs /\ Burned' = Burned /\ leop.pc # "countState"
    BY <1>e, <1>g, <2>1
  <2> QED
    BY <1>k, <2>2, <2>3, <2>4, <2>5
<1>5. CASE WaitSkip \/ WaitEnd
  <2>1. /\ leop'.pc = leop.ret /\ leop.pc \in WaitPcs /\ UNCHANGED <<disk, env, hist>>
        /\ save["LEOP"].pc = "idle"
    BY <1>5, WaitReturnEffect DEF WaitSkip, WaitEnd, At
  <2>2. leop.ret \in {"initialEnd", "gpioLow", "postEnd"}
    BY <1>0, <2>1 DEF ControlInv, LeopType
  <2>3. data'.CycleCount = data.CycleCount
    BY <1>0, <1>5 DEF WaitSkip, WaitEnd, WaitReset, DataType
  <2>4. leop.pc \notin LoadPcs /\ leop'.pc \notin LoadPcs /\ Burned' = Burned /\ leop.pc # "countState"
    BY <1>e, <1>g, <2>1, <2>2
  <2> QED
    BY <1>k, <2>1, <2>3, <2>4
<1>6. CASE Loaded \/ Branch \/ ToBurn \/ StartBurn \/ For
  <2>1. /\ leop.pc \in {"loaded", "branch", "toBurn", "burnStart", "for", "next"}
        /\ UNCHANGED <<disk, env, hist>> /\ save["LEOP"].pc = "idle"
    BY <1>6 DEF Loaded, Branch, ToBurn, StartBurn, For, At
  <2>2. \/ leop'.pc \in {"done", "branch", "for", "gpioHigh", "burnStart", "final"}
        \/ leop'.pc = "wait" /\ leop'.ret = "initialEnd"
    <3>1. CASE Loaded \/ Branch \/ ToBurn \/ StartBurn
      BY <1>0, <3>1, GotoEffect, CallWaitEffect DEF Loaded, Branch, ToBurn, StartBurn
    <3>2. CASE For
      <4>1. leop'.pc \in {"burnStart", "final"}
        BY <1>0, <3>2 DEF For, LeopType
      <4> QED
        BY <4>1
    <3> QED
      BY <1>6, <3>1, <3>2
  <2>3. data'.CycleCount = data.CycleCount
    BY <1>0, <1>6 DEF Loaded, Branch, ToBurn, StartBurn, BurnStart, WaitReset, For, DataType
  <2>4. leop.pc \notin LoadPcs /\ leop'.pc \notin LoadPcs /\ Burned' = Burned /\ leop.pc # "countState"
    BY <1>e, <1>g, <2>1, <2>2
  <2> QED
    BY <1>k, <2>1, <2>3, <2>4
<1>7. CASE CheckRequest \/ Saves \/ GpioLow \/ ToEnable
  <2>1. disk' = disk /\ env' = env /\ save["LEOP"].pc = "idle"
    BY <1>7 DEF CheckRequest, Saves, GpioLow, ToEnable, At
  <2>2. \/ leop.pc = "initialEnd" /\ leop'.pc = "toBurn"
        \/ /\ leop.pc \in {"burned", "burnSaved", "enabled", "enableSaved", "postEnd", "saveBurned",
                           "saveEnabled", "gpioLow", "toEnable"}
           /\ leop'.pc \in {"saveBurned", "toEnable", "saveEnabled", "toPost", "count", "burnSaved",
                            "enableSaved", "burned", "enabled"}
    BY <1>0, <1>7, GotoEffect DEF CheckRequest, Saves, GpioLow, ToEnable, At
  <2>3. data'.CycleCount = data.CycleCount
    BY <1>0, <1>7 DEF CheckRequest, Saves, GpioLow, ToEnable, DataType
  <2>4. hist'.burns = hist.burns
    BY <1>0, <1>7 DEF CheckRequest, Saves, GpioLow, ToEnable, HistOK
  <2>5. leop.pc \notin LoadPcs /\ leop'.pc \notin LoadPcs /\ Burned' = Burned /\ leop.pc # "countState"
    BY <1>e, <1>g, <2>2
  <2> QED
    BY <1>k, <2>1, <2>3, <2>4, <2>5
<1>8. CASE ToPost
  <2>1. /\ leop.pc = "toPost" /\ leop'.pc = "wait" /\ leop'.ret = "postEnd" /\ UNCHANGED <<disk, env, hist>>
        /\ save["LEOP"].pc = "idle"
    BY <1>0, <1>8, CallWaitEffect DEF ToPost, At
  <2>2. data'.CycleCount = data.CycleCount
    BY <1>0, <1>8 DEF ToPost, DataType
  <2>3. leop.pc \notin LoadPcs /\ leop'.pc \notin LoadPcs /\ Burned' = Burned /\ leop.pc # "countState"
    BY <1>e, <1>g, <2>1
  <2> QED
    BY <1>k, <2>1, <2>2, <2>3
<1>9. CASE GpioHigh
  <2>1. /\ leop.pc = "gpioHigh" /\ leop'.pc = "wait" /\ leop'.ret = "gpioLow" /\ UNCHANGED <<data, disk, env>>
        /\ save["LEOP"].pc = "idle" /\ save' = save
    BY <1>0, <1>9, CallWaitEffect DEF GpioHigh, At
  <2>2. hist'.burns = hist.burns + 1
    BY <1>0, <1>9 DEF GpioHigh, HistOK
  <2>3. Burned = 0 /\ Burned' = 1
    BY <1>e, <1>g, <2>1
  <2>4. /\ disk.survivors = {disk.file} /\ disk.file.cycle = data.CycleCount
        /\ data.CycleCount + 0 <= hist.burns /\ hist.burns <= data.CycleCount + 0 + env.crashes
    BY <2>1, <2>3 DEF Counted
  <2>5. /\ data.CycleCount <= hist.burns + 1 /\ hist.burns + 1 <= data.CycleCount + env.crashes + 1
        /\ data.CycleCount + 1 <= hist.burns + 1 /\ hist.burns + 1 <= data.CycleCount + 1 + env.crashes
    BY <1>0, <2>4
  <2> QED
    BY <2>1, <2>2, <2>3, <2>4, <2>5 DEF Counted
<1>10. CASE CountCycle
  <2>1. /\ leop.pc = "count" /\ leop'.pc = "countState" /\ UNCHANGED <<disk, env, hist, save>>
        /\ save["LEOP"].pc = "idle"
    BY <1>0, <1>10, GotoEffect DEF CountCycle, At
  <2>2. data'.CycleCount = data.CycleCount + 1
    BY <1>0, <1>10, <2>1 DEF CountCycle, DataInv, Posting, DataType
  <2>3. Burned = 1 /\ Burned' = 0
    BY <1>e, <1>g, <2>1
  <2>4. data.CycleCount + 1 <= hist.burns /\ hist.burns <= data.CycleCount + 1 + env.crashes
    BY <2>1, <2>3 DEF Counted
  <2>5. data.CycleCount + 1 + 0 <= hist.burns /\ hist.burns <= data.CycleCount + 1 + 0 + env.crashes
    BY <1>0, <2>4
  <2> QED
    BY <2>1, <2>2, <2>3, <2>5 DEF Counted
<1>11. CASE CountState
  <2>1. /\ leop.pc = "countState" /\ leop'.pc = "next" /\ UNCHANGED <<disk, env, hist>>
        /\ save["LEOP"].pc = "idle" /\ save'["LEOP"].pc = "copy"
    BY <1>0, <1>11, GotoEffect, CallSaveEffect DEF CountState, At
  <2>2. data'.CycleCount = data.CycleCount
    BY <1>0, <1>11 DEF CountState, DataType
  <2>3. leop.pc \notin LoadPcs /\ leop'.pc \notin LoadPcs /\ Burned' = Burned
    BY <1>e, <1>g, <2>1
  <2> QED
    BY <1>k, <2>1, <2>2, <2>3
<1>12. CASE Final
  <2>1. leop.pc = "final" /\ leop'.pc = "done" /\ UNCHANGED <<disk, env, hist>> /\ save["LEOP"].pc = "idle"
    BY <1>0, <1>12, GotoEffect DEF Final, At
  <2>2. data'.CycleCount = REPEAT_COUNT
    BY <1>0, <1>12 DEF Final, DataType
  <2>3. data.CycleCount = REPEAT_COUNT
    BY <1>0, <2>1, FileOfData DEF DataInv, ValidFile
  <2>4. leop.pc \notin LoadPcs /\ leop'.pc \notin LoadPcs /\ Burned' = Burned /\ leop.pc # "countState"
    BY <1>e, <1>g, <2>1
  <2> QED
    BY <1>k, <2>1, <2>2, <2>3, <2>4
<1>13. CASE SaveStep("LEOP")
  <2>0. UNCHANGED <<data, leop, hist>> /\ env'.crashes = env.crashes /\ save["LEOP"].pc # "idle" /\ Burned' = Burned
    BY <1>0, <1>13, SaveStepEffect, <1>e, <1>g
  <2>1. CASE SaveCopy("LEOP")
    <3>1. save["LEOP"].pc = "copy" /\ save'["LEOP"].pc = "store" /\ disk' = disk
      BY <1>0, <2>1 DEF SaveCopy, SaveType
    <3> QED
      BY <2>0, <3>1 DEF Counted
  <2>2. CASE SaveStore("LEOP")
    <3>1. /\ save["LEOP"].pc = "store" /\ save'["LEOP"].pc = "sync" /\ disk'.file = save["LEOP"].fd
          /\ disk'.survivors = disk.survivors \cup {save["LEOP"].fd}
      BY <1>0, <2>2 DEF SaveStore, AfterRename, SaveType
    <3>2. disk'.file.cycle = data.CycleCount
      BY <1>0, <3>1, FileOfData DEF Kept
    <3>3. CASE leop.pc \notin LoadPcs
      <4>1. data.CycleCount + Burned <= hist.burns /\ hist.burns <= data.CycleCount + Burned + env.crashes
        BY <3>3 DEF Counted
      <4>2. data.CycleCount <= hist.burns /\ hist.burns <= data.CycleCount + env.crashes + 1
        BY <1>0, <1>b, <4>1
      <4> QED
        BY <2>0, <3>1, <3>2, <3>3, <4>2 DEF Counted
    <3>4. CASE leop.pc \in LoadPcs
      <4>1. leop.pc = "defaultsSaved"
        BY <2>0, <3>4 DEF ControlInv, SavePcs
      <4>2. data.CycleCount = 0 /\ Rank(disk.file) <= 1
        BY <1>0, <4>1, RankOfData DEF DataInv, Kept
      <4>3. hist.burns <= 0 + env.crashes
        BY <1>z, <4>1, <4>2 DEF Counted
      <4>4. 0 <= hist.burns /\ hist.burns <= 0 + env.crashes + 1
        BY <1>0, <4>3
      <4> QED
        BY <2>0, <3>1, <3>2, <3>4, <4>2, <4>3, <4>4 DEF Counted
    <3> QED
      BY <3>3, <3>4
  <2>3. CASE SaveSync("LEOP")
    <3>1. save["LEOP"].pc = "sync" /\ save'["LEOP"].pc = "idle"
      BY <1>0, <2>3 DEF SaveSync, SaveReturn
    <3>2. disk'.file = disk.file /\ disk'.survivors = {disk.file}
      BY <1>0, <1>f, <2>3 DEF SaveSync, DiskOK
    <3> QED
      BY <1>0, <2>0, <3>1, <3>2 DEF Counted
  <2>4. ~SaveStoreFails("LEOP")
    BY <1>f DEF SaveStoreFails
  <2> QED
    BY <1>13, <2>1, <2>2, <2>3, <2>4 DEF SaveStep
<1>14. ~SaveStep("CMD")
  BY <1>0, SaveStepEffect DEF ControlInv
<1>15. CASE Crash
  <2>1. leop'.pc = "load" /\ save'["LEOP"].pc = "idle"
    BY <1>0, <1>15, TaskAtEffect DEF Crash, SaveIdle
  <2>2. PICK fd \in disk.survivors : disk'.file = fd /\ disk'.survivors = {fd}
    BY <1>15 DEF Crash
  <2>3. env'.crashes = env.crashes + 1
    BY <1>0, <1>15 DEF Crash, EnvOK
  <2>4. hist'.burns = hist.burns
    BY <1>0, <1>15 DEF Crash, HistOK
  <2>5. fd.cycle <= hist.burns /\ hist.burns <= fd.cycle + env.crashes + 1 /\ fd.cycle \in Nat
    BY <1>0, <1>c DEF Counted, DiskOK
  <2>6. hist.burns <= fd.cycle + (env.crashes + 1) /\ hist.burns <= fd.cycle + (env.crashes + 1) + 1
    BY <1>0, <2>5
  <2> QED
    BY <2>1, <2>2, <2>3, <2>4, <2>5, <2>6 DEF Counted
<1>16. CASE ClockJump
  <2>1. leop'.pc = leop.pc /\ leop'.ret = leop.ret /\ UNCHANGED <<data, save, disk, hist>>
    BY <1>0, <1>16 DEF ClockJump, LeopType
  <2>2. env'.crashes = env.crashes
    BY <1>0, <1>16 DEF ClockJump, EnvOK
  <2>3. Burned' = Burned
    BY <1>e, <1>g, <2>1
  <2> QED
    BY <2>1, <2>2, <2>3 DEF Counted
<1> QED
  BY <1>1, <1>2, <1>3, <1>4, <1>5, <1>6, <1>7, <1>8, <1>9, <1>10, <1>11, <1>12, <1>13, <1>14, <1>15, <1>16,
     <1>f DEF Next, LeopStep, WaitStep, Tasks

\* What the counting means for the burns.
LEMMA BurnsAreExact ==
  ASSUME LeopInv, Kept, Counted, ~Requested
  PROVE  BurnsExact
<1>0. /\ DiskOK /\ data \in DataType /\ hist.burns \in Nat /\ env.crashes \in Nat
      /\ data.CycleCount \in 0 .. REPEAT_COUNT
  BY TypeParts DEF LeopInv, HistOK, EnvOK, DataType
<1>1. AllCyclesBurned
  <2> SUFFICES ASSUME NEW fd \in disk.survivors, fd.state = COMPLETE PROVE hist.burns >= REPEAT_COUNT
    BY DEF AllCyclesBurned
  <2>1. fd # NoFile
    BY StateNames DEF NoFile, States
  <2>2. fd.cycle = REPEAT_COUNT
    BY <2>1 DEF Kept, ValidFile
  <2> QED
    BY <1>0, <2>2, Constants DEF Counted
<1>2. hist.burns <= REPEAT_COUNT + env.crashes
  <2>1. CASE leop.pc \in LoadPcs
    <3>1. disk.file.cycle \in 0 .. REPEAT_COUNT
      BY <1>0, Constants DEF DiskOK, Files, FileData, NoFile
    <3>2. hist.burns <= disk.file.cycle + env.crashes
      BY <2>1 DEF Counted
    <3> QED
      BY <1>0, <3>1, <3>2, Constants
  <2>2. CASE leop.pc \notin LoadPcs
    <3>1. hist.burns <= data.CycleCount + Burned + env.crashes
      BY <2>2 DEF Counted
    <3>2. Burned = 0 \/ Burned = 1
      BY DEF Burned
    <3>3. Burned = 1 => data.CycleCount < REPEAT_COUNT
      <4> SUFFICES ASSUME Burned = 1 PROVE data.CycleCount < REPEAT_COUNT
        OBVIOUS
      <4>1. Burning \/ leop.pc \in EnablePcs \/ (Posting /\ leop.pc # "countState")
        BY DEF Burned, Burning, BurnPcs
      <4>2. data.CycleCount = leop.Cycle /\ leop.Cycle < REPEAT_COUNT
        BY <4>1 DEF LeopInv, DataInv, ControlInv, InLoop
      <4> QED
        BY <4>2
    <3> QED
      BY <1>0, <3>1, <3>2, <3>3, Constants
  <2> QED
    BY <2>1, <2>2
<1> QED
  BY <1>1, <1>2 DEF BurnsExact, BurnsBounded

\* While nothing fails and the completion is not commanded, every cycle burns
\* before the sequence is recorded as complete, and over all boots no cycle
\* burns again but the one that a reset has interrupted.
THEOREM BurnsExactly == Faults = {} => (Spec => []BurnsExact)
<1> SUFFICES ASSUME Faults = {} PROVE Spec => []BurnsExact
  OBVIOUS
<1>1. Init => AcceptedInv /\ CountedInv
  <2> SUFFICES ASSUME Init PROVE AcceptedInv /\ CountedInv
    OBVIOUS
  <2>1. leop.pc = "load" /\ save["LEOP"].pc = "idle" /\ save["LEOP"].ok
    BY DEF Init, TaskAt, SaveIdle, Tasks
  <2>2. /\ hist.burns = 0 /\ ~hist.unread /\ env.crashes = 0 /\ disk.file = NoFile
        /\ disk.survivors = {NoFile} /\ NoFile.cycle = 0
    BY DEF Init, NoFile
  <2> QED
    BY <2>1, <2>2 DEF AcceptedInv, CountedInv, Counted, LoadPcs, CopyPcs
<1>2. LeopInv /\ KeptInv /\ AcceptedInv /\ CountedInv /\ [Next]_vars => AcceptedInv' /\ CountedInv'
  <2> SUFFICES ASSUME LeopInv, KeptInv, AcceptedInv, CountedInv, [Next]_vars PROVE AcceptedInv' /\ CountedInv'
    OBVIOUS
  <2>1. CASE Next
    <3>0. TypeInv /\ ControlInv /\ DataInv
      BY DEF LeopInv
    <3>1. AcceptedInv'
      BY <2>1, <3>0, NextAccepted
    <3>2. ASSUME env'.requests = 0 PROVE ~hist'.unread /\ Counted'
      <4>1. env.requests = 0 /\ ~RequestComplete
        BY <2>1, <3>0, <3>2, RequestsCounted
      <4>2. ~hist.unread /\ Counted /\ Kept /\ ~Requested
        BY <3>0, <4>1 DEF CountedInv, KeptInv, ControlInv
      <4>3. ~hist'.unread
        <5>0. HistOK
          BY <3>0, TypeParts
        <5>1. CASE Plain \/ Loaded \/ ToEnable \/ ClockJump
          BY <4>2, <5>1, PlainEffect DEF Loaded, ToEnable, ClockJump
        <5>2. CASE GpioHigh \/ GpioLow \/ Crash
          BY <4>2, <5>0, <5>2 DEF GpioHigh, GpioLow, Crash, HistOK
        <5>3. CASE WaitLoop
          BY <3>0, <4>2, <5>0, <5>3, LoopEffect DEF HistOK
        <5>4. CASE \E t \in Tasks : SaveStep(t)
          BY <3>0, <4>2, <5>4, SaveStepEffect
        <5>5. ~LoadFails
          BY DEF LoadFails, FileFault
        <5> QED
          BY <2>1, <4>1, <5>1, <5>2, <5>3, <5>4, <5>5, Steps
      <4> QED
        BY <2>1, <3>0, <4>1, <4>2, <4>3, NextCounted
    <3> QED
      BY <3>1, <3>2 DEF CountedInv
  <2>2. CASE UNCHANGED vars
    BY <2>2 DEF vars, AcceptedInv, CountedInv, Counted, Burned, Posting, Waiting, Requested
  <2> QED
    BY <2>1, <2>2
<1>3. LeopInv /\ KeptInv /\ CountedInv => BurnsExact
  <2> SUFFICES ASSUME LeopInv, KeptInv, CountedInv PROVE BurnsExact
    OBVIOUS
  <2>1. CASE env.requests = 0
    BY <2>1, BurnsAreExact DEF KeptInv, CountedInv, LeopInv, ControlInv
  <2>2. CASE env.requests # 0
    BY <2>2 DEF BurnsExact, AllCyclesBurned, BurnsBounded
  <2> QED
    BY <2>1, <2>2
<1> QED
  BY <1>1, <1>2, <1>3, LeopInvariance, KeptInvariance, PTL DEF Spec

-----------------------------------------------------------------------------
(* The end of the sequence, when no load and no message fails.              *)

\* A finished sequence, over resets: the file is not written again, and every
\* boot reads it and goes straight to its end.
Finished ==
  /\ disk.file = Complete /\ disk.survivors = {Complete}
  /\ \A t \in Tasks : save[t].pc = "idle"
  /\ out.gpio = "LOW"
  /\ leop.pc \in CopyPcs \cup {"load", "loaded", "done"}
  /\ leop.pc \in CopyPcs => leop.read = Complete
  /\ leop.pc \in {"copyElapsed", "loaded"} => data.State = COMPLETE

FinishedSince(n) == env.requests > n \/ (env.requests = n /\ Finished)

\* A boot that finds COMPLETE ends the task without touching the line.
LEMMA NextFinished ==
  ASSUME TypeInv, Finished, Next, ~RequestComplete, "load" \notin Faults
  PROVE  Finished'
<1>0. /\ data \in DataType /\ leop \in LeopType /\ OutOK /\ "LEOP" \in Tasks
  BY TypeParts DEF Tasks
<1> USE DEF CopyPcs
<1>1. CASE LoadRead
  <2>1. ValidFile(Complete) /\ disk.file = Complete
    <3>1. Complete # NoFile
      BY DEF Complete, NoFile, COMPLETE
    <3> QED
      BY <3>1, StateNames, WaitDurations DEF Complete, ValidFile, Finished
  <2>2. leop'.pc = "copy" /\ leop'.read = Complete /\ UNCHANGED <<save, disk, out>>
    BY <1>0, <1>1, <2>1 DEF LoadRead, LeopType
  <2> QED
    BY <2>2 DEF Finished
<1>2. CASE CopyCycle
  <2>1. leop.pc = "copy" /\ leop'.pc = "copyState" /\ leop'.read = leop.read /\ UNCHANGED <<save, disk, out>>
    BY <1>0, <1>2, GotoEffect DEF CopyCycle, At
  <2> QED
    BY <2>1 DEF Finished
<1>3. CASE CopyState
  <2>1. /\ leop.pc = "copyState" /\ leop'.pc = "copyElapsed" /\ leop'.read = leop.read
        /\ UNCHANGED <<save, disk, out>>
    BY <1>0, <1>3, GotoEffect DEF CopyState, At
  <2>2. data'.State = COMPLETE
    BY <1>0, <1>3, <2>1 DEF CopyState, DataType, Finished, Complete
  <2> QED
    BY <2>1, <2>2 DEF Finished
<1>4. CASE CopyElapsed
  <2>1. leop.pc = "copyElapsed" /\ leop'.pc = "loaded" /\ UNCHANGED <<save, disk, out>>
    BY <1>4, TaskAtEffect DEF CopyElapsed, At
  <2>2. data'.State = COMPLETE
    BY <1>0, <1>4, <2>1 DEF CopyElapsed, DataType, Finished
  <2> QED
    BY <2>1, <2>2 DEF Finished
<1>5. CASE Loaded
  <2>1. leop'.pc = "done" /\ UNCHANGED <<save, disk>>
    BY <1>0, <1>5, GotoEffect DEF Loaded, At, Finished
  <2>2. out'.gpio = out.gpio
    BY <1>0, <1>5 DEF Loaded, Transmits, OutOK
  <2> QED
    BY <2>1, <2>2 DEF Finished
<1>6. CASE Crash
  <2>1. leop'.pc = "load" /\ out'.gpio = "LOW" /\ \A t \in Tasks : save'[t].pc = "idle"
    BY <1>6, TaskAtEffect DEF Crash, SaveIdle
  <2>2. disk'.file = Complete /\ disk'.survivors = {Complete}
    BY <1>6 DEF Crash, Finished
  <2> QED
    BY <2>1, <2>2 DEF Finished
<1>7. \A t \in Tasks : ~SaveStep(t)
  BY SaveStepEffect DEF Finished
<1>8. ~ClockJump /\ ~LoadFails
  BY DEF ClockJump, LoadFails, FileFault, Finished
<1>9. ~(DefaultCycle \/ DefaultState \/ DefaultsSaved \/ FailedState)
  BY DEF DefaultCycle, DefaultState, DefaultsSaved, FailedState, At, Finished
<1>10. ~WaitStep
  BY DEF WaitStep, WaitEnter, WaitSkip, WaitLoop, WaitPoll, WaitNote, WaitNoteSave, WaitNoteNext, WaitEnd, At,
    Finished
<1>11. ~(Branch \/ CheckRequest \/ Saves \/ ToBurn \/ For \/ StartBurn \/ GpioHigh \/ GpioLow)
  BY DEF Branch, CheckRequest, Saves, ToBurn, For, StartBurn, GpioHigh, GpioLow, At, Finished
<1>12. ~(ToEnable \/ ToPost \/ CountCycle \/ CountState \/ Final)
  BY DEF ToEnable, ToPost, CountCycle, CountState, Final, At, Finished
<1> QED
  BY <1>1, <1>2, <1>3, <1>4, <1>5, <1>6, <1>7, <1>8, <1>9, <1>10, <1>11, <1>12 DEF Next, LeopStep

LEMMA FinishedForGood ==
  ASSUME NEW n \in Nat, TypeInv, FinishedSince(n), [Next]_vars, "load" \notin Faults
  PROVE  FinishedSince(n)'
<1>0. env.requests \in Nat
  BY TypeParts DEF EnvOK
<1>1. CASE Next
  <2>1. \/ env'.requests = env.requests /\ ~RequestComplete
        \/ env'.requests = env.requests + 1
    BY <1>0, <1>1, RequestsCount
  <2>2. CASE env'.requests = env.requests + 1
    BY <1>0, <2>2 DEF FinishedSince
  <2>3. CASE env'.requests = env.requests /\ ~RequestComplete
    BY <1>1, <2>3, NextFinished DEF FinishedSince
  <2> QED
    BY <2>1, <2>2, <2>3
<1>2. CASE UNCHANGED vars
  BY <1>2 DEF vars, FinishedSince, Finished
<1> QED
  BY <1>1, <1>2

\* While no load and no message fails: once the child task has ended and the
\* file says COMPLETE, no reset makes the file say anything else or starts
\* another burn, until the ground repeats its request.
THEOREM CompletionStays ==
  "load" \notin Faults /\ "transmit" \notin Faults => (Spec => CompletionIsFinal)
<1> SUFFICES ASSUME "load" \notin Faults, "transmit" \notin Faults PROVE Spec => CompletionIsFinal
  OBVIOUS
<1>1. ASSUME NEW n \in 0 .. MaxRequests
      PROVE  Spec => [](Settled /\ env.requests = n
                          => [](env.requests = n => disk.file = Complete /\ out.gpio = "LOW"))
  <2>0. n \in Nat
    BY EnvironmentAssumption
  <2>1. LeopInv /\ OutputsLeftSafe /\ Settled /\ env.requests = n => FinishedSince(n)
    <3> SUFFICES ASSUME LeopInv, OutputsLeftSafe, Settled, env.requests = n PROVE Finished
      BY DEF FinishedSince
    <3>1. DiskOK /\ OutOK
      BY TypeParts DEF LeopInv
    <3>2. out.gpio = "LOW"
      BY <3>1 DEF Settled, OutputsLeftSafe, GpioReleased, OutOK, WaitPcs
    <3> QED
      BY <3>1, <3>2 DEF Settled, Finished, DiskOK, CopyPcs
  <2>2. LeopInv /\ FinishedSince(n) /\ [Next]_vars => FinishedSince(n)'
    BY <2>0, FinishedForGood DEF LeopInv
  <2>3. LeopInv /\ FinishedSince(n) => (env.requests = n => disk.file = Complete /\ out.gpio = "LOW")
    BY <2>0 DEF FinishedSince, Finished
  <2>4. Spec => []OutputsLeftSafe
    BY OutputsAreLeftSafe
  <2> QED
    BY <2>1, <2>2, <2>3, <2>4, LeopInvariance, PTL DEF Spec
<1> QED
  BY <1>1 DEF CompletionIsFinal
==============================================================================
