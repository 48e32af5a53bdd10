------------------------------- MODULE RptOps -------------------------------
(***************************************************************************)
(* The operation data of the RPT application (apps/rpt/fsw/src/rpt_init.c, *)
(* rpt_cmd.c, rpt_utils.c): boot count, epoch, spacecraft time and the     *)
(* number of the last backup.                                              *)
(*                                                                         *)
(* They are read from ops.bin at a boot, which also sends the stored time  *)
(* to the TIME service, and written over that file in place at every 1Hz   *)
(* message; every BACKUP_COUNT updates a backup is stored on another       *)
(* medium.  A reset may come between any two writes or in the middle of    *)
(* one.                                                                    *)
(***************************************************************************)
EXTENDS Integers

CONSTANTS
  BACKUP_COUNT,  \* RPT_OPS_STORE_BACKUP_COUNT
  BootMod,       \* 2^16 in the code: BootCount is a uint16
  BootTime,      \* what the clock shows after a reset
  Faults,        \* the file operations that may fail
  Tears,         \* whether a reset may leave a write half done
  MaxCrashes, MaxTime

VARIABLES
  OpsData,   \* RPT_Data.OpsData
  OpsCount,  \* RPT_Data.OpsCount
  pc,        \* where the task is
  file,      \* ops.bin
  backup,    \* the newest backup on the other medium
  clock,     \* CFE_TIME_GetTime().Seconds
  setTime,   \* the time command on its way to the TIME service
  oneHz,     \* whether a 1Hz message waits in the command pipe
  hist       \* what the properties remember of the past

vars == <<OpsData, OpsCount, pc, file, backup, clock, setTime, oneHz, hist>>

ASSUME OpsAssumption ==
  /\ BACKUP_COUNT \in Nat \ {0, 1}
  /\ BootMod \in Nat \ {0}
  /\ Faults \subseteq {"open", "write", "backup"}
  /\ Tears \in BOOLEAN
  /\ {MaxCrashes, MaxTime} \subseteq Nat
  /\ BootTime \in 1 .. MaxTime

NoTime == 0

OpsType ==
  [BootCount : 0 .. BootMod - 1, Epoch : 0 .. MaxTime, Time : 0 .. MaxTime,
   Sequence : Nat]

ZeroOps == [BootCount |-> 0, Epoch |-> 0, Time |-> NoTime, Sequence |-> 0]

\* The contents of ops.bin: operation data with a matching CRC, nothing, or a
\* write that was cut off.
EmptyFile == [ZeroOps EXCEPT !.BootCount = -1]
TornFile == [ZeroOps EXCEPT !.BootCount = -2]

Init ==
  /\ OpsData = ZeroOps
  /\ OpsCount = 0
  /\ pc = "off"
  /\ file = EmptyFile
  /\ backup = EmptyFile
  /\ clock = BootTime
  /\ setTime = NoTime
  /\ oneHz = FALSE
  /\ hist = [crashes |-> 0, raced |-> FALSE, unsaved |-> FALSE]

-----------------------------------------------------------------------------
(* RPT_OpsDataInit.                                                        *)

\* A file without a boot count is taken for that of a first boot, and its CRC
\* is not looked at.
FirstBoot(data) == [data EXCEPT !.Epoch = clock]

ReadOpsFreshEpoch == {FirstBoot(IF file \in {EmptyFile, TornFile} THEN ZeroOps ELSE file)}

\* What is read, the CRC having been checked.  A file cut off in its first
\* write may already hold a boot count, or not.
ReadOps ==
  CASE file = EmptyFile -> {FirstBoot(ZeroOps)}
    [] file = TornFile  -> {ZeroOps, FirstBoot(ZeroOps)}
    [] OTHER -> {IF file.BootCount = 0 THEN FirstBoot(file) ELSE file}

CountBoot(data) == [data EXCEPT !.BootCount = (@ + 1) % BootMod]

SentTimeNever(data) == NoTime

\* The time command is only sent for data that passed the CRC.
SentTime(data) ==
  IF file \in {EmptyFile, TornFile} \/ data.BootCount = 0 THEN NoTime ELSE data.Time

Boot ==
  /\ pc = "off"
  /\ \E data \in ReadOps :
       /\ OpsData' = CountBoot(data)
       /\ setTime' = SentTime(data)
  /\ pc' = "init"
  /\ UNCHANGED <<OpsCount, file, backup, clock, oneHz, hist>>

\* ops.bin cannot be opened or read: the application does not run.
BootFails ==
  /\ "open" \in Faults
  /\ pc = "off"
  /\ pc' = "exited"
  /\ UNCHANGED <<OpsData, OpsCount, file, backup, clock, setTime, oneHz, hist>>

\* RPT_WriteToFile.  A write that fails may have been cut off.
WriteFails ==
  /\ "write" \in Faults
  /\ hist' = [hist EXCEPT !.unsaved = TRUE]
  /\ file' \in IF Tears THEN {file, TornFile} ELSE {file}

WriteBoot ==
  /\ pc = "init"
  /\ \/ /\ file' = OpsData
        /\ pc' = "idle"
        /\ UNCHANGED hist
     \/ /\ WriteFails
        /\ pc' = "exited"
  /\ UNCHANGED <<OpsData, OpsCount, backup, clock, setTime, oneHz>>

-----------------------------------------------------------------------------
(* RPT_UpdateOperationData.                                                *)

BeginUpdate ==
  /\ pc = "idle"
  /\ oneHz
  /\ oneHz' = FALSE
  /\ OpsData' = [OpsData EXCEPT !.Time = clock]
  /\ pc' = "update"
  /\ hist' = [hist EXCEPT !.raced = @ \/ setTime # NoTime]
  /\ UNCHANGED <<OpsCount, file, backup, clock, setTime>>

\* The update is written; one in BACKUP_COUNT goes on to a backup.
WriteUpdate ==
  /\ pc = "update"
  /\ \/ /\ file' = OpsData
        /\ OpsCount' = OpsCount + 1
        /\ pc' = IF OpsCount + 1 < BACKUP_COUNT THEN "idle" ELSE "backup"
        /\ UNCHANGED hist
     \/ /\ WriteFails
        /\ pc' = "idle"
        /\ UNCHANGED OpsCount
  /\ UNCHANGED <<OpsData, backup, clock, setTime, oneHz>>

BackupFailsNumbered ==
  /\ "backup" \in Faults
  /\ pc = "backup"
  /\ OpsData' = [OpsData EXCEPT !.Sequence = @ + 1]
  /\ OpsCount' = 0
  /\ pc' = "idle"
  /\ UNCHANGED <<file, backup, clock, setTime, oneHz, hist>>

BackupFailsUncounted ==
  /\ "backup" \in Faults
  /\ pc = "backup"
  /\ pc' = "idle"
  /\ UNCHANGED <<OpsData, OpsCount, file, backup, clock, setTime, oneHz, hist>>

\* The backup cannot be opened, written or closed: it is given up.
BackupFails ==
  /\ "backup" \in Faults
  /\ pc = "backup"
  /\ OpsCount' = 0
  /\ pc' = "idle"
  /\ UNCHANGED <<OpsData, file, backup, clock, setTime, oneHz, hist>>

\* Only a backup that is stored is counted.
StoreBackup ==
  /\ pc = "backup"
  /\ OpsData' = [OpsData EXCEPT !.Sequence = @ + 1]
  /\ backup' = OpsData'
  /\ OpsCount' = 0
  /\ pc' = "persist"
  /\ UNCHANGED <<file, clock, setTime, oneHz, hist>>

\* The new number is written to ops.bin at once.
PersistSequence ==
  /\ pc = "persist"
  /\ \/ file' = OpsData /\ UNCHANGED hist
     \/ WriteFails
  /\ pc' = "idle"
  /\ UNCHANGED <<OpsData, OpsCount, backup, clock, setTime, oneHz>>

-----------------------------------------------------------------------------
(* The TIME service and the environment.                                   *)

\* The clock runs before the application is up; its pipe does not fill then.
Tick ==
  /\ clock < MaxTime
  /\ clock' = clock + 1
  /\ oneHz' = (pc # "off")
  /\ UNCHANGED <<OpsData, OpsCount, pc, file, backup, setTime, hist>>

HandleSetTime ==
  /\ setTime # NoTime
  /\ clock' = setTime
  /\ setTime' = NoTime
  /\ UNCHANGED <<OpsData, OpsCount, pc, file, backup, oneHz, hist>>

\* What a reset leaves of ops.bin while it is being written.
CrashMidWrite == {file, OpsData} \cup (IF Tears THEN {TornFile} ELSE {})

Crash ==
  /\ hist.crashes < MaxCrashes
  /\ pc # "off"
  /\ file' \in IF pc \in {"init", "update", "persist"} THEN CrashMidWrite ELSE {file}
  /\ pc' = "off"
  /\ OpsData' = ZeroOps
  /\ OpsCount' = 0
  /\ clock' = BootTime
  /\ setTime' = NoTime
  /\ oneHz' = FALSE
  /\ hist' = [hist EXCEPT !.crashes = @ + 1, !.unsaved = @ \/ file' = TornFile]
  /\ UNCHANGED backup

Next ==
  \/ Boot \/ BootFails \/ WriteBoot
  \/ BeginUpdate \/ WriteUpdate \/ BackupFails \/ StoreBackup \/ PersistSequence
  \/ Tick \/ HandleSetTime \/ Crash

Spec == Init /\ [][Next]_vars

-----------------------------------------------------------------------------
(* Properties.                                                             *)

IsOps(contents) == contents \notin {EmptyFile, TornFile}

\* The variables have their types, and OpsCount starts over before it reaches
\* BACKUP_COUNT a second time.
TypeOK ==
  /\ OpsData \in OpsType
  /\ OpsCount \in 0 .. BACKUP_COUNT
  /\ OpsCount = BACKUP_COUNT => pc = "backup"
  /\ pc \in {"off", "init", "idle", "update", "backup", "persist", "exited"}
  /\ IsOps(file) => file \in OpsType
  /\ IsOps(backup) => backup \in OpsType
  /\ clock \in 0 .. MaxTime
  /\ setTime \in 0 .. MaxTime

\* Over resets at any moment and failing writes, the boot count and the
\* backup number in ops.bin never fall and the epoch never changes.
FileMovesForward ==
  [][(IsOps(file) /\ IsOps(file')) =>
       /\ file'.BootCount >= file.BootCount
       /\ file'.Sequence >= file.Sequence
       /\ file'.Epoch = file.Epoch]_vars

\* The stored time falls back only when a 1Hz message is handled before the
\* TIME service has taken the command that restores the clock after a boot.
TimeNeverGoesBack ==
  [][(IsOps(file) /\ IsOps(file') /\ ~hist.raced) => file'.Time >= file.Time]_vars

\* A reset between the backup and the write of its number makes RPT forget at
\* most that one backup, and a failed backup is never counted, as long as the
\* writes of ops.bin succeed and no reset has torn one.
SequenceAlmostLast ==
  (pc = "idle" /\ IsOps(backup) /\ ~hist.unsaved) =>
    backup.Sequence \in {OpsData.Sequence, OpsData.Sequence + 1}

\* OpsData and ops.bin are well-formed, the count of updates is in range, and the
\* number of the last backup is known but for a reset right after it.
OpsSound == TypeOK /\ SequenceAlmostLast

\* README.md: RPT will "automatically load the latest data after reboot", be
\* they those of ops.bin or of the newest backup.
LatestDataLoaded ==
  (pc = "idle" /\ IsOps(backup)) => OpsData.BootCount >= backup.BootCount
=============================================================================
