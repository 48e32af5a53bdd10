---------------------------- MODULE RptOpsProofs ----------------------------
(***************************************************************************)
(* Proofs about the operation data of RPT, for every BACKUP_COUNT, clock,  *)
(* set of failing file operations and number of resets: what OpsData and   *)
(* ops.bin hold of each other while the application is between two writes. *)
(***************************************************************************)
EXTENDS RptOps, TLAPS

\* The resets are fewer than the boots a uint16 counts.
NoBootWrap == MaxCrashes + 1 < BootMod

\* The steps of the application once RPT_OpsDataInit has read ops.bin.
Running == {"init", "idle", "update", "backup", "persist"}

\* What is remembered of the past has its type.
HistOK ==
  hist \in [crashes : 0 .. MaxCrashes, raced : BOOLEAN, unsaved : BOOLEAN]

TypeInv == TypeOK /\ HistOK

\* OpsData is ahead of the file it was read from, of the same epoch, and no
\* boot count exceeds the number of boots.
Boots == hist.crashes + (IF pc = "off" THEN 0 ELSE 1)
ForwardInv ==
  /\ IsOps(file) => file.BootCount \in 1 .. Boots
  /\ pc \in Running =>
       /\ OpsData.BootCount \in 1 .. Boots
       /\ IsOps(file) =>
            /\ OpsData.BootCount >= file.BootCount
            /\ OpsData.Sequence >= file.Sequence
            /\ OpsData.Epoch = file.Epoch

\* Unless a 1Hz message came first, the clock or the command on its way to it
\* has reached the time in OpsData, and OpsData that of the file.
Restored == IF setTime = NoTime THEN clock ELSE setTime
TimeInv ==
  (pc \in Running /\ ~hist.raced) =>
     /\ Restored >= OpsData.Time
     /\ IsOps(file) => OpsData.Time >= file.Time

\* While the writes succeed the number of the last backup is in the file but
\* for the one backup stored since, and OpsData agrees with the file.
SequenceInv ==
  ~hist.unsaved =>
     /\ file # TornFile
     /\ pc \in Running \ {"init"} => IsOps(file)
     /\ IsOps(backup) =>
          /\ IsOps(file)
          /\ backup.Sequence \in {file.Sequence, file.Sequence + 1}
     /\ pc \in Running /\ IsOps(file) =>
          OpsData.Sequence = file.Sequence + (IF pc = "persist" THEN 1 ELSE 0)
     /\ pc = "persist" => backup = OpsData

-----------------------------------------------------------------------------
(* What is read and what is written.                                       *)

\* Operation data are not mistaken for an empty or a torn file.
LEMMA OpsAreOps ==
  ASSUME NEW d \in OpsType
  PROVE  IsOps(d)
<1>1. d.BootCount \in 0 .. BootMod - 1
  BY DEF OpsType
<1>2. EmptyFile.BootCount = -1 /\ TornFile.BootCount = -2
  BY DEF EmptyFile, TornFile, ZeroOps
<1> QED
  BY <1>1, <1>2, OpsAssumption DEF IsOps

LEMMA ZeroIsOps == ZeroOps \in OpsType
BY OpsAssumption DEF ZeroOps, OpsType, NoTime

\* What RPT_OpsDataInit takes over: the file, with the clock for its epoch when
\* it has no boot count, or zeros when there is no file to take.
LEMMA ReadCases ==
  ASSUME TypeInv, NEW data \in ReadOps
  PROVE  /\ data \in OpsType
         /\ IsOps(file) => /\ data.BootCount = file.BootCount
                           /\ data.Sequence = file.Sequence
                           /\ data.Time = file.Time
                           /\ file.BootCount # 0 => data = file
         /\ ~IsOps(file) => /\ data.BootCount = 0
                            /\ data.Sequence = 0
                            /\ data.Time = 0
<1>1. clock \in 0 .. MaxTime /\ (IsOps(file) => file \in OpsType)
  BY DEF TypeInv, TypeOK
<1>2. /\ FirstBoot(ZeroOps) \in OpsType
      /\ FirstBoot(ZeroOps).BootCount = 0
      /\ FirstBoot(ZeroOps).Sequence = 0
      /\ FirstBoot(ZeroOps).Time = 0
  BY <1>1, OpsAssumption DEF FirstBoot, ZeroOps, OpsType, NoTime
<1>3. CASE IsOps(file)
  <2>1. data = IF file.BootCount = 0 THEN FirstBoot(file) ELSE file
    BY <1>3 DEF ReadOps, IsOps
  <2>2. /\ FirstBoot(file) \in OpsType
        /\ FirstBoot(file).BootCount = file.BootCount
        /\ FirstBoot(file).Sequence = file.Sequence
        /\ FirstBoot(file).Time = file.Time
    BY <1>1, <1>3 DEF FirstBoot, OpsType
  <2> QED
    BY <1>1, <1>3, <2>1, <2>2
<1>4. CASE ~IsOps(file)
  <2>1. data \in {ZeroOps, FirstBoot(ZeroOps)}
    BY <1>4 DEF ReadOps, IsOps
  <2>2. ZeroOps.BootCount = 0 /\ ZeroOps.Sequence = 0 /\ ZeroOps.Time = 0
    BY DEF ZeroOps, NoTime
  <2> QED
    BY <1>2, <1>4, <2>1, <2>2, ZeroIsOps
<1> QED
  BY <1>3, <1>4

\* Counting a boot changes the boot count only.
LEMMA CountBootFields ==
  ASSUME NEW d \in OpsType
  PROVE  /\ CountBoot(d) \in OpsType
         /\ CountBoot(d).BootCount = (d.BootCount + 1) % BootMod
         /\ CountBoot(d).Epoch = d.Epoch
         /\ CountBoot(d).Time = d.Time
         /\ CountBoot(d).Sequence = d.Sequence
<1>1. (d.BootCount + 1) % BootMod \in 0 .. BootMod - 1
  BY OpsAssumption DEF OpsType
<1> QED
  BY <1>1 DEF CountBoot, OpsType

-----------------------------------------------------------------------------
(* Types.                                                                  *)

LEMMA InitTypes == Init => TypeInv
<1>1. IsOps(EmptyFile) = FALSE
  BY DEF IsOps
<1> QED
  BY <1>1, ZeroIsOps, OpsAssumption DEF Init, TypeInv, TypeOK, HistOK, NoTime

LEMMA NextTypes == TypeInv /\ [Next]_vars => TypeInv'
<1> SUFFICES ASSUME TypeInv, [Next]_vars
             PROVE  TypeInv'
  OBVIOUS
<1> USE OpsAssumption
<1>t. ~IsOps(TornFile)
  BY DEF IsOps
<1>1. CASE Boot
  <2>1. PICK data \in ReadOps : OpsData' = CountBoot(data) /\ setTime' = SentTime(data)
    BY <1>1 DEF Boot
  <2>2. data \in OpsType
    BY ReadCases
  <2>3. OpsData' \in OpsType /\ setTime' \in 0 .. MaxTime
    BY <2>1, <2>2, CountBootFields DEF SentTime, OpsType, NoTime
  <2> QED
    BY <1>1, <2>3 DEF Boot, TypeInv, TypeOK, HistOK, IsOps
<1>2. CASE BootFails
  BY <1>2 DEF BootFails, TypeInv, TypeOK, HistOK, IsOps
<1>3. CASE WriteBoot
  BY <1>3, <1>t DEF WriteBoot, WriteFails, TypeInv, TypeOK, HistOK, IsOps
<1>4. CASE BeginUpdate
  <2>1. OpsData' \in OpsType
    BY <1>4 DEF BeginUpdate, TypeInv, TypeOK, OpsType
  <2>2. HistOK'
    <3> DEFINE r == hist.raced \/ setTime # NoTime
    <3>1. r \in BOOLEAN
      OBVIOUS
    <3>2. hist' = [hist EXCEPT !.raced = r]
      BY <1>4 DEF BeginUpdate
    <3> HIDE DEF r
    <3> QED
      BY <3>1, <3>2 DEF TypeInv, HistOK
  <2> QED
    BY <1>4, <2>1, <2>2 DEF BeginUpdate, TypeInv, TypeOK, IsOps
<1>5. CASE WriteUpdate
  <2>1. CASE WriteFails /\ pc' = "idle" /\ UNCHANGED OpsCount
    BY <1>5, <1>t, <2>1 DEF WriteUpdate, WriteFails, TypeInv, TypeOK, HistOK, IsOps
  <2>2. CASE /\ file' = OpsData
             /\ OpsCount' = OpsCount + 1
             /\ pc' = IF OpsCount + 1 < BACKUP_COUNT THEN "idle" ELSE "backup"
             /\ UNCHANGED hist
    <3>1. /\ OpsCount' \in 0 .. BACKUP_COUNT
          /\ OpsCount' = BACKUP_COUNT => pc' = "backup"
          /\ pc' \in {"idle", "backup"}
      BY <1>5, <2>2 DEF WriteUpdate, TypeInv, TypeOK
    <3> QED
      BY <1>5, <2>2, <3>1 DEF WriteUpdate, TypeInv, TypeOK, HistOK, IsOps
  <2> QED
    BY <1>5, <2>1, <2>2 DEF WriteUpdate
<1>6. CASE BackupFails
  BY <1>6 DEF BackupFails, TypeInv, TypeOK, HistOK, IsOps
<1>7. CASE StoreBackup
  <2>1. OpsData' \in OpsType
    BY <1>7 DEF StoreBackup, TypeInv, TypeOK, OpsType
  <2> QED
    BY <1>7, <2>1 DEF StoreBackup, TypeInv, TypeOK, HistOK, IsOps
<1>8. CASE PersistSequence
  BY <1>8, <1>t DEF PersistSequence, WriteFails, TypeInv, TypeOK, HistOK, IsOps
<1>9. CASE Tick
  BY <1>9 DEF Tick, TypeInv, TypeOK, HistOK, IsOps
<1>10. CASE HandleSetTime
  BY <1>10 DEF HandleSetTime, TypeInv, TypeOK, HistOK, IsOps, NoTime
<1>11. CASE Crash
  <2>1. HistOK'
    <3>1. hist.crashes + 1 \in 0 .. MaxCrashes
      BY <1>11 DEF Crash, TypeInv, HistOK
    <3> DEFINE u == hist.unsaved \/ file' = TornFile
    <3>2. u \in BOOLEAN
      OBVIOUS
    <3>3. hist' = [hist EXCEPT !.crashes = hist.crashes + 1, !.unsaved = u]
      BY <1>11 DEF Crash
    <3> HIDE DEF u
    <3> QED
      BY <3>1, <3>2, <3>3 DEF TypeInv, HistOK
  <2>2. IsOps(file') => file' \in OpsType
    BY <1>11, <1>t DEF Crash, CrashMidWrite, TypeInv, TypeOK, IsOps
  <2> QED
    BY <1>11, <2>1, <2>2, ZeroIsOps DEF Crash, TypeInv, TypeOK, IsOps, NoTime
<1>12. CASE UNCHANGED vars
  BY <1>12 DEF vars, TypeInv, TypeOK, HistOK, IsOps
<1> QED
  BY <1>1, <1>2, <1>3, <1>4, <1>5, <1>6, <1>7, <1>8, <1>9, <1>10, <1>11, <1>12 DEF Next

-----------------------------------------------------------------------------
(* The number of the last backup.                                          *)

LEMMA InitSequence == Init => SequenceInv
BY DEF Init, SequenceInv, IsOps, EmptyFile, TornFile, ZeroOps, Running

\* Only what is written whole becomes the file, and what fails is remembered.
LEMMA NextSequence ==
  ASSUME TypeInv, TypeInv', SequenceInv, [Next]_vars
  PROVE  SequenceInv'
<1> USE OpsAssumption
<1>t. ~IsOps(TornFile)
  BY DEF IsOps
<1>o. IsOps(OpsData) /\ OpsData \in OpsType
  BY OpsAreOps DEF TypeInv, TypeOK
<1>u. OpsData # TornFile
  BY <1>o DEF IsOps
<1>w. ASSUME WriteFails PROVE SequenceInv'
  BY <1>w DEF WriteFails, SequenceInv, TypeInv, HistOK
<1>1. CASE Boot
  <2>1. PICK data \in ReadOps : OpsData' = CountBoot(data)
    BY <1>1 DEF Boot
  <2>2. IsOps(file) => OpsData'.Sequence = file.Sequence
    BY <2>1, ReadCases, CountBootFields
  <2> QED
    BY <1>1, <2>2 DEF Boot, SequenceInv, IsOps, Running, TypeInv, TypeOK, OpsType
<1>2. CASE BootFails
  BY <1>2 DEF BootFails, SequenceInv, IsOps, Running
<1>3. CASE WriteBoot
  <2>1. CASE file' = OpsData /\ pc' = "idle" /\ UNCHANGED hist
    BY <1>3, <2>1, <1>o, <1>u DEF WriteBoot, SequenceInv, IsOps, Running, TypeInv, TypeOK, OpsType
  <2> QED
    BY <1>3, <1>w, <2>1 DEF WriteBoot
<1>4. CASE BeginUpdate
  BY <1>4 DEF BeginUpdate, SequenceInv, IsOps, Running, TypeInv, TypeOK, OpsType, HistOK
<1>5. CASE WriteUpdate
  <2>1. CASE file' = OpsData /\ pc' \in {"idle", "backup"} /\ UNCHANGED hist
    BY <1>5, <2>1, <1>o, <1>u DEF WriteUpdate, SequenceInv, IsOps, Running, TypeInv, TypeOK, OpsType
  <2> QED
    BY <1>5, <1>w, <2>1 DEF WriteUpdate
<1>6. CASE BackupFails
  BY <1>6 DEF BackupFails, SequenceInv, IsOps, Running
<1>7. CASE StoreBackup
  <2>1. OpsData'.Sequence = OpsData.Sequence + 1
    BY <1>7, <1>o DEF StoreBackup, OpsType
  <2> QED
    BY <1>7, <2>1 DEF StoreBackup, SequenceInv, IsOps, Running, TypeInv, TypeOK, OpsType
<1>8. CASE PersistSequence
  <2>1. CASE file' = OpsData /\ UNCHANGED hist
    BY <1>8, <2>1, <1>o, <1>u DEF PersistSequence, SequenceInv, IsOps, Running, TypeInv, TypeOK, OpsType
  <2> QED
    BY <1>8, <1>w, <2>1 DEF PersistSequence
<1>9. CASE Tick
  BY <1>9 DEF Tick, SequenceInv, IsOps, Running
<1>10. CASE HandleSetTime
  BY <1>10 DEF HandleSetTime, SequenceInv, IsOps, Running
<1>11. CASE Crash
  <2>1. ~hist'.unsaved => ~hist.unsaved /\ file' # TornFile
    BY <1>11 DEF Crash, TypeInv, HistOK
  <2>2. CASE file' = file
    BY <1>11, <2>1, <2>2 DEF Crash, SequenceInv, IsOps, Running
  <2>3. CASE file' = OpsData /\ pc \in {"init", "update", "persist"}
    BY <1>11, <1>o, <1>u, <2>1, <2>3 DEF Crash, SequenceInv, IsOps, Running, TypeInv, TypeOK, OpsType
  <2>4. CASE file' = TornFile
    BY <2>1, <2>4 DEF SequenceInv
  <2> QED
    BY <1>11, <2>2, <2>3, <2>4 DEF Crash, CrashMidWrite
<1>12. CASE UNCHANGED vars
  BY <1>12 DEF vars, SequenceInv, IsOps, Running
<1> QED
  BY <1>1, <1>2, <1>3, <1>4, <1>5, <1>6, <1>7, <1>8, <1>9, <1>10, <1>11, <1>12 DEF Next

\* RPT_OpsDataInit, RPT_UpdateOperationData and a reset at any moment keep
\* OpsData and ops.bin well-formed, and after a reset RPT has forgotten at most
\* the one backup whose number it had not written yet, as long as the writes of
\* ops.bin succeed and no reset has torn one.
THEOREM OpsIsSound == Spec => []OpsSound
<1>1. Init => TypeInv /\ SequenceInv
  BY InitTypes, InitSequence
<1>2. (TypeInv /\ SequenceInv) /\ [Next]_vars => (TypeInv /\ SequenceInv)'
  BY NextTypes, NextSequence
<1>3. TypeInv /\ SequenceInv => OpsSound
  BY DEF TypeInv, TypeOK, SequenceInv, OpsSound, SequenceAlmostLast, Running, OpsType
<1> QED
  BY <1>1, <1>2, <1>3, PTL DEF Spec

-----------------------------------------------------------------------------
(* The boot count, the epoch and the time.                                 *)

LEMMA InitForward == Init => ForwardInv /\ TimeInv
BY DEF Init, ForwardInv, TimeInv, IsOps, Running

\* After a boot OpsData is the file with one boot more, while the boots are
\* fewer than a uint16 holds.
LEMMA BootReads ==
  ASSUME NoBootWrap, TypeInv, ForwardInv, Boot
  PROVE  /\ OpsData'.BootCount \in 1 .. hist.crashes + 1
         /\ IsOps(file) => /\ OpsData'.BootCount = file.BootCount + 1
                           /\ OpsData'.Sequence = file.Sequence
                           /\ OpsData'.Epoch = file.Epoch
                           /\ OpsData'.Time = file.Time
                           /\ setTime' = file.Time
         /\ ~IsOps(file) => OpsData'.Time = 0 /\ setTime' = NoTime
<1> USE OpsAssumption
<1>1. PICK data \in ReadOps : OpsData' = CountBoot(data) /\ setTime' = SentTime(data)
  BY DEF Boot
<1>2. data \in OpsType
  BY ReadCases
<1>3. hist.crashes \in 0 .. MaxCrashes
  BY DEF TypeInv, HistOK
<1>4. CASE IsOps(file)
  <2>1. file.BootCount \in 1 .. hist.crashes
    BY <1>3, <1>4 DEF ForwardInv, Boots, Boot
  <2>2. data = file
    BY <1>4, <2>1, ReadCases
  <2>3. (file.BootCount + 1) % BootMod = file.BootCount + 1
    BY <1>3, <2>1 DEF NoBootWrap
  <2>4. setTime' = file.Time
    BY <1>1, <1>4, <2>1, <2>2 DEF SentTime, IsOps
  <2> QED
    BY <1>1, <1>2, <1>3, <1>4, <2>1, <2>2, <2>3, <2>4, CountBootFields
<1>5. CASE ~IsOps(file)
  <2>1. data.BootCount = 0 /\ data.Time = 0
    BY <1>5, ReadCases
  <2>2. (0 + 1) % BootMod = 1
    BY <1>3 DEF NoBootWrap
  <2>3. setTime' = NoTime
    BY <1>1, <1>5 DEF SentTime, IsOps
  <2> QED
    BY <1>1, <1>2, <1>3, <1>5, <2>1, <2>2, <2>3, CountBootFields
<1> QED
  BY <1>4, <1>5

\* OpsData runs ahead of ops.bin, and no write takes the file back.
LEMMA NextForward ==
  ASSUME NoBootWrap, TypeInv, TypeInv', ForwardInv, [Next]_vars
  PROVE  ForwardInv'
<1> USE OpsAssumption DEF Running
<1>t. ~IsOps(TornFile)
  BY DEF IsOps
<1>o. IsOps(OpsData) /\ OpsData \in OpsType
  BY OpsAreOps DEF TypeInv, TypeOK
<1>c. hist.crashes \in 0 .. MaxCrashes
  BY DEF TypeInv, HistOK
<1>f. IsOps(file) => file \in OpsType
  BY DEF TypeInv, TypeOK
<1>s. ASSUME file' \in {file, OpsData, TornFile}, pc \in Running, pc' # "off",
             OpsData' = OpsData, hist'.crashes = hist.crashes
      PROVE  ForwardInv'
  BY <1>c, <1>f, <1>o, <1>s, <1>t DEF ForwardInv, Boots, IsOps, OpsType
<1>1. CASE Boot
  <2>1. pc = "off" /\ pc' = "init" /\ file' = file /\ hist' = hist
    BY <1>1 DEF Boot
  <2> QED
    BY <1>1, <1>c, <1>f, <2>1, BootReads DEF ForwardInv, Boots, IsOps, OpsType
<1>2. CASE BootFails
  BY <1>2, <1>c DEF BootFails, ForwardInv, Boots, IsOps
<1>3. CASE WriteBoot
  <2>1. hist'.crashes = hist.crashes /\ file' \in {file, OpsData, TornFile}
    BY <1>3 DEF WriteBoot, WriteFails, TypeInv, HistOK
  <2> QED
    BY <1>3, <1>s, <2>1 DEF WriteBoot
<1>4. CASE BeginUpdate
  <2>1. /\ OpsData'.BootCount = OpsData.BootCount
        /\ OpsData'.Sequence = OpsData.Sequence
        /\ OpsData'.Epoch = OpsData.Epoch
    BY <1>4, <1>o DEF BeginUpdate, OpsType
  <2>2. hist'.crashes = hist.crashes
    BY <1>4 DEF BeginUpdate, TypeInv, HistOK
  <2>3. file' = file /\ pc = "idle" /\ pc' = "update"
    BY <1>4 DEF BeginUpdate
  <2> QED
    BY <2>1, <2>2, <2>3 DEF ForwardInv, Boots, IsOps
<1>5. CASE WriteUpdate
  <2>1. /\ hist'.crashes = hist.crashes /\ file' \in {file, OpsData, TornFile}
        /\ pc' \in {"idle", "backup"}
    BY <1>5 DEF WriteUpdate, WriteFails, TypeInv, HistOK
  <2> QED
    BY <1>5, <1>s, <2>1 DEF WriteUpdate
<1>6. CASE BackupFails
  BY <1>6 DEF BackupFails, ForwardInv, Boots, IsOps
<1>7. CASE StoreBackup
  <2>1. /\ OpsData'.BootCount = OpsData.BootCount
        /\ OpsData'.Sequence = OpsData.Sequence + 1
        /\ OpsData'.Epoch = OpsData.Epoch
    BY <1>7, <1>o DEF StoreBackup, OpsType
  <2> QED
    BY <1>7, <1>f, <1>o, <2>1 DEF StoreBackup, ForwardInv, Boots, IsOps, OpsType
<1>8. CASE PersistSequence
  <2>1. hist'.crashes = hist.crashes /\ file' \in {file, OpsData, TornFile}
    BY <1>8 DEF PersistSequence, WriteFails, TypeInv, HistOK
  <2> QED
    BY <1>8, <1>s, <2>1 DEF PersistSequence
<1>9. CASE Tick
  BY <1>9 DEF Tick, ForwardInv, Boots, IsOps
<1>10. CASE HandleSetTime
  BY <1>10 DEF HandleSetTime, ForwardInv, Boots, IsOps
<1>11. CASE Crash
  <2>1. hist'.crashes = hist.crashes + 1
    BY <1>11 DEF Crash, TypeInv, HistOK
  <2>2. file' = file \/ file' = TornFile \/ (file' = OpsData /\ pc \in Running)
    BY <1>11 DEF Crash, CrashMidWrite
  <2>3. pc # "off" /\ pc' = "off"
    BY <1>11 DEF Crash
  <2> QED
    BY <1>c, <1>f, <1>o, <1>t, <2>1, <2>2, <2>3 DEF ForwardInv, Boots, IsOps
<1>12. CASE UNCHANGED vars
  BY <1>12 DEF vars, ForwardInv, Boots, IsOps
<1> QED
  BY <1>1, <1>2, <1>3, <1>4, <1>5, <1>6, <1>7, <1>8, <1>9, <1>10, <1>11, <1>12 DEF Next

\* The same of the time, until a 1Hz message overtakes the time command.
LEMMA NextTime ==
  ASSUME NoBootWrap, TypeInv, TypeInv', ForwardInv, TimeInv, [Next]_vars
  PROVE  TimeInv'
<1> USE OpsAssumption DEF Running
<1>t. ~IsOps(TornFile)
  BY DEF IsOps
<1>o. IsOps(OpsData) /\ OpsData \in OpsType
  BY OpsAreOps DEF TypeInv, TypeOK
<1>f. IsOps(file) => file \in OpsType
  BY DEF TypeInv, TypeOK
<1>k. clock \in 0 .. MaxTime /\ setTime \in 0 .. MaxTime
  BY DEF TypeInv, TypeOK
<1>s. ASSUME file' \in {file, OpsData, TornFile}, pc \in Running, hist'.raced = hist.raced,
             OpsData' = OpsData, clock' = clock, setTime' = setTime
      PROVE  TimeInv'
  BY <1>f, <1>o, <1>s, <1>t DEF TimeInv, Restored, IsOps, OpsType
<1>1. CASE Boot
  <2>1. file' = file /\ clock' = clock
    BY <1>1 DEF Boot
  <2> QED
    BY <1>1, <1>f, <1>k, <2>1, BootReads DEF TimeInv, Restored, IsOps, OpsType, NoTime
<1>2. CASE BootFails
  BY <1>2 DEF BootFails, TimeInv
<1>3. CASE WriteBoot
  <2>1. hist'.raced = hist.raced /\ file' \in {file, OpsData, TornFile}
    BY <1>3 DEF WriteBoot, WriteFails, TypeInv, HistOK
  <2> QED
    BY <1>3, <1>s, <2>1 DEF WriteBoot
<1>4. CASE BeginUpdate
  <2>1. OpsData'.Time = clock
    BY <1>4, <1>o DEF BeginUpdate, OpsType
  <2>2. ~hist'.raced => ~hist.raced /\ setTime = NoTime
    BY <1>4 DEF BeginUpdate, TypeInv, HistOK
  <2>3. file' = file /\ clock' = clock /\ setTime' = setTime /\ pc = "idle"
    BY <1>4 DEF BeginUpdate
  <2> QED
    BY <1>f, <1>k, <1>o, <2>1, <2>2, <2>3 DEF TimeInv, Restored, IsOps, OpsType
<1>5. CASE WriteUpdate
  <2>1. hist'.raced = hist.raced /\ file' \in {file, OpsData, TornFile}
    BY <1>5 DEF WriteUpdate, WriteFails, TypeInv, HistOK
  <2> QED
    BY <1>5, <1>s, <2>1 DEF WriteUpdate
<1>6. CASE BackupFails
  BY <1>6 DEF BackupFails, TimeInv, Restored, IsOps
<1>7. CASE StoreBackup
  <2>1. OpsData'.Time = OpsData.Time
    BY <1>7, <1>o DEF StoreBackup, OpsType
  <2> QED
    BY <1>7, <2>1 DEF StoreBackup, TimeInv, Restored, IsOps
<1>8. CASE PersistSequence
  <2>1. hist'.raced = hist.raced /\ file' \in {file, OpsData, TornFile}
    BY <1>8 DEF PersistSequence, WriteFails, TypeInv, HistOK
  <2> QED
    BY <1>8, <1>s, <2>1 DEF PersistSequence
<1>9. CASE Tick
  BY <1>9, <1>k, <1>o DEF Tick, TimeInv, Restored, IsOps, OpsType
<1>10. CASE HandleSetTime
  BY <1>10 DEF HandleSetTime, TimeInv, Restored, IsOps
<1>11. CASE Crash
  BY <1>11 DEF Crash, TimeInv
<1>12. CASE UNCHANGED vars
  BY <1>12 DEF vars, TimeInv, Restored, IsOps
<1> QED
  BY <1>1, <1>2, <1>3, <1>4, <1>5, <1>6, <1>7, <1>8, <1>9, <1>10, <1>11, <1>12 DEF Next

\* The file is replaced by OpsData of the running application or not at all.
LEMMA WritesAreOpsData ==
  ASSUME TypeInv, Next, file' # file, IsOps(file')
  PROVE  file' = OpsData /\ pc \in Running
<1>t. ~IsOps(TornFile)
  BY DEF IsOps
<1> QED
  BY <1>t DEF Next, Boot, BootFails, WriteBoot, WriteFails, BeginUpdate, WriteUpdate,
    BackupFails, StoreBackup, PersistSequence, Tick, HandleSetTime, Crash,
    CrashMidWrite, Running

\* From any boot on, OpsData is ahead of ops.bin in boot count, backup number and
\* time, and of the same epoch: what the two action properties rest on.
THEOREM ForwardInvariance ==
  NoBootWrap => (Spec => [](TypeInv /\ ForwardInv /\ TimeInv))
<1> SUFFICES ASSUME NoBootWrap
             PROVE  Spec => [](TypeInv /\ ForwardInv /\ TimeInv)
  OBVIOUS
<1>1. Init => TypeInv /\ ForwardInv /\ TimeInv
  BY InitTypes, InitForward
<1>2. (TypeInv /\ ForwardInv /\ TimeInv) /\ [Next]_vars
        => (TypeInv /\ ForwardInv /\ TimeInv)'
  BY NextTypes, NextForward, NextTime
<1> QED
  BY <1>1, <1>2, PTL DEF Spec

\* However resets, torn writes and failed writes fall, the boot count and the
\* backup number that RPT_WriteToFile leaves in ops.bin never fall and the
\* epoch never changes, until BootCount has run through its 16 bits.
THEOREM FileForward == NoBootWrap => (Spec => FileMovesForward)
<1> SUFFICES ASSUME NoBootWrap
             PROVE  Spec => FileMovesForward
  OBVIOUS
<1> DEFINE A == (IsOps(file) /\ IsOps(file')) =>
                  /\ file'.BootCount >= file.BootCount
                  /\ file'.Sequence >= file.Sequence
                  /\ file'.Epoch = file.Epoch
<1>1. TypeInv /\ ForwardInv /\ [Next]_vars => [A]_vars
  <2> SUFFICES ASSUME TypeInv, ForwardInv, Next, IsOps(file), IsOps(file')
               PROVE  /\ file'.BootCount >= file.BootCount
                      /\ file'.Sequence >= file.Sequence
                      /\ file'.Epoch = file.Epoch
    OBVIOUS
  <2>1. CASE file' = file
    BY <2>1, OpsAssumption DEF TypeInv, TypeOK, OpsType
  <2>2. CASE file' # file
    BY <2>2, WritesAreOpsData DEF ForwardInv
  <2> QED
    BY <2>1, <2>2
<1> QED
  BY <1>1, ForwardInvariance, PTL DEF Spec, FileMovesForward

\* The time in ops.bin falls back only once a 1Hz message has been handled
\* before the TIME service took the command of RPT_OpsDataInit.
THEOREM TimeForward == NoBootWrap => (Spec => TimeNeverGoesBack)
<1> SUFFICES ASSUME NoBootWrap
             PROVE  Spec => TimeNeverGoesBack
  OBVIOUS
<1> DEFINE A == (IsOps(file) /\ IsOps(file') /\ ~hist.raced) => file'.Time >= file.Time
<1>1. TypeInv /\ TimeInv /\ [Next]_vars => [A]_vars
  <2> SUFFICES ASSUME TypeInv, TimeInv, Next, IsOps(file), IsOps(file'), ~hist.raced
               PROVE  file'.Time >= file.Time
    OBVIOUS
  <2>1. CASE file' = file
    BY <2>1, OpsAssumption DEF TypeInv, TypeOK, OpsType
  <2>2. CASE file' # file
    BY <2>2, WritesAreOpsData DEF TimeInv
  <2> QED
    BY <2>1, <2>2
<1> QED
  BY <1>1, ForwardInvariance, PTL DEF Spec, TimeNeverGoesBack

=============================================================================
