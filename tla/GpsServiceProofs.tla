-------------------------- MODULE GpsServiceProofs --------------------------
(***************************************************************************)
(* The GPS service, for any number of handlers, identifiers and callbacks: *)
(* the device stays open while the receive task is in the driver, the      *)
(* table of handlers stays sound, and the task breaks no handler without a *)
(* race.                                                                   *)
(***************************************************************************)
EXTENDS GpsService, WellFoundedInduction, TLAPS

-----------------------------------------------------------------------------
(* The first slot of a set.                                                 *)

\* A non-empty set of slots has a first one.
LEMMA FirstInSet ==
  ASSUME NEW S, S \subseteq Slots, S # {}
  PROVE  /\ First(S) \in S
         /\ \A t \in S : First(S) <= t
<1>1. S \subseteq Nat
  BY GpsAssumption DEF Slots
<1>2. PICK s \in S : \A t \in S : ~(<<t, s>> \in OpToRel(<, Nat))
  BY <1>1, NatLessThanWellFounded, WFMin
<1>3. ASSUME NEW t \in S PROVE s <= t
  <2>1. s \in Nat /\ t \in Nat /\ <<t, s>> \in Nat \X Nat
    BY <1>1
  <2>2. t < s => <<t, s>> \in OpToRel(<, Nat)
    BY <2>1 DEF OpToRel
  <2>3. ~(t < s)
    BY <1>2, <2>2
  <2> QED
    BY <2>1, <2>3
<1> QED
  BY <1>2, <1>3 DEF First

\* get_handler_by_id finds a handler if there is one.
LEMMA FoundNone ==
  ASSUME NEW id, Found(id) = {}
  PROVE  \A s \in Slots : ~Named(s, id)
<1> DEFINE S == { s \in Slots : Named(s, id) }
<1> SUFFICES ASSUME S # {} PROVE FALSE
  OBVIOUS
<1>1. First(S) \in S /\ \A t \in S : First(S) <= t
  BY FirstInSet
<1> HIDE DEF S
<1>2. PICK f \in S : \A t \in S : f <= t
  BY <1>1
<1>3. f \in 1 .. HANDLER_MAX /\ HANDLER_MAX \in Nat
  BY <1>2, GpsAssumption DEF Slots, S
<1>4. \A t \in 1 .. f - 1 : t \in 1 .. HANDLER_MAX /\ ~(f <= t)
  BY <1>3
<1>5. \A t \in 1 .. f - 1 : ~Named(t, id)
  BY <1>2, <1>4 DEF S, Slots
<1>6. f \in Found(id)
  BY <1>2, <1>5 DEF Found, S
<1> QED
  BY <1>6

-----------------------------------------------------------------------------
(* Types.                                                                   *)

CallbackPcs == {"cbcheck", "cbcount", "cbrun"}

\* The type invariant, and the slot of the handler whose callbacks run.
TypeInv == GpsTypeOK /\ (rx.pc \in CallbackPcs => rx.slot \in Slots)

LEMMA ListTypes ==
  /\ NewList \in Lists
  /\ NullList \in Lists
  /\ \A list \in Lists : ToHead(list) \in Lists /\ ToNext(list) \in Lists
  BY GpsAssumption DEF NewList, NullList, Lists, ToHead, ToNext

LEMMA EmptyType == Empty \in Handlers
  BY ListTypes DEF Empty, Handlers, Statuses

LEMMA RestTypes ==
  /\ NotRunning \in RxStates /\ NotRunning.pc = "none"
  /\ Idle \in RxStates /\ Idle.pc = "check"
<1>1. 0 \in 0 .. MaxCallbacks
  BY GpsAssumption
<1> QED
  BY <1>1 DEF NotRunning, Idle, RxStates

LEMMA SetType ==
  ASSUME log_handlers \in [Slots -> Handlers], NEW s \in Slots,
         NEW handler \in Handlers, Set(s, handler)
  PROVE  log_handlers' \in [Slots -> Handlers]
  BY DEF Set

LEMMA TypeInit == Init => TypeInv
<1> SUFFICES ASSUME Init PROVE TypeInv
  OBVIOUS
<1>1. log_handlers \in [Slots -> Handlers]
  BY EmptyType DEF Init
<1> QED
  BY <1>1, RestTypes DEF Init, TypeInv, GpsTypeOK, MainStates, CallbackPcs

LEMMA TypeStep == TypeInv /\ [Next]_vars => TypeInv'
<1> SUFFICES ASSUME TypeInv, [Next]_vars PROVE TypeInv'
  OBVIOUS
<1> USE DEF TypeInv, GpsTypeOK
<1>1. CASE ServiceInit
  <2>1. CASE InitFails
    BY <2>1 DEF InitFails, MainStates
  <2>2. CASE OpenDevice
    <3>1. PICK done \in 0 .. HANDLER_MAX : \E ids \in [1 .. done -> BuiltinIds] :
            log_handlers' = WithBuiltins(done, ids)
      BY <2>2 DEF OpenDevice
    <3>2. PICK ids \in [1 .. done -> BuiltinIds] : log_handlers' = WithBuiltins(done, ids)
      BY <3>1
    <3>3. \A s \in Slots : s > done \/ ids[s] \in MessageIds
      <4>1. \A s \in Slots : s > done \/ s \in 1 .. done
        BY GpsAssumption DEF Slots
      <4> QED
        BY <3>2, <4>1, GpsAssumption
    <3>4. [n |-> 1, cursor |-> 0] \in Lists
      BY GpsAssumption DEF Lists
    <3>5. log_handlers' \in [Slots -> Handlers]
      BY <3>2, <3>3, <3>4, EmptyType DEF WithBuiltins, Handlers, Statuses
    <3> QED
      BY <2>2, <3>5 DEF OpenDevice, MainStates
  <2>3. ASSUME NEW created \in BOOLEAN, CreateChildTask(created) PROVE TypeInv'
    BY <2>3 DEF CreateChildTask, MainStates, RxStates, CallbackPcs
  <2> QED
    BY <1>1, <2>1, <2>2, <2>3 DEF ServiceInit
<1>2. CASE AppEnds
  BY <1>2 DEF AppEnds, MainStates
<1>3. CASE ServiceShutdown
  <2>1. CASE Release
    <3>1. AtWork \in BOOLEAN /\ Back \in {"exit", "run"}
      BY DEF AtWork, Back
    <3> QED
      BY <2>1, <3>1 DEF Release, MainStates
  <2>2. CASE StopTask \/ JoinEnds \/ ClosePort
    BY <2>2 DEF StopTask, JoinEnds, ClosePort, Back, MainStates, Stopped, Closed
  <2> QED
    BY <1>3, <2>1, <2>2 DEF ServiceShutdown
<1>4. CASE GroundCommand
  <2>1. ASSUME Command, touched' \in BOOLEAN, excused' \subseteq Slots,
               log_handlers' \in [Slots -> Handlers]
        PROVE  TypeInv'
    BY <2>1 DEF Command, lifeVars
  <2>2. ASSUME NEW id \in MessageIds, Register(id) PROVE TypeInv'
    <3>1. First(EmptySlots) \in Slots
      BY <2>2, FirstInSet DEF Register, MayRegister, EmptySlots
    <3>2. [status |-> "INACTIVE", id |-> id, callbacks |-> NewList, recent_message |-> TRUE]
            \in Handlers
      BY ListTypes DEF Handlers, Statuses
    <3>3. log_handlers' \in [Slots -> Handlers]
      BY <2>2, <3>1, <3>2, SetType DEF Register
    <3> QED
      BY <2>1, <2>2, <3>1, <3>3 DEF Register, InCallbacks
  <2>3. ASSUME NEW id \in MessageIds, NEW listed \in BOOLEAN, RegisterNoMemory(id, listed)
        PROVE  TypeInv'
    <3>1. First(EmptySlots) \in Slots
      BY <2>3, FirstInSet DEF RegisterNoMemory, MayRegister, EmptySlots
    <3>2. NoMemory(log_handlers[First(EmptySlots)], listed) \in Handlers
      BY <3>1, ListTypes DEF Handlers, NoMemory
    <3>3. log_handlers' \in [Slots -> Handlers]
      BY <2>3, <3>1, <3>2, SetType DEF RegisterNoMemory
    <3> QED
      BY <2>1, <2>3, <3>1, <3>3 DEF RegisterNoMemory, InCallbacks
  <2>4. ASSUME NEW id \in MessageIds, Unregister(id) PROVE TypeInv'
    <3>1. log_handlers' \in [Slots -> Handlers]
      BY <2>4, EmptyType, SetType DEF Unregister, Found
    <3> QED
      BY <2>1, <2>4, <3>1 DEF Unregister, InCallbacks
  <2>5. ASSUME NEW id \in MessageIds, AddCallback(id) PROVE TypeInv'
    <3>1. PICK s \in Slots :
            /\ log_handlers[s].callbacks.n \in 0 .. MaxCallbacks - 1
            /\ Set(s, [log_handlers[s] EXCEPT !.callbacks.n = @ + 1])
      BY <2>5 DEF AddCallback, Found
    <3>2. [log_handlers[s] EXCEPT !.callbacks.n = @ + 1] \in Handlers
      BY <3>1, GpsAssumption DEF Handlers, Lists
    <3>3. log_handlers' \in [Slots -> Handlers]
      BY <3>1, <3>2, SetType
    <3> QED
      BY <2>1, <2>5, <3>3 DEF AddCallback
  <2>6. ASSUME NEW id \in MessageIds, NEW list \in {NewList, NullList}, ClearCallbacks(id, list)
        PROVE  TypeInv'
    <3>1. PICK s \in Slots : Set(s, [log_handlers[s] EXCEPT !.callbacks = list])
      BY <2>6 DEF ClearCallbacks, Found
    <3>2. [log_handlers[s] EXCEPT !.callbacks = list] \in Handlers
      BY ListTypes DEF Handlers
    <3>3. log_handlers' \in [Slots -> Handlers]
      BY <3>1, <3>2, SetType
    <3> QED
      BY <2>1, <2>6, <3>3 DEF ClearCallbacks, InCallbacks
  <2>7. ASSUME NEW id \in MessageIds, NEW status \in {"ACTIVE", "INACTIVE", "DORMANT"},
               NEW wakeup \in BOOLEAN, SetStatus(id, status, wakeup)
        PROVE  TypeInv'
    <3>1. PICK s \in Slots : Set(s, [log_handlers[s] EXCEPT !.status = status])
      BY <2>7 DEF SetStatus, Found
    <3>2. [log_handlers[s] EXCEPT !.status = status] \in Handlers
      BY DEF Handlers, Statuses
    <3>3. log_handlers' \in [Slots -> Handlers]
      BY <3>1, <3>2, SetType
    <3> QED
      BY <2>1, <2>7, <3>3 DEF SetStatus
  <2>8. ASSUME NEW id \in MessageIds, NEW status \in Statuses, Override(id, status)
        PROVE  TypeInv'
    <3>1. PICK s \in Slots :
            /\ Set(s, [log_handlers[s] EXCEPT !.status = status])
            /\ excused' = IF status = "EMPTY" THEN excused \cup {s} ELSE excused
      BY <2>8 DEF Override, Found
    <3>2. [log_handlers[s] EXCEPT !.status = status] \in Handlers
      BY DEF Handlers
    <3>3. log_handlers' \in [Slots -> Handlers]
      BY <3>1, <3>2, SetType
    <3> QED
      BY <2>1, <2>8, <3>1, <3>3 DEF Override
  <2>9. ASSUME NEW from, NEW to \in Statuses, SetAll(from, to) PROVE TypeInv'
    <3>1. log_handlers' \in [Slots -> Handlers]
      BY <2>9 DEF SetAll, Handlers
    <3> QED
      BY <2>1, <2>9, <3>1 DEF SetAll
  <2> QED
    BY <1>4, <2>2, <2>3, <2>4, <2>5, <2>6, <2>7, <2>8, <2>9 DEF GroundCommand, Statuses
<1>5. CASE RxTask
  <2>1. ASSUME rx.slot \in Slots, MarkBroken, UNCHANGED lifeVars PROVE TypeInv'
    <3>1. [Handler EXCEPT !.status = "BROKEN"] \in Handlers
      BY <2>1 DEF Handler, Handlers, Statuses
    <3>2. log_handlers' \in [Slots -> Handlers]
      BY <2>1, <3>1, SetType DEF MarkBroken
    <3> QED
      BY <2>1, <3>2, RestTypes DEF MarkBroken, CallbacksEnd, CallbackPcs, lifeVars
  <2>2. ASSUME CallbacksEnd, UNCHANGED <<lifeVars, log_handlers, excused>> PROVE TypeInv'
    BY <2>2, RestTypes DEF CallbacksEnd, CallbackPcs, lifeVars
  <2>3. CASE TaskStarts \/ TaskLoops \/ TaskLeaves \/ NothingToHandle
    BY <2>3 DEF TaskStarts, TaskLoops, TaskLeaves, NothingToHandle, AliveAtStart, AliveAtEnd, RxStates,
                CallbackPcs, lifeVars
  <2>4. ASSUME NEW id \in MessageIds, LogArrives(id) PROVE TypeInv'
    BY <2>4 DEF LogArrives, RxStates, CallbackPcs, lifeVars
  <2>5. CASE HandlerDeclines
    BY <2>5, RestTypes DEF HandlerDeclines, CallbackPcs, lifeVars
  <2>6. CASE HandlerAccepts
    <3>1. PICK s \in Slots :
            \/ /\ rx' = [rx EXCEPT !.pc = "cbcheck", !.slot = s]
               /\ UNCHANGED log_handlers
            \/ /\ rx' = Idle
               /\ Set(s, [log_handlers[s] EXCEPT !.status = "BROKEN"])
      BY <2>6 DEF HandlerAccepts, Found
    <3>2. [log_handlers[s] EXCEPT !.status = "BROKEN"] \in Handlers
      BY DEF Handlers, Statuses
    <3>3. log_handlers' \in [Slots -> Handlers]
      BY <3>1, <3>2, SetType
    <3>4. rx' \in RxStates /\ (rx'.pc \in CallbackPcs => rx'.slot \in Slots)
      <4>1. CASE rx' = Idle
        BY <4>1, RestTypes DEF CallbackPcs
      <4>2. CASE rx' = [rx EXCEPT !.pc = "cbcheck", !.slot = s]
        BY <4>2 DEF RxStates
      <4> QED
        BY <3>1, <4>1, <4>2
    <3> QED
      BY <2>6, <3>3, <3>4 DEF HandlerAccepts, lifeVars
  <2>7. CASE CallbacksChecked
    <3>1. CASE CallbacksEnd
      BY <2>2, <2>7, <3>1 DEF CallbacksChecked
    <3>2. CASE rx' = [rx EXCEPT !.pc = "cbcount"] /\ UNCHANGED touched
      BY <2>7, <3>2 DEF CallbacksChecked, RxStates, CallbackPcs, lifeVars
    <3> QED
      BY <2>7, <3>1, <3>2 DEF CallbacksChecked
  <2>8. CASE CallbacksCounted
    <3>0. rx.slot \in Slots
      BY <2>8 DEF CallbacksCounted, CallbackPcs
    <3>1. CASE Handler.callbacks.n > 0
      <4>1. Handler.callbacks \in Lists /\ Handler \in Handlers
        BY <3>0 DEF Handler, Handlers
      <4>2. [Handler EXCEPT !.callbacks = ToHead(@)] \in Handlers
        BY <4>1, ListTypes DEF Handlers
      <4>3. log_handlers' \in [Slots -> Handlers]
        BY <2>8, <3>0, <3>1, <4>1, <4>2, SetType DEF CallbacksCounted, Lists
      <4>4. rx' = [rx EXCEPT !.pc = "cbrun", !.ncb = Handler.callbacks.n, !.i = 0]
            /\ UNCHANGED <<lifeVars, touched, excused>>
        BY <2>8, <3>1, <4>1 DEF CallbacksCounted, Lists
      <4>5. rx' \in RxStates /\ rx'.slot \in Slots
        <5>1. Handler.callbacks.n \in 0 .. MaxCallbacks /\ 0 \in 0 .. MaxCallbacks
          BY <3>1, <4>1, GpsAssumption DEF Lists
        <5> QED
          BY <3>0, <4>4, <5>1 DEF RxStates
      <4> QED
        BY <4>3, <4>4, <4>5 DEF lifeVars
    <3> QED
      BY <2>1, <2>2, <2>8, <3>0, <3>1 DEF CallbacksCounted
  <2>9. CASE CallbackRuns
    <3>0. rx.slot \in Slots
      BY <2>9 DEF CallbackRuns, CallbackPcs
    <3>1. CASE /\ Set(rx.slot, [Handler EXCEPT !.callbacks = ToNext(@)])
               /\ rx' = [rx EXCEPT !.i = @ + 1]
               /\ UNCHANGED <<touched, excused>>
      <4>1. Handler.callbacks \in Lists /\ Handler \in Handlers
        BY <3>0 DEF Handler, Handlers
      <4>2. [Handler EXCEPT !.callbacks = ToNext(@)] \in Handlers
        BY <4>1, ListTypes DEF Handlers
      <4>3. log_handlers' \in [Slots -> Handlers]
        BY <3>0, <3>1, <4>2, SetType
      <4>4. rx' \in RxStates /\ rx'.slot \in Slots
        BY <2>9, <3>0, <3>1, GpsAssumption DEF RxStates, CallbackRuns
      <4> QED
        BY <2>9, <3>1, <4>3, <4>4 DEF lifeVars, CallbackRuns
    <3> QED
      BY <2>1, <2>2, <2>9, <3>0, <3>1 DEF CallbackRuns
  <2>10. CASE CallbacksDone
    BY <2>2, <2>10 DEF CallbacksDone
  <2> QED
    BY <1>5, <2>3, <2>4, <2>5, <2>6, <2>7, <2>8, <2>9, <2>10 DEF RxTask
<1>6. CASE UNCHANGED vars
  BY <1>6 DEF vars, lifeVars, CallbackPcs
<1> QED
  BY <1>1, <1>2, <1>3, <1>4, <1>5, <1>6 DEF Next

\* Every variable of the GPS service keeps its type: above all, the cursor of a
\* list of callbacks stays on the list, for any number of callbacks.
THEOREM GpsTypeCorrect == Spec => []GpsTypeOK
<1>1. Init => TypeInv
  BY TypeInit
<1>2. TypeInv /\ [Next]_vars => TypeInv'
  BY TypeStep
<1>3. TypeInv => GpsTypeOK
  BY DEF TypeInv
<1> QED
  BY <1>1, <1>2, <1>3, PTL DEF Spec

-----------------------------------------------------------------------------
(* The life of the device.                                                  *)

\* RxTaskAlive is what the receive task's place says; a task that may still
\* enter the driver has been told to run, and then the device is open; once
\* Shutdown has told it to stop, it is not told to run again; the port is closed
\* whenever the wait was not given up.
LifeInv ==
  /\ main.pc = "init" => rx.pc = "none" /\ ~serial
  /\ main.pc = "create" => rx.pc = "none" /\ iface /\ serial
  /\ main.pc \in {"join", "decide", "close"} => ~RxTaskRun
  /\ main.pc = "close" => ~iface
  /\ main.pc # "close" => iface = serial
  /\ RxTaskAlive <=> AtWork
  /\ RxTaskRun /\ rx.pc # "none" => iface /\ serial
  /\ InDriver => iface /\ serial
  /\ main.pc = "run" /\ rx.pc = "none" => ~serial
  /\ rx.pc = "none" \/ main.pc = "close" => ~main.gaveUp
  /\ main.pc = "exit" /\ ~main.gaveUp => ~serial

LEMMA LifeInit == Init => LifeInv
<1> SUFFICES ASSUME Init PROVE LifeInv
  OBVIOUS
<1>1. main.pc = "init" /\ ~main.gaveUp /\ rx.pc = "none" /\ ~RxTaskAlive /\ ~serial /\ ~iface
  BY DEF Init, NotRunning
<1>2. iface = serial
  BY DEF Init
<1> QED
  BY <1>1, <1>2 DEF LifeInv, InDriver, AtWork

LEMMA LifeStep == TypeInv /\ LifeInv /\ [Next]_vars => LifeInv'
<1> SUFFICES ASSUME TypeInv, LifeInv, [Next]_vars PROVE LifeInv'
  OBVIOUS
<1>0. /\ main \in MainStates /\ rx \in RxStates
      /\ RxTaskRun \in BOOLEAN /\ RxTaskAlive \in BOOLEAN
      /\ serial \in BOOLEAN /\ iface \in BOOLEAN
  BY DEF TypeInv, GpsTypeOK
<1>1. CASE ServiceInit
  <2>1. CASE InitFails
    BY <1>0, <2>1 DEF InitFails, LifeInv, InDriver, AtWork, MainStates
  <2>2. CASE OpenDevice
    BY <1>0, <2>2 DEF OpenDevice, LifeInv, InDriver, AtWork, MainStates
  <2>3. ASSUME NEW created \in BOOLEAN, CreateChildTask(created) PROVE LifeInv'
    BY <1>0, <2>3 DEF CreateChildTask, LifeInv, InDriver, AtWork, MainStates, RxStates
  <2> QED
    BY <1>1, <2>1, <2>2, <2>3 DEF ServiceInit
<1>2. CASE AppEnds
  BY <1>0, <1>2 DEF AppEnds, LifeInv, InDriver, AtWork, MainStates
<1>3. CASE ServiceShutdown
  <2>1. CASE StopTask
    BY <1>0, <2>1 DEF StopTask, Stopped, LifeInv, InDriver, AtWork, MainStates
  <2>2. CASE JoinEnds
    BY <1>0, <2>2 DEF JoinEnds, LifeInv, InDriver, AtWork, MainStates
  <2>3. CASE Release
    BY <1>0, <2>3 DEF Release, MayRelease, Back, LifeInv, InDriver, AtWork, MainStates
  <2>4. CASE ClosePort
    BY <1>0, <2>4 DEF ClosePort, Closed, Back, LifeInv, InDriver, AtWork, MainStates
  <2> QED
    BY <1>3, <2>1, <2>2, <2>3, <2>4 DEF ServiceShutdown
<1>4. ASSUME UNCHANGED <<lifeVars, rx>> PROVE LifeInv'
  BY <1>4 DEF lifeVars, LifeInv, InDriver, AtWork
<1>5. CASE GroundCommand
  <2>1. UNCHANGED <<lifeVars, rx>>
    BY <1>5 DEF GroundCommand, Command, Register, RegisterNoMemory, Unregister, AddCallback,
                ClearCallbacks, SetStatus, Override, SetAll
  <2> QED
    BY <1>4, <2>1
<1>6. CASE RxTask
  <2>1. CASE TaskStarts
    BY <1>0, <2>1 DEF TaskStarts, AliveAtStart, LifeInv, InDriver, AtWork, RxStates
  <2>2. CASE TaskLoops
    BY <1>0, <2>2 DEF TaskLoops, LifeInv, InDriver, AtWork, RxStates, lifeVars
  <2>3. CASE TaskLeaves
    BY <1>0, <2>3 DEF TaskLeaves, AliveAtEnd, LifeInv, InDriver, AtWork, RxStates
  <2>4. ASSUME InDriver, UNCHANGED lifeVars,
               rx'.pc \in {"check", "driver", "handle", "cbcheck", "cbcount", "cbrun"}
        PROVE  LifeInv'
    BY <1>0, <2>4 DEF LifeInv, InDriver, AtWork, lifeVars
  <2>5. CASE NothingToHandle \/ \E id \in MessageIds : LogArrives(id)
    BY <1>0, <2>4, <2>5 DEF NothingToHandle, LogArrives, InDriver, AtWork, RxStates
  <2>6. CASE HandlerDeclines \/ HandlerAccepts
    BY <1>0, <2>4, <2>6, RestTypes DEF HandlerDeclines, HandlerAccepts, InDriver, AtWork, RxStates
  <2>7. CASE CallbacksChecked \/ CallbacksCounted \/ CallbackRuns \/ CallbacksDone
    BY <1>0, <2>4, <2>7, RestTypes
    DEF CallbacksChecked, CallbacksCounted, CallbackRuns, CallbacksDone, MarkBroken,
        CallbacksEnd, InDriver, AtWork, RxStates
  <2> QED
    BY <1>6, <2>1, <2>2, <2>3, <2>5, <2>6, <2>7 DEF RxTask
<1>7. CASE UNCHANGED vars
  BY <1>4, <1>7 DEF vars
<1> QED
  BY <1>1, <1>2, <1>3, <1>5, <1>6, <1>7 DEF Next

\* The buffer and the port that oem_task_read_single_reply works on are there
\* until the receive task has come back from it, whenever the application ends
\* and whether or not the task had started.
THEOREM DeviceOutlivesUse == Spec => []DeviceOpenInDriver
<1>1. Init => TypeInv /\ LifeInv
  BY TypeInit, LifeInit
<1>2. (TypeInv /\ LifeInv) /\ [Next]_vars => (TypeInv /\ LifeInv)'
  BY TypeStep, LifeStep
<1>3. LifeInv => DeviceOpenInDriver
  BY DEF LifeInv, DeviceOpenInDriver
<1> QED
  BY <1>1, <1>2, <1>3, PTL DEF Spec

\* However the receive task and GPS_ServiceShutdown interleave, the shutdown
\* leaves the device open only for a task that is at work when the wait for it
\* is given up: it is released, interface and port together, when the task was
\* never created, has not started or has left.
THEOREM NoDeviceLeft == Spec => []DeviceReleased
<1>1. Init => TypeInv /\ LifeInv
  BY TypeInit, LifeInit
<1>2. (TypeInv /\ LifeInv) /\ [Next]_vars => (TypeInv /\ LifeInv)'
  BY TypeStep, LifeStep
<1>3. TypeInv /\ LifeInv => DeviceReleased
  BY DEF LifeInv, DeviceReleased
<1> QED
  BY <1>1, <1>2, <1>3, PTL DEF Spec

\* The device is open for as long as the receive task is in the driver, and
\* released by a shutdown that finds no task at work, however the two interleave.
THEOREM DeviceIsSound == Spec => []DeviceSound
<1>1. DeviceOpenInDriver /\ DeviceReleased => DeviceSound
  BY DEF DeviceSound
<1> QED
  BY <1>1, DeviceOutlivesUse, NoDeviceLeft, PTL

-----------------------------------------------------------------------------
(* The table of handlers.                                                   *)

\* The handler whose callbacks run, if no command has interfered: it is in use,
\* its list is there, and once the cursor was put at the head it stands
\* somewhere.
CallbackInv ==
  rx.pc \in CallbackPcs /\ ~touched =>
    /\ rx.slot \notin excused => Handler.status # "EMPTY"
    /\ rx.pc = "cbcount" => Handler.callbacks.n >= 0
    /\ rx.pc = "cbrun" => Handler.callbacks.cursor # 0

\* What most steps do to a slot: they empty it, leave it alone, or change
\* the status or the list of a handler in use.
Kept(s) ==
  \/ log_handlers'[s] = Empty
  \/ log_handlers'[s] = log_handlers[s]
  \/ /\ log_handlers[s].status # "EMPTY" /\ log_handlers'[s].status # "EMPTY"
     /\ log_handlers'[s].id = log_handlers[s].id
     /\ log_handlers'[s].recent_message = log_handlers[s].recent_message

LEMMA SoundKept ==
  ASSUME SlotSound, excused \subseteq excused', \A s \in Slots \ excused' : Kept(s)
  PROVE  SlotSound'
<1> SUFFICES ASSUME NEW s \in Slots \ excused' PROVE SoundSlot(s)'
  BY DEF SlotSound
<1>0. Empty.status = "EMPTY"
  BY DEF Empty
<1>1. SoundSlot(s) /\ Kept(s)
  BY DEF SlotSound
<1>2. CASE log_handlers'[s] = Empty
  BY <1>2 DEF SoundSlot
<1>3. CASE log_handlers'[s] # Empty
  <2>1. /\ log_handlers[s].status # "EMPTY" /\ log_handlers'[s].status # "EMPTY"
        /\ log_handlers'[s].id = log_handlers[s].id
        /\ log_handlers'[s].recent_message = log_handlers[s].recent_message
    BY <1>0, <1>1, <1>3 DEF SoundSlot, Kept
  <2>2. /\ log_handlers[s].id # 0 /\ log_handlers[s].recent_message
        /\ \A t \in Slots \ (excused \cup {s}) :
             log_handlers[t].status = "EMPTY" \/ log_handlers[t].id # log_handlers[s].id
    BY <1>0, <1>1, <2>1 DEF SoundSlot
  <2>3. ASSUME NEW t \in Slots \ (excused' \cup {s})
        PROVE  log_handlers'[t].status = "EMPTY" \/ log_handlers'[t].id # log_handlers'[s].id
    BY <1>0, <2>1, <2>2, <2>3 DEF Kept
  <2>4. log_handlers'[s].id # 0 /\ log_handlers'[s].recent_message
    BY <2>1, <2>2
  <2> QED
    BY <2>1, <2>3, <2>4 DEF SoundSlot
<1> QED
  BY <1>2, <1>3

SoundInv == SlotSound /\ CallbackInv

\* A command that changes one slot, in one of the ways of Kept, and does not
\* touch the list that is running unless it says so.
LEMMA CommandKept ==
  ASSUME TypeInv, SoundInv, NEW s \in Slots, NEW handler \in Handlers,
         Set(s, handler), UNCHANGED rx,
         excused \subseteq excused',
         touched => touched',
         s \notin excused' => Kept(s),
         InCallbacks(s) /\ ~touched' =>
           /\ s \notin excused' => handler.status # "EMPTY"
           /\ handler.callbacks.cursor = log_handlers[s].callbacks.cursor
           /\ handler.callbacks.n >= log_handlers[s].callbacks.n
  PROVE  SoundInv'
<1>1. log_handlers \in [Slots -> Handlers] /\ touched \in BOOLEAN
  BY DEF TypeInv, GpsTypeOK
<1>2. log_handlers'[s] = handler /\ \A t \in Slots \ {s} : log_handlers'[t] = log_handlers[t]
  BY <1>1 DEF Set
<1>3. SlotSound'
  <2>1. \A t \in Slots \ excused' : Kept(t)
    BY <1>2 DEF Kept
  <2> QED
    BY <2>1, SoundKept DEF SoundInv
<1>4. CallbackInv'
  <2> SUFFICES ASSUME rx.pc \in CallbackPcs, ~touched'
               PROVE  /\ rx.slot \notin excused' => Handler'.status # "EMPTY"
                      /\ rx.pc = "cbcount" => Handler'.callbacks.n >= 0
                      /\ rx.pc = "cbrun" => Handler'.callbacks.cursor # 0
    BY DEF CallbackInv, CallbackPcs
  <2>1. /\ rx.slot \in Slots
        /\ rx.slot \notin excused => Handler.status # "EMPTY"
        /\ rx.pc = "cbcount" => Handler.callbacks.n >= 0
        /\ rx.pc = "cbrun" => Handler.callbacks.cursor # 0
    BY DEF TypeInv, SoundInv, CallbackInv
  <2>2. CASE rx.slot # s
    <3>1. Handler' = Handler
      BY <1>2, <2>1, <2>2 DEF Handler
    <3> QED
      BY <2>1, <3>1
  <2>3. CASE rx.slot = s
    <3>1. Handler = log_handlers[s] /\ Handler' = handler /\ InCallbacks(s)
      BY <1>2, <2>3 DEF Handler, InCallbacks, CallbackPcs
    <3>2. handler.callbacks.n \in Int /\ log_handlers[s].callbacks.n \in Int
      BY <1>1 DEF Handlers, Lists
    <3>3. /\ s \notin excused' => handler.status # "EMPTY"
          /\ handler.callbacks.cursor = log_handlers[s].callbacks.cursor
          /\ handler.callbacks.n >= log_handlers[s].callbacks.n
      BY <3>1
    <3>4. rx.pc = "cbcount" => handler.callbacks.n >= 0
      BY <2>1, <3>1, <3>2, <3>3
    <3> QED
      BY <2>1, <2>3, <3>1, <3>3, <3>4
  <2> QED
    BY <2>2, <2>3
<1> QED
  BY <1>3, <1>4 DEF SoundInv

LEMMA SoundRegister ==
  ASSUME TypeInv, SoundInv, NEW id \in MessageIds, Register(id)
  PROVE  SoundInv'
<1> DEFINE new == [status |-> "INACTIVE", id |-> id, callbacks |-> NewList,
                   recent_message |-> TRUE]
<1>1. PICK s \in Slots : s = First(EmptySlots) /\ log_handlers[s].status = "EMPTY"
  BY FirstInSet DEF Register, MayRegister, EmptySlots
<1>2. new \in Handlers
  BY ListTypes DEF Handlers, Statuses
<1>3. /\ Set(s, new) /\ UNCHANGED rx
      /\ excused' = IF id = 0 THEN excused \cup {s} ELSE excused \ {s}
      /\ touched' = (touched \/ InCallbacks(s))
      /\ Found(id) = {}
  BY <1>1 DEF Register, Command, MayRegister
<1> HIDE DEF new
<1>4. CASE id = 0
  BY <1>1, <1>2, <1>3, <1>4, CommandKept
<1>5. CASE id # 0
  <2>1. log_handlers \in [Slots -> Handlers]
    BY DEF TypeInv, GpsTypeOK
  <2>2. log_handlers'[s] = new /\ \A t \in Slots \ {s} : log_handlers'[t] = log_handlers[t]
    BY <1>1, <1>3, <2>1 DEF Set
  <2>3. \A t \in Slots : log_handlers[t].status = "EMPTY" \/ log_handlers[t].id # id
    BY <1>3, <1>5, FoundNone DEF Named
  <2>4. excused' = excused \ {s}
    BY <1>3, <1>5
  <2>5. new.status = "INACTIVE" /\ new.id = id /\ new.recent_message
    BY DEF new
  <2>6. SoundSlot(s)'
    BY <1>5, <2>2, <2>3, <2>5 DEF SoundSlot
  <2>7. ASSUME NEW t \in Slots \ excused, t # s PROVE SoundSlot(t)'
    <3>1. SoundSlot(t) /\ log_handlers'[t] = log_handlers[t]
      BY <2>2, <2>7 DEF SoundInv, SlotSound
    <3>2. CASE log_handlers[t] = Empty
      BY <3>1, <3>2 DEF SoundSlot
    <3>3. CASE log_handlers[t] # Empty
      <4>1. /\ log_handlers[t].status # "EMPTY" /\ log_handlers[t].id # 0
            /\ log_handlers[t].recent_message
            /\ \A u \in Slots \ (excused \cup {t}) :
                 log_handlers[u].status = "EMPTY" \/ log_handlers[u].id # log_handlers[t].id
        BY <3>1, <3>3 DEF SoundSlot
      <4>2. log_handlers'[s].id # log_handlers'[t].id
        BY <2>2, <2>3, <2>5, <3>1, <4>1
      <4>3. \A u \in Slots \ (excused' \cup {t}) :
              log_handlers'[u].status = "EMPTY" \/ log_handlers'[u].id # log_handlers'[t].id
        BY <2>2, <2>4, <3>1, <4>1, <4>2
      <4> QED
        BY <3>1, <4>1, <4>3 DEF SoundSlot
    <3> QED
      BY <3>2, <3>3
  <2>8. SlotSound'
    BY <2>4, <2>6, <2>7 DEF SlotSound
  <2>9. CallbackInv'
    <3>1. CASE InCallbacks(s)
      BY <1>3, <3>1 DEF CallbackInv
    <3>2. CASE ~InCallbacks(s)
      <4>1. rx.pc \in CallbackPcs => rx.slot \in Slots \ {s}
        BY <3>2 DEF InCallbacks, CallbackPcs, TypeInv
      <4>2. rx.pc \in CallbackPcs => Handler' = Handler
        BY <1>3, <2>2, <4>1 DEF Handler
      <4> QED
        BY <1>3, <2>4, <3>2, <4>1, <4>2 DEF CallbackInv, SoundInv
    <3> QED
      BY <3>1, <3>2
  <2> QED
    BY <2>8, <2>9 DEF SoundInv
<1> QED
  BY <1>4, <1>5

LEMMA SoundCommand ==
  ASSUME TypeInv, SoundInv, GroundCommand
  PROVE  SoundInv'
<1>0. log_handlers \in [Slots -> Handlers] /\ touched \in BOOLEAN
  BY DEF TypeInv, GpsTypeOK
<1>1. ASSUME NEW id \in MessageIds, Register(id) PROVE SoundInv'
  BY <1>1, SoundRegister
<1>2. ASSUME NEW id \in MessageIds, NEW listed \in BOOLEAN, RegisterNoMemory(id, listed)
      PROVE  SoundInv'
  <2> DEFINE s == First(EmptySlots)
  <2>1. s \in Slots /\ log_handlers[s].status = "EMPTY"
    BY <1>2, FirstInSet DEF RegisterNoMemory, MayRegister, EmptySlots
  <2>2. /\ Set(s, NoMemory(log_handlers[s], listed)) /\ UNCHANGED <<rx, excused>>
        /\ touched' = (touched \/ InCallbacks(s))
    BY <1>2 DEF RegisterNoMemory, Command
  <2> HIDE DEF s
  <2>3. NoMemory(log_handlers[s], listed) \in Handlers
    BY <1>0, <2>1, ListTypes DEF NoMemory, Handlers
  <2>4. s \notin excused => log_handlers[s] = Empty
    BY <2>1 DEF SoundInv, SlotSound, SoundSlot
  <2>5. NoMemory(Empty, listed) = Empty
    <3>1. \A g, h \in Handlers : g.status = h.status /\ g.id = h.id /\ g.callbacks = h.callbacks
                                /\ g.recent_message = h.recent_message => g = h
      BY DEF Handlers
    <3>2. NoMemory(Empty, listed) \in Handlers
      BY EmptyType, ListTypes DEF NoMemory, Handlers
    <3>3. /\ Empty.status = NoMemory(Empty, listed).status
          /\ Empty.id = NoMemory(Empty, listed).id
          /\ Empty.callbacks = NoMemory(Empty, listed).callbacks
          /\ Empty.recent_message = NoMemory(Empty, listed).recent_message
      BY DEF NoMemory, Empty
    <3> QED
      BY <3>1, <3>2, <3>3, EmptyType
  <2>6. s \notin excused' => Kept(s)
    BY <1>0, <2>1, <2>2, <2>4, <2>5 DEF Kept, Set
  <2> QED
    BY <2>1, <2>2, <2>3, <2>6, CommandKept
<1>3. ASSUME NEW id \in MessageIds, Unregister(id) PROVE SoundInv'
  <2>1. PICK s \in Slots : Set(s, Empty) /\ touched' = (touched \/ InCallbacks(s))
    BY <1>3 DEF Unregister, Found
  <2>2. Kept(s)
    BY <1>0, <2>1 DEF Kept, Set
  <2> QED
    BY <1>3, <2>1, <2>2, EmptyType, CommandKept DEF Unregister, Command
<1>4. ASSUME NEW id \in MessageIds, AddCallback(id) PROVE SoundInv'
  <2>1. PICK s \in Slots :
          /\ log_handlers[s].status # "EMPTY"
          /\ log_handlers[s].callbacks.n \in 0 .. MaxCallbacks - 1
          /\ Set(s, [log_handlers[s] EXCEPT !.callbacks.n = @ + 1])
    BY <1>4 DEF AddCallback, Found, Named
  <2> DEFINE handler == [log_handlers[s] EXCEPT !.callbacks.n = @ + 1]
  <2>2. handler \in Handlers
    BY <1>0, <2>1, GpsAssumption DEF Handlers, Lists
  <2>3. /\ handler.status = log_handlers[s].status /\ handler.id = log_handlers[s].id
        /\ handler.recent_message = log_handlers[s].recent_message
        /\ handler.callbacks.cursor = log_handlers[s].callbacks.cursor
        /\ handler.callbacks.n >= log_handlers[s].callbacks.n
    BY <1>0, <2>1 DEF Handlers, Lists
  <2>4. Set(s, handler)
    BY <2>1
  <2> HIDE DEF handler
  <2>5. Kept(s)
    BY <1>0, <2>1, <2>3, <2>4 DEF Kept, Set
  <2> QED
    BY <1>4, <2>1, <2>2, <2>3, <2>4, <2>5, CommandKept DEF AddCallback, Command
<1>5. ASSUME NEW id \in MessageIds, NEW list \in {NewList, NullList}, ClearCallbacks(id, list)
      PROVE  SoundInv'
  <2>1. PICK s \in Slots :
          /\ log_handlers[s].status # "EMPTY"
          /\ Set(s, [log_handlers[s] EXCEPT !.callbacks = list])
          /\ touched' = (touched \/ InCallbacks(s))
    BY <1>5 DEF ClearCallbacks, Found, Named
  <2>2. [log_handlers[s] EXCEPT !.callbacks = list] \in Handlers
    BY <1>0, ListTypes DEF Handlers
  <2>3. Kept(s)
    BY <1>0, <2>1 DEF Kept, Set, Handlers
  <2> QED
    BY <1>5, <2>1, <2>2, <2>3, CommandKept DEF ClearCallbacks, Command
<1>6. ASSUME NEW s \in Slots, NEW status \in Statuses, log_handlers[s].status # "EMPTY",
             Set(s, [log_handlers[s] EXCEPT !.status = status]),
             excused' = IF status = "EMPTY" THEN excused \cup {s} ELSE excused,
             UNCHANGED <<rx, touched>>
      PROVE  SoundInv'
  <2> DEFINE handler == [log_handlers[s] EXCEPT !.status = status]
  <2>1. handler \in Handlers
    BY <1>0 DEF Handlers
  <2>2. /\ handler.status = status /\ handler.id = log_handlers[s].id
        /\ handler.recent_message = log_handlers[s].recent_message
        /\ handler.callbacks = log_handlers[s].callbacks
    BY <1>0 DEF Handlers
  <2>3. Set(s, handler)
    BY <1>6
  <2>4. handler.callbacks.n >= log_handlers[s].callbacks.n
    BY <1>0, <2>2 DEF Handlers, Lists
  <2> HIDE DEF handler
  <2>5. s \notin excused' => Kept(s)
    BY <1>0, <1>6, <2>2, <2>3 DEF Kept, Set
  <2>6. s \notin excused' => handler.status # "EMPTY"
    BY <1>6, <2>2
  <2> QED
    BY <1>6, <2>1, <2>2, <2>3, <2>4, <2>5, <2>6, CommandKept
<1>7. ASSUME NEW id \in MessageIds, NEW status \in {"ACTIVE", "INACTIVE", "DORMANT"},
             NEW wakeup \in BOOLEAN, SetStatus(id, status, wakeup)
      PROVE  SoundInv'
  <2>1. PICK s \in Slots : log_handlers[s].status # "EMPTY"
                           /\ Set(s, [log_handlers[s] EXCEPT !.status = status])
    BY <1>7 DEF SetStatus, Found, Named
  <2>2. status \in Statuses /\ status # "EMPTY"
    BY DEF Statuses
  <2> QED
    BY <1>6, <1>7, <2>1, <2>2 DEF SetStatus, Command
<1>8. ASSUME NEW id \in MessageIds, NEW status \in Statuses, Override(id, status)
      PROVE  SoundInv'
  <2>1. PICK s \in Slots :
          /\ log_handlers[s].status # "EMPTY"
          /\ Set(s, [log_handlers[s] EXCEPT !.status = status])
          /\ excused' = IF status = "EMPTY" THEN excused \cup {s} ELSE excused
    BY <1>8 DEF Override, Found, Named
  <2> QED
    BY <1>6, <1>8, <2>1 DEF Override, Command
<1>9. ASSUME NEW from \in {"ACTIVE", "INACTIVE"}, NEW to \in {"ACTIVE", "INACTIVE"},
             SetAll(from, to)
      PROVE  SoundInv'
  <2>1. ASSUME NEW s \in Slots
        PROVE  /\ Kept(s)
               /\ log_handlers'[s].callbacks = log_handlers[s].callbacks
               /\ log_handlers'[s].status = "EMPTY" <=> log_handlers[s].status = "EMPTY"
    BY <1>0, <1>9 DEF SetAll, Kept, Handlers
  <2>2. UNCHANGED <<rx, touched, excused>>
    BY <1>9 DEF SetAll, Command
  <2>3. SlotSound'
    BY <2>1, <2>2, SoundKept DEF SoundInv
  <2>4. CallbackInv'
    BY <2>1, <2>2 DEF CallbackInv, SoundInv, TypeInv, Handler
  <2> QED
    BY <2>3, <2>4 DEF SoundInv
<1> QED
  BY <1>1, <1>2, <1>3, <1>4, <1>5, <1>7, <1>8, <1>9 DEF GroundCommand, Statuses

\* The task marks a handler broken only when its list was taken away, and what
\* it marks then is excused.
LEMMA SoundBroken ==
  ASSUME TypeInv, SoundInv, rx.pc \in CallbackPcs, MarkBroken,
         touched \/ rx.slot \in excused \/ Handler.status # "EMPTY"
  PROVE  SoundInv'
<1>0. log_handlers \in [Slots -> Handlers] /\ rx.slot \in Slots
  BY DEF TypeInv, GpsTypeOK
<1>1. rx'.pc = "check" /\ excused' = IF touched THEN excused \cup {rx.slot} ELSE excused
  BY RestTypes DEF MarkBroken, CallbacksEnd
<1>2. ASSUME NEW s \in Slots \ excused' PROVE Kept(s)
  <2>1. CASE s # rx.slot
    BY <1>0, <2>1 DEF MarkBroken, Set, Kept
  <2>2. CASE s = rx.slot
    <3>1. Handler.status # "EMPTY" /\ Handler = log_handlers[s]
      BY <1>1, <1>2, <2>2 DEF Handler
    <3> QED
      BY <1>0, <2>2, <3>1 DEF MarkBroken, Set, Kept, Handlers
  <2> QED
    BY <2>1, <2>2
<1>3. SlotSound'
  BY <1>1, <1>2, SoundKept DEF SoundInv
<1>4. CallbackInv'
  BY <1>1 DEF CallbackInv, CallbackPcs
<1> QED
  BY <1>3, <1>4 DEF SoundInv

\* Without a race the handler whose callbacks run is in use.
LEMMA RunningInUse ==
  ASSUME SoundInv, rx.pc \in CallbackPcs
  PROVE  touched \/ rx.slot \in excused \/ Handler.status # "EMPTY"
  BY DEF SoundInv, CallbackInv

LEMMA SoundRxTask ==
  ASSUME TypeInv, SoundInv, RxTask
  PROVE  SoundInv'
<1>0. log_handlers \in [Slots -> Handlers] /\ rx \in RxStates /\ touched \in BOOLEAN
  BY DEF TypeInv, GpsTypeOK
<1>1. ASSUME UNCHANGED <<log_handlers, excused>>, rx'.pc \notin CallbackPcs PROVE SoundInv'
  BY <1>1 DEF SoundInv, SlotSound, SoundSlot, CallbackInv
<1>2. CASE TaskStarts \/ TaskLoops \/ TaskLeaves \/ NothingToHandle \/ HandlerDeclines
  BY <1>0, <1>1, <1>2, RestTypes
  DEF TaskStarts, TaskLoops, TaskLeaves, NothingToHandle, HandlerDeclines, RxStates, CallbackPcs
<1>3. ASSUME NEW id \in MessageIds, LogArrives(id) PROVE SoundInv'
  BY <1>0, <1>1, <1>3 DEF LogArrives, RxStates, CallbackPcs
<1>4. CASE HandlerAccepts
  <2>1. PICK s \in Slots :
          /\ log_handlers[s].status # "EMPTY"
          /\ \/ /\ rx' = [rx EXCEPT !.pc = "cbcheck", !.slot = s]
                /\ UNCHANGED log_handlers
             \/ /\ ~log_handlers[s].recent_message
                /\ rx' = Idle
                /\ Set(s, [log_handlers[s] EXCEPT !.status = "BROKEN"])
    BY <1>4 DEF HandlerAccepts, Found, Named
  <2>2. UNCHANGED excused
    BY <1>4 DEF HandlerAccepts
  <2>3. CASE rx' = [rx EXCEPT !.pc = "cbcheck", !.slot = s] /\ UNCHANGED log_handlers
    <3>1. SlotSound'
      BY <2>2, <2>3 DEF SoundInv, SlotSound, SoundSlot
    <3>2. rx'.pc = "cbcheck" /\ Handler' = log_handlers[s]
      BY <1>0, <2>3 DEF RxStates, Handler
    <3>3. CallbackInv'
      BY <2>1, <3>2 DEF CallbackInv
    <3> QED
      BY <3>1, <3>3 DEF SoundInv
  <2>4. CASE rx' = Idle /\ Set(s, [log_handlers[s] EXCEPT !.status = "BROKEN"])
    <3>1. \A t \in Slots : Kept(t)
      BY <1>0, <2>1, <2>4 DEF Set, Kept, Handlers
    <3>2. SlotSound'
      BY <2>2, <3>1, SoundKept DEF SoundInv
    <3>3. CallbackInv'
      BY <2>4, RestTypes DEF CallbackInv, CallbackPcs
    <3> QED
      BY <3>2, <3>3 DEF SoundInv
  <2> QED
    BY <2>1, <2>3, <2>4
<1>5. CASE CallbacksChecked
  <2>1. CASE CallbacksEnd
    BY <1>1, <1>5, <2>1, RestTypes DEF CallbacksChecked, CallbacksEnd, CallbackPcs
  <2>2. CASE ~(Handler.callbacks.n < 0) /\ rx' = [rx EXCEPT !.pc = "cbcount"] /\ UNCHANGED touched
    <3>1. rx.pc \in CallbackPcs /\ UNCHANGED <<log_handlers, excused>>
      BY <1>5 DEF CallbacksChecked, CallbackPcs
    <3>2. rx'.pc = "cbcount" /\ rx'.slot = rx.slot /\ Handler' = Handler
      BY <1>0, <2>2, <3>1 DEF RxStates, Handler
    <3>3. Handler.callbacks.n >= 0
      BY <1>0, <2>2, <3>1 DEF TypeInv, Handler, Handlers, Lists
    <3>4. CallbackInv'
      BY <2>2, <3>1, <3>2, <3>3 DEF CallbackInv, SoundInv
    <3>5. SlotSound'
      BY <3>1 DEF SoundInv, SlotSound, SoundSlot
    <3> QED
      BY <3>4, <3>5 DEF SoundInv
  <2> QED
    BY <1>5, <2>1, <2>2 DEF CallbacksChecked
<1>6. ASSUME NEW list \in Lists, rx.pc \in CallbackPcs, Handler.callbacks # NullList,
             Set(rx.slot, [Handler EXCEPT !.callbacks = list]), list.cursor # 0,
             rx'.slot = rx.slot, rx'.pc = "cbrun", UNCHANGED <<touched, excused>>
      PROVE  SoundInv'
  <2>0. rx.slot \in Slots /\ Handler = log_handlers[rx.slot]
    BY <1>6 DEF TypeInv, Handler
  <2>1. rx.slot \notin excused => Handler.status # "EMPTY"
    BY <1>6, <2>0 DEF SoundInv, SlotSound, SoundSlot, Empty
  <2>2. \A s \in Slots \ excused' : Kept(s)
    BY <1>0, <1>6, <2>0, <2>1 DEF Set, Kept, Handlers
  <2>3. SlotSound'
    BY <1>6, <2>2, SoundKept DEF SoundInv
  <2>4. Handler' = [Handler EXCEPT !.callbacks = list]
    BY <1>0, <1>6, <2>0 DEF Set, Handler
  <2>5. Handler'.status = Handler.status /\ Handler'.callbacks = list
    BY <1>0, <2>0, <2>4 DEF Handlers
  <2>6. CallbackInv'
    BY <1>6, <2>1, <2>5 DEF CallbackInv
  <2> QED
    BY <2>3, <2>6 DEF SoundInv
<1>7. CASE CallbacksCounted
  <2>0. rx.pc \in CallbackPcs /\ rx.slot \in Slots
    BY <1>7 DEF CallbacksCounted, CallbackPcs, TypeInv
  <2>1. CASE MarkBroken
    BY <2>0, <2>1, SoundBroken, RunningInUse
  <2>2. CASE CallbacksEnd /\ UNCHANGED <<log_handlers, excused>>
    BY <1>1, <2>2, RestTypes DEF CallbacksEnd, CallbackPcs
  <2>3. CASE /\ Handler.callbacks.n > 0
             /\ Set(rx.slot, [Handler EXCEPT !.callbacks = ToHead(@)])
             /\ rx' = [rx EXCEPT !.pc = "cbrun", !.ncb = Handler.callbacks.n, !.i = 0]
             /\ UNCHANGED <<touched, excused>>
    <3>1. Handler.callbacks \in Lists
      BY <1>0, <2>0 DEF Handler, Handlers
    <3>2. ToHead(Handler.callbacks) \in Lists /\ ToHead(Handler.callbacks).cursor # 0
      BY <2>3, <3>1, ListTypes DEF ToHead, Lists
    <3>3. Handler.callbacks # NullList
      BY <2>3 DEF NullList
    <3>4. rx'.slot = rx.slot /\ rx'.pc = "cbrun"
      BY <1>0, <2>3 DEF RxStates
    <3>5. [Handler EXCEPT !.callbacks = ToHead(@)]
            = [Handler EXCEPT !.callbacks = ToHead(Handler.callbacks)]
      OBVIOUS
    <3> QED
      BY <1>6, <2>0, <2>3, <3>2, <3>3, <3>4, <3>5
  <2> QED
    BY <1>7, <2>1, <2>2, <2>3 DEF CallbacksCounted
<1>8. CASE CallbackRuns
  <2>0. rx.pc \in CallbackPcs /\ rx.slot \in Slots /\ rx.pc = "cbrun"
    BY <1>8 DEF CallbackRuns, CallbackPcs, TypeInv
  <2>1. CASE MarkBroken
    BY <2>0, <2>1, SoundBroken, RunningInUse
  <2>2. CASE CallbacksEnd /\ UNCHANGED <<log_handlers, excused>>
    BY <1>1, <2>2, RestTypes DEF CallbacksEnd, CallbackPcs
  <2>3. CASE /\ Handler.callbacks.cursor # 0
             /\ Set(rx.slot, [Handler EXCEPT !.callbacks = ToNext(@)])
             /\ rx' = [rx EXCEPT !.i = @ + 1]
             /\ UNCHANGED <<touched, excused>>
    <3>1. Handler.callbacks \in Lists
      BY <1>0, <2>0 DEF Handler, Handlers
    <3>2. ToNext(Handler.callbacks) \in Lists /\ ToNext(Handler.callbacks).cursor # 0
      BY <2>3, <3>1, ListTypes DEF ToNext, Lists
    <3>3. Handler.callbacks # NullList
      BY <2>3 DEF NullList
    <3>4. rx'.slot = rx.slot /\ rx'.pc = "cbrun"
      BY <1>0, <2>0, <2>3 DEF RxStates
    <3>5. [Handler EXCEPT !.callbacks = ToNext(@)]
            = [Handler EXCEPT !.callbacks = ToNext(Handler.callbacks)]
      OBVIOUS
    <3> QED
      BY <1>6, <2>0, <2>3, <3>2, <3>3, <3>4, <3>5
  <2> QED
    BY <1>8, <2>1, <2>2, <2>3 DEF CallbackRuns
<1>9. CASE CallbacksDone
  BY <1>1, <1>9, RestTypes DEF CallbacksDone, CallbacksEnd, CallbackPcs
<1> QED
  BY <1>2, <1>3, <1>4, <1>5, <1>7, <1>8, <1>9 DEF RxTask

LEMMA SoundStep == TypeInv /\ LifeInv /\ SoundInv /\ [Next]_vars => SoundInv'
<1> SUFFICES ASSUME TypeInv, LifeInv, SoundInv, [Next]_vars PROVE SoundInv'
  OBVIOUS
<1>1. ASSUME UNCHANGED <<log_handlers, excused, touched>>, rx' = rx \/ rx'.pc \notin CallbackPcs
      PROVE  SoundInv'
  <2>1. SlotSound'
    BY <1>1 DEF SoundInv, SlotSound, SoundSlot
  <2>2. CallbackInv'
    BY <1>1 DEF SoundInv, CallbackInv, Handler
  <2> QED
    BY <2>1, <2>2 DEF SoundInv
<1>2. CASE OpenDevice
  <2>0. rx' = rx /\ rx.pc = "none" /\ UNCHANGED excused
    BY <1>2 DEF OpenDevice, LifeInv
  <2>1. PICK done \in 0 .. HANDLER_MAX : \E ids \in [1 .. done -> BuiltinIds] :
          /\ \A j, k \in 1 .. done : ids[j] = ids[k] => j = k
          /\ log_handlers' = WithBuiltins(done, ids)
    BY <1>2 DEF OpenDevice
  <2>2. PICK ids \in [1 .. done -> BuiltinIds] :
          /\ \A j, k \in 1 .. done : ids[j] = ids[k] => j = k
          /\ log_handlers' = WithBuiltins(done, ids)
    BY <2>1
  <2>3. \A s \in Slots : s > done \/ s \in 1 .. done
    BY GpsAssumption DEF Slots
  <2>4. \A s \in 1 .. done : ids[s] # 0
    BY <2>2, GpsAssumption
  <2>5. ASSUME NEW s \in Slots
        PROVE  \/ s > done /\ log_handlers'[s] = Empty
               \/ /\ s \in 1 .. done /\ log_handlers'[s].status = "ACTIVE"
                  /\ log_handlers'[s].id = ids[s] /\ log_handlers'[s].recent_message
    BY <2>2, <2>3 DEF WithBuiltins
  <2>6. ASSUME NEW s \in Slots PROVE SoundSlot(s)'
    <3>1. CASE log_handlers'[s] = Empty
      BY <3>1 DEF SoundSlot
    <3>2. CASE log_handlers'[s] # Empty
      <4>1. /\ s \in 1 .. done /\ log_handlers'[s].status = "ACTIVE"
            /\ log_handlers'[s].id = ids[s] /\ log_handlers'[s].recent_message
        BY <2>5, <3>2
      <4>2. Empty.status = "EMPTY"
        BY DEF Empty
      <4>3. ASSUME NEW t \in Slots, t # s
            PROVE  log_handlers'[t].status = "EMPTY" \/ log_handlers'[t].id # log_handlers'[s].id
        <5>1. CASE log_handlers'[t] = Empty
          BY <4>2, <5>1
        <5>2. CASE log_handlers'[t] # Empty
          BY <2>2, <2>5, <4>1, <4>3, <5>2
        <5> QED
          BY <5>1, <5>2
      <4> QED
        BY <2>4, <4>1, <4>3 DEF SoundSlot
    <3> QED
      BY <3>1, <3>2
  <2>7. SlotSound'
    BY <2>6 DEF SlotSound
  <2>8. CallbackInv'
    BY <2>0 DEF CallbackInv, CallbackPcs
  <2> QED
    BY <2>7, <2>8 DEF SoundInv
<1>3. CASE InitFails \/ \E created \in BOOLEAN : CreateChildTask(created)
  <2>1. rx' = rx \/ rx'.pc = "created"
    BY <1>3 DEF InitFails, CreateChildTask, TypeInv, GpsTypeOK, RxStates
  <2> QED
    BY <1>1, <1>3, <2>1 DEF InitFails, CreateChildTask, CallbackPcs
<1>4. CASE AppEnds \/ ServiceShutdown \/ UNCHANGED vars
  BY <1>1, <1>4 DEF AppEnds, ServiceShutdown, StopTask, JoinEnds, Release, ClosePort, vars
<1> QED
  BY <1>2, <1>3, <1>4, SoundCommand, SoundRxTask DEF Next, ServiceInit

GpsInv == TypeInv /\ LifeInv /\ SoundInv

LEMMA GpsInvariant == Spec => []GpsInv
<1>1. Init => SoundInv
  BY DEF Init, SoundInv, SlotSound, SoundSlot, CallbackInv, NotRunning, CallbackPcs
<1>2. Init => GpsInv
  BY <1>1, TypeInit, LifeInit DEF GpsInv
<1>3. GpsInv /\ [Next]_vars => GpsInv'
  BY TypeStep, LifeStep, SoundStep DEF GpsInv
<1> QED
  BY <1>2, <1>3, PTL DEF Spec

\* No sequence of commands, logs and failed allocations gives two handlers one
\* identifier or loses the memory of a handler, in a table of any size.
THEOREM TableSound == Spec => []SlotSound
<1>1. GpsInv => SlotSound
  BY DEF GpsInv, SoundInv
<1> QED
  BY <1>1, GpsInvariant, PTL

\* The table of handlers stays well-formed and sound over any sequence of
\* commands, logs and allocations that fail.
THEOREM HandlersAreSound == Spec => []HandlersSound
<1>1. GpsTypeOK /\ SlotSound => HandlersSound
  BY DEF HandlersSound
<1> QED
  BY <1>1, GpsTypeCorrect, TableSound, PTL

\* Without a command that takes its list away, a handler is never taken out of
\* service by execute_callbacks, however many callbacks it has.
THEOREM NoBreakWithoutRace == Spec => BrokenOnlyInRace
<1> DEFINE Breaks(s) == /\ log_handlers'[s].status = "BROKEN" /\ log_handlers[s].status # "BROKEN"
                        /\ rx' # rx
           Allowed == \A s \in Slots : Breaks(s) => touched \/ s \in excused
<1>1. ASSUME GpsInv, [Next]_vars PROVE [Allowed]_vars
  <2> SUFFICES ASSUME Next, NEW s \in Slots, Breaks(s), ~touched PROVE s \in excused
    BY <1>1
  <2>0. log_handlers \in [Slots -> Handlers] /\ rx \in RxStates
    BY <1>1 DEF GpsInv, TypeInv, GpsTypeOK
  <2>1. log_handlers' # log_handlers /\ rx' # rx
    OBVIOUS
  <2>2. HandlerAccepts \/ CallbacksCounted \/ CallbackRuns
    BY <2>1 DEF Next, ServiceInit, InitFails, OpenDevice, CreateChildTask, AppEnds,
       ServiceShutdown, StopTask, JoinEnds, Release, ClosePort, GroundCommand, Command,
       Register, RegisterNoMemory, Unregister, AddCallback, ClearCallbacks, SetStatus, Override,
       SetAll, RxTask, TaskStarts, TaskLoops, TaskLeaves, NothingToHandle, LogArrives,
       HandlerDeclines, CallbacksChecked, CallbacksDone
  <2>3. CASE HandlerAccepts
    <3>1. PICK t \in Slots : /\ log_handlers[t].status # "EMPTY"
                             /\ ~log_handlers[t].recent_message
                             /\ Set(t, [log_handlers[t] EXCEPT !.status = "BROKEN"])
      BY <2>1, <2>3 DEF HandlerAccepts, Found, Named
    <3>2. t = s
      BY <2>0, <3>1 DEF Set
    <3>3. Empty.status = "EMPTY"
      BY DEF Empty
    <3> QED
      BY <1>1, <3>1, <3>2, <3>3 DEF GpsInv, SoundInv, SlotSound, SoundSlot
  <2>4. CASE CallbacksCounted
    <3>0. rx.pc = "cbcount" /\ rx.slot \in Slots
      BY <1>1, <2>4 DEF CallbacksCounted, GpsInv, TypeInv, CallbackPcs
    <3>1. Handler.callbacks.n >= 0 /\ Handler.callbacks.n \in Int
      BY <1>1, <2>0, <3>0
      DEF GpsInv, SoundInv, CallbackInv, CallbackPcs, Handler, Handlers, Lists
    <3>2. Set(rx.slot, [Handler EXCEPT !.callbacks = ToHead(@)])
      BY <2>1, <2>4, <3>1 DEF CallbacksCounted
    <3>3. log_handlers'[s].status = log_handlers[s].status
      BY <2>0, <3>0, <3>2 DEF Set, Handler, Handlers
    <3> QED
      BY <3>3
  <2>5. CASE CallbackRuns
    <3>0. rx.pc = "cbrun" /\ rx.slot \in Slots
      BY <1>1, <2>5 DEF CallbackRuns, GpsInv, TypeInv, CallbackPcs
    <3>1. Handler.callbacks.cursor # 0
      BY <1>1, <3>0 DEF GpsInv, SoundInv, CallbackInv, CallbackPcs
    <3>2. Set(rx.slot, [Handler EXCEPT !.callbacks = ToNext(@)])
      BY <2>1, <2>5, <3>1 DEF CallbackRuns
    <3>3. log_handlers'[s].status = log_handlers[s].status
      BY <2>0, <3>0, <3>2 DEF Set, Handler, Handlers
    <3> QED
      BY <3>3
  <2> QED
    BY <2>2, <2>3, <2>4, <2>5
<1> QED
  BY <1>1, GpsInvariant, PTL DEF Spec, BrokenOnlyInRace
=============================================================================
