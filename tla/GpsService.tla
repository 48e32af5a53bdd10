----------------------------- MODULE GpsService -----------------------------
(***************************************************************************)
(* The GPS application (apps/gps): the life of the receiver's device and   *)
(* of the receive task, from GPS_ServiceInit to GPS_ServiceShutdown, and   *)
(* the table of log handlers, which ground commands change while the       *)
(* receive task hands the receiver's logs to it.                           *)
(*                                                                         *)
(* The table has a mutex, which every operation holds from its first line  *)
(* to its last: such an operation is one step.  The callbacks of a handler *)
(* run after the mutex has been released; there a step is one look at the  *)
(* handler, and memory freed in the middle of a look is beyond the model.  *)
(* Counters, the stored messages and what a callback does are left out.    *)
(***************************************************************************)
EXTENDS Integers

CONSTANTS
  HANDLER_MAX,   \* OEM_LOG_HANDLER_MAX
  MessageIds,    \* identifiers that commands and logs may carry, 0 among them
  BuiltinIds,    \* identifiers in BuiltinLogCallbacks
  MaxCallbacks   \* bound: callbacks of one handler

ASSUME GpsAssumption ==
  /\ HANDLER_MAX \in Nat \ {0}
  /\ MessageIds \subseteq Nat
  /\ BuiltinIds \subseteq MessageIds \ {0}
  /\ MaxCallbacks \in Nat \ {0}

VARIABLES
  main,         \* the main task: its place, whether Shutdown ends the application, and
                \* as history whether the last wait for the receive task was given up
  RxTaskRun,
  RxTaskAlive,
  serial,       \* ports[].initialized
  iface,        \* interfaces[].initialized
  rx,           \* the receive task: its place, and the variables of execute_callbacks
  log_handlers,
  touched,      \* history: a command freed the list whose callbacks are running
  excused       \* history: slots that a race or a command has spoiled

lifeVars == <<main, RxTaskRun, RxTaskAlive, serial, iface>>
vars == <<lifeVars, rx, log_handlers, touched, excused>>

Slots == 1 .. HANDLER_MAX

\* A list of callbacks: how many, and where the cursor stands, 0 for nowhere.
NewList == [n |-> 0, cursor |-> 0]
NullList == [n |-> -1, cursor |-> 0]

Empty == [status |-> "EMPTY", id |-> 0, callbacks |-> NullList, recent_message |-> FALSE]

NotRunning == [pc |-> "none", id |-> 0, slot |-> 0, ncb |-> 0, i |-> 0]

Init ==
  /\ main = [pc |-> "init", last |-> FALSE, gaveUp |-> FALSE]
  /\ RxTaskRun = TRUE
  /\ RxTaskAlive = FALSE
  /\ serial = FALSE
  /\ iface = FALSE
  /\ rx = NotRunning
  /\ log_handlers = [s \in Slots |-> Empty]
  /\ touched = FALSE
  /\ excused = {}

-----------------------------------------------------------------------------
(* GPS_ServiceInit.  Whatever fails, the application goes on.               *)

\* The mutex of the counters, the log layer, the port or the interface could
\* not be had; a port that was opened is closed again.
InitFails ==
  /\ main.pc = "init"
  /\ main' = [main EXCEPT !.pc = "run"]
  /\ RxTaskRun' = FALSE
  /\ UNCHANGED <<RxTaskAlive, serial, iface, rx, log_handlers, touched, excused>>

\* RegisterBuiltinLogs: those that could be registered get their callback and
\* are activated; one whose callback could not be attached is removed again.
WithBuiltins(done, ids) ==
  [s \in Slots |->
     IF s > done THEN Empty
     ELSE [status |-> "ACTIVE", id |-> ids[s],
           callbacks |-> [n |-> 1, cursor |-> 0], recent_message |-> TRUE]]

OpenDevice ==
  /\ main.pc = "init"
  /\ main' = [main EXCEPT !.pc = "create"]
  /\ serial' = TRUE
  /\ iface' = TRUE
  /\ \E done \in 0 .. HANDLER_MAX : \E ids \in [1 .. done -> BuiltinIds] :
       /\ \A j, k \in 1 .. done : ids[j] = ids[k] => j = k
       /\ log_handlers' = WithBuiltins(done, ids)
  /\ UNCHANGED <<RxTaskRun, RxTaskAlive, rx, touched, excused>>

CreateChildTask(created) ==
  /\ main.pc = "create"
  /\ main' = [main EXCEPT !.pc = IF created THEN "run" ELSE "stop"]
  /\ rx' = IF created THEN [rx EXCEPT !.pc = "created"] ELSE rx
  /\ UNCHANGED <<RxTaskRun, RxTaskAlive, serial, iface, log_handlers, touched, excused>>

-----------------------------------------------------------------------------
(* GPS_ServiceShutdown, when the task could not be created and at the end.  *)

AppEnds ==
  /\ main.pc = "run"
  /\ main' = [main EXCEPT !.pc = "stop", !.last = TRUE]
  /\ UNCHANGED <<RxTaskRun, RxTaskAlive, serial, iface, rx, log_handlers, touched, excused>>

Back == IF main.last THEN "exit" ELSE "run"

\* A mutant: the task is not told to stop.
Stopped_Forgotten == RxTaskRun

Stopped == FALSE

StopTask ==
  /\ main.pc = "stop"
  /\ RxTaskRun' = Stopped
  /\ main' = [main EXCEPT !.pc = "join"]
  /\ UNCHANGED <<RxTaskAlive, serial, iface, rx, log_handlers, touched, excused>>

\* The loop ends because the task has left the driver or because
\* GPS_PLATFORM_RX_JOIN_MS have passed; the flag is looked at once more.
JoinEnds ==
  /\ main.pc = "join"
  /\ main' = [main EXCEPT !.pc = "decide"]
  /\ UNCHANGED <<RxTaskRun, RxTaskAlive, serial, iface, rx, log_handlers, touched, excused>>

\* A mutant: the device is released whatever the task does.
MayRelease_Always == TRUE

MayRelease == ~RxTaskAlive

\* Between its first store and its last.
AtWork == rx.pc \notin {"none", "created", "done"}

Release ==
  /\ main.pc = "decide"
  /\ main' = [main EXCEPT !.pc = IF MayRelease THEN "close" ELSE Back, !.gaveUp = AtWork]
  /\ iface' = (iface /\ ~MayRelease)
  /\ UNCHANGED <<RxTaskRun, RxTaskAlive, serial, rx, log_handlers, touched, excused>>

\* A mutant: only the interface is deleted.
Closed_Forgotten == serial

Closed == FALSE

ClosePort ==
  /\ main.pc = "close"
  /\ main' = [main EXCEPT !.pc = Back]
  /\ serial' = Closed
  /\ UNCHANGED <<RxTaskRun, RxTaskAlive, iface, rx, log_handlers, touched, excused>>

-----------------------------------------------------------------------------
(* The table of handlers, as the ground commands change it.                 *)

\* get_handler_by_id: the first slot in use with that identifier, if there is
\* one; 0 names no handler.
Named(s, id) == id # 0 /\ log_handlers[s].status # "EMPTY" /\ log_handlers[s].id = id

Found(id) == { s \in Slots : Named(s, id) /\ \A t \in 1 .. s - 1 : ~Named(t, id) }

EmptySlots == { s \in Slots : log_handlers[s].status = "EMPTY" }

First(S) == CHOOSE s \in S : \A t \in S : s <= t

Command == main.pc = "run" /\ UNCHANGED <<lifeVars, rx>>

\* The callbacks of slot s are running.
InCallbacks(s) == rx.slot = s /\ rx.pc \in {"cbcheck", "cbcount", "cbrun"}

Set(s, handler) == log_handlers' = [log_handlers EXCEPT ![s] = handler]

\* A mutant: the identifier is not looked for first.
MayRegister_Any(id) == EmptySlots # {}

MayRegister(id) == Found(id) = {} /\ EmptySlots # {}

\* A command that names 0 makes a handler that no other operation can find.
Register(id) ==
  /\ Command
  /\ MayRegister(id)
  /\ LET s == First(EmptySlots)
     IN  /\ Set(s, [status |-> "INACTIVE", id |-> id, callbacks |-> NewList,
                    recent_message |-> TRUE])
         /\ excused' = IF id = 0 THEN excused \cup {s} ELSE excused \ {s}
         /\ touched' = (touched \/ InCallbacks(s))

\* A mutant: the list is not given back when there is no memory for the message.
NoMemory_KeepsList(handler, listed) ==
  [handler EXCEPT !.callbacks = IF listed THEN NewList ELSE NullList,
                  !.recent_message = IF listed THEN FALSE ELSE @]

\* No list, or a list that is given back because there is no message.
NoMemory(handler, listed) ==
  [handler EXCEPT !.callbacks = NullList, !.recent_message = IF listed THEN FALSE ELSE @]

RegisterNoMemory(id, listed) ==
  /\ Command
  /\ MayRegister(id)
  /\ Set(First(EmptySlots), NoMemory(log_handlers[First(EmptySlots)], listed))
  /\ touched' = (touched \/ InCallbacks(First(EmptySlots)))
  /\ UNCHANGED excused

Unregister(id) ==
  /\ Command
  /\ \E s \in Found(id) :
       /\ Set(s, Empty)
       /\ touched' = (touched \/ InCallbacks(s))
  /\ UNCHANGED excused

\* is_valid_transfer, for statuses other than EMPTY and BROKEN.
ValidTransfer(from, to, wakeup) ==
  /\ from \in {"ACTIVE", "INACTIVE", "DORMANT"}
  /\ from = "DORMANT" => wakeup /\ to = "INACTIVE"

\* Activate, deactivate, go dormant, wake up, and set_status without override.
SetStatus(id, status, wakeup) ==
  /\ Command
  /\ \E s \in Found(id) :
       /\ ValidTransfer(log_handlers[s].status, status, wakeup)
       /\ Set(s, [log_handlers[s] EXCEPT !.status = status])
  /\ UNCHANGED <<touched, excused>>

\* mark_broken, and set_status with override, which may even empty the slot
\* without giving its memory back.
Override(id, status) ==
  /\ Command
  /\ \E s \in Found(id) :
       /\ Set(s, [log_handlers[s] EXCEPT !.status = status])
       /\ excused' = IF status = "EMPTY" THEN excused \cup {s} ELSE excused
  /\ UNCHANGED touched

SetAll(from, to) ==
  /\ Command
  /\ log_handlers' = [s \in Slots |->
       IF log_handlers[s].status = from THEN [log_handlers[s] EXCEPT !.status = to]
                                        ELSE log_handlers[s]]
  /\ UNCHANGED <<touched, excused>>

AddCallback(id) ==
  /\ Command
  /\ \E s \in Found(id) :
       /\ log_handlers[s].callbacks.n \in 0 .. MaxCallbacks - 1
       /\ Set(s, [log_handlers[s] EXCEPT !.callbacks.n = @ + 1])
  /\ UNCHANGED <<touched, excused>>

\* The list is freed and another one made, if there is memory for it.
ClearCallbacks(id, list) ==
  /\ Command
  /\ \E s \in Found(id) :
       /\ Set(s, [log_handlers[s] EXCEPT !.callbacks = list])
       /\ touched' = (touched \/ InCallbacks(s))
  /\ UNCHANGED excused

-----------------------------------------------------------------------------
(* The receive task.                                                        *)

\* A mutant: the task says that it lives only when it has looked at RxTaskRun.
AliveAtStart_Late == RxTaskAlive

AliveAtStart == TRUE

TaskStarts ==
  /\ rx.pc = "created"
  /\ RxTaskAlive' = AliveAtStart
  /\ rx' = [rx EXCEPT !.pc = "check"]
  /\ UNCHANGED <<main, RxTaskRun, serial, iface, log_handlers, touched, excused>>

\* while (RxTaskRun)
TaskLoops ==
  /\ rx.pc = "check"
  /\ rx' = [rx EXCEPT !.pc = IF RxTaskRun THEN "driver" ELSE "leave"]
  /\ UNCHANGED <<lifeVars, log_handlers, touched, excused>>

\* A mutant: the task does not say that it has left.
AliveAtEnd_Forgotten == RxTaskAlive

AliveAtEnd == FALSE

TaskLeaves ==
  /\ rx.pc = "leave"
  /\ RxTaskAlive' = AliveAtEnd
  /\ rx' = [rx EXCEPT !.pc = "done"]
  /\ UNCHANGED <<main, RxTaskRun, serial, iface, log_handlers, touched, excused>>

\* The driver returns: nothing came, an error, an answer to a command.
NothingToHandle ==
  /\ rx.pc = "driver"
  /\ rx' = [rx EXCEPT !.pc = "check"]
  /\ UNCHANGED <<lifeVars, log_handlers, touched, excused>>

LogArrives(id) ==
  /\ rx.pc = "driver"
  /\ rx' = [rx EXCEPT !.pc = "handle", !.id = id]
  /\ UNCHANGED <<lifeVars, log_handlers, touched, excused>>

Idle == [NotRunning EXCEPT !.pc = "check"]

\* oem_log_do_handle up to the unlock: no handler, a handler that is not active,
\* or a log of the wrong length or without its CRC.
HandlerDeclines ==
  /\ rx.pc = "handle"
  /\ rx' = Idle
  /\ UNCHANGED <<lifeVars, log_handlers, touched, excused>>

\* The log is stored; a handler that has no memory for it is broken.
HandlerAccepts ==
  /\ rx.pc = "handle"
  /\ \E s \in Found(rx.id) :
       \/ /\ log_handlers[s].status = "ACTIVE" /\ log_handlers[s].recent_message
          /\ rx' = [rx EXCEPT !.pc = "cbcheck", !.slot = s]
          /\ UNCHANGED log_handlers
       \/ /\ log_handlers[s].status \in {"ACTIVE", "INACTIVE"} /\ ~log_handlers[s].recent_message
          /\ rx' = Idle
          /\ Set(s, [log_handlers[s] EXCEPT !.status = "BROKEN"])
  /\ touched' = FALSE
  /\ UNCHANGED <<lifeVars, excused>>

Handler == log_handlers[rx.slot]

CallbacksEnd == rx' = Idle /\ touched' = FALSE

\* Written without the mutex, whatever the slot holds by now.
MarkBroken ==
  /\ Set(rx.slot, [Handler EXCEPT !.status = "BROKEN"])
  /\ excused' = IF touched THEN excused \cup {rx.slot} ELSE excused
  /\ CallbacksEnd

\* handler->callbacks is there.
CallbacksChecked ==
  /\ rx.pc = "cbcheck"
  /\ IF Handler.callbacks.n < 0
     THEN CallbacksEnd
     ELSE rx' = [rx EXCEPT !.pc = "cbcount"] /\ UNCHANGED touched
  /\ UNCHANGED <<lifeVars, log_handlers, excused>>

\* A mutant: the cursor is left where it was.
ToHead_Forgotten(list) == list

ToHead(list) == IF list.n > 0 THEN [list EXCEPT !.cursor = 1] ELSE list

\* Their number is taken, and the cursor put at the first.
CallbacksCounted ==
  /\ rx.pc = "cbcount"
  /\ \/ Handler.callbacks.n < 0 /\ MarkBroken
     \/ Handler.callbacks.n = 0 /\ CallbacksEnd /\ UNCHANGED <<log_handlers, excused>>
     \/ /\ Handler.callbacks.n > 0
        /\ Set(rx.slot, [Handler EXCEPT !.callbacks = ToHead(@)])
        /\ rx' = [rx EXCEPT !.pc = "cbrun", !.ncb = Handler.callbacks.n, !.i = 0]
        /\ UNCHANGED <<touched, excused>>
  /\ UNCHANGED lifeVars

\* A mutant: the cursor runs past the last node.
ToNext_PastEnd(list) == IF list.cursor # 0 THEN [list EXCEPT !.cursor = @ + 1] ELSE list

ToNext(list) == IF list.cursor \in 1 .. list.n - 1 THEN [list EXCEPT !.cursor = @ + 1] ELSE list

\* One callback, and on to the next one unless it returns an error.
CallbackRuns ==
  /\ rx.pc = "cbrun" /\ rx.i < rx.ncb
  /\ \/ Handler.callbacks.cursor = 0 /\ MarkBroken
     \/ /\ Handler.callbacks.cursor # 0
        /\ Set(rx.slot, [Handler EXCEPT !.callbacks = ToNext(@)])
        /\ rx' = [rx EXCEPT !.i = @ + 1]
        /\ UNCHANGED <<touched, excused>>
     \/ Handler.callbacks.cursor # 0 /\ CallbacksEnd /\ UNCHANGED <<log_handlers, excused>>
  /\ UNCHANGED lifeVars

CallbacksDone ==
  /\ rx.pc = "cbrun" /\ rx.i = rx.ncb
  /\ CallbacksEnd
  /\ UNCHANGED <<lifeVars, log_handlers, excused>>

-----------------------------------------------------------------------------
ServiceInit ==
  InitFails \/ OpenDevice \/ \E created \in BOOLEAN : CreateChildTask(created)

ServiceShutdown == StopTask \/ JoinEnds \/ Release \/ ClosePort

GroundCommand ==
  \/ \E id \in MessageIds :
       \/ Register(id) \/ Unregister(id) \/ AddCallback(id)
       \/ \E listed \in BOOLEAN : RegisterNoMemory(id, listed)
       \/ \E list \in {NewList, NullList} : ClearCallbacks(id, list)
       \/ \E status \in {"ACTIVE", "INACTIVE", "DORMANT"}, wakeup \in BOOLEAN :
            SetStatus(id, status, wakeup)
       \/ \E status \in {"EMPTY", "ACTIVE", "INACTIVE", "DORMANT", "BROKEN"} :
            Override(id, status)
  \/ SetAll("INACTIVE", "ACTIVE") \/ SetAll("ACTIVE", "INACTIVE")

RxTask ==
  \/ TaskStarts \/ TaskLoops \/ TaskLeaves \/ NothingToHandle
  \/ \E id \in MessageIds : LogArrives(id)
  \/ HandlerDeclines \/ HandlerAccepts
  \/ CallbacksChecked \/ CallbacksCounted \/ CallbackRuns \/ CallbacksDone

Next == ServiceInit \/ AppEnds \/ ServiceShutdown \/ GroundCommand \/ RxTask

Spec == Init /\ [][Next]_vars

\* The scheduler runs both tasks: GPS_ServiceShutdown polls for a bounded time,
\* and the driver comes back within GPS_PLATFORM_RX_TIMEOUT_MS.
FairSpec == Spec /\ WF_vars(ServiceShutdown) /\ WF_vars(RxTask)

-----------------------------------------------------------------------------
Statuses == {"EMPTY", "ACTIVE", "INACTIVE", "DORMANT", "BROKEN"}

Lists == [n : -1 .. MaxCallbacks, cursor : 0 .. MaxCallbacks]

Handlers == [status : Statuses, id : MessageIds \cup {0}, callbacks : Lists,
             recent_message : BOOLEAN]

MainStates ==
  [pc : {"init", "create", "run", "stop", "join", "decide", "close", "exit"}, last : BOOLEAN,
   gaveUp : BOOLEAN]

RxStates ==
  [pc : {"none", "created", "check", "driver", "handle", "cbcheck", "cbcount", "cbrun",
         "leave", "done"},
   id : MessageIds \cup {0}, slot : Slots \cup {0}, ncb : 0 .. MaxCallbacks,
   i : 0 .. MaxCallbacks]

\* Every variable has its type.
GpsTypeOK ==
  /\ main \in MainStates
  /\ RxTaskRun \in BOOLEAN /\ RxTaskAlive \in BOOLEAN
  /\ serial \in BOOLEAN /\ iface \in BOOLEAN
  /\ rx \in RxStates
  /\ log_handlers \in [Slots -> Handlers]
  /\ touched \in BOOLEAN
  /\ excused \subseteq Slots

\* The task is inside oem_task_read_single_reply, which reads the port into the
\* buffer of the interface and hands the log to its handler from there.
InDriver == rx.pc \in {"driver", "handle", "cbcheck", "cbcount", "cbrun"}

\* The interface buffer and the port are there for as long as the receive task
\* is inside the driver, even when the application ends before the task has
\* taken its first step (the use-after-free that GPS_ServiceShutdown's comment
\* speaks of).
DeviceOpenInDriver == InDriver => iface /\ serial

\* Once GPS_ServiceShutdown has come to its end the device is released, whether
\* the receive task was never created, had not yet taken its first step or had
\* left; it is left open only for a task that was at work when the wait for it
\* was given up.  A device that has no task is released before the application
\* runs, and never one of its two halves alone.
DeviceReleased ==
  /\ main.pc \in {"run", "exit"} => iface = serial
  /\ main.pc \in {"run", "exit"} /\ rx.pc = "none" => ~serial
  /\ main.pc = "exit" /\ ~main.gaveUp => ~serial

\* The device is open for as long as the receive task is in the driver, and a
\* shutdown leaves it open for a task at work only.
DeviceSound == DeviceOpenInDriver /\ DeviceReleased

\* A slot in use has an identifier, a place for its message, and shares its
\* identifier with no other; an empty one owns neither list nor message, so
\* that registering there loses no memory.
SoundSlot(s) ==
  LET h == log_handlers[s]
  IN  \/ h = Empty
      \/ /\ h.status # "EMPTY" /\ h.id # 0 /\ h.recent_message
         /\ \A t \in Slots \ (excused \cup {s}) :
              log_handlers[t].status = "EMPTY" \/ log_handlers[t].id # h.id

\* Every slot is sound but those that a race with running callbacks, a
\* registration of 0 or an override has spoiled: no sequence of commands and
\* logs, and no allocation that fails, gives two handlers one identifier or
\* loses the memory of a handler.
SlotSound == \A s \in Slots \ excused : SoundSlot(s)

\* The table is well-formed and its unspoiled slots are sound.
HandlersSound == GpsTypeOK /\ SlotSound

\* The receive task takes a handler out of service only when a command freed or
\* replaced the list whose callbacks it was running: without that race, every
\* pass over the list finds its callbacks, however often the list was walked
\* before and whatever was added meanwhile.
BrokenOnlyInRace ==
  [][\A s \in Slots :
       /\ log_handlers'[s].status = "BROKEN" /\ log_handlers[s].status # "BROKEN"
       /\ rx' # rx
       => touched \/ s \in excused]_vars

\* GPS_ServiceShutdown always comes to its end, and a task that was told to stop
\* leaves the driver for good.
ShutdownEnds ==
  /\ main.pc = "stop" ~> main.pc \in {"run", "exit"}
  /\ main.pc = "stop" ~> rx.pc \in {"none", "done"}
=============================================================================
