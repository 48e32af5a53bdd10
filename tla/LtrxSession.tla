----------------------------- MODULE LtrxSession -----------------------------
(***************************************************************************)
(* The LTRX application: the session state machine of ltrx_session.c, run  *)
(* by the child task after each frame, together with the uplink and the    *)
(* downlink handlers and the commands of the main task, which reach the    *)
(* session through a queue of requests.                                    *)
(*                                                                         *)
(* rx is the mailbox s_LastRxType, s_LastRxStatus, s_LastRxMsgId; NoRx     *)
(* stands for s_HaveRx = false.  The report of a frame is entered by the   *)
(* handler; what SessionOnIcdRx and SessionNotifyUplinkOffered do to the   *)
(* session is the next step, both being the child task's own.  Outside a   *)
(* wait the report stays in the mailbox, but nothing reads it and StartWait *)
(* empties it: here it is gone by the end of the round, or with the abort   *)
(* or the reset that ends the wait.  Time is the fact that s_TimeoutMs have *)
(* passed since s_WaitStartMs (expired).                                    *)
(***************************************************************************)
EXTENDS LtrxDownlink, Sequences

CONSTANTS
  REQ_Q_DEPTH, \* LTRX_REQ_Q_DEPTH
  MaxRetry     \* s_MaxRetry

ASSUME SessionAssumption == REQ_Q_DEPTH \in Nat \ {0} /\ MaxRetry \in Nat

VARIABLES
  s_State,
  s_WaitKind,
  s_RetryCount,
  expired,   \* s_TimeoutMs have passed since s_WaitStartMs
  reqQ,      \* s_ReqQ
  silence    \* history: timeouts of this wait since the last frame

waitVars == <<s_WaitKind, s_RetryCount, expired, silence>>

sessVars == <<s_State, waitVars, reqQ>>

vars == <<upVars, downVars, sessVars>>

-----------------------------------------------------------------------------
(* Commands of the main task.                                               *)

\* A mutant: the queue is not looked at before a request is entered.
PushReq_Unchecked(type) == reqQ' = Append(reqQ, type)

PushReq(type) ==
  /\ Len(reqQ) < REQ_Q_DEPTH
  /\ reqQ' = Append(reqQ, type)

OnlyQueue == UNCHANGED <<upVars, down, pend, s_LastMsgId, s_DownlinkMsgId,
                         child, raced, s_State, waitVars>>

\* SESSION_START_DOWNLINK is checked first and queued afterwards.
StartDownlinkCheck ==
  /\ main.step = "idle"
  /\ ~down.inFlight
  /\ down.ready \/ pend.ready
  /\ main' = [AtRest EXCEPT !.step = "push"]
  /\ UNCHANGED reqQ
  /\ OnlyQueue

StartDownlinkPush ==
  /\ main.step = "push"
  /\ PushReq("START_DOWNLINK") \/ (Len(reqQ) = REQ_Q_DEPTH /\ UNCHANGED reqQ)
  /\ main' = AtRest
  /\ OnlyQueue

\* SESSION_ABORT and SESSION_RESET_STATE.
Request(type) ==
  /\ main.step = "idle"
  /\ PushReq(type)
  /\ UNCHANGED main
  /\ OnlyQueue

-----------------------------------------------------------------------------
(* The session.                                                             *)

StartWait(kind) ==
  /\ s_WaitKind' = kind
  /\ s_RetryCount' = 0
  /\ rx' = NoRx
  /\ expired' = FALSE
  /\ silence' = 0

SetState(state) == s_State' = state

\* The wait that goes with a state.
WaitOf(state) ==
  CASE state = "WAIT_BEACON_REQ" -> "TYPE3"
    [] state = "DL_IN_PROGRESS"  -> "DL_DONE11"
    [] state = "UL_OFFERED"      -> "UL_HEADER5"
    [] state = "UL_IN_PROGRESS"  -> "UL_PARTS"
    [] OTHER                     -> "NONE"

\* The wait ends and the state machine rests.  The retries and the time of a
\* wait mean nothing outside it.
NoWait ==
  /\ s_WaitKind' = "NONE"
  /\ s_RetryCount' = 0
  /\ expired' = FALSE
  /\ silence' = 0

EndWait(state) == NoWait /\ SetState(state)

AcceptsOffer == s_State \in {"IDLE", "COMPLETE", "ABORTED", "ERROR", "UL_COMPLETE"}

\* SessionOnIcdRx counts any frame as progress; after an offer that was answered
\* SessionNotifyUplinkOffered starts the wait for the header.
OnIcdRx ==
  /\ pc = "notify"
  /\ pc' = "tick"
  /\ IF rx.type = 6 /\ rx.status = 0 /\ AcceptsOffer
     THEN StartWait("UL_HEADER5") /\ SetState("UL_OFFERED")
     ELSE /\ expired' = FALSE
          /\ silence' = 0
          /\ rx' = IF s_WaitKind = "NONE" THEN NoRx ELSE rx
          /\ UNCHANGED <<s_State, s_WaitKind, s_RetryCount>>
  /\ UNCHANGED <<up, fwd, genuine, downVars, reqQ>>

\* SessionTick takes all requests first.
PopStart ==
  /\ pc = "tick"
  /\ reqQ # << >> /\ Head(reqQ) = "START_DOWNLINK"
  /\ reqQ' = Tail(reqQ)
  /\ s_DownlinkMsgId' = 0
  /\ StartWait("TYPE3")
  /\ SetState("WAIT_BEACON_REQ")
  /\ UNCHANGED <<up, fwd, genuine, pc, down, pend, s_LastMsgId, main, child, raced>>

\* A mutant: an abort leaves the wait as it was.
AbortWait_Keeps == UNCHANGED waitVars

AbortWait == NoWait

PopAbort ==
  /\ pc = "tick"
  /\ reqQ # << >> /\ Head(reqQ) = "ABORT"
  /\ reqQ' = Tail(reqQ)
  /\ AbortWait
  /\ ClearMessage("abort")
  /\ rx' = NoRx
  /\ UNCHANGED <<up, fwd, genuine, s_LastMsgId, s_DownlinkMsgId, main, s_State>>
  /\ Remember

ClearAborted ==
  /\ ClearInFlight("abort")
  /\ pc' = "tick"
  /\ SetState("ABORTED")
  /\ UNCHANGED <<up, rx, fwd, genuine, s_LastMsgId, s_DownlinkMsgId, main,
                 waitVars, reqQ>>
  /\ Remember

PopReset ==
  /\ pc = "tick"
  /\ reqQ # << >> /\ Head(reqQ) = "RESET"
  /\ reqQ' = Tail(reqQ)
  /\ ClearMessage("reset")
  /\ rx' = NoRx
  /\ UNCHANGED <<up, fwd, genuine, s_LastMsgId, s_DownlinkMsgId, main,
                 s_State, waitVars>>
  /\ Remember

ClearReset ==
  /\ ClearInFlight("reset")
  /\ pc' = "init"
  /\ UNCHANGED <<up, rx, fwd, genuine, s_LastMsgId, s_DownlinkMsgId, main, sessVars>>
  /\ Remember

\* SessionInit drains the queue, requests made after the reset included.
SessionInit ==
  /\ pc = "init"
  /\ pc' = "tick"
  /\ reqQ' = << >>
  /\ EndWait("IDLE")
  /\ rx' = NoRx
  /\ s_DownlinkMsgId' = 0
  /\ UNCHANGED <<up, fwd, genuine, down, pend, s_LastMsgId, main, child, raced>>

HaveRx == rx # NoRx

\* A mutant: the retries are not counted.
Retried_NotCounted == s_RetryCount

Retried == s_RetryCount + 1

\* Nothing is sent again: the retries only prolong the wait.
RetryOrFail ==
  \/ ~expired /\ UNCHANGED <<s_State, waitVars, rx>>
  \/ /\ expired /\ s_RetryCount < MaxRetry
     /\ s_RetryCount' = Retried
     /\ expired' = FALSE
     /\ UNCHANGED <<s_State, s_WaitKind, silence, rx>>
  \/ expired /\ s_RetryCount >= MaxRetry /\ EndWait("ERROR") /\ UNCHANGED rx

\* The frame is taken and means nothing to the session but progress.
Ignore(touch) ==
  /\ rx' = NoRx
  /\ expired' = (expired /\ ~touch)
  /\ silence' = IF touch THEN 0 ELSE silence
  /\ UNCHANGED <<s_State, s_WaitKind, s_RetryCount>>

Fail == rx' = NoRx /\ EndWait("ERROR")

\* A mutant: any confirmation ends the session.
DownlinkDoneMsgMatches_Any == TRUE

DownlinkDoneMsgMatches ==
  s_DownlinkMsgId = 0 \/ rx.id = 0 \/ rx.id = s_DownlinkMsgId

TickWaitBeaconReq ==
  /\ s_State = "WAIT_BEACON_REQ" /\ s_WaitKind = "TYPE3"
  /\ \/ ~HaveRx /\ RetryOrFail
     \/ HaveRx /\ rx.status # 0 /\ Fail
     \/ HaveRx /\ rx.status = 0 /\ rx.type # 3 /\ Ignore(FALSE)
     \/ /\ HaveRx /\ rx.status = 0 /\ rx.type = 3
        /\ StartWait("DL_DONE11") /\ SetState("DL_IN_PROGRESS")

TickDlInProgress ==
  /\ s_State = "DL_IN_PROGRESS" /\ s_WaitKind = "DL_DONE11"
  /\ \/ ~HaveRx /\ RetryOrFail
     \/ HaveRx /\ rx.status # 0 /\ rx.type # 10 /\ Fail
     \/ HaveRx /\ rx.status # 0 /\ rx.type = 10 /\ Ignore(TRUE)
     \/ /\ HaveRx /\ rx.status = 0 /\ rx.type = 11 /\ DownlinkDoneMsgMatches
        /\ rx' = NoRx /\ EndWait("COMPLETE")
     \/ /\ HaveRx /\ rx.status = 0
        /\ rx.type = 11 => ~DownlinkDoneMsgMatches
        /\ Ignore(rx.type \in {7, 10, 11, 13})

TickUlOffered ==
  /\ s_State = "UL_OFFERED" /\ s_WaitKind = "UL_HEADER5"
  /\ \/ ~HaveRx /\ RetryOrFail
     \/ HaveRx /\ rx.status # 0 /\ Fail
     \/ HaveRx /\ rx.status = 0 /\ rx.type # 5 /\ Ignore(FALSE)
     \/ /\ HaveRx /\ rx.status = 0 /\ rx.type = 5
        /\ StartWait("UL_PARTS") /\ SetState("UL_IN_PROGRESS")

\* A mutant: any part that was accepted is the last one.
LastPart_Any == rx.type = 9 /\ rx.status = 0

LastPart == rx.type = 9 /\ rx.status = 0 /\ up.complete

TickUlInProgress ==
  /\ s_State = "UL_IN_PROGRESS" /\ s_WaitKind = "UL_PARTS"
  /\ \/ ~HaveRx /\ RetryOrFail
     \/ HaveRx /\ rx.type = 5 /\ Fail
     \/ LastPart /\ rx' = NoRx /\ EndWait("UL_COMPLETE")
     \/ HaveRx /\ rx.type # 5 /\ ~LastPart /\ Ignore(rx.type = 9 /\ rx.status # 0)

\* COMPLETE and UL_COMPLETE are shown for one round.
TickComplete ==
  /\ s_State \in {"COMPLETE", "UL_COMPLETE"}
  /\ SetState("IDLE")
  /\ rx' = NoRx
  /\ UNCHANGED waitVars

\* The other states, and a state whose wait is not the one it expects.
TickNothing ==
  /\ s_State \notin {"COMPLETE", "UL_COMPLETE"}
  /\ s_WaitKind = "NONE" \/ s_WaitKind # WaitOf(s_State)
  /\ rx' = NoRx
  /\ UNCHANGED <<s_State, waitVars>>

\* s_DownlinkMsgId is read in DL_IN_PROGRESS only, which a Type3 of the same
\* round has set it for: here it is 0 in any other state.
SessionTick ==
  /\ pc = "tick"
  /\ reqQ = << >>
  /\ pc' = "forward"
  /\ \/ TickWaitBeaconReq \/ TickDlInProgress \/ TickUlOffered \/ TickUlInProgress
     \/ TickComplete \/ TickNothing
  /\ s_DownlinkMsgId' = IF s_State' = "DL_IN_PROGRESS" THEN s_DownlinkMsgId ELSE 0
  /\ UNCHANGED <<up, fwd, genuine, down, pend, s_LastMsgId, main, child, raced, reqQ>>

-----------------------------------------------------------------------------
\* The clock: the time of the present wait runs out.
Elapse ==
  /\ s_WaitKind # "NONE"
  /\ ~expired
  /\ expired' = TRUE
  /\ silence' = silence + 1
  /\ UNCHANGED <<upVars, downVars, s_State, s_WaitKind, s_RetryCount, reqQ>>

Init ==
  /\ UpInit /\ DownInit
  /\ s_State = "IDLE"
  /\ s_WaitKind = "NONE"
  /\ s_RetryCount = 0
  /\ expired = FALSE
  /\ silence = 0
  /\ reqQ = << >>

MainTask ==
  \/ DownMain /\ UNCHANGED sessVars
  \/ StartDownlinkCheck \/ StartDownlinkPush
  \/ \E type \in {"ABORT", "RESET"} : Request(type)

\* The steps of the child task that need no frame from the beacon.
ChildStep ==
  \/ (NoFrame \/ ForwardToSB) /\ UNCHANGED <<downVars, sessVars>>
  \/ DownChild /\ UNCHANGED sessVars
  \/ OnIcdRx \/ PopStart \/ PopAbort \/ PopReset \/ ClearAborted \/ ClearReset
  \/ SessionInit
  \/ SessionTick

Frame ==
  \/ UpFrame /\ UNCHANGED <<downVars, sessVars>>
  \/ DownFrame /\ UNCHANGED sessVars

Next == MainTask \/ ChildStep \/ Frame \/ Elapse

Spec == Init /\ [][Next]_vars

-----------------------------------------------------------------------------
(* Properties.                                                              *)

\* The state machine, the queue of requests and the tasks are of the right
\* kind; the queue is never longer than LTRX_REQ_Q_DEPTH and no wait is
\* prolonged more often than s_MaxRetry says.
SessTypeOK ==
  /\ s_State \in {"IDLE", "WAIT_BEACON_REQ", "DL_IN_PROGRESS", "COMPLETE", "UL_OFFERED",
                  "UL_IN_PROGRESS", "UL_COMPLETE", "ABORTED", "ERROR"}
  /\ s_WaitKind \in {"NONE", "TYPE3", "DL_DONE11", "UL_HEADER5", "UL_PARTS"}
  /\ s_RetryCount \in 0 .. MaxRetry
  /\ expired \in BOOLEAN /\ silence \in Nat
  /\ reqQ \in Seq({"START_DOWNLINK", "ABORT", "RESET"}) /\ Len(reqQ) <= REQ_Q_DEPTH
  /\ down \in [buf : [Cells -> Nat], id : Nat, crc : [Cells -> Nat],
               ready : BOOLEAN, inFlight : BOOLEAN]
  /\ pend \in [buf : [Cells -> Nat], len : {0, DOWN_LEN}, id : Nat, ready : BOOLEAN]
  /\ s_LastMsgId \in Nat /\ s_DownlinkMsgId \in Nat
  /\ main \in [step : {"idle", "copy", "len", "id", "ready", "push"}, cell : Cells, id : Nat]
  /\ child \in [cell : Cells, id : Nat, after : {"none", "confirm", "abort", "reset"}]
  /\ raced \in BOOLEAN
  /\ rx \in [type : Nat, status : Nat, id : Nat]
  /\ pc \in {"rx", "notify", "tick", "forward", "commit", "set", "header", "init"} \cup ClearSteps

\* The session waits for what its state says it waits for, and for nothing in
\* a state of rest, whatever order frames, timeouts, offers and requests come
\* in: a state whose wait is another one would never be left.
WaitMatchesState ==
  ~(pc \in ClearSteps /\ child.after = "abort") => s_WaitKind = WaitOf(s_State)

\* Between the steps of a copy.
Settled == pc \notin {"commit", "set"} \cup ClearSteps

\* The CRC that the header announces is the CRC of the bytes that Type7 is
\* served from, even when those bytes are a mixture of two snapshots.
HeaderDescribesBuffer == down.ready /\ Settled => down.crc = down.buf

\* A message is one snapshot and carries that snapshot's identifier, unless the
\* main task staged a beacon while the child task was in the unlocked buffers.
TornOnlyInRace ==
  down.ready /\ ~raced /\ Settled => \A c \in Cells : down.buf[c] = down.id

\* ClearMessage empties the pending buffer too.  When the message in flight is
\* confirmed no snapshot waits there to be lost, unless one was staged in a race.
NothingPendingInFlight == pc = "rx" /\ down.inFlight /\ ~raced => ~pend.ready

\* What the beacon is offered is described by its header; it is one snapshot,
\* and none is lost behind it, but for beacons staged in a race.
BuffersSound == HeaderDescribesBuffer /\ TornOnlyInRace /\ NothingPendingInFlight

\* The message in flight stays as it is until it is confirmed, aborted or reset,
\* however often the beacon asks for a message again, unless one was staged in a race.
InFlightKept ==
  [][down.inFlight /\ ~raced' /\ pc \notin ClearSteps /\ pc' \notin ClearSteps
       => down'.id = down.id /\ down'.buf = down.buf]_vars

\* When a confirmation that carries an identifier completes the session, no
\* message is left in flight to keep new beacons from being staged, except one
\* that has lost its identifier in a race: a beacon staged between the stores of
\* ClearMessage keeps its length and has the identifier 0, which the session
\* takes for "any".
CompleteMeansCleared ==
  [][s_State = "DL_IN_PROGRESS" /\ s_State' = "COMPLETE" /\ rx.id # 0
       => ~down.inFlight \/ (raced /\ down.id = 0)]_vars

\* A message stays in flight until it is confirmed, and no longer, but for
\* messages that were mixed up in a race.
InFlightUntilConfirmed == InFlightKept /\ CompleteMeansCleared

\* When the session reports an upload complete, its message has been forwarded
\* by the end of the same round.
UploadForwarded == s_State = "UL_COMPLETE" /\ pc = "rx" => fwd # NoMessage

\* The session's state tells the truth: about what it waits for, and about the
\* upload that it reports complete.
SessionSound == SessTypeOK /\ WaitMatchesState /\ UploadForwarded

\* A beacon that has fallen silent does not hold the session: no wait lasts
\* longer than the retries allow after the last frame.
SilenceEnds == silence <= MaxRetry + 1
==============================================================================
