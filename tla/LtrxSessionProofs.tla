-------------------------- MODULE LtrxSessionProofs --------------------------
(***************************************************************************)
(* Proofs about the LTRX session, its two tasks and the buffers they share *)
(* without a lock, for buffers, queues, identifiers and retries of any     *)
(* size.                                                                   *)
(***************************************************************************)
EXTENDS LtrxSession, LtrxUplinkProofs

-----------------------------------------------------------------------------
(* The inductive invariant.                                                 *)

\* The session: its wait, its retries and the silence they allow.  The wait of
\* a session that is being aborted is over before its state says so.
Aborting == pc \in ClearSteps /\ child.after = "abort"

WaitInv ==
  /\ IF Aborting THEN s_WaitKind = "NONE" ELSE s_WaitKind = WaitOf(s_State)
  /\ silence <= s_RetryCount + (IF expired THEN 1 ELSE 0)

\* The upload: a session that has just reported it complete finds it complete,
\* and the message has been forwarded when the round is over.
UploadInv ==
  /\ Good(up, genuine)
  /\ genuine \in BOOLEAN
  /\ NothingOverwritten
  /\ s_State = "UL_COMPLETE" /\ pc = "forward" => up.complete
  /\ UploadForwarded

\* The report is in the mailbox between the handler and the session only.
RxInv == pc \notin {"notify", "tick", "init"} \cup ClearSteps => rx = NoRx

\* The main task is writing the pending buffer.
Staging == main.step \in {"copy", "len", "id", "ready"}

\* The steps in which the child task is in the buffers.
Busy == {"commit", "set", "header"} \cup ClearSteps

\* The steps of ClearMessage after s_DownReady.
NotReady == {"clear_len", "clear_id", "clear_ready", "clear_flight"}

\* What a race does not touch.
BufferInv ==
  /\ Overlap => raced
  /\ Staging => main.id # 0
  /\ pc \in {"commit", "set"} => pend.ready
  /\ pc \in NotReady => ~down.ready
  /\ down.inFlight => down.ready \/ pc \in ClearSteps
  /\ HeaderDescribesBuffer

\* The copies of the two tasks, cell by cell, and the identifiers, as they are
\* without a race.
Clean ==
  /\ main.step = "copy" => \A c \in Cells : c < main.cell => pend.buf[c] = main.id
  /\ main.step \in {"len", "id", "ready"} => \A c \in Cells : pend.buf[c] = main.id
  /\ main.step = "ready" => pend.id = main.id
  /\ ~Staging /\ pend.ready /\ pc \notin ClearSteps => \A c \in Cells : pend.buf[c] = pend.id
  /\ pend.ready /\ pc \notin ClearSteps => pend.id # 0
  /\ pc = "clear_flight" => ~pend.ready
  /\ pc \in {"commit", "set"} => child.id = pend.id
  /\ pc = "commit" => \A c \in Cells : c < child.cell => down.buf[c] = child.id
  /\ pc = "set" => \A c \in Cells : down.buf[c] = child.id
  /\ down.ready => down.id # 0
  /\ down.ready /\ Settled => \A c \in Cells : down.buf[c] = down.id
  /\ pc = "header" \/ down.inFlight => ~pend.ready /\ ~Staging

CleanInv == ~raced => Clean

\* The identifier that the session waits for is that of the message in flight.
IdInv ==
  down.inFlight =>
    /\ \/ s_State = "DL_IN_PROGRESS"
       \/ s_State = "WAIT_BEACON_REQ" /\ rx.type = 3 /\ rx.status = 0
       => pc \in Busy \/ s_DownlinkMsgId = down.id
    /\ pc \in {"notify", "tick"} /\ rx.type = 11 /\ rx.id # 0 => rx.id # down.id

SessInv ==
  /\ SessTypeOK
  /\ WaitInv /\ UploadInv /\ RxInv
  /\ BufferInv /\ CleanInv /\ IdInv

-----------------------------------------------------------------------------
(* What the steps do, as far as the invariant is concerned.                 *)

\* The two halves of SessTypeOK.
SessionVarsOK ==
  /\ s_State \in {"IDLE", "WAIT_BEACON_REQ", "DL_IN_PROGRESS", "COMPLETE", "UL_OFFERED",
                  "UL_IN_PROGRESS", "UL_COMPLETE", "ABORTED", "ERROR"}
  /\ s_WaitKind \in {"NONE", "TYPE3", "DL_DONE11", "UL_HEADER5", "UL_PARTS"}
  /\ s_RetryCount \in 0 .. MaxRetry
  /\ expired \in BOOLEAN /\ silence \in Nat

QueueOK ==
  reqQ \in Seq({"START_DOWNLINK", "ABORT", "RESET"}) /\ Len(reqQ) <= REQ_Q_DEPTH

Downs == [buf : [Cells -> Nat], id : Nat, crc : [Cells -> Nat],
          ready : BOOLEAN, inFlight : BOOLEAN]
Pends == [buf : [Cells -> Nat], len : {0, DOWN_LEN}, id : Nat, ready : BOOLEAN]
Mains == [step : {"idle", "copy", "len", "id", "ready", "push"}, cell : Cells, id : Nat]
Children == [cell : Cells, id : Nat, after : {"none", "confirm", "abort", "reset"}]

DownVarsOK ==
  /\ down \in Downs /\ pend \in Pends
  /\ s_LastMsgId \in Nat /\ s_DownlinkMsgId \in Nat
  /\ main \in Mains /\ child \in Children
  /\ raced \in BOOLEAN

ChildOK ==
  /\ rx \in [type : Nat, status : Nat, id : Nat]
  /\ pc \in {"rx", "notify", "tick", "forward", "commit", "set", "header", "init"} \cup ClearSteps

\* The types, by what the steps change together.
LEMMA TypeSplit ==
  SessTypeOK <=> SessionVarsOK /\ QueueOK /\ DownVarsOK /\ ChildOK
BY DEF SessTypeOK, SessionVarsOK, QueueOK, DownVarsOK, ChildOK, Downs, Pends, Mains, Children

\* A frame that leaves the downlink alone and is reported to the session.
PlainFrame ==
  /\ pc = "rx" /\ pc' = "notify"
  /\ rx' \in [type : Nat, status : Nat, id : {0}]
  /\ rx'.type = 3 => rx'.status # 0
  /\ fwd' = NoMessage
  /\ Good(up', genuine') /\ genuine' \in BOOLEAN
  /\ UNCHANGED <<downVars, sessVars>>

LEMMA PlainFrames ==
  ASSUME UploadInv, UNCHANGED sessVars,
         \/ UpFrame /\ UNCHANGED downVars
         \/ \E id \in Ids, inRange \in BOOLEAN, rc \in BOOLEAN : RequestMsgPart(id, inRange, rc)
         \/ \E frame \in SessionFrames : StatusFrame(frame) \/ TelemetryFrame(frame)
  PROVE  PlainFrame
<1>1. CASE UpFrame /\ UNCHANGED downVars
  <2>1. pc = "rx"
    BY <1>1 DEF UpFrame, TooShort, OfferReceiveMsg, SendMsgHeader, PartRefused, PartDamaged, SendMsgPart
  <2>2. KeepsGood
    BY <1>1, FrameKeepsGood DEF UploadInv
  <2>3. /\ rx' \in [type : Nat, status : Nat, id : {0}] /\ rx'.type # 3
        /\ fwd' = NoMessage /\ pc' = "notify"
    BY <2>2 DEF KeepsGood, Reported, Report, Rx
  <2> QED
    BY <1>1, <2>1, <2>2, <2>3 DEF PlainFrame, KeepsGood
<1>2. ASSUME NEW id \in Ids, NEW inRange \in BOOLEAN, NEW rc \in BOOLEAN,
             RequestMsgPart(id, inRange, rc)
      PROVE  PlainFrame
  <2>1. /\ rx' \in [type : Nat, status : Nat, id : {0}] /\ rx'.type # 3
        /\ fwd' = NoMessage /\ pc' = "notify"
    BY <1>2 DEF RequestMsgPart, Report, Rx
  <2> QED
    BY <1>2, <2>1 DEF PlainFrame, RequestMsgPart, UploadInv
<1>3. ASSUME NEW frame \in SessionFrames, StatusFrame(frame) \/ TelemetryFrame(frame)
      PROVE  PlainFrame
  <2>1. /\ frame.type \in Nat /\ frame.status \in Nat
        /\ frame.type = 3 => frame.status # 0
    BY DownlinkAssumption
  <2>2. /\ rx' = Rx(frame.type, frame.status, 0) \/ (rx' = Rx(frame.type, 0, 0) /\ frame.type # 3)
        /\ fwd' = NoMessage /\ pc' = "notify" /\ pc = "rx"
    BY <1>3 DEF StatusFrame, TelemetryFrame, Telemetry, Report
  <2>3. rx' \in [type : Nat, status : Nat, id : {0}] /\ (rx'.type = 3 => rx'.status # 0)
    BY <2>1, <2>2 DEF Rx
  <2> QED
    BY <1>3, <2>2, <2>3 DEF PlainFrame, StatusFrame, TelemetryFrame, UploadInv
<1> QED
  BY <1>1, <1>2, <1>3

LEMMA WaitOfValues ==
  /\ WaitOf("WAIT_BEACON_REQ") = "TYPE3" /\ WaitOf("DL_IN_PROGRESS") = "DL_DONE11"
  /\ WaitOf("UL_OFFERED") = "UL_HEADER5" /\ WaitOf("UL_IN_PROGRESS") = "UL_PARTS"
  /\ \A state \in {"IDLE", "COMPLETE", "UL_COMPLETE", "ABORTED", "ERROR"} : WaitOf(state) = "NONE"
BY DEF WaitOf

\* A wait that starts or ends has no retries, no time and no silence behind it.
LEMMA FreshWait ==
  ASSUME expired' = FALSE, silence' = 0, s_RetryCount' = 0
  PROVE  /\ s_RetryCount' \in 0 .. MaxRetry /\ expired' \in BOOLEAN /\ silence' \in Nat
         /\ silence' <= s_RetryCount' + (IF expired' THEN 1 ELSE 0)
<1>1. expired' \in BOOLEAN
  BY Zenon
<1>2. s_RetryCount' \in 0 .. MaxRetry /\ silence' \in Nat
  BY SessionAssumption
<1>3. 0 <= 0 + (IF expired' THEN 1 ELSE 0)
  <2>1. (IF expired' THEN 1 ELSE 0) = 0
    BY Zenon
  <2> QED
    BY <2>1
<1> QED
  BY <1>1, <1>2, <1>3, Zenon

\* SessionTick without requests: the report is taken, and the state follows it.
TickEffect ==
  /\ pc = "tick" /\ pc' = "forward"
  /\ rx' = NoRx
  /\ SessionVarsOK' /\ WaitInv'
  /\ s_DownlinkMsgId' = IF s_State' = "DL_IN_PROGRESS" THEN s_DownlinkMsgId ELSE 0
  /\ s_State' = "DL_IN_PROGRESS" =>
       s_State = "DL_IN_PROGRESS" \/ (s_State = "WAIT_BEACON_REQ" /\ rx.type = 3 /\ rx.status = 0)
  /\ s_State' = "UL_COMPLETE" => up.complete
  /\ s_State' = "COMPLETE" => rx.type = 11 /\ DownlinkDoneMsgMatches
  /\ UNCHANGED <<up, fwd, genuine, down, pend, s_LastMsgId, main, child, raced, reqQ>>

LEMMA TickEffects ==
  ASSUME SessInv, SessionTick
  PROVE  TickEffect
<1>0. SessionVarsOK /\ WaitInv /\ s_WaitKind = WaitOf(s_State)
  BY TypeSplit DEF SessInv, SessionTick, WaitInv, Aborting, ClearSteps
<1>m. MaxRetry \in Nat
  BY SessionAssumption
<1>e. ASSUME NEW state \in {"ERROR", "COMPLETE", "UL_COMPLETE"}, EndWait(state)
      PROVE  /\ SessionVarsOK' /\ s_State' = state /\ s_WaitKind' = WaitOf(s_State')
             /\ silence' <= s_RetryCount' + (IF expired' THEN 1 ELSE 0)
  <2>1. /\ s_State' = state /\ s_WaitKind' = "NONE"
        /\ expired' = FALSE /\ silence' = 0 /\ s_RetryCount' = 0
    BY <1>e DEF EndWait, NoWait, SetState
  <2>2. s_WaitKind' = WaitOf(s_State')
    BY <2>1, WaitOfValues
  <2> QED
    BY <2>1, <2>2, FreshWait, Zenon DEF SessionVarsOK
<1>r. ASSUME ~HaveRx, RetryOrFail, s_State \notin {"COMPLETE", "UL_COMPLETE"}
      PROVE  /\ rx' = NoRx /\ SessionVarsOK'
             /\ s_State' \in {s_State, "ERROR"} /\ s_WaitKind' = WaitOf(s_State')
             /\ silence' <= s_RetryCount' + (IF expired' THEN 1 ELSE 0)
  <2>1. rx' = NoRx
    BY <1>r DEF HaveRx, RetryOrFail
  <2>2. CASE ~expired /\ UNCHANGED <<s_State, waitVars, rx>>
    BY <1>0, <2>1, <2>2 DEF SessionVarsOK, WaitInv, waitVars
  <2>3. CASE /\ expired /\ s_RetryCount < MaxRetry
             /\ s_RetryCount' = Retried
             /\ expired' = FALSE
             /\ UNCHANGED <<s_State, s_WaitKind, silence, rx>>
    <3>1. silence <= s_RetryCount + 1
      BY <1>0, <2>3 DEF WaitInv
    <3>2. SessionVarsOK'
      <4>1. expired' \in BOOLEAN
        BY <2>3, Zenon
      <4>2. s_RetryCount' \in 0 .. MaxRetry
        BY <1>0, <1>m, <2>3 DEF SessionVarsOK, Retried
      <4> QED
        BY <1>0, <2>3, <4>1, <4>2, Zenon DEF SessionVarsOK
    <3>3. silence' <= s_RetryCount' + (IF expired' THEN 1 ELSE 0)
      BY <1>0, <2>3, <3>1 DEF SessionVarsOK, Retried
    <3> QED
      BY <1>0, <2>1, <2>3, <3>2, <3>3
  <2>4. CASE EndWait("ERROR")
    BY <2>1, <2>4, <1>e
  <2> QED
    BY <1>r, <2>2, <2>3, <2>4 DEF RetryOrFail
<1>i. ASSUME NEW touch, Ignore(touch)
      PROVE  /\ rx' = NoRx /\ SessionVarsOK' /\ s_State' = s_State
             /\ s_WaitKind' = WaitOf(s_State')
             /\ silence' <= s_RetryCount' + (IF expired' THEN 1 ELSE 0)
  <2>1. CASE touch
    <3>1. expired' = FALSE /\ silence' = 0
      BY <1>i, <2>1 DEF Ignore
    <3> QED
      BY <1>0, <1>i, <3>1 DEF SessionVarsOK, Ignore
  <2>2. CASE ~touch
    <3>1. expired' = expired /\ silence' = silence
      BY <1>0, <1>i, <2>2 DEF Ignore, SessionVarsOK
    <3> QED
      BY <1>0, <1>i, <3>1 DEF SessionVarsOK, WaitInv, Ignore
  <2> QED
    BY <2>1, <2>2
<1>s. ASSUME NEW state, NEW kind, StartWait(kind), SetState(state),
             <<state, kind>> \in {<<"DL_IN_PROGRESS", "DL_DONE11">>, <<"UL_IN_PROGRESS", "UL_PARTS">>}
      PROVE  /\ rx' = NoRx /\ SessionVarsOK' /\ s_State' = state
             /\ s_WaitKind' = WaitOf(s_State')
             /\ silence' <= s_RetryCount' + (IF expired' THEN 1 ELSE 0)
  <2>1. /\ s_State' = state /\ s_WaitKind' = kind /\ rx' = NoRx
        /\ expired' = FALSE /\ silence' = 0 /\ s_RetryCount' = 0
    BY <1>s DEF StartWait, SetState
  <2>2. /\ state \in {"DL_IN_PROGRESS", "UL_IN_PROGRESS"} /\ kind \in {"DL_DONE11", "UL_PARTS"}
        /\ kind = WaitOf(state)
    BY <1>s, WaitOfValues
  <2> QED
    BY <2>1, <2>2, FreshWait, Zenon DEF SessionVarsOK
<1> DEFINE Ok == /\ rx' = NoRx /\ SessionVarsOK' /\ s_WaitKind' = WaitOf(s_State')
                 /\ silence' <= s_RetryCount' + (IF expired' THEN 1 ELSE 0)
                 /\ s_State' = "DL_IN_PROGRESS" =>
                      \/ s_State = "DL_IN_PROGRESS"
                      \/ s_State = "WAIT_BEACON_REQ" /\ rx.type = 3 /\ rx.status = 0
                 /\ s_State' = "UL_COMPLETE" => up.complete
                 /\ s_State' = "COMPLETE" => rx.type = 11 /\ DownlinkDoneMsgMatches
<1>1. ASSUME TickWaitBeaconReq PROVE Ok
  <2>1. CASE ~HaveRx /\ RetryOrFail
    BY <1>1, <1>r, <2>1 DEF TickWaitBeaconReq
  <2>2. CASE Fail
    BY <1>1, <1>e, <2>2 DEF Fail
  <2>3. CASE Ignore(FALSE)
    BY <1>1, <1>i, <2>3 DEF TickWaitBeaconReq
  <2>4. CASE /\ rx.status = 0 /\ rx.type = 3
             /\ StartWait("DL_DONE11") /\ SetState("DL_IN_PROGRESS")
    BY <1>1, <1>s, <2>4 DEF TickWaitBeaconReq
  <2> QED
    BY <1>1, <2>1, <2>2, <2>3, <2>4 DEF TickWaitBeaconReq
<1>2. ASSUME TickDlInProgress PROVE Ok
  <2>1. CASE ~HaveRx /\ RetryOrFail
    BY <1>2, <1>r, <2>1 DEF TickDlInProgress
  <2>2. CASE Fail
    BY <1>2, <1>e, <2>2 DEF Fail
  <2>3. CASE \E touch : Ignore(touch)
    BY <1>2, <1>i, <2>3 DEF TickDlInProgress
  <2>4. CASE rx.type = 11 /\ DownlinkDoneMsgMatches /\ rx' = NoRx /\ EndWait("COMPLETE")
    BY <1>2, <1>e, <2>4
  <2>5. CASE Ignore(rx.type \in {7, 10, 11, 13})
    BY <2>3, <2>5
  <2> QED
    BY <1>2, <2>1, <2>2, <2>3, <2>4, <2>5 DEF TickDlInProgress
<1>3. ASSUME TickUlOffered PROVE Ok
  <2>1. CASE ~HaveRx /\ RetryOrFail
    BY <1>3, <1>r, <2>1 DEF TickUlOffered
  <2>2. CASE Fail
    BY <1>3, <1>e, <2>2 DEF Fail
  <2>3. CASE Ignore(FALSE)
    BY <1>3, <1>i, <2>3 DEF TickUlOffered
  <2>4. CASE StartWait("UL_PARTS") /\ SetState("UL_IN_PROGRESS")
    BY <1>3, <1>s, <2>4
  <2> QED
    BY <1>3, <2>1, <2>2, <2>3, <2>4 DEF TickUlOffered
<1>4. ASSUME TickUlInProgress PROVE Ok
  <2>1. CASE ~HaveRx /\ RetryOrFail
    BY <1>4, <1>r, <2>1 DEF TickUlInProgress
  <2>2. CASE Fail
    BY <1>4, <1>e, <2>2 DEF Fail
  <2>3. CASE \E touch \in BOOLEAN : Ignore(touch)
    BY <1>4, <1>i, <2>3 DEF TickUlInProgress
  <2>4. CASE LastPart /\ rx' = NoRx /\ EndWait("UL_COMPLETE")
    BY <1>4, <1>e, <2>4 DEF LastPart
  <2> QED
    BY <1>4, <2>1, <2>2, <2>3, <2>4 DEF TickUlInProgress
<1>5. ASSUME TickComplete PROVE Ok
  BY <1>0, <1>5 DEF TickComplete, SetState, waitVars, SessionVarsOK, WaitInv, WaitOf
<1>6. ASSUME TickNothing PROVE Ok
  BY <1>0, <1>6 DEF TickNothing, waitVars, SessionVarsOK, WaitInv, WaitOf
<1>7. Ok
  BY <1>1, <1>2, <1>3, <1>4, <1>5, <1>6 DEF SessionTick
<1>8. pc = "tick" /\ pc' = "forward"
  BY DEF SessionTick
<1>9. WaitInv'
  BY <1>7, <1>8 DEF WaitInv, Aborting, ClearSteps
<1> QED
  BY <1>7, <1>8, <1>9 DEF SessionTick, TickEffect

\* The steps, with plain frames taken together.
Step ==
  \/ DownMain /\ UNCHANGED sessVars
  \/ StartDownlinkCheck
  \/ StartDownlinkPush
  \/ \E type \in {"ABORT", "RESET"} : Request(type)
  \/ NoFrame /\ UNCHANGED <<downVars, sessVars>>
  \/ ForwardToSB /\ UNCHANGED <<downVars, sessVars>>
  \/ DownChild /\ UNCHANGED sessVars
  \/ OnIcdRx \/ PopStart \/ PopAbort \/ PopReset \/ ClearAborted \/ ClearReset
  \/ SessionInit
  \/ SessionTick
  \/ PlainFrame
  \/ RequestMsgTx /\ UNCHANGED sessVars
  \/ (\E id \in Ids : ConfirmMsgRx(id)) /\ UNCHANGED sessVars
  \/ Elapse
  \/ UNCHANGED vars

\* Every step is of one of these kinds.
LEMMA NextSteps ==
  ASSUME SessInv, [Next]_vars
  PROVE  Step
<1>1. ASSUME UNCHANGED sessVars,
             \/ UpFrame /\ UNCHANGED downVars
             \/ \E id \in Ids, inRange \in BOOLEAN, rc \in BOOLEAN : RequestMsgPart(id, inRange, rc)
             \/ \E frame \in SessionFrames : StatusFrame(frame) \/ TelemetryFrame(frame)
      PROVE  PlainFrame
  BY <1>1, PlainFrames DEF SessInv
<1>2. CASE Frame
  <2>1. UNCHANGED sessVars
    BY <1>2 DEF Frame
  <2> QED
    BY <1>1, <1>2, <2>1 DEF Frame, DownFrame, Step
<1>3. CASE MainTask
  BY <1>3 DEF MainTask, Step
<1>4. CASE ChildStep
  BY <1>4 DEF ChildStep, Step
<1> QED
  BY <1>2, <1>3, <1>4 DEF Next, Step

-----------------------------------------------------------------------------
(* The session and its waits.                                               *)

LEMMA KeepsWait ==
  ASSUME SessionVarsOK, WaitInv, UNCHANGED <<s_State, waitVars>>, Aborting' <=> Aborting
  PROVE  SessionVarsOK' /\ WaitInv'
BY DEF SessionVarsOK, WaitInv, waitVars

\* LTRX_SessionTick and the requests leave the wait that the state calls for.
LEMMA NextWait ==
  ASSUME SessInv, Step
  PROVE  SessionVarsOK' /\ WaitInv'
<1>0. SessionVarsOK /\ WaitInv
  BY TypeSplit DEF SessInv
<1>q. UNCHANGED sessVars => UNCHANGED <<s_State, waitVars>>
  BY DEF sessVars
<1>c. child \in Children
  BY TypeSplit DEF SessInv, DownVarsOK
<1>1. CASE DownMain /\ UNCHANGED sessVars
  <2>1. UNCHANGED <<pc, child>>
    BY <1>1 DEF DownMain, BusBeaconReceived, StageCell, StageLen, StageId, StageReady, upVars
  <2> QED
    BY <1>0, <1>1, <1>q, <2>1, KeepsWait DEF Aborting
<1>2. CASE StartDownlinkCheck
  BY <1>0, <1>2, KeepsWait DEF StartDownlinkCheck, OnlyQueue, upVars, Aborting
<1>3. CASE StartDownlinkPush
  BY <1>0, <1>3, KeepsWait DEF StartDownlinkPush, OnlyQueue, upVars, Aborting
<1>4. CASE \E type \in {"ABORT", "RESET"} : Request(type)
  BY <1>0, <1>4, KeepsWait DEF Request, OnlyQueue, upVars, Aborting
<1>5. CASE NoFrame /\ UNCHANGED <<downVars, sessVars>>
  BY <1>0, <1>5, <1>q, KeepsWait DEF NoFrame, Aborting, ClearSteps
<1>6. CASE ForwardToSB /\ UNCHANGED <<downVars, sessVars>>
  BY <1>0, <1>6, <1>q, KeepsWait DEF ForwardToSB, Aborting, ClearSteps
<1>7. CASE DownChild /\ UNCHANGED sessVars
  <2>1. Aborting' <=> Aborting
    <3>1. CASE CommitCell \/ CommitSet \/ ClearConfirmed \/ \E rc \in BOOLEAN : SendMessageHeader(rc)
      BY <3>1 DEF CommitCell, CommitSet, ClearConfirmed, ClearInFlight, SendMessageHeader, Report,
        Aborting, ClearSteps
    <3>2. CASE ClearCell
      BY <1>c, <3>2 DEF ClearCell, Children, Aborting, ClearSteps
    <3>3. CASE ClearStore
      BY <3>3 DEF ClearStore, ClearDown, ClearPendingLen, ClearPendingId, ClearPendingReady,
        Aborting, ClearSteps
    <3> QED
      BY <1>7, <3>1, <3>2, <3>3 DEF DownChild
  <2> QED
    BY <1>0, <1>7, <1>q, <2>1, KeepsWait
<1>8. CASE OnIcdRx
  <2>a. ~Aborting /\ ~Aborting'
    BY <1>8 DEF OnIcdRx, Aborting, ClearSteps
  <2>1. CASE StartWait("UL_HEADER5") /\ SetState("UL_OFFERED")
    <3>1. /\ s_State' = "UL_OFFERED" /\ s_WaitKind' = "UL_HEADER5"
          /\ expired' = FALSE /\ silence' = 0 /\ s_RetryCount' = 0
      BY <2>1 DEF StartWait, SetState
    <3>2. s_WaitKind' = WaitOf(s_State')
      BY <3>1, WaitOfValues
    <3> QED
      BY <2>a, <3>1, <3>2, FreshWait, Zenon DEF SessionVarsOK, WaitInv
  <2>2. CASE expired' = FALSE /\ silence' = 0 /\ UNCHANGED <<s_State, s_WaitKind, s_RetryCount>>
    <3>1. expired' \in BOOLEAN
      BY <2>2, Zenon
    <3>2. silence' \in Nat /\ silence' <= s_RetryCount' + (IF expired' THEN 1 ELSE 0)
      <4>1. (IF expired' THEN 1 ELSE 0) \in Nat
        OBVIOUS
      <4> QED
        BY <1>0, <2>2, <4>1 DEF SessionVarsOK
    <3> QED
      BY <1>0, <2>a, <2>2, <3>1, <3>2, Zenon DEF SessionVarsOK, WaitInv
  <2> QED
    BY <1>8, <2>1, <2>2 DEF OnIcdRx
<1>9. CASE PopStart
  <2>1. /\ s_State' = "WAIT_BEACON_REQ" /\ s_WaitKind' = "TYPE3" /\ ~Aborting'
        /\ expired' = FALSE /\ silence' = 0 /\ s_RetryCount' = 0
    BY <1>9 DEF PopStart, StartWait, SetState, Aborting, ClearSteps
  <2>2. s_WaitKind' = WaitOf(s_State')
    BY <2>1, WaitOfValues
  <2> QED
    BY <2>1, <2>2, FreshWait, Zenon DEF SessionVarsOK, WaitInv
<1>10. CASE PopAbort
  <2>1. /\ s_State' = s_State /\ s_WaitKind' = "NONE"
        /\ expired' = FALSE /\ silence' = 0 /\ s_RetryCount' = 0
    BY <1>10 DEF PopAbort, AbortWait, NoWait
  <2>2. Aborting'
    BY <1>10 DEF PopAbort, ClearMessage, NoCopy, Aborting, ClearSteps
  <2> QED
    BY <1>0, <2>1, <2>2, FreshWait, Zenon DEF SessionVarsOK, WaitInv
<1>11. CASE PopReset
  <2>1. ~Aborting /\ ~Aborting' /\ UNCHANGED <<s_State, waitVars>>
    BY <1>11 DEF PopReset, ClearMessage, NoCopy, Aborting, ClearSteps
  <2> QED
    BY <1>0, <2>1, KeepsWait
<1>12. CASE ClearAborted
  <2>1. Aborting /\ ~Aborting' /\ s_State' = "ABORTED" /\ UNCHANGED waitVars
    BY <1>12 DEF ClearAborted, ClearInFlight, Aborting, ClearSteps, SetState
  <2>2. s_WaitKind' = "NONE" /\ s_WaitKind' = WaitOf(s_State')
    BY <1>0, <2>1, WaitOfValues DEF WaitInv, waitVars
  <2> QED
    BY <1>0, <2>1, <2>2 DEF SessionVarsOK, WaitInv, waitVars
<1>13. CASE ClearReset
  <2>1. ~Aborting /\ ~Aborting'
    BY <1>13 DEF ClearReset, ClearInFlight, Aborting, ClearSteps
  <2> QED
    BY <1>0, <1>13, <1>q, <2>1, KeepsWait DEF ClearReset
<1>14. CASE SessionTick
  BY <1>14, TickEffects DEF TickEffect
<1>15. CASE PlainFrame
  BY <1>0, <1>15, <1>q, KeepsWait DEF PlainFrame, Aborting, ClearSteps
<1>16. CASE RequestMsgTx /\ UNCHANGED sessVars
  <2>1. ~Aborting /\ ~Aborting'
    BY <1>16 DEF RequestMsgTx, Report, Aborting, ClearSteps
  <2> QED
    BY <1>0, <1>16, <1>q, <2>1, KeepsWait
<1>17. CASE (\E id \in Ids : ConfirmMsgRx(id)) /\ UNCHANGED sessVars
  <2>1. ~Aborting /\ ~Aborting'
    BY <1>17 DEF ConfirmMsgRx, ClearMessage, NoCopy, Aborting, ClearSteps
  <2> QED
    BY <1>0, <1>17, <1>q, <2>1, KeepsWait
<1>18. CASE Elapse
  <2>1. /\ s_WaitKind # "NONE" /\ ~expired /\ expired' = TRUE /\ silence' = silence + 1
        /\ UNCHANGED <<s_State, s_WaitKind, s_RetryCount, pc, child>>
    BY <1>18 DEF Elapse, upVars, downVars
  <2>2. silence <= s_RetryCount + 0 /\ s_RetryCount \in Nat /\ silence \in Nat
    BY <1>0, <2>1, SessionAssumption DEF WaitInv, SessionVarsOK
  <2>3. silence' \in Nat /\ silence' <= s_RetryCount' + 1
    BY <2>1, <2>2
  <2>4. (IF expired' THEN 1 ELSE 0) = 1 /\ expired' \in BOOLEAN
    BY <2>1, Zenon
  <2> QED
    BY <1>0, <2>1, <2>3, <2>4, Zenon DEF SessionVarsOK, WaitInv, Aborting
<1>19. CASE UNCHANGED vars
  BY <1>0, <1>19, KeepsWait DEF vars, sessVars, upVars, downVars, Aborting
<1>20. CASE SessionInit
  <2>1. /\ s_State' = "IDLE" /\ s_WaitKind' = "NONE" /\ ~Aborting'
        /\ expired' = FALSE /\ silence' = 0 /\ s_RetryCount' = 0
    BY <1>20 DEF SessionInit, EndWait, NoWait, SetState, Aborting, ClearSteps
  <2>2. s_WaitKind' = WaitOf(s_State')
    BY <2>1, WaitOfValues
  <2> QED
    BY <2>1, <2>2, FreshWait, Zenon DEF SessionVarsOK, WaitInv
<1> QED
  BY <1>1, <1>2, <1>3, <1>4, <1>5, <1>6, <1>7, <1>8, <1>9, <1>10, <1>11, <1>12, <1>13,
     <1>14, <1>15, <1>16, <1>17, <1>18, <1>19, <1>20 DEF Step

-----------------------------------------------------------------------------
(* The queue of requests and the types of the shared state.                 *)

\* The request queue keeps within its depth.
LEMMA NextQueue ==
  ASSUME SessInv, Step
  PROVE  QueueOK'
<1> DEFINE R == {"START_DOWNLINK", "ABORT", "RESET"}
<1>0. reqQ \in Seq(R) /\ Len(reqQ) <= REQ_Q_DEPTH /\ REQ_Q_DEPTH \in Nat
  BY TypeSplit, SessionAssumption DEF SessInv, QueueOK
<1>u. ASSUME reqQ' = reqQ PROVE QueueOK'
  BY <1>0, <1>u DEF QueueOK
<1>p. ASSUME NEW type \in R, PushReq(type) PROVE QueueOK'
  BY <1>0, <1>p DEF PushReq, QueueOK
<1>t. ASSUME reqQ # <<>>, reqQ' = Tail(reqQ) PROVE QueueOK'
  BY <1>0, <1>t DEF QueueOK
<1>1. CASE UNCHANGED sessVars
  BY <1>1, <1>u DEF sessVars
<1>2. CASE StartDownlinkCheck
  BY <1>2, <1>u DEF StartDownlinkCheck
<1>3. CASE StartDownlinkPush
  BY <1>3, <1>p, <1>u DEF StartDownlinkPush
<1>4. CASE \E type \in {"ABORT", "RESET"} : Request(type)
  BY <1>4, <1>p DEF Request
<1>5. CASE OnIcdRx
  BY <1>5, <1>u DEF OnIcdRx
<1>6. CASE PopStart
  BY <1>6, <1>t DEF PopStart
<1>7. CASE PopAbort
  BY <1>7, <1>t DEF PopAbort
<1>8. CASE PopReset
  BY <1>8, <1>t DEF PopReset
<1>9. CASE ClearAborted
  BY <1>9, <1>u DEF ClearAborted
<1>10. CASE ClearReset
  BY <1>10, <1>1 DEF ClearReset
<1>11. CASE SessionTick
  BY <1>11, <1>u DEF SessionTick
<1>12. CASE PlainFrame
  BY <1>12, <1>u DEF PlainFrame, sessVars
<1>13. CASE Elapse
  BY <1>13, <1>u DEF Elapse
<1>14. CASE UNCHANGED vars
  BY <1>14, <1>u DEF vars, sessVars
<1>15. CASE SessionInit
  BY <1>0, <1>15 DEF SessionInit, QueueOK
<1> QED
  BY <1>1, <1>2, <1>3, <1>4, <1>5, <1>6, <1>7, <1>8, <1>9, <1>10, <1>11, <1>12, <1>13,
     <1>14, <1>15 DEF Step

LEMMA RestStates ==
  /\ NoDown \in Downs /\ NoPend \in Pends /\ AtRest \in Mains /\ NoCopy \in Children
  /\ ZeroBuf \in [Cells -> Nat] /\ 1 \in Cells
<1>1. 1 \in Cells
  BY DownlinkAssumption DEF Cells
<1>2. ZeroBuf \in [Cells -> Nat]
  BY DEF ZeroBuf
<1> QED
  BY <1>1, <1>2 DEF NoDown, NoPend, AtRest, NoCopy, Downs, Pends, Mains, Children

LEMMA RememberType == Remember => raced' \in BOOLEAN
BY DEF Remember

\* What the steps of ClearMessage leave behind.
LEMMA ClearTypes ==
  ASSUME down \in Downs, pend \in Pends, child \in Children,
         NEW after \in {"confirm", "abort", "reset"},
         ClearMessage(after) \/ ClearCell \/ ClearStore \/ ClearInFlight(after)
  PROVE  down' \in Downs /\ pend' \in Pends /\ child' \in Children
<1>1. CASE ClearMessage(after)
  BY <1>1, RestStates DEF ClearMessage, Children, NoCopy
<1>2. CASE ClearCell
  <2>1. down' \in Downs /\ pend' \in Pends
    BY <1>2 DEF ClearCell, Downs, Pends, Children
  <2>2. child' \in Children
    <3>1. CASE child.cell = DOWN_LEN
      BY <1>2, <3>1 DEF ClearCell
    <3>2. CASE child.cell # DOWN_LEN
      <4>1. child.cell + 1 \in Cells
        BY <3>2, DownlinkAssumption DEF Children, Cells
      <4> QED
        BY <1>2, <3>2, <4>1 DEF ClearCell, Children
    <3> QED
      BY <3>1, <3>2
  <2> QED
    BY <2>1, <2>2
<1>3. CASE ClearStore
  <2>1. CASE ClearDown
    BY <1>3, <2>1, RestStates DEF ClearStore, ClearDown, Downs
  <2>2. CASE ClearPendingLen
    BY <1>3, <2>2 DEF ClearStore, ClearPendingLen, Pends
  <2>3. CASE ClearPendingId
    BY <1>3, <2>3 DEF ClearStore, ClearPendingId, Pends
  <2>4. CASE ClearPendingReady
    BY <1>3, <2>4 DEF ClearStore, ClearPendingReady, Pends
  <2> QED
    BY <1>3, <2>1, <2>2, <2>3, <2>4 DEF ClearStore
<1>4. CASE ClearInFlight(after)
  BY <1>4, RestStates DEF ClearInFlight, Downs
<1> QED
  BY <1>1, <1>2, <1>3, <1>4

LEMMA NextDownTypes ==
  ASSUME SessInv, Step
  PROVE  DownVarsOK'
<1>0. /\ down \in Downs /\ pend \in Pends
      /\ s_LastMsgId \in Nat /\ s_DownlinkMsgId \in Nat
      /\ main \in Mains /\ child \in Children
      /\ raced \in BOOLEAN
  BY TypeSplit DEF SessInv, DownVarsOK
<1>l. DOWN_LEN \in Nat \ {0} /\ Cells = 1 .. DOWN_LEN
  BY DownlinkAssumption DEF Cells
<1>u. ASSUME UNCHANGED downVars PROVE DownVarsOK'
  BY <1>0, <1>u DEF downVars, DownVarsOK
<1>f. main.cell \in Cells /\ main.id \in Nat /\ child.cell \in Cells /\ child.id \in Nat
  BY <1>0 DEF Mains, Children
<1>1. CASE DownMain
  <2>1. CASE BusBeaconReceived
    <3>1. PICK seconds \in Seconds :
            LET id == IF seconds = s_LastMsgId THEN seconds + 1 ELSE seconds
            IN  s_LastMsgId' = id /\ main' = [step |-> "copy", cell |-> 1, id |-> id]
      BY <2>1 DEF BusBeaconReceived
    <3>2. s_LastMsgId' \in Nat /\ main' \in Mains
      BY <3>1, RestStates, DownlinkAssumption DEF Mains
    <3> QED
      BY <1>0, <2>1, <3>2, RememberType DEF BusBeaconReceived, DownVarsOK
  <2>2. CASE StageCell
    <3>1. pend' \in Pends
      BY <1>0, <1>f, <2>2 DEF StageCell, Pends
    <3>2. main' \in Mains
      <4>1. CASE main.cell = DOWN_LEN
        BY <1>0, <2>2, <4>1 DEF StageCell, Mains
      <4>2. CASE main.cell # DOWN_LEN
        <5>1. main.cell + 1 \in Cells
          BY <1>f, <1>l, <4>2
        <5> QED
          BY <1>0, <2>2, <4>2, <5>1 DEF StageCell, Mains
      <4> QED
        BY <4>1, <4>2
    <3> QED
      BY <1>0, <2>2, <3>1, <3>2, RememberType DEF StageCell, DownVarsOK
  <2>3. CASE StageLen \/ StageId
    <3>1. pend' \in Pends /\ main' \in Mains
      BY <1>0, <1>f, <2>3 DEF StageLen, StageId, Pends, Mains
    <3> QED
      BY <1>0, <2>3, <3>1, RememberType DEF StageLen, StageId, DownVarsOK
  <2>4. CASE StageReady
    <3>1. pend' \in Pends /\ main' \in Mains
      BY <1>0, <2>4, RestStates DEF StageReady, Pends
    <3> QED
      BY <1>0, <2>4, <3>1, RememberType DEF StageReady, DownVarsOK
  <2> QED
    BY <1>1, <2>1, <2>2, <2>3, <2>4 DEF DownMain
<1>2. CASE StartDownlinkCheck
  <2>1. main' \in Mains
    BY <1>2, RestStates DEF StartDownlinkCheck, AtRest, Mains
  <2> QED
    BY <1>0, <1>2, <2>1 DEF StartDownlinkCheck, OnlyQueue, DownVarsOK
<1>3. CASE StartDownlinkPush
  BY <1>0, <1>3, RestStates DEF StartDownlinkPush, OnlyQueue, DownVarsOK
<1>4. CASE \E type \in {"ABORT", "RESET"} : Request(type)
  BY <1>0, <1>4 DEF Request, OnlyQueue, DownVarsOK
<1>5. CASE UNCHANGED downVars
  BY <1>5, <1>u
<1>6. CASE DownChild
  <2>1. CASE CommitCell
    <3>1. pend.buf[child.cell] \in Nat
      BY <1>0, <1>f DEF Pends
    <3>2. down' \in Downs
      BY <1>0, <1>f, <2>1, <3>1 DEF CommitCell, Downs
    <3>3. child' \in Children
      <4>1. CASE child.cell = DOWN_LEN
        BY <1>0, <2>1, <4>1 DEF CommitCell
      <4>2. CASE child.cell # DOWN_LEN
        <5>1. child.cell + 1 \in Cells
          BY <1>f, <1>l, <4>2
        <5> QED
          BY <1>0, <2>1, <4>2, <5>1 DEF CommitCell, Children
      <4> QED
        BY <4>1, <4>2
    <3> QED
      BY <1>0, <2>1, <3>2, <3>3, RememberType DEF CommitCell, DownVarsOK
  <2>2. CASE CommitSet
    <3>1. down' \in Downs /\ pend' \in Pends
      BY <1>0, <1>f, <2>2 DEF CommitSet, DownCrc, Downs, Pends
    <3> QED
      BY <1>0, <2>2, <3>1, RestStates, RememberType DEF CommitSet, DownVarsOK
  <2>3. CASE ClearConfirmed
    BY <1>0, <2>3, ClearTypes, RememberType DEF ClearConfirmed, DownVarsOK
  <2>4. ASSUME NEW rc \in BOOLEAN, SendMessageHeader(rc) PROVE DownVarsOK'
    <3> DEFINE b == down.inFlight \/ (down.ready /\ rc)
    <3>1. b \in BOOLEAN /\ down' = [down EXCEPT !.inFlight = b]
      BY <2>4 DEF SendMessageHeader
    <3> HIDE DEF b
    <3>2. down' \in Downs
      BY <1>0, <3>1 DEF Downs
    <3>3. s_DownlinkMsgId' \in Nat
      BY <1>0, <2>4 DEF SendMessageHeader, Downs
    <3> QED
      BY <1>0, <2>4, <3>2, <3>3, RememberType DEF SendMessageHeader, DownVarsOK
  <2>5. CASE ClearCell
    BY <1>0, <2>5, ClearTypes, RememberType DEF ClearCell, DownVarsOK
  <2>6. CASE ClearStore
    BY <1>0, <2>6, ClearTypes, RememberType DEF ClearStore, DownVarsOK
  <2> QED
    BY <1>6, <2>1, <2>2, <2>3, <2>4, <2>5, <2>6 DEF DownChild
<1>7. CASE OnIcdRx
  BY <1>7, <1>u DEF OnIcdRx
<1>8. CASE PopStart
  BY <1>0, <1>8 DEF PopStart, DownVarsOK
<1>9. CASE PopAbort
  BY <1>0, <1>9, ClearTypes, RememberType DEF PopAbort, DownVarsOK
<1>10. CASE PopReset
  BY <1>0, <1>10, ClearTypes, RememberType DEF PopReset, DownVarsOK
<1>11. CASE ClearAborted
  BY <1>0, <1>11, ClearTypes, RememberType DEF ClearAborted, DownVarsOK
<1>12. CASE ClearReset
  BY <1>0, <1>12, ClearTypes, RememberType DEF ClearReset, DownVarsOK
<1>13. CASE SessionTick
  BY <1>0, <1>13, TickEffects DEF TickEffect, DownVarsOK
<1>14. CASE PlainFrame
  BY <1>14, <1>u DEF PlainFrame
<1>15. CASE RequestMsgTx
  <2>1. child' \in Children
    <3>1. pend.id \in Nat
      BY <1>0 DEF Pends
    <3> QED
      BY <1>0, <1>15, <3>1, RestStates DEF RequestMsgTx, NoCopy, Children
  <2> QED
    BY <1>0, <1>15, <2>1, RememberType DEF RequestMsgTx, DownVarsOK
<1>16. ASSUME NEW id \in Ids, ConfirmMsgRx(id) PROVE DownVarsOK'
  <2>1. down' \in Downs /\ pend' \in Pends /\ child' \in Children
    BY <1>0, <1>16, ClearTypes DEF ConfirmMsgRx
  <2> QED
    BY <1>0, <1>16, <2>1, RememberType DEF ConfirmMsgRx, DownVarsOK
<1>17. CASE Elapse
  BY <1>17, <1>u DEF Elapse
<1>18. CASE UNCHANGED vars
  BY <1>18, <1>u DEF vars
<1>19. CASE SessionInit
  BY <1>0, <1>19 DEF SessionInit, DownVarsOK
<1> QED
  BY <1>1, <1>2, <1>3, <1>4, <1>5, <1>6, <1>7, <1>8, <1>9, <1>10, <1>11, <1>12, <1>13,
     <1>14, <1>15, <1>16, <1>17, <1>18, <1>19 DEF Step

-----------------------------------------------------------------------------
(* The child task, its mailbox and the upload.                              *)

LEMMA NoRxType == NoRx \in [type : Nat, status : Nat, id : Nat] /\ NoRx.type = 0
BY DEF NoRx, Rx

LEMMA NextChild ==
  ASSUME SessInv, Step
  PROVE  ChildOK' /\ RxInv'
<1>0. ChildOK /\ RxInv
  BY TypeSplit DEF SessInv
<1>u. ASSUME UNCHANGED <<rx, pc>> PROVE ChildOK' /\ RxInv'
  BY <1>0, <1>u DEF ChildOK, RxInv
<1>r. ASSUME NEW type \in Nat, NEW status \in Nat, Report(type, status) PROVE ChildOK' /\ RxInv'
  BY <1>r DEF Report, Rx, ChildOK, RxInv, ClearSteps
<1>1. CASE DownMain
  BY <1>1, <1>u DEF DownMain, BusBeaconReceived, StageCell, StageLen, StageId, StageReady, upVars
<1>2. CASE StartDownlinkCheck
  BY <1>2, <1>u DEF StartDownlinkCheck, OnlyQueue, upVars
<1>3. CASE StartDownlinkPush
  BY <1>3, <1>u DEF StartDownlinkPush, OnlyQueue, upVars
<1>4. CASE \E type \in {"ABORT", "RESET"} : Request(type)
  BY <1>4, <1>u DEF Request, OnlyQueue, upVars
<1>5. CASE NoFrame
  BY <1>0, <1>5 DEF NoFrame, ChildOK, RxInv, ClearSteps
<1>6. CASE ForwardToSB
  BY <1>0, <1>6 DEF ForwardToSB, ChildOK, RxInv, ClearSteps
<1>7. CASE DownChild
  <2>1. CASE CommitCell
    BY <1>0, <2>1 DEF CommitCell, ChildOK, RxInv, ClearSteps
  <2>2. CASE CommitSet
    BY <1>0, <2>2 DEF CommitSet, ChildOK, RxInv, ClearSteps
  <2>3. CASE ClearConfirmed
    BY <1>0, <2>3 DEF ClearConfirmed, ClearInFlight, ChildOK, RxInv, ClearSteps
  <2>4. ASSUME NEW rc \in BOOLEAN, SendMessageHeader(rc) PROVE ChildOK' /\ RxInv'
    BY <1>r, <2>4 DEF SendMessageHeader
  <2>5. CASE ClearCell
    BY <1>0, <2>5 DEF ClearCell, ChildOK, RxInv, ClearSteps
  <2>6. CASE ClearStore
    BY <1>0, <2>6 DEF ClearStore, ClearDown, ClearPendingLen, ClearPendingId, ClearPendingReady,
      ChildOK, RxInv, ClearSteps
  <2> QED
    BY <1>7, <2>1, <2>2, <2>3, <2>4, <2>5, <2>6 DEF DownChild
<1>8. CASE OnIcdRx
  <2>1. rx' \in {rx, NoRx} /\ pc' = "tick"
    BY <1>8 DEF OnIcdRx, StartWait
  <2> QED
    BY <1>0, <2>1, NoRxType DEF ChildOK, RxInv, ClearSteps
<1>9. CASE PopStart
  BY <1>0, <1>9, NoRxType DEF PopStart, StartWait, ChildOK, RxInv, ClearSteps
<1>10. CASE PopAbort
  BY <1>10, NoRxType DEF PopAbort, ClearMessage, ChildOK, RxInv, ClearSteps
<1>11. CASE PopReset
  BY <1>11, NoRxType DEF PopReset, ClearMessage, ChildOK, RxInv, ClearSteps
<1>12. CASE ClearAborted
  BY <1>0, <1>12 DEF ClearAborted, ClearInFlight, ChildOK, RxInv, ClearSteps
<1>13. CASE ClearReset
  BY <1>0, <1>13 DEF ClearReset, ClearInFlight, ChildOK, RxInv, ClearSteps
<1>14. CASE SessionTick
  BY <1>0, <1>14, TickEffects, NoRxType DEF TickEffect, ChildOK, RxInv, ClearSteps
<1>15. CASE PlainFrame
  BY <1>15 DEF PlainFrame, ChildOK, RxInv, ClearSteps
<1>16. CASE RequestMsgTx
  BY <1>0, <1>r, <1>16 DEF RequestMsgTx, ChildOK, RxInv, ClearSteps
<1>17. ASSUME NEW id \in Ids, ConfirmMsgRx(id) PROVE ChildOK' /\ RxInv'
  <2>1. id \in Nat
    BY DownlinkAssumption DEF Ids
  <2>2. pc' \in {"wipe", "notify"} /\ rx' = Rx(11, 0, id)
    BY <1>17 DEF ConfirmMsgRx, ClearMessage
  <2> QED
    BY <2>1, <2>2 DEF Rx, ChildOK, RxInv, ClearSteps
<1>18. CASE Elapse
  BY <1>18, <1>u DEF Elapse, upVars
<1>19. CASE UNCHANGED vars
  BY <1>19, <1>u DEF vars, upVars
<1>20. CASE SessionInit
  BY <1>20, NoRxType DEF SessionInit, ChildOK, RxInv
<1> QED
  BY <1>1, <1>2, <1>3, <1>4, <1>5, <1>6, <1>7, <1>8, <1>9, <1>10, <1>11, <1>12, <1>13,
     <1>14, <1>15, <1>16, <1>17, <1>18, <1>19, <1>20 DEF Step

\* A step that leaves the upload alone and is not the end of a round.
LEMMA KeepsUpload ==
  ASSUME UploadInv, UNCHANGED <<up, genuine>>,
         \/ pc' \notin {"rx", "forward"}
         \/ UNCHANGED <<s_State, fwd, pc>>
  PROVE  UploadInv'
BY DEF UploadInv, NothingOverwritten, UploadForwarded

\* What the uplink guarantees holds under the session as well, and the forward at
\* the end of the round finds what the session reported.
LEMMA NextUpload ==
  ASSUME SessInv, Step
  PROVE  UploadInv'
<1>0. UploadInv /\ up \in UpStates
  BY DEF SessInv, UploadInv, Good
<1>1. CASE DownMain /\ UNCHANGED sessVars
  BY <1>0, <1>1, KeepsUpload DEF DownMain, BusBeaconReceived, StageCell, StageLen, StageId, StageReady,
    upVars, sessVars
<1>2. CASE StartDownlinkCheck
  BY <1>0, <1>2, KeepsUpload DEF StartDownlinkCheck, OnlyQueue, upVars
<1>3. CASE StartDownlinkPush
  BY <1>0, <1>3, KeepsUpload DEF StartDownlinkPush, OnlyQueue, upVars
<1>4. CASE \E type \in {"ABORT", "RESET"} : Request(type)
  BY <1>0, <1>4, KeepsUpload DEF Request, OnlyQueue, upVars
<1>5. CASE NoFrame
  BY <1>0, <1>5, KeepsUpload DEF NoFrame
<1>6. CASE ForwardToSB /\ UNCHANGED <<downVars, sessVars>>
  <2>0. pc = "forward" /\ pc' = "rx" /\ s_State' = s_State
    BY <1>6 DEF ForwardToSB, sessVars
  <2>1. CASE up.complete
    <3>1. /\ up' = Uplink_Reset /\ genuine' = TRUE
          /\ fwd' = [id |-> up.msg_id, data |-> CalculateCRC32(up.buf, up.msg_len)]
      BY <1>6, <2>1 DEF ForwardToSB, AfterCopyOut
    <3>2. CalculateCRC32(up.buf, up.msg_len) = up.msg_crc
      BY <1>0, <2>1 DEF UploadInv, Good, Announced
    <3>3. fwd' \in [id : MessageIds \cup {0}, data : Content]
      BY <1>0, <3>1, <3>2 DEF UpStates
    <3>4. fwd' # NoMessage
      BY <3>3, UplinkAssumption
    <3>5. Good(up', genuine') /\ genuine' \in BOOLEAN /\ ~up'.complete
      BY <3>1, GoodReset, ResetFacts
    <3> QED
      BY <2>0, <3>4, <3>5 DEF UploadInv, NothingOverwritten, UploadForwarded
  <2>2. CASE ~up.complete
    <3>1. UNCHANGED <<up, genuine>>
      BY <1>6, <2>2 DEF ForwardToSB
    <3> QED
      BY <1>0, <2>0, <2>2, <3>1 DEF UploadInv, NothingOverwritten, UploadForwarded
  <2> QED
    BY <2>1, <2>2
<1>7. CASE DownChild /\ UNCHANGED sessVars
  <2>1. UNCHANGED <<up, genuine>> /\ pc' \notin {"rx", "forward"}
    <3>1. CASE CommitCell \/ CommitSet \/ ClearConfirmed \/ \E rc \in BOOLEAN : SendMessageHeader(rc)
      BY <3>1 DEF CommitCell, CommitSet, ClearConfirmed, SendMessageHeader, Report
    <3>2. CASE ClearCell \/ ClearStore
      BY <3>2 DEF ClearCell, ClearStore, ClearDown, ClearPendingLen, ClearPendingId, ClearPendingReady
    <3> QED
      BY <1>7, <3>1, <3>2 DEF DownChild
  <2> QED
    BY <1>0, <2>1, KeepsUpload
<1>8. CASE OnIcdRx
  BY <1>0, <1>8, KeepsUpload DEF OnIcdRx
<1>9. CASE PopStart
  BY <1>0, <1>9, KeepsUpload DEF PopStart
<1>10. CASE PopAbort
  BY <1>0, <1>10, KeepsUpload DEF PopAbort, ClearMessage
<1>11. CASE PopReset
  BY <1>0, <1>11, KeepsUpload DEF PopReset, ClearMessage
<1>12. CASE ClearAborted
  BY <1>0, <1>12, KeepsUpload DEF ClearAborted
<1>13. CASE ClearReset
  BY <1>0, <1>13, KeepsUpload DEF ClearReset
<1>14. CASE SessionTick
  BY <1>0, <1>14, TickEffects DEF TickEffect, UploadInv, NothingOverwritten, UploadForwarded
<1>15. CASE PlainFrame
  BY <1>15 DEF PlainFrame, UploadInv, NothingOverwritten, UploadForwarded
<1>16. CASE RequestMsgTx
  BY <1>0, <1>16, KeepsUpload DEF RequestMsgTx, Report
<1>17. ASSUME NEW id \in Ids, ConfirmMsgRx(id) PROVE UploadInv'
  BY <1>0, <1>17, KeepsUpload DEF ConfirmMsgRx, ClearMessage
<1>18. CASE Elapse
  BY <1>0, <1>18, KeepsUpload DEF Elapse, upVars
<1>19. CASE UNCHANGED vars
  BY <1>0, <1>19, KeepsUpload DEF vars, upVars, sessVars
<1>20. CASE SessionInit
  BY <1>0, <1>20, KeepsUpload DEF SessionInit
<1> QED
  BY <1>1, <1>2, <1>3, <1>4, <1>5, <1>6, <1>7, <1>8, <1>9, <1>10, <1>11, <1>12, <1>13,
     <1>14, <1>15, <1>16, <1>17, <1>18, <1>19, <1>20 DEF Step

-----------------------------------------------------------------------------
(* The buffers.                                                             *)

\* A race is remembered as long as anything it touched may be left.
LEMMA CleanStep ==
  ASSUME CleanInv, Remember, BufferInv', Clean /\ ~raced /\ ~Overlap' => Clean'
  PROVE  CleanInv'
<1> SUFFICES ASSUME ~raced' PROVE Clean'
  BY DEF CleanInv
<1>1. ~Overlap' /\ (~raced \/ (down' = NoDown /\ ~pend'.ready /\ main'.step = "idle"))
  BY DEF Remember
<1>2. CASE ~raced
  BY <1>1, <1>2 DEF CleanInv
<1>3. CASE down' = NoDown /\ ~pend'.ready /\ main'.step = "idle"
  <2>1. ~down'.ready /\ ~down'.inFlight
    BY <1>3 DEF NoDown
  <2>2. pc' \notin {"commit", "set"}
    BY <1>3 DEF BufferInv
  <2> QED
    BY <1>3, <2>1, <2>2 DEF Clean, Staging
<1> QED
  BY <1>1, <1>2, <1>3

\* A step outside the buffers.
LEMMA KeepsBuffers ==
  ASSUME BufferInv, CleanInv, UNCHANGED <<down, pend, child, raced>>,
         main' = main \/ (~Staging /\ ~Staging'),
         pc' = pc \/ (pc \notin Busy /\ pc' \notin Busy)
  PROVE  BufferInv' /\ CleanInv'
BY DEF BufferInv, CleanInv, Clean, Overlap, Staging, Busy, NotReady, ClearSteps,
  HeaderDescribesBuffer, Settled

\* The call of ClearMessage.
LEMMA ClearMessageStep ==
  ASSUME BufferInv, CleanInv, Remember, NEW after, ClearMessage(after), main' = main
  PROVE  BufferInv' /\ CleanInv'
<1>1. UNCHANGED <<down, pend>> /\ pc' = "wipe"
  BY DEF ClearMessage
<1>2. BufferInv'
  BY <1>1 DEF BufferInv, HeaderDescribesBuffer, Settled, Remember, Staging, NotReady, ClearSteps
<1>3. ASSUME Clean, ~Overlap' PROVE Clean'
  <2>1. ~Staging'
    BY <1>1, <1>3 DEF Overlap, Staging, ClearSteps
  <2> QED
    BY <1>1, <1>3, <2>1 DEF Clean, Staging, Settled, ClearSteps
<1> QED
  BY <1>2, <1>3, CleanStep

\* The stores of ClearMessage.  Those of the main task may fall between any two
\* of them, and are remembered as a race.
LEMMA ClearStoreStep ==
  ASSUME BufferInv, CleanInv, DownVarsOK, ClearCell \/ ClearStore
  PROVE  BufferInv' /\ CleanInv'
<1>0. /\ main' = main /\ Remember /\ down \in Downs /\ pend \in Pends
      /\ pc \in ClearSteps \ {"clear_flight"} /\ pc' \in ClearSteps
  BY DEF ClearCell, ClearStore, ClearDown, ClearPendingLen, ClearPendingId, ClearPendingReady,
    ClearSteps, DownVarsOK
<1>1. /\ down'.ready => down.ready /\ down'.id = down.id
      /\ pc' \in NotReady => ~down'.ready
      /\ down'.inFlight = down.inFlight
  <2>1. CASE ClearCell
    BY <1>0, <2>1 DEF ClearCell, Downs, NotReady
  <2>2. CASE ClearStore /\ ClearDown
    BY <1>0, <2>2 DEF ClearDown, NoDown
  <2>3. CASE ClearStore /\ ~ClearDown
    BY <2>3 DEF ClearStore, ClearPendingLen, ClearPendingId, ClearPendingReady, BufferInv, NotReady
  <2> QED
    BY <2>1, <2>2, <2>3
<1>2. pend'.ready => pend.ready /\ pc' # "clear_flight"
  <2>1. CASE ClearCell
    BY <1>0, <2>1 DEF ClearCell, Pends
  <2>2. CASE ClearStore
    BY <1>0, <2>2 DEF ClearStore, ClearDown, ClearPendingLen, ClearPendingId, ClearPendingReady, Pends
  <2> QED
    BY <2>1, <2>2
<1>3. BufferInv'
  BY <1>0, <1>1 DEF BufferInv, HeaderDescribesBuffer, Settled, Remember, Staging, ClearSteps
<1>4. ASSUME Clean, ~raced PROVE Clean'
  <2>1. ~Staging
    BY <1>0, <1>4 DEF BufferInv, Overlap, Staging
  <2>2. pc' \notin {"commit", "set", "header"} /\ ~Settled'
    BY <1>0 DEF ClearSteps, Settled
  <2> QED
    BY <1>0, <1>1, <1>2, <1>4, <2>1, <2>2 DEF Clean, Staging
<1> QED
  BY <1>0, <1>3, <1>4, CleanStep

\* The return from ClearMessage: nothing is in flight, and without a race
\* nothing is pending.
LEMMA ClearInFlightStep ==
  ASSUME BufferInv, CleanInv, DownVarsOK, Remember, NEW after, ClearInFlight(after), main' = main,
         pc' \in {"notify", "tick", "init"}
  PROVE  BufferInv' /\ CleanInv'
<1>0. pc = "clear_flight" /\ ~down.ready
  BY DEF ClearInFlight, BufferInv, NotReady
<1>1. ~down'.ready /\ ~down'.inFlight /\ pend' = pend
  BY <1>0 DEF ClearInFlight, DownVarsOK, Downs
<1>2. BufferInv'
  BY <1>1 DEF BufferInv, HeaderDescribesBuffer, Remember, Staging, NotReady
<1>3. ASSUME Clean, ~raced PROVE Clean'
  <2>1. ~Staging
    BY <1>0, <1>3 DEF BufferInv, Overlap, Staging, ClearSteps
  <2>2. ~pend'.ready
    BY <1>0, <1>1, <1>3 DEF Clean
  <2> QED
    BY <1>1, <2>1, <2>2 DEF Clean, Staging
<1> QED
  BY <1>2, <1>3, CleanStep

\* Staging by the main task: clean unless the child task is in the buffers.
LEMMA MainBuffers ==
  ASSUME BufferInv, CleanInv, DownVarsOK, DownMain
  PROVE  BufferInv' /\ CleanInv'
<1>0. down' = down /\ child' = child /\ pc' = pc /\ Remember
  BY DEF DownMain, BusBeaconReceived, StageCell, StageLen, StageId, StageReady, upVars
<1>t. /\ pend \in Pends /\ main \in Mains /\ main.cell \in Cells /\ DOWN_LEN \in Nat
      /\ Cells = 1 .. DOWN_LEN
  BY DownlinkAssumption DEF DownVarsOK, Mains, Cells
<1>b. ASSUME pend'.ready = pend.ready \/ pend'.ready, Staging' => main'.id # 0
      PROVE  BufferInv'
  BY <1>0, <1>b DEF BufferInv, HeaderDescribesBuffer, Settled, Remember
<1>s. ASSUME ~Overlap', Staging' PROVE pc \notin Busy /\ pc \notin ClearSteps /\ Settled
  BY <1>0, <1>s DEF Overlap, Busy, Staging, Settled, ClearSteps
<1>1. CASE BusBeaconReceived
  <2>1. /\ ~Staging /\ main'.step = "copy" /\ main'.cell = 1 /\ pend' = pend
        /\ ~down.inFlight
    BY <1>1 DEF BusBeaconReceived, Staging, MayStage
  <2>a. main'.id # 0
    <3>1. \A seconds \in Seconds : seconds \in Nat \ {0} /\ seconds + 1 # 0
      BY DownlinkAssumption
    <3> QED
      BY <1>1, <3>1 DEF BusBeaconReceived
  <2>2. BufferInv'
    BY <1>b, <2>1, <2>a
  <2>3. ASSUME Clean, ~Overlap' PROVE Clean'
    <3>1. pc \notin Busy /\ pc \notin ClearSteps
      BY <1>s, <2>1, <2>3 DEF Staging
    <3> QED
      BY <1>0, <1>t, <2>1, <2>3, <3>1 DEF Clean, Staging, Busy, Settled
  <2> QED
    BY <1>0, <2>2, <2>3, CleanStep
<1>2. CASE StageCell
  <2>1. /\ main.step = "copy" /\ main'.id = main.id
        /\ \/ main.cell = DOWN_LEN /\ main'.step = "len"
           \/ main.cell # DOWN_LEN /\ main'.step = "copy" /\ main'.cell = main.cell + 1
        /\ pend'.ready = pend.ready /\ pend'.id = pend.id
        /\ \A c \in Cells : pend'.buf[c] = IF c = main.cell THEN main.id ELSE pend.buf[c]
    BY <1>2, <1>t DEF StageCell, Mains, Pends
  <2>2. BufferInv'
    BY <1>b, <2>1 DEF BufferInv, Staging
  <2>3. ASSUME Clean, ~Overlap' PROVE Clean'
    <3>1. pc \notin Busy /\ pc \notin ClearSteps /\ Staging /\ Staging'
      BY <1>s, <2>1, <2>3 DEF Staging
    <3>2. \A c \in Cells : c <= main.cell => pend'.buf[c] = main.id
      BY <1>t, <2>1, <2>3 DEF Clean
    <3> QED
      BY <1>0, <1>t, <2>1, <2>3, <3>1, <3>2 DEF Clean, Staging, Busy, Settled
  <2> QED
    BY <1>0, <2>2, <2>3, CleanStep
<1>3. CASE StageLen
  <2>1. /\ main.step = "len" /\ main'.id = main.id /\ main'.step = "id"
        /\ pend'.ready = pend.ready /\ pend'.id = pend.id /\ pend'.buf = pend.buf
    BY <1>3, <1>t DEF StageLen, Mains, Pends
  <2>2. BufferInv'
    BY <1>b, <2>1 DEF BufferInv, Staging
  <2>3. ASSUME Clean, ~Overlap' PROVE Clean'
    <3>1. pc \notin Busy /\ pc \notin ClearSteps /\ Staging /\ Staging'
      BY <1>s, <2>1, <2>3 DEF Staging
    <3> QED
      BY <1>0, <2>1, <2>3, <3>1 DEF Clean, Staging, Busy, Settled
  <2> QED
    BY <1>0, <2>2, <2>3, CleanStep
<1>4. CASE StageId
  <2>1. /\ main.step = "id" /\ main'.id = main.id /\ main'.step = "ready"
        /\ pend'.ready = pend.ready /\ pend'.id = main.id /\ pend'.buf = pend.buf
    BY <1>4, <1>t DEF StageId, Mains, Pends
  <2>a. main.id # 0
    BY <2>1 DEF BufferInv, Staging
  <2>2. BufferInv'
    BY <1>b, <2>1, <2>a
  <2>3. ASSUME Clean, ~Overlap' PROVE Clean'
    <3>1. pc \notin Busy /\ pc \notin ClearSteps /\ Staging /\ Staging'
      BY <1>s, <2>1, <2>3 DEF Staging
    <3> QED
      BY <1>0, <2>1, <2>a, <2>3, <3>1 DEF Clean, Staging, Busy, Settled
  <2> QED
    BY <1>0, <2>2, <2>3, CleanStep
<1>5. CASE StageReady
  <2>1. /\ main.step = "ready" /\ main'.step = "idle"
        /\ pend'.ready /\ pend'.id = pend.id /\ pend'.buf = pend.buf
    BY <1>5, <1>t DEF StageReady, AtRest, Pends
  <2>a. main.id # 0 /\ ~Staging'
    BY <2>1 DEF BufferInv, Staging
  <2>2. BufferInv'
    BY <1>b, <2>1, <2>a
  <2>3. ASSUME Clean, ~raced PROVE Clean'
    <3>1. pc \notin Busy /\ Staging
      BY <2>1, <2>3 DEF BufferInv, Overlap, Busy, Staging
    <3> QED
      BY <1>0, <2>1, <2>a, <2>3, <3>1 DEF Clean, Staging, Busy, Settled, ClearSteps
  <2> QED
    BY <1>0, <2>2, <2>3, CleanStep
<1> QED
  BY <1>1, <1>2, <1>3, <1>4, <1>5 DEF DownMain

\* Type3: a copy starts only while the main task is out of the buffers, or the
\* race is remembered.
LEMMA RequestBuffers ==
  ASSUME BufferInv, CleanInv, DownVarsOK, RequestMsgTx
  PROVE  BufferInv' /\ CleanInv'
<1>0. /\ pc = "rx" /\ down' = down /\ pend' = pend /\ main' = main /\ Remember
      /\ DOWN_LEN \in Nat /\ Cells = 1 .. DOWN_LEN
  BY DownlinkAssumption DEF RequestMsgTx, Cells
<1>1. CASE pc' = "notify"
  <2>1. BufferInv'
    BY <1>0, <1>1 DEF BufferInv, HeaderDescribesBuffer, Settled, Remember, Staging, NotReady, ClearSteps
  <2>2. ASSUME Clean PROVE Clean'
    BY <1>0, <1>1, <2>2 DEF Clean, Staging, Settled, ClearSteps
  <2> QED
    BY <1>0, <2>1, <2>2, CleanStep
<1>2. CASE pend.ready /\ child' = [NoCopy EXCEPT !.id = pend.id] /\ pc' = "commit"
  <2>1. child'.id = pend.id /\ child'.cell = 1
    BY <1>2 DEF NoCopy
  <2>2. BufferInv'
    BY <1>0, <1>2, <2>1 DEF BufferInv, HeaderDescribesBuffer, Settled, Remember, Staging, NotReady, ClearSteps
  <2>3. ASSUME Clean, ~Overlap' PROVE Clean'
    <3>1. ~Staging
      BY <1>0, <1>2, <2>3 DEF Overlap, Staging
    <3> QED
      BY <1>0, <1>2, <2>1, <2>3, <3>1 DEF Clean, Staging, Settled, ClearSteps
  <2> QED
    BY <1>0, <2>2, <2>3, CleanStep
<1>3. CASE ~pend.ready /\ pc' = "header"
  <2>1. BufferInv'
    BY <1>0, <1>3 DEF BufferInv, HeaderDescribesBuffer, Settled, Remember, Staging, NotReady, ClearSteps
  <2>2. ASSUME Clean, ~Overlap' PROVE Clean'
    <3>1. ~Staging
      BY <1>0, <1>3, <2>2 DEF Overlap, Staging
    <3> QED
      BY <1>0, <1>3, <2>2, <3>1 DEF Clean, Staging, Settled, ClearSteps
  <2> QED
    BY <1>0, <2>1, <2>2, CleanStep
<1> QED
  BY <1>1, <1>2, <1>3 DEF RequestMsgTx, Report

\* CommitPending and the header: without a race every cell is of the snapshot
\* whose identifier was read before the copy.
LEMMA CommitBuffers ==
  ASSUME BufferInv, CleanInv, DownVarsOK,
         CommitCell \/ CommitSet \/ \E rc \in BOOLEAN : SendMessageHeader(rc)
  PROVE  BufferInv' /\ CleanInv'
<1>0. /\ main' = main /\ Remember
      /\ DOWN_LEN \in Nat /\ Cells = 1 .. DOWN_LEN
      /\ down \in Downs /\ pend \in Pends /\ child \in Children /\ child.cell \in Cells
  BY DownlinkAssumption DEF CommitCell, CommitSet, SendMessageHeader, Cells, DownVarsOK, Children
<1>r. ASSUME ~raced, pc \in Busy PROVE ~Staging
  BY <1>r DEF BufferInv, Overlap, Busy, Staging
<1>1. CASE CommitCell
  <2>1. /\ pc = "commit" /\ pend' = pend /\ child'.id = child.id
        /\ \/ child.cell = DOWN_LEN /\ pc' = "set"
           \/ child.cell # DOWN_LEN /\ pc' = "commit" /\ child'.cell = child.cell + 1
        /\ down'.ready = down.ready /\ down'.id = down.id /\ down'.inFlight = down.inFlight
        /\ \A c \in Cells : down'.buf[c] = IF c = child.cell THEN pend.buf[c] ELSE down.buf[c]
    BY <1>0, <1>1 DEF CommitCell, Children, Downs
  <2>2. BufferInv'
    BY <1>0, <2>1 DEF BufferInv, HeaderDescribesBuffer, Settled, Remember, Staging, NotReady, ClearSteps
  <2>3. ASSUME Clean, ~raced PROVE Clean'
    <3>1. ~Staging /\ pend.ready
      BY <1>r, <2>1, <2>3 DEF Busy, BufferInv
    <3>2. \A c \in Cells : c <= child.cell => down'.buf[c] = child.id
      BY <1>0, <2>1, <2>3, <3>1 DEF Clean, ClearSteps
    <3>3. pc' = "commit" => \A c \in Cells : c < child'.cell => down'.buf[c] = child'.id
      BY <1>0, <2>1, <3>2
    <3>4. pc' = "set" => \A c \in Cells : down'.buf[c] = child'.id
      BY <1>0, <2>1, <3>2
    <3> QED
      BY <1>0, <2>1, <2>3, <3>1, <3>3, <3>4 DEF Clean, Staging, Settled, ClearSteps
  <2> QED
    BY <1>0, <2>2, <2>3, CleanStep
<1>2. CASE CommitSet
  <2>1. /\ pc = "set" /\ pc' = "header" /\ ~pend'.ready
        /\ down'.ready /\ down'.id = child.id /\ down'.crc = down'.buf /\ down'.buf = down.buf
    BY <1>0, <1>2 DEF CommitSet, DownCrc, Downs, Pends
  <2>2. BufferInv'
    BY <1>0, <2>1 DEF BufferInv, HeaderDescribesBuffer, Settled, Remember, Staging, NotReady, ClearSteps
  <2>3. ASSUME Clean, ~raced PROVE Clean'
    <3>1. ~Staging
      BY <1>r, <2>1, <2>3 DEF Busy
    <3>2. child.id # 0
      BY <2>1, <2>3 DEF Clean, BufferInv, ClearSteps
    <3> QED
      BY <1>0, <2>1, <2>3, <3>1, <3>2 DEF Clean, Staging, Settled, ClearSteps
  <2> QED
    BY <1>0, <2>2, <2>3, CleanStep
<1>3. ASSUME NEW rc \in BOOLEAN, SendMessageHeader(rc) PROVE BufferInv' /\ CleanInv'
  <2>1. /\ pc = "header" /\ pc' = "notify" /\ pend' = pend /\ child' = child
        /\ down'.ready = down.ready /\ down'.id = down.id
        /\ down'.crc = down.crc /\ down'.buf = down.buf
    BY <1>0, <1>3 DEF SendMessageHeader, Report, Downs
  <2>2. down'.inFlight => down.inFlight \/ down.ready
    BY <1>0, <1>3 DEF SendMessageHeader, Downs
  <2>3. BufferInv'
    BY <1>0, <2>1, <2>2 DEF BufferInv, HeaderDescribesBuffer, Settled, Remember, Staging, NotReady, ClearSteps
  <2>4. ASSUME Clean PROVE Clean'
    BY <1>0, <2>1, <2>4 DEF Clean, Staging, Settled, ClearSteps
  <2> QED
    BY <1>0, <2>3, <2>4, CleanStep
<1> QED
  BY <1>1, <1>2, <1>3

\* Commit, header, parts, confirmation and clearing by the child task.
LEMMA NextBuffers ==
  ASSUME SessInv, Step
  PROVE  BufferInv' /\ CleanInv'
<1>0. BufferInv /\ CleanInv /\ DownVarsOK
  BY TypeSplit DEF SessInv
<1>u. ASSUME UNCHANGED downVars, pc' = pc \/ (pc \notin Busy /\ pc' \notin Busy)
      PROVE  BufferInv' /\ CleanInv'
  BY <1>0, <1>u, KeepsBuffers DEF downVars
<1>1. CASE DownMain
  BY <1>0, <1>1, MainBuffers
<1>2. CASE StartDownlinkCheck
  BY <1>0, <1>2, KeepsBuffers DEF StartDownlinkCheck, OnlyQueue, AtRest, Staging, upVars
<1>3. CASE StartDownlinkPush
  BY <1>0, <1>3, KeepsBuffers DEF StartDownlinkPush, OnlyQueue, AtRest, Staging, upVars
<1>4. CASE \E type \in {"ABORT", "RESET"} : Request(type)
  BY <1>0, <1>4, KeepsBuffers DEF Request, OnlyQueue, upVars
<1>5. CASE NoFrame /\ UNCHANGED <<downVars, sessVars>>
  BY <1>5, <1>u DEF NoFrame, Busy, ClearSteps
<1>6. CASE ForwardToSB /\ UNCHANGED <<downVars, sessVars>>
  BY <1>6, <1>u DEF ForwardToSB, Busy, ClearSteps
<1>7. CASE DownChild
  <2>1. CASE ClearConfirmed
    BY <1>0, <2>1, ClearInFlightStep DEF ClearConfirmed
  <2> QED
    BY <1>0, <1>7, <2>1, CommitBuffers, ClearStoreStep DEF DownChild
<1>8. CASE OnIcdRx
  BY <1>8, <1>u DEF OnIcdRx, Busy, ClearSteps
<1>9. CASE PopStart
  BY <1>0, <1>9, KeepsBuffers DEF PopStart
<1>10. CASE PopAbort
  BY <1>0, <1>10, ClearMessageStep DEF PopAbort
<1>11. CASE PopReset
  BY <1>0, <1>11, ClearMessageStep DEF PopReset
<1>12. CASE ClearAborted
  BY <1>0, <1>12, ClearInFlightStep DEF ClearAborted
<1>13. CASE ClearReset
  BY <1>0, <1>13, ClearInFlightStep DEF ClearReset
<1>14. CASE SessionTick
  BY <1>0, <1>14, TickEffects, KeepsBuffers DEF TickEffect, Busy, ClearSteps
<1>15. CASE PlainFrame
  BY <1>15, <1>u DEF PlainFrame, Busy, ClearSteps
<1>16. CASE RequestMsgTx
  BY <1>0, <1>16, RequestBuffers
<1>17. ASSUME NEW id \in Ids, ConfirmMsgRx(id) PROVE BufferInv' /\ CleanInv'
  <2>0. Remember /\ main' = main /\ pc = "rx"
    BY <1>17 DEF ConfirmMsgRx
  <2>1. CASE Confirms(id)
    BY <1>0, <1>17, <2>0, <2>1, ClearMessageStep DEF ConfirmMsgRx
  <2>2. CASE ~Confirms(id)
    <3>1. pc' = "notify" /\ UNCHANGED <<down, pend, child>>
      BY <1>17, <2>2 DEF ConfirmMsgRx
    <3>2. BufferInv'
      BY <1>0, <2>0, <3>1 DEF BufferInv, HeaderDescribesBuffer, Settled, Remember, Staging,
        NotReady, ClearSteps
    <3>3. ASSUME Clean PROVE Clean'
      BY <2>0, <3>1, <3>3 DEF Clean, Staging, Settled, ClearSteps
    <3> QED
      BY <1>0, <2>0, <3>2, <3>3, CleanStep
  <2> QED
    BY <2>1, <2>2
<1>18. CASE Elapse
  BY <1>18, <1>u DEF Elapse, upVars
<1>19. CASE UNCHANGED vars
  BY <1>19, <1>u DEF vars, upVars
<1>20. CASE SessionInit
  BY <1>0, <1>20, KeepsBuffers DEF SessionInit, Busy, ClearSteps
<1> QED
  BY <1>1, <1>2, <1>3, <1>4, <1>5, <1>6, <1>7, <1>8, <1>9, <1>10, <1>11, <1>12, <1>13,
     <1>14, <1>15, <1>16, <1>17, <1>18, <1>19, <1>20 DEF Step

-----------------------------------------------------------------------------
(* The identifier that ends the downlink session.                           *)

LEMMA KeepsId ==
  ASSUME IdInv, UNCHANGED <<down, s_DownlinkMsgId, s_State>>, pc \notin Busy,
         pc' \in Busy \/ rx' = rx \/ rx'.type \notin {3, 11},
         pc' \in {"notify", "tick"} => pc \in {"notify", "tick"} \/ rx'.type \notin {3, 11}
  PROVE  IdInv'
BY DEF IdInv, Busy, ClearSteps

\* The session and the buffers agree on the identifier in flight.
LEMMA NextId ==
  ASSUME SessInv, Step
  PROVE  IdInv'
<1>0. IdInv /\ RxInv /\ BufferInv /\ DownVarsOK /\ down \in Downs
  BY TypeSplit DEF SessInv, DownVarsOK
<1>n. NoRx.type \notin {3, 11}
  BY NoRxType
<1>u. ASSUME UNCHANGED <<rx, pc, down, s_DownlinkMsgId, s_State>> PROVE IdInv'
  BY <1>0, <1>u DEF IdInv
<1>b. ASSUME pc' \in Busy PROVE IdInv'
  BY <1>b DEF IdInv, Busy, ClearSteps
<1>c. ASSUME NEW after, ClearInFlight(after) PROVE IdInv'
  BY <1>0, <1>c DEF IdInv, ClearInFlight, Downs
<1>1. CASE DownMain /\ UNCHANGED sessVars
  BY <1>1, <1>u DEF DownMain, BusBeaconReceived, StageCell, StageLen, StageId, StageReady, upVars, sessVars
<1>2. CASE StartDownlinkCheck
  BY <1>2, <1>u DEF StartDownlinkCheck, OnlyQueue, upVars
<1>3. CASE StartDownlinkPush
  BY <1>3, <1>u DEF StartDownlinkPush, OnlyQueue, upVars
<1>4. CASE \E type \in {"ABORT", "RESET"} : Request(type)
  BY <1>4, <1>u DEF Request, OnlyQueue, upVars
<1>5. CASE (NoFrame \/ ForwardToSB) /\ UNCHANGED <<downVars, sessVars>>
  <2>1. pc \in {"rx", "forward"} /\ rx = NoRx
    BY <1>0, <1>5 DEF NoFrame, ForwardToSB, RxInv, ClearSteps
  <2>2. rx' = rx
    BY <1>5, <2>1 DEF NoFrame, ForwardToSB
  <2> QED
    BY <1>0, <1>5, <1>n, <2>1, <2>2, KeepsId DEF Busy, ClearSteps, downVars, sessVars
<1>6. CASE DownChild /\ UNCHANGED sessVars
  <2>1. CASE CommitCell \/ CommitSet \/ ClearCell \/ ClearStore
    BY <1>b, <2>1 DEF CommitCell, CommitSet, ClearCell, ClearStore, ClearDown, ClearPendingLen,
      ClearPendingId, ClearPendingReady, Busy, ClearSteps
  <2>2. CASE ClearConfirmed
    BY <1>c, <2>2 DEF ClearConfirmed
  <2>3. ASSUME NEW rc \in BOOLEAN, SendMessageHeader(rc) PROVE IdInv'
    <3>1. /\ down'.inFlight => down.inFlight \/ down.ready
          /\ down'.id = down.id
      BY <1>0, <2>3 DEF SendMessageHeader, Downs
    <3>2. rx'.type = 3
      BY <2>3 DEF SendMessageHeader, Report, Rx
    <3>3. down'.inFlight => s_DownlinkMsgId' = down'.id
      BY <1>0, <2>3, <3>1 DEF SendMessageHeader, BufferInv, ClearSteps
    <3> QED
      BY <3>2, <3>3 DEF IdInv
  <2> QED
    BY <1>6, <2>1, <2>2, <2>3 DEF DownChild
<1>7. CASE OnIcdRx
  <2>1. /\ pc = "notify" /\ pc' = "tick" /\ rx' \in {rx, NoRx}
        /\ s_State' \in {s_State, "UL_OFFERED"} /\ UNCHANGED <<down, s_DownlinkMsgId>>
    BY <1>7 DEF OnIcdRx, StartWait, SetState, downVars
  <2> QED
    BY <1>0, <1>n, <2>1 DEF IdInv, Busy, ClearSteps
<1>8. CASE PopStart
  <2>1. rx'.type \notin {3, 11} /\ s_State' = "WAIT_BEACON_REQ"
    BY <1>8, <1>n DEF PopStart, StartWait, SetState
  <2> QED
    BY <2>1 DEF IdInv
<1>9. CASE PopAbort \/ PopReset
  BY <1>9, <1>b DEF PopAbort, PopReset, ClearMessage, Busy, ClearSteps
<1>10. CASE ClearAborted \/ ClearReset
  BY <1>10, <1>c DEF ClearAborted, ClearReset
<1>11. CASE SessionTick
  <2>1. TickEffect
    BY <1>11, TickEffects
  <2> QED
    BY <1>0, <1>n, <2>1 DEF TickEffect, IdInv, Busy, ClearSteps
<1>12. CASE PlainFrame
  <2>1. /\ pc = "rx" /\ rx'.id = 0 /\ (rx'.type = 3 => rx'.status # 0)
        /\ UNCHANGED <<down, s_DownlinkMsgId, s_State>>
    BY <1>12 DEF PlainFrame, downVars, sessVars
  <2> QED
    BY <1>0, <2>1 DEF IdInv, Busy, ClearSteps
<1>13. CASE RequestMsgTx /\ UNCHANGED sessVars
  <2>1. /\ pc = "rx" /\ UNCHANGED <<down, s_DownlinkMsgId, s_State>>
        /\ pc' \in Busy \/ (rx'.type = 3 /\ rx'.status = 1)
    BY <1>13 DEF RequestMsgTx, Report, Rx, Busy, sessVars
  <2> QED
    BY <1>0, <2>1 DEF IdInv, Busy, ClearSteps
<1>14. ASSUME NEW id \in Ids, ConfirmMsgRx(id), UNCHANGED sessVars PROVE IdInv'
  <2>1. CASE Confirms(id)
    BY <1>14, <1>b, <2>1 DEF ConfirmMsgRx, ClearMessage, Busy, ClearSteps
  <2>2. CASE ~Confirms(id)
    <3>1. /\ pc = "rx" /\ UNCHANGED <<down, s_DownlinkMsgId, s_State>>
          /\ rx'.type = 11 /\ rx'.id = id
      BY <1>14, <2>2 DEF ConfirmMsgRx, Rx, sessVars
    <3> QED
      BY <1>0, <2>2, <3>1 DEF IdInv, Busy, ClearSteps, Confirms
  <2> QED
    BY <2>1, <2>2
<1>15. CASE Elapse
  BY <1>15, <1>u DEF Elapse, upVars, downVars
<1>16. CASE UNCHANGED vars
  BY <1>16, <1>u DEF vars, upVars, downVars, sessVars
<1>17. CASE SessionInit
  <2>1. rx'.type \notin {3, 11} /\ s_State' = "IDLE"
    BY <1>17, <1>n DEF SessionInit, EndWait, SetState
  <2> QED
    BY <2>1 DEF IdInv
<1> QED
  BY <1>1, <1>2, <1>3, <1>4, <1>5, <1>6, <1>7, <1>8, <1>9, <1>10, <1>11, <1>12, <1>13,
     <1>14, <1>15, <1>16, <1>17 DEF Step

-----------------------------------------------------------------------------
(* The theorems.                                                            *)

LEMMA InitSess == Init => SessInv
<1> SUFFICES ASSUME Init PROVE SessInv
  OBVIOUS
<1>1. SessionVarsOK /\ WaitInv
  <2>1. s_RetryCount \in 0 .. MaxRetry /\ silence \in Nat
    BY SessionAssumption DEF Init
  <2>2. s_WaitKind = WaitOf(s_State)
    BY WaitOfValues DEF Init
  <2>3. silence <= s_RetryCount + (IF expired THEN 1 ELSE 0)
    <3>1. (IF expired THEN 1 ELSE 0) = 0
      BY Zenon DEF Init
    <3> QED
      BY <3>1 DEF Init
  <2>4. SessionVarsOK
    BY <2>1, Zenon DEF Init, SessionVarsOK
  <2> QED
    BY <2>2, <2>3, <2>4 DEF Init, UpInit, WaitInv, Aborting, ClearSteps
<1>2. QueueOK
  BY SessionAssumption DEF Init, QueueOK
<1>3. DownVarsOK
  <2>1. raced \in BOOLEAN
    BY Zenon DEF Init, DownInit
  <2> QED
    BY <2>1, RestStates DEF Init, DownInit, DownVarsOK
<1>4. ChildOK /\ RxInv
  BY NoRxType DEF Init, UpInit, ChildOK, RxInv
<1>5. UploadInv
  <2>1. genuine \in BOOLEAN /\ genuine
    BY Zenon DEF Init, UpInit
  <2>2. Good(up, genuine) /\ ~up.complete
    BY <2>1, GoodReset, ResetFacts DEF Init, UpInit
  <2> QED
    BY <2>1, <2>2 DEF Init, UpInit, UploadInv, NothingOverwritten, UploadForwarded
<1>6. BufferInv /\ CleanInv /\ IdInv
  <2>1. pc = "rx" /\ ~down.ready /\ ~down.inFlight /\ ~pend.ready /\ main.step = "idle"
    BY DEF Init, UpInit, DownInit, NoDown, NoPend, AtRest
  <2> QED
    BY <2>1 DEF BufferInv, CleanInv, Clean, IdInv, Overlap, Staging, NotReady, ClearSteps,
      HeaderDescribesBuffer
<1> QED
  BY <1>1, <1>2, <1>3, <1>4, <1>5, <1>6, TypeSplit DEF SessInv

LEMMA NextSess == SessInv /\ [Next]_vars => SessInv'
<1> SUFFICES ASSUME SessInv, [Next]_vars PROVE SessInv'
  OBVIOUS
<1>1. Step
  BY NextSteps
<1>2. SessionVarsOK' /\ WaitInv'
  BY <1>1, NextWait
<1>3. QueueOK'
  BY <1>1, NextQueue
<1>4. DownVarsOK'
  BY <1>1, NextDownTypes
<1>5. ChildOK' /\ RxInv'
  BY <1>1, NextChild
<1>6. UploadInv'
  BY <1>1, NextUpload
<1>7. BufferInv' /\ CleanInv'
  BY <1>1, NextBuffers
<1>8. IdInv'
  BY <1>1, NextId
<1>9. SessTypeOK'
  <2>1. (SessionVarsOK /\ QueueOK /\ DownVarsOK /\ ChildOK)' => SessTypeOK'
    BY DEF SessTypeOK, SessionVarsOK, QueueOK, DownVarsOK, ChildOK, Downs, Pends, Mains, Children
  <2> QED
    BY <1>2, <1>3, <1>4, <1>5, <2>1
<1> QED
  BY <1>2, <1>5, <1>6, <1>7, <1>8, <1>9 DEF SessInv

\* The inductive invariant of the session, of the upload and of the buffers
\* that the main task and the child task of apps/ltrx share without a lock.
THEOREM SessionInvariance == Spec => []SessInv
BY InitSess, NextSess, PTL DEF Spec

\* The state of ltrx_session.c tells what the session waits for, its queue and
\* its retries keep within their limits, and an upload that it reports complete
\* has been forwarded by the end of the round.
THEOREM SessionIsSound == Spec => []SessionSound
<1>1. SessInv => SessionSound
  BY DEF SessInv, WaitInv, Aborting, UploadInv, SessionSound, WaitMatchesState
<1> QED
  BY <1>1, SessionInvariance, PTL

\* The header describes the bytes that Type7 is served from, a message is one
\* snapshot and no snapshot is lost behind the one in flight, as long as the
\* main task does not stage while the child task is in the buffers.
THEOREM BuffersAreSound == Spec => []BuffersSound
<1>1. SessInv => BuffersSound
  BY DEF SessInv, BufferInv, CleanInv, Clean, BuffersSound, TornOnlyInRace, NothingPendingInFlight
<1> QED
  BY <1>1, SessionInvariance, PTL

\* HandleRetryOrFail gives up: after the last frame no wait lasts longer than
\* its retries, for every value of s_MaxRetry.
THEOREM SilenceIsBounded == Spec => []SilenceEnds
<1>1. SessInv => SilenceEnds
  <2> SUFFICES ASSUME SessInv PROVE SilenceEnds
    OBVIOUS
  <2>1. s_RetryCount \in 0 .. MaxRetry /\ silence \in Nat /\ MaxRetry \in Nat
    BY SessionAssumption DEF SessInv, SessTypeOK
  <2>2. silence <= s_RetryCount + 1
    <3>1. silence <= s_RetryCount + (IF expired THEN 1 ELSE 0)
      BY DEF SessInv, WaitInv
    <3>2. CASE expired
      BY <3>1, <3>2
    <3>3. CASE ~expired
      BY <2>1, <3>1, <3>3
    <3> QED
      BY <3>2, <3>3
  <2> QED
    BY <2>1, <2>2 DEF SilenceEnds
<1> QED
  BY <1>1, SessionInvariance, PTL

\* The message in flight is overwritten by no request for a message, and a
\* confirmation that ends the session with its identifier has cleared it first,
\* unless the stores of LTRX_OnBusBeaconReceived fell between those of
\* LTRX_Downlink_ClearMessage and left a message with the identifier 0.
THEOREM InFlightIsKept == Spec => InFlightUntilConfirmed
<1> DEFINE Guard == down.inFlight /\ ~raced' /\ pc \notin ClearSteps /\ pc' \notin ClearSteps
           Same == down'.id = down.id /\ down'.buf = down.buf
           Done == s_State = "DL_IN_PROGRESS" /\ s_State' = "COMPLETE" /\ rx.id # 0
           Left == ~down.inFlight \/ (raced /\ down.id = 0)
<1>1. ASSUME SessInv, Step, Guard PROVE Same
  <2>0. BufferInv /\ CleanInv /\ DownVarsOK /\ down \in Downs
    BY <1>1, TypeSplit DEF SessInv, DownVarsOK
  <2>1. ~(CommitCell \/ CommitSet)
    <3> SUFFICES ASSUME CommitCell \/ CommitSet PROVE FALSE
      OBVIOUS
    <3>1. pend.ready /\ down'.inFlight = down.inFlight /\ Remember
      BY <2>0 DEF CommitCell, CommitSet, BufferInv, Downs
    <3>2. raced
      BY <1>1, <2>0, <3>1 DEF CleanInv, Clean
    <3>3. down' = NoDown
      BY <1>1, <3>1, <3>2 DEF Remember
    <3> QED
      BY <1>1, <3>1, <3>3 DEF NoDown
  <2>2. ASSUME NEW rc \in BOOLEAN, SendMessageHeader(rc) PROVE Same
    BY <2>0, <2>2 DEF SendMessageHeader, Downs
  <2>3. CASE DownChild
    <3>1. ~(ClearCell \/ ClearStore \/ ClearConfirmed)
      BY <1>1 DEF ClearCell, ClearStore, ClearDown, ClearPendingLen, ClearPendingId,
        ClearPendingReady, ClearConfirmed, ClearInFlight, ClearSteps
    <3> QED
      BY <2>1, <2>2, <2>3, <3>1 DEF DownChild
  <2>4. CASE DownMain
    BY <2>4 DEF DownMain, BusBeaconReceived, StageCell, StageLen, StageId, StageReady
  <2>5. CASE StartDownlinkCheck \/ StartDownlinkPush \/ \E type \in {"ABORT", "RESET"} : Request(type)
    BY <2>5 DEF StartDownlinkCheck, StartDownlinkPush, Request, OnlyQueue
  <2>6. CASE SessionTick
    BY <2>6 DEF SessionTick
  <2>7. CASE UNCHANGED downVars
    BY <2>7 DEF downVars
  <2>8. CASE \E id \in Ids : ConfirmMsgRx(id)
    BY <1>1, <2>8 DEF ConfirmMsgRx, ClearMessage
  <2>9. CASE PopAbort \/ PopReset \/ ClearAborted \/ ClearReset
    BY <1>1, <2>9 DEF PopAbort, PopReset, ClearAborted, ClearReset, ClearMessage, ClearInFlight,
      ClearSteps
  <2>10. CASE PopStart \/ RequestMsgTx \/ SessionInit
    BY <2>10 DEF PopStart, RequestMsgTx, SessionInit
  <2> QED
    BY <1>1, <2>3, <2>4, <2>5, <2>6, <2>7, <2>8, <2>9, <2>10
    DEF Step, OnIcdRx, PlainFrame, Elapse, vars
<1>2. ASSUME SessInv, Step, Done PROVE Left
  <2>1. SessionTick
    <3>1. s_State' # s_State
      BY <1>2
    <3>2. ~UNCHANGED sessVars
      BY <3>1 DEF sessVars
    <3>3. ~(StartDownlinkCheck \/ StartDownlinkPush \/ \E type \in {"ABORT", "RESET"} : Request(type))
      BY <3>1 DEF StartDownlinkCheck, StartDownlinkPush, Request, OnlyQueue
    <3>4. ~(OnIcdRx \/ PopStart \/ PopAbort \/ PopReset \/ ClearAborted \/ SessionInit \/ Elapse)
      BY <1>2, <3>1 DEF OnIcdRx, PopStart, PopAbort, PopReset, ClearAborted, SessionInit, Elapse,
        StartWait, EndWait, SetState
    <3> QED
      BY <1>2, <3>2, <3>3, <3>4 DEF Step, PlainFrame, ClearReset, vars
  <2>2. pc = "tick" /\ rx.type = 11 /\ DownlinkDoneMsgMatches
    BY <1>2, <2>1, TickEffects DEF TickEffect
  <2>3. down.inFlight => down.id = 0 /\ down.ready
    BY <1>2, <2>2 DEF SessInv, IdInv, BufferInv, Busy, ClearSteps, DownlinkDoneMsgMatches
  <2>4. ~raced => (down.ready => down.id # 0)
    BY <1>2 DEF SessInv, CleanInv, Clean
  <2> QED
    BY <2>3, <2>4
<1>3. SessInv /\ [Next]_vars => [Guard => Same]_vars /\ [Done => Left]_vars
  BY <1>1, <1>2, NextSteps
<1> QED
  BY <1>3, SessionInvariance, PTL DEF Spec, InFlightUntilConfirmed, InFlightKept, CompleteMeansCleared

==============================================================================
