---------------------------- MODULE LtrxDownlink ----------------------------
(***************************************************************************)
(* The downlink side of the LTRX beacon protocol (apps/ltrx).  The main    *)
(* task stages the bus beacon, a snapshot of the housekeeping, in a        *)
(* pending buffer; when the beacon asks for a message (Type3) the child    *)
(* task copies the pending buffer to the downlink buffer, announces it and *)
(* serves its parts (Type7) until the beacon confirms it (Type11).  Both   *)
(* tasks use the buffers and their flags without a lock, so a step is one  *)
(* cell of a copy, or a stretch of code with one store that the other task *)
(* can notice.  The main task reads s_DownReady, s_PendingDownReady and    *)
(* s_DownInFlight and writes the pending fields; the other down fields are *)
(* the child task's own, and stores to them go with the next one that is   *)
(* shared.  CommitPending reads flag, identifier and length in one step:   *)
(* the main task stores them in the order length, identifier, flag, and    *)
(* reads spread over those stores find what one of their states holds.     *)
(*                                                                         *)
(* A snapshot is represented by its message identifier: cells of a buffer  *)
(* hold the identifier of the snapshot they were copied from, 0 when       *)
(* cleared.  The length of the bus beacon never changes: s_PendingDownLen  *)
(* is that length or 0, and SetMessage refuses 0, so that s_DownLen is the *)
(* full length whenever s_DownReady is set.                                *)
(***************************************************************************)
EXTENDS LtrxUplink

CONSTANTS
  DOWN_LEN,      \* cells of a buffer
  Seconds,       \* values of the CFE time at which a bus beacon is staged
  SessionFrames  \* reports of frames that only the session looks at

ASSUME DownlinkAssumption ==
  /\ DOWN_LEN \in Nat \ {0}
  /\ Seconds \subseteq Nat \ {0}
  /\ SessionFrames \subseteq [type : Nat, status : Nat, id : {0}]
  \* Frames that have a handler of their own are reported as too short only.
  /\ \A frame \in SessionFrames : frame.type \in {3, 5, 6, 7, 9, 11} => frame.status # 0

VARIABLES
  down,  \* s_DownBuf, s_DownLen, s_DownMsgId, s_DownMsgCrc, s_DownReady, s_DownInFlight
  pend,  \* s_PendingDownBuf, s_PendingDownLen, s_PendingDownMsgId, s_PendingDownReady
  s_LastMsgId,
  s_DownlinkMsgId,
  main,  \* the main task: where it is in a handler, and the handler's variables
  child, \* variables of the child task in CommitPending and ClearMessage
  raced  \* history: the main task staged while the child task used the buffers

downVars == <<down, pend, s_LastMsgId, s_DownlinkMsgId, main, child, raced>>

\* GNSS_INFO, BEACON_STATUS and BEACON_STATUS_FULL, and types that are not known.
Telemetry == Nat \ {3, 5, 6, 7, 9, 10, 11, 13, 15}

Cells == 1 .. DOWN_LEN
ZeroBuf == [c \in Cells |-> 0]

NoDown == [buf |-> ZeroBuf, id |-> 0, crc |-> ZeroBuf, ready |-> FALSE, inFlight |-> FALSE]
NoPend == [buf |-> ZeroBuf, len |-> 0, id |-> 0, ready |-> FALSE]

AtRest == [step |-> "idle", cell |-> 1, id |-> 0]
NoCopy == [cell |-> 1, id |-> 0, after |-> "none"]

DownInit ==
  /\ down = NoDown
  /\ pend = NoPend
  /\ s_LastMsgId = 0
  /\ s_DownlinkMsgId = 0
  /\ main = AtRest
  /\ child = NoCopy
  /\ raced = FALSE

\* The child task is in ClearMessage.
ClearSteps == {"wipe", "clear", "clear_len", "clear_id", "clear_ready", "clear_flight"}

\* The two tasks are in the buffers at the same time.
Overlap == main.step \in {"copy", "len", "id", "ready"}
             /\ pc \in {"commit", "set", "header"} \cup ClearSteps

\* A race is forgotten once nothing that it may have touched is left.
Remember ==
  raced' = \/ Overlap'
           \/ raced /\ (down' # NoDown \/ pend'.ready \/ main'.step # "idle")

-----------------------------------------------------------------------------
(* The main task: LTRX_OnBusBeaconReceived and the commands.                *)

\* A mutant: the beacon is staged whether or not a message is in flight.
MayStage_Always == TRUE

\* The gate (DOWNSTREAM_ENABLE and DISABLE) and the period decide which of the
\* beacons are staged; here it may be any that finds no message in flight.
MayStage == ~down.inFlight

\* The identifier is the time in seconds, made to differ from the last one.
BusBeaconReceived ==
  /\ main.step = "idle"
  /\ MayStage
  /\ \E seconds \in Seconds :
       LET id == IF seconds = s_LastMsgId THEN seconds + 1 ELSE seconds
       IN  /\ s_LastMsgId' = id
           /\ main' = [step |-> "copy", cell |-> 1, id |-> id]
  /\ UNCHANGED <<down, pend, s_DownlinkMsgId, child, upVars>>
  /\ Remember

\* memcpy to the pending buffer.
StageCell ==
  /\ main.step = "copy"
  /\ pend' = [pend EXCEPT !.buf[main.cell] = main.id]
  /\ main' = IF main.cell = DOWN_LEN THEN [main EXCEPT !.step = "len"]
                                     ELSE [main EXCEPT !.cell = @ + 1]
  /\ UNCHANGED <<down, s_LastMsgId, s_DownlinkMsgId, child, upVars>>
  /\ Remember

StageLen ==
  /\ main.step = "len"
  /\ pend' = [pend EXCEPT !.len = DOWN_LEN]
  /\ main' = [main EXCEPT !.step = "id"]
  /\ UNCHANGED <<down, s_LastMsgId, s_DownlinkMsgId, child, upVars>>
  /\ Remember

StageId ==
  /\ main.step = "id"
  /\ pend' = [pend EXCEPT !.id = main.id]
  /\ main' = [main EXCEPT !.step = "ready"]
  /\ UNCHANGED <<down, s_LastMsgId, s_DownlinkMsgId, child, upVars>>
  /\ Remember

StageReady ==
  /\ main.step = "ready"
  /\ pend' = [pend EXCEPT !.ready = TRUE]
  /\ main' = AtRest
  /\ UNCHANGED <<down, s_LastMsgId, s_DownlinkMsgId, child, upVars>>
  /\ Remember

-----------------------------------------------------------------------------
(* The child task: handlers of LTRX_BcnProcessOneRx.                        *)

\* Type3: CommitPending, if something is pending.  The arguments of SetMessage
\* are read before the copy; a length of 0 makes it fail.
RequestMsgTx ==
  /\ pc = "rx"
  /\ \/ /\ pend.ready /\ pend.len = 0
        /\ Report(3, 1)
        /\ UNCHANGED child
     \/ /\ pend.ready /\ pend.len # 0
        /\ child' = [NoCopy EXCEPT !.id = pend.id]
        /\ pc' = "commit"
        /\ fwd' = NoMessage
        /\ UNCHANGED rx
     \/ /\ ~pend.ready
        /\ pc' = "header"
        /\ fwd' = NoMessage
        /\ UNCHANGED <<child, rx>>
  /\ UNCHANGED <<down, pend, s_LastMsgId, s_DownlinkMsgId, main, up, genuine>>
  /\ Remember

\* memcpy to the downlink buffer.
CommitCell ==
  /\ pc = "commit"
  /\ down' = [down EXCEPT !.buf[child.cell] = pend.buf[child.cell]]
  /\ IF child.cell = DOWN_LEN
     THEN pc' = "set" /\ UNCHANGED child
     ELSE child' = [child EXCEPT !.cell = @ + 1] /\ UNCHANGED pc
  /\ UNCHANGED <<pend, s_LastMsgId, s_DownlinkMsgId, main, up, rx, fwd, genuine>>
  /\ Remember

\* A mutant: the CRC is taken over the pending buffer.
DownCrc_OfPending == pend.buf

DownCrc == down.buf

\* The rest of SetMessage, and the pending flag.
CommitSet ==
  /\ pc = "set"
  /\ down' = [down EXCEPT !.id = child.id, !.crc = DownCrc,
                          !.ready = TRUE]
  /\ pend' = [pend EXCEPT !.ready = FALSE]
  /\ child' = NoCopy
  /\ pc' = "header"
  /\ UNCHANGED <<s_LastMsgId, s_DownlinkMsgId, main, up, rx, fwd, genuine>>
  /\ Remember

\* The header of the message, or an empty one, is sent.
SendMessageHeader(rc) ==
  /\ pc = "header"
  /\ s_DownlinkMsgId' = IF down.ready THEN down.id ELSE 0
  /\ down' = [down EXCEPT !.inFlight = @ \/ (down.ready /\ rc)]
  /\ Report(3, IF rc THEN 0 ELSE 1)
  /\ UNCHANGED <<pend, s_LastMsgId, main, child, up, genuine>>
  /\ Remember

\* Type7: a part is served from the downlink buffer, or refused.
RequestMsgPart(id, inRange, rc) ==
  /\ pc = "rx"
  /\ \/ /\ ~down.ready \/ id # down.id
        /\ Report(7, 30)
     \/ /\ down.ready /\ id = down.id /\ ~inRange
        /\ Report(7, 10)
     \/ /\ down.ready /\ id = down.id /\ inRange
        /\ Report(7, IF rc THEN 0 ELSE 1)
  /\ UNCHANGED <<downVars, up, genuine>>

\* The status of a part (Type10), of a message (13) or of a command (15), and
\* downlink frames that are too short.
StatusFrame(frame) ==
  /\ pc = "rx"
  /\ frame.type \notin Telemetry
  /\ Report(frame.type, frame.status)
  /\ UNCHANGED <<downVars, up, genuine>>

\* Position and status of the beacon, which are stored for housekeeping, and
\* frames of an unknown type.
TelemetryFrame(frame) ==
  /\ pc = "rx"
  /\ frame.type \in Telemetry
  /\ Report(frame.type, 0)
  /\ UNCHANGED <<downVars, up, genuine>>

\* ClearMessage, called from three places, which it returns to.
ClearMessage(after) ==
  /\ child' = [NoCopy EXCEPT !.after = after]
  /\ pc' = "wipe"
  /\ UNCHANGED <<down, pend>>

\* memset of both buffers.
ClearCell ==
  /\ pc = "wipe"
  /\ down' = [down EXCEPT !.buf[child.cell] = 0]
  /\ pend' = [pend EXCEPT !.buf[child.cell] = 0]
  /\ IF child.cell = DOWN_LEN
     THEN pc' = "clear" /\ UNCHANGED child
     ELSE child' = [child EXCEPT !.cell = @ + 1] /\ UNCHANGED pc
  /\ UNCHANGED <<s_LastMsgId, s_DownlinkMsgId, main, up, rx, fwd, genuine>>
  /\ Remember

\* A mutant: the pending fields are left as they are.
ClearDown_PendingKept ==
  /\ pc = "clear" /\ pc' = "clear_flight"
  /\ down' = [NoDown EXCEPT !.inFlight = down.inFlight]
  /\ UNCHANGED pend

\* The fields up to s_DownReady.
ClearDown ==
  /\ pc = "clear" /\ pc' = "clear_len"
  /\ down' = [NoDown EXCEPT !.inFlight = down.inFlight]
  /\ UNCHANGED pend

ClearPendingLen ==
  /\ pc = "clear_len" /\ pc' = "clear_id"
  /\ pend' = [pend EXCEPT !.len = 0]
  /\ UNCHANGED down

ClearPendingId ==
  /\ pc = "clear_id" /\ pc' = "clear_ready"
  /\ pend' = [pend EXCEPT !.id = 0]
  /\ UNCHANGED down

ClearPendingReady ==
  /\ pc = "clear_ready" /\ pc' = "clear_flight"
  /\ pend' = [pend EXCEPT !.ready = FALSE]
  /\ UNCHANGED down

ClearStore ==
  /\ ClearDown \/ ClearPendingLen \/ ClearPendingId \/ ClearPendingReady
  /\ UNCHANGED <<child, s_LastMsgId, s_DownlinkMsgId, main, up, rx, fwd, genuine>>
  /\ Remember

\* The last store, and the return.
ClearInFlight(after) ==
  /\ pc = "clear_flight" /\ child.after = after
  /\ down' = [down EXCEPT !.inFlight = FALSE]
  /\ child' = NoCopy
  /\ UNCHANGED pend

Confirms(id) == down.inFlight /\ id = down.id

\* Type11: the message in flight is confirmed, or another one.
ConfirmMsgRx(id) ==
  /\ pc = "rx"
  /\ rx' = Rx(11, 0, id)
  /\ fwd' = NoMessage
  /\ IF Confirms(id)
     THEN ClearMessage("confirm")
     ELSE pc' = "notify" /\ UNCHANGED <<down, pend, child>>
  /\ UNCHANGED <<s_LastMsgId, s_DownlinkMsgId, main, up, genuine>>
  /\ Remember

ClearConfirmed ==
  /\ ClearInFlight("confirm")
  /\ pc' = "notify"
  /\ UNCHANGED <<s_LastMsgId, s_DownlinkMsgId, main, up, rx, fwd, genuine>>
  /\ Remember

-----------------------------------------------------------------------------
Ids == Seconds \cup { s + 1 : s \in Seconds } \cup {0}

DownFrame ==
  \/ RequestMsgTx
  \/ \E id \in Ids, inRange \in BOOLEAN, rc \in BOOLEAN : RequestMsgPart(id, inRange, rc)
  \/ \E frame \in SessionFrames : StatusFrame(frame) \/ TelemetryFrame(frame)
  \/ \E id \in Ids : ConfirmMsgRx(id)

\* The steps of the child task inside a handler.
DownChild ==
  \/ CommitCell \/ CommitSet \/ ClearCell \/ ClearStore \/ ClearConfirmed
  \/ \E rc \in BOOLEAN : SendMessageHeader(rc)

DownMain ==
  BusBeaconReceived \/ StageCell \/ StageLen \/ StageId \/ StageReady
=============================================================================
