----------------------------- MODULE LtrxUplink -----------------------------
(***************************************************************************)
(* The uplink side of the LTRX beacon protocol (apps/ltrx).  The beacon     *)
(* offers a message (Type6), sends its header (Type5) and then the parts    *)
(* that are requested (Type9); the parts are put together in a buffer whose *)
(* received bytes a bitmap records, and a complete message is forwarded to  *)
(* the software bus.  The beacon and the radio link are free to send any    *)
(* frame at any time: frames are lost, repeated, reordered and damaged.     *)
(*                                                                          *)
(* The child task handles one frame, lets the session look at it, and       *)
(* forwards; here the session only takes the report (rx) of the frame.      *)
(* A CRC is represented by the bytes it is taken over: collisions are left  *)
(* out.  A frame whose own CRC fails never reaches the handlers.            *)
(***************************************************************************)
EXTENDS Integers, FiniteSets

CONSTANTS
  UPLINK_MAX_LEN,        \* LTRX_UPLINK_MAX_LEN
  UPLINK_PART_REQ_LEN,   \* LTRX_UPLINK_PART_REQ_LEN
  UPLINK_MAX_PART_RETRY, \* LTRX_UPLINK_MAX_PART_RETRY
  Byte,                  \* values of a byte, 0 among them
  MessageIds,            \* identifiers of messages, 0 included if the beacon uses it
  Headers,               \* the identifier, length and CRC in a Type5 or Type6
  Spans,                 \* the first byte and the length of the part in a Type9
  NoMessage

Content == UNION { [0 .. n - 1 -> Byte] : n \in 0 .. UPLINK_MAX_LEN }

ASSUME UplinkAssumption ==
  /\ UPLINK_MAX_LEN \in Nat \ {0}
  /\ UPLINK_PART_REQ_LEN \in Nat \ {0}
  /\ UPLINK_MAX_PART_RETRY \in Nat
  /\ 0 \in Byte
  /\ Headers \subseteq [id : MessageIds, len : Nat, crc : Content]
  /\ Spans \subseteq [start : Nat, plen : Nat]
  /\ NoMessage \notin [id : MessageIds \cup {0}, data : Content]

VARIABLES
  up,      \* s_Up
  rx,      \* what the handler reported to the session, NoRx once taken
  fwd,     \* the message forwarded in this round of the child task
  genuine, \* history: all parts accepted since the reset were as announced
  pc       \* the child task: "rx", "notify" after a frame, "tick", "forward"

upVars == <<up, rx, fwd, genuine, pc>>

Rx(type, status, id) == [type |-> type, status |-> status, id |-> id]
NoRx == Rx(0, 0, 0)

-----------------------------------------------------------------------------
(* The receive state.                                                       *)

\* Uplink_Reset clears all of s_Up.
Uplink_Reset ==
  [in_progress |-> FALSE, complete |-> FALSE, msg_id |-> 0, msg_len |-> 0,
   msg_crc |-> [i \in {} |-> 0], buf |-> [i \in 0 .. UPLINK_MAX_LEN - 1 |-> 0],
   recv_bitmap |-> {}, received_bytes |-> 0, last_part_start |-> 0,
   last_part_len |-> 0, last_part_retry |-> 0]

\* A header taken into a cleared state.
Started(h) ==
  [Uplink_Reset EXCEPT !.in_progress = TRUE, !.msg_id = h.id,
                       !.msg_len = h.len, !.msg_crc = h.crc]

\* A mutant: the counter grows by the length of the part, received before or not.
MarkReceived_CountsTwice(u, start, len) ==
  [u EXCEPT !.recv_bitmap = @ \cup (start .. start + len - 1),
            !.received_bytes = @ + len]

\* Only bytes that were not received before are counted.
MarkReceived(u, start, len) ==
  LET range == start .. start + len - 1
  IN  [u EXCEPT !.recv_bitmap = @ \cup range,
                !.received_bytes = @ + Cardinality(range \ u.recv_bitmap)]

\* A mutant: one byte more than the message has is waited for.
AllReceived_OneMore(u) == u.in_progress /\ u.received_bytes > u.msg_len

AllReceived(u) == u.in_progress /\ u.received_bytes >= u.msg_len

Missing(u) == (0 .. u.msg_len - 1) \ u.recv_bitmap

Least(S) == CHOOSE i \in S : \A j \in S : i <= j

GapStart(u) == Least(Missing(u))

\* A mutant: the end of the gap is not looked for.
GapLen_ToTheEnd(u) == u.msg_len - GapStart(u)

\* The run of missing bytes at GapStart, cut to the length of one request.
GapLen(u) ==
  LET end == Least({ i \in GapStart(u) + 1 .. u.msg_len :
                       i = u.msg_len \/ i \in u.recv_bitmap })
      len == end - GapStart(u)
  IN  IF len > UPLINK_PART_REQ_LEN THEN UPLINK_PART_REQ_LEN ELSE len

RequestPart(u, start, len) ==
  [u EXCEPT !.last_part_start = start, !.last_part_len = len]

RequestNextPart(u) ==
  IF AllReceived(u) \/ Missing(u) = {}
  THEN u
  ELSE [RequestPart(u, GapStart(u), GapLen(u)) EXCEPT !.last_part_retry = 0]

CalculateCRC32(bytes, len) == [i \in 0 .. len - 1 |-> bytes[i]]

-----------------------------------------------------------------------------
(* Handlers of LTRX_BcnProcessOneRx.  Each ends with the report to the      *)
(* session; rc says whether the response could be sent.                     *)

Report(type, status) ==
  /\ rx' = Rx(type, status, 0)
  /\ fwd' = NoMessage
  /\ pc' = "notify"

\* A frame shorter than its type requires.
TooShort(type) ==
  /\ pc = "rx"
  /\ Report(type, 30)
  /\ UNCHANGED <<up, genuine>>

InvalidLength(h) == h.len = 0 \/ h.len > UPLINK_MAX_LEN

\* Type6 starts afresh, whatever is going on.
OfferReceiveMsg(h, rc) ==
  /\ pc = "rx"
  /\ IF InvalidLength(h)
     THEN Report(6, 30) /\ UNCHANGED <<up, genuine>>
     ELSE /\ up' = IF rc THEN Started(h) ELSE Uplink_Reset
          /\ genuine' = TRUE
          /\ Report(6, IF rc THEN 0 ELSE 1)

Consistent(u, h) == u.msg_id = h.id /\ u.msg_len = h.len /\ u.msg_crc = h.crc

Prepared(u) == u.in_progress /\ u.msg_id # 0

Cleared(u) == [u EXCEPT !.received_bytes = 0, !.recv_bitmap = {}]

\* Type5 must agree with the offer before it, or starts on its own.
SendMsgHeader(h, rc) ==
  /\ pc = "rx"
  /\ \/ /\ InvalidLength(h)
        /\ Report(5, 10)
        /\ UNCHANGED <<up, genuine>>
     \/ /\ ~InvalidLength(h)
        /\ Prepared(up) /\ ~Consistent(up, h)
        /\ up' = Uplink_Reset
        /\ genuine' = TRUE
        /\ Report(5, 30)
     \/ /\ ~InvalidLength(h)
        /\ Prepared(up) => Consistent(up, h)
        /\ up' = RequestNextPart(IF Prepared(up) THEN Cleared(up) ELSE Started(h))
        /\ genuine' = TRUE
        /\ Report(5, IF rc THEN 0 ELSE 1)

\* Type9 that is refused: not expected, of another length than it says, or
\* beyond the end of the message.
PartRefused(id, start, plen, len_agrees) ==
  /\ pc = "rx"
  /\ \/ /\ ~up.in_progress \/ id # up.msg_id
        /\ Report(9, 30)
     \/ /\ up.in_progress /\ id = up.msg_id
        /\ ~len_agrees \/ start + plen > up.msg_len
        /\ Report(9, 10)
  /\ UNCHANGED <<up, genuine>>

Expected(id, start, plen) ==
  up.in_progress /\ id = up.msg_id /\ start + plen <= up.msg_len

\* A mutant: the part is requested again once more than the limit.
AfterBadPart_OneMore(u, start, plen) ==
  IF start = u.last_part_start /\ plen = u.last_part_len
  THEN IF u.last_part_retry <= UPLINK_MAX_PART_RETRY
       THEN [u EXCEPT !.last_part_retry = @ + 1]
       ELSE Uplink_Reset
  ELSE [RequestPart(u, start, plen) EXCEPT !.last_part_retry = 0]

\* A part whose CRC does not match is requested again, the same one at most
\* UPLINK_MAX_PART_RETRY times.
AfterBadPart(u, start, plen) ==
  IF start = u.last_part_start /\ plen = u.last_part_len
  THEN IF u.last_part_retry < UPLINK_MAX_PART_RETRY
       THEN [u EXCEPT !.last_part_retry = @ + 1]
       ELSE Uplink_Reset
  ELSE [RequestPart(u, start, plen) EXCEPT !.last_part_retry = 0]

PartDamaged(id, start, plen) ==
  /\ pc = "rx"
  /\ Expected(id, start, plen)
  /\ up' = AfterBadPart(up, start, plen)
  /\ genuine' = (genuine \/ ~up'.in_progress)
  /\ Report(9, 20)

\* A mutant: every part is copied to the start of the buffer.
WithPart_AtTheStart(u, start, plen, data) ==
  MarkReceived([u EXCEPT !.buf = [i \in DOMAIN @ |->
                  IF i \in 0 .. plen - 1 THEN data[i] ELSE @[i]]],
               start, plen)

\* memcpy into the buffer, then the bitmap and the counter.
WithPart(u, start, plen, data) ==
  MarkReceived([u EXCEPT !.buf = [i \in DOMAIN @ |->
                  IF i \in start .. start + plen - 1 THEN data[i - start] ELSE @[i]]],
               start, plen)

IsSlice(u, start, plen, data) ==
  \A i \in 0 .. plen - 1 :
    start + i \in DOMAIN u.msg_crc /\ data[i] = u.msg_crc[start + i]

\* A mutant: the CRC of the whole message is not looked at.
FullCrcMatches_NotChecked(u) == TRUE

FullCrcMatches(u) == CalculateCRC32(u.buf, u.msg_len) = u.msg_crc

\* The last byte is in: the message is complete, or everything is dropped.
Finished(u) ==
  IF FullCrcMatches(u)
  THEN [u EXCEPT !.complete = TRUE, !.in_progress = FALSE]
  ELSE Uplink_Reset

SendMsgPart(id, start, plen, data) ==
  /\ pc = "rx"
  /\ Expected(id, start, plen)
  /\ LET u == WithPart(up, start, plen, data)
         g == genuine /\ IsSlice(up, start, plen, data)
     IN  /\ up' = IF AllReceived(u) THEN Finished(u) ELSE RequestNextPart(u)
         /\ genuine' = g
         /\ Report(9, IF AllReceived(u) /\ ~FullCrcMatches(u) THEN 30 ELSE 0)

\* No frame within the time window, or one that ReceiveCommand refuses.
NoFrame ==
  /\ pc = "rx"
  /\ pc' = "tick"
  /\ fwd' = NoMessage
  /\ UNCHANGED <<up, rx, genuine>>

-----------------------------------------------------------------------------
(* The rest of the child task's round.                                      *)

\* A mutant: the message is kept after it was handed on.
AfterCopyOut_Keeps(u) == u

AfterCopyOut(u) == Uplink_Reset

\* CopyOut into a buffer of UPLINK_MAX_LEN bytes and a reset, whatever the
\* software bus says of the message.
ForwardToSB ==
  /\ pc = "forward"
  /\ pc' = "rx"
  /\ IF up.complete
     THEN /\ fwd' = [id |-> up.msg_id, data |-> CalculateCRC32(up.buf, up.msg_len)]
          /\ up' = AfterCopyOut(up)
          /\ genuine' = TRUE
     ELSE UNCHANGED <<fwd, up, genuine>>
  /\ UNCHANGED rx

\* The session takes the report; it changes nothing of the uplink.
SessionTakes ==
  /\ pc \in {"notify", "tick"}
  /\ pc' = "forward"
  /\ rx' = NoRx
  /\ UNCHANGED <<up, fwd, genuine>>

UpInit ==
  /\ up = Uplink_Reset
  /\ rx = NoRx
  /\ fwd = NoMessage
  /\ genuine = TRUE
  /\ pc = "rx"

UpFrame ==
  \/ \E type \in {5, 6, 9} : TooShort(type)
  \/ \E h \in Headers, rc \in BOOLEAN : OfferReceiveMsg(h, rc) \/ SendMsgHeader(h, rc)
  \/ \E id \in MessageIds, part \in Spans :
       \/ \E len_agrees \in BOOLEAN : PartRefused(id, part.start, part.plen, len_agrees)
       \/ PartDamaged(id, part.start, part.plen)
       \/ \E data \in [0 .. part.plen - 1 -> Byte] :
            SendMsgPart(id, part.start, part.plen, data)

UpNext == UpFrame \/ NoFrame \/ SessionTakes \/ ForwardToSB

UpSpec == UpInit /\ [][UpNext]_upVars

\* The beacon sends the part that was requested, as far as it announced it.
Answer ==
  LET start == up.last_part_start
      plen  == up.last_part_len
  IN  \E data \in [0 .. plen - 1 -> Byte] :
        /\ \A i \in 0 .. plen - 1 :
             start + i \in DOMAIN up.msg_crc => data[i] = up.msg_crc[start + i]
        /\ SendMsgPart(up.msg_id, start, plen, data)

\* The request is for bytes that are still missing.
MissingRequested ==
  up.last_part_start \in Missing(up) /\ up.last_part_len > 0

\* The child task runs, and requests that stand often enough are answered, those
\* for missing bytes among them.
UpFairSpec ==
  /\ UpSpec
  /\ WF_upVars(SessionTakes \/ ForwardToSB \/ NoFrame)
  /\ SF_upVars(Answer)
  /\ SF_upVars(Answer /\ MissingRequested)

-----------------------------------------------------------------------------
(* Properties.                                                              *)

UpStates ==
  [in_progress : BOOLEAN, complete : BOOLEAN, msg_id : MessageIds \cup {0},
   msg_len : 0 .. UPLINK_MAX_LEN, msg_crc : Content,
   buf : [0 .. UPLINK_MAX_LEN - 1 -> Byte],
   recv_bitmap : SUBSET (0 .. UPLINK_MAX_LEN - 1), received_bytes : Nat,
   last_part_start : 0 .. UPLINK_MAX_LEN, last_part_len : 0 .. UPLINK_MAX_LEN,
   last_part_retry : 0 .. UPLINK_MAX_PART_RETRY]

\* The receive state, the report and the child task are of the right kind;
\* no part is requested again more often than LTRX_UPLINK_MAX_PART_RETRY says.
UpTypeOK ==
  /\ up \in UpStates
  /\ rx \in [type : {0, 5, 6, 9}, status : {0, 1, 10, 20, 30}, id : {0}]
  /\ fwd \in [id : MessageIds \cup {0}, data : Content] \cup {NoMessage}
  /\ genuine \in BOOLEAN
  /\ pc \in {"rx", "notify", "tick", "forward"}

\* received_bytes, by which Uplink_AllReceived decides, is the number of bytes
\* the bitmap holds, all of them within the message: parts that overlap or
\* come twice are not counted twice.  While a message is being received some
\* byte is missing: with the last one it is completed or dropped, so that the
\* receiver never waits for nothing.
BytesCounted ==
  /\ up.recv_bitmap \subseteq 0 .. up.msg_len - 1
  /\ up.received_bytes = Cardinality(up.recv_bitmap)
  /\ up.in_progress => up.received_bytes < up.msg_len

\* A complete message is the one its header announced, byte for byte, and
\* nothing of it was left out, until it is forwarded.
CompleteIsAnnounced ==
  up.complete => /\ up.recv_bitmap = 0 .. up.msg_len - 1
                 /\ CalculateCRC32(up.buf, up.msg_len) = up.msg_crc

\* The handlers find no complete message: LTRX_Uplink_ForwardToSB has taken it
\* out before the next frame, so that no offer or header overwrites it.
NothingOverwritten == pc = "rx" => ~up.complete

\* As long as every accepted part was a true slice of the announced message, in
\* whatever order, overlapping or repeated, the bytes in the buffer are true.
GenuineIntact ==
  up.in_progress /\ genuine =>
    \A i \in up.recv_bitmap : i \in DOMAIN up.msg_crc /\ up.buf[i] = up.msg_crc[i]

\* The receive state s_Up is sound: the counter and the bitmap agree, a complete
\* message is the announced one and is forwarded before another frame is
\* handled, and true parts leave true bytes.
ReceiveSound ==
  UpTypeOK /\ BytesCounted /\ CompleteIsAnnounced /\ NothingOverwritten /\ GenuineIntact

\* A message of which all parts were true is not dropped by the check of its
\* whole CRC, provided that its header gave its length.
NoFalseReject ==
  [][up.in_progress /\ ~up'.in_progress /\ rx'.type = 9 /\ rx'.status = 30
       => ~genuine' \/ DOMAIN up.msg_crc # 0 .. up.msg_len - 1]_upVars

\* The part that Uplink_RequestNextPart asks for after bytes have come in is
\* within the message, not empty, and has none of the bytes already received.
RequestsMissingBytes ==
  [][up'.in_progress /\ rx'.type = 9 /\ rx'.status = 0 /\ pc = "rx"
       => /\ up'.last_part_len > 0
          /\ up'.last_part_start .. up'.last_part_start + up'.last_part_len - 1
               \subseteq Missing(up')]_upVars

Delivery ==
  INSTANCE LtrxDelivery WITH
    Messages <- [id : MessageIds, data : Content],
    announced <- IF up.in_progress \/ up.complete
                 THEN [id |-> up.msg_id, data |-> up.msg_crc] ELSE NoMessage,
    delivered <- fwd

\* What is forwarded to the software bus is the message announced last, whole,
\* and each announcement is forwarded at most once.
DeliveryRefined == Delivery!Spec

\* Once offers and headers have stopped, and if requests are answered, a
\* message in progress is completed or given up: a damaged part does not hold
\* the receiver for ever.
UplinkEnds == <>[](rx.type \notin {5, 6}) => <>[](~up.in_progress)
=============================================================================
