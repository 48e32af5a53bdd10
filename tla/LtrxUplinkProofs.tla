-------------------------- MODULE LtrxUplinkProofs --------------------------
(***************************************************************************)
(* The uplink of LTRX, for messages, parts and requests of any length and  *)
(* any number of retries: what is forwarded is what was announced.         *)
(*                                                                         *)
(* The operators that build a receive state from another are treated one   *)
(* by one, each by what it keeps (Counted, and the fields it leaves        *)
(* alone); the steps of the child task then only combine them.             *)
(***************************************************************************)
EXTENDS LtrxUplink, FiniteSetTheorems, WellFoundedInduction, TLAPS

-----------------------------------------------------------------------------
(* Operators.                                                               *)

\* A non-empty set of natural numbers has a least element.
LEMMA LeastInSet ==
  ASSUME NEW S, S \subseteq Nat, S # {}
  PROVE  Least(S) \in S /\ \A t \in S : Least(S) <= t
<1>1. PICK s \in S : \A t \in S : ~(<<t, s>> \in OpToRel(<, Nat))
  BY NatLessThanWellFounded, WFMin
<1>2. ASSUME NEW t \in S PROVE s <= t
  <2>1. s \in Nat /\ t \in Nat /\ <<t, s>> \in Nat \X Nat
    OBVIOUS
  <2>2. t < s => <<t, s>> \in OpToRel(<, Nat)
    BY <2>1 DEF OpToRel
  <2>3. ~(t < s)
    BY <1>1, <2>2
  <2> QED
    BY <2>1, <2>3
<1> QED
  BY <1>1, <1>2 DEF Least

\* The bitmap lies within the message and the counter agrees with it.
Counted(u) ==
  /\ u.recv_bitmap \subseteq 0 .. u.msg_len - 1
  /\ u.received_bytes = Cardinality(u.recv_bitmap)

\* v differs from u only in what was requested last.
SameButRequest(u, v) ==
  /\ v.in_progress = u.in_progress /\ v.complete = u.complete
  /\ v.msg_id = u.msg_id /\ v.msg_len = u.msg_len /\ v.msg_crc = u.msg_crc
  /\ v.buf = u.buf /\ v.recv_bitmap = u.recv_bitmap /\ v.received_bytes = u.received_bytes

LEMMA EmptyContent == [i \in {} |-> 0] \in Content
<1>1. 0 \in 0 .. UPLINK_MAX_LEN
  BY UplinkAssumption
<1>2. [i \in {} |-> 0] \in [0 .. 0 - 1 -> Byte]
  OBVIOUS
<1> QED
  BY <1>1, <1>2 DEF Content

LEMMA ResetFacts ==
  /\ Uplink_Reset \in UpStates
  /\ Uplink_Reset.in_progress = FALSE /\ Uplink_Reset.complete = FALSE
  /\ Counted(Uplink_Reset)
<1>1. 0 \in 0 .. UPLINK_MAX_LEN /\ 0 \in 0 .. UPLINK_MAX_PART_RETRY
  BY UplinkAssumption
<1>2. [i \in 0 .. UPLINK_MAX_LEN - 1 |-> 0] \in [0 .. UPLINK_MAX_LEN - 1 -> Byte]
  BY UplinkAssumption
<1>3. Uplink_Reset \in UpStates
  BY <1>1, <1>2, EmptyContent DEF Uplink_Reset, UpStates
<1> QED
  BY <1>3, FS_EmptySet DEF Uplink_Reset, Counted

LEMMA StartedFacts ==
  ASSUME NEW h \in Headers, ~InvalidLength(h)
  PROVE  LET u == Started(h)
         IN  /\ u \in UpStates /\ Counted(u)
             /\ u.in_progress = TRUE /\ u.complete = FALSE
             /\ u.msg_id = h.id /\ u.msg_crc = h.crc
             /\ u.recv_bitmap = {} /\ u.received_bytes < u.msg_len
<1>1. h.id \in MessageIds /\ h.len \in Nat /\ h.crc \in Content
  BY UplinkAssumption
<1>2. h.len \in 0 .. UPLINK_MAX_LEN /\ 0 < h.len
  BY <1>1, UplinkAssumption DEF InvalidLength
<1> DEFINE u == Started(h)
<1>3. u \in UpStates
  BY <1>1, <1>2, ResetFacts DEF Started, UpStates
<1>4. /\ u.in_progress = TRUE /\ u.complete = FALSE /\ u.msg_id = h.id /\ u.msg_crc = h.crc
      /\ u.msg_len = h.len /\ u.recv_bitmap = {} /\ u.received_bytes = 0
  BY DEF Started, Uplink_Reset
<1>5. Counted(u)
  BY <1>4, FS_EmptySet DEF Counted
<1> QED
  BY <1>2, <1>3, <1>4, <1>5

LEMMA IntervalCard ==
  ASSUME NEW n \in Nat
  PROVE  IsFiniteSet(0 .. n - 1) /\ Cardinality(0 .. n - 1) = n
  BY FS_Interval

\* MarkReceived counts every byte once, whatever was received before.
LEMMA MarkCounts ==
  ASSUME NEW u \in UpStates, Counted(u), NEW start \in Nat, NEW plen \in Nat,
         start + plen <= u.msg_len
  PROVE  LET range == start .. start + plen - 1
             v == MarkReceived(u, start, plen)
         IN  /\ v.recv_bitmap = u.recv_bitmap \cup range
             /\ v.recv_bitmap \subseteq 0 .. u.msg_len - 1
             /\ v.received_bytes = Cardinality(v.recv_bitmap)
             /\ v.received_bytes \in Nat
<1> DEFINE range == start .. start + plen - 1
           new == range \ u.recv_bitmap
           v == MarkReceived(u, start, plen)
<1>1. u.msg_len \in Nat /\ range \subseteq 0 .. u.msg_len - 1
  BY DEF UpStates
<1>2. IsFiniteSet(0 .. u.msg_len - 1)
  BY <1>1, FS_Interval
<1>3. IsFiniteSet(u.recv_bitmap) /\ IsFiniteSet(range) /\ IsFiniteSet(new)
  BY <1>1, <1>2, FS_Subset DEF Counted
<1>4. u.recv_bitmap \cap new = {} /\ u.recv_bitmap \cup new = u.recv_bitmap \cup range
  OBVIOUS
<1>5. Cardinality(u.recv_bitmap) \in Nat /\ Cardinality(new) \in Nat
  BY <1>3, FS_CardinalityType
<1>6. Cardinality(u.recv_bitmap \cup new)
        = Cardinality(u.recv_bitmap) + Cardinality(new) - Cardinality(u.recv_bitmap \cap new)
  BY <1>3, FS_Union
<1>7. Cardinality(u.recv_bitmap \cup range) = Cardinality(u.recv_bitmap) + Cardinality(new)
  <2>1. Cardinality(u.recv_bitmap \cap new) = 0
    BY <1>4, FS_EmptySet
  <2>2. Cardinality(u.recv_bitmap \cup new) = Cardinality(u.recv_bitmap) + Cardinality(new)
    <3> HIDE DEF new
    <3> QED
      BY <1>5, <1>6, <2>1
  <2> QED
    BY <1>4, <2>2
<1>8. v.recv_bitmap = u.recv_bitmap \cup range
      /\ v.received_bytes = u.received_bytes + Cardinality(new)
  BY DEF MarkReceived, UpStates
<1> QED
  BY <1>1, <1>5, <1>7, <1>8 DEF Counted

\* v is u with the part data at start.
Added(u, start, plen, data, v) ==
  /\ v \in UpStates /\ Counted(v)
  /\ v.in_progress = u.in_progress /\ v.complete = u.complete
  /\ v.msg_id = u.msg_id /\ v.msg_len = u.msg_len /\ v.msg_crc = u.msg_crc
  /\ v.recv_bitmap = u.recv_bitmap \cup (start .. start + plen - 1)
  /\ \A i \in 0 .. UPLINK_MAX_LEN - 1 :
       v.buf[i] = IF i \in start .. start + plen - 1 THEN data[i - start] ELSE u.buf[i]

LEMMA WithPartFacts ==
  ASSUME NEW u \in UpStates, Counted(u), NEW start \in Nat, NEW plen \in Nat,
         start + plen <= u.msg_len, NEW data \in [0 .. plen - 1 -> Byte]
  PROVE  Added(u, start, plen, data, WithPart(u, start, plen, data))
<1> DEFINE range == start .. start + plen - 1
           bytes == [i \in DOMAIN u.buf |-> IF i \in range THEN data[i - start] ELSE u.buf[i]]
           w == [u EXCEPT !.buf = bytes]
           v == WithPart(u, start, plen, data)
<1>0. v = MarkReceived(w, start, plen)
  BY DEF WithPart
<1>1. u.buf \in [0 .. UPLINK_MAX_LEN - 1 -> Byte] /\ DOMAIN u.buf = 0 .. UPLINK_MAX_LEN - 1
  BY DEF UpStates
<1>2. \A i \in range : data[i - start] \in Byte
  OBVIOUS
<1>3. bytes \in [0 .. UPLINK_MAX_LEN - 1 -> Byte]
  BY <1>1, <1>2
<1>4. \A i \in 0 .. UPLINK_MAX_LEN - 1 :
        bytes[i] = IF i \in range THEN data[i - start] ELSE u.buf[i]
  BY <1>1
<1> HIDE DEF bytes
<1>5. /\ w \in UpStates /\ w.buf = bytes /\ w.in_progress = u.in_progress
      /\ w.complete = u.complete /\ w.msg_id = u.msg_id /\ w.msg_len = u.msg_len
      /\ w.msg_crc = u.msg_crc /\ w.recv_bitmap = u.recv_bitmap
      /\ w.received_bytes = u.received_bytes
  BY <1>3 DEF UpStates
<1> HIDE DEF w
<1>6. Counted(w)
  BY <1>5 DEF Counted
<1>7. /\ v.recv_bitmap = w.recv_bitmap \cup range
      /\ v.recv_bitmap \subseteq 0 .. w.msg_len - 1
      /\ v.received_bytes = Cardinality(v.recv_bitmap)
      /\ v.received_bytes \in Nat
  <2>1. start + plen <= w.msg_len
    BY <1>5
  <2> QED
    BY <1>0, <1>5, <1>6, <2>1, MarkCounts
<1>8. /\ v.in_progress = w.in_progress /\ v.complete = w.complete /\ v.msg_id = w.msg_id
      /\ v.msg_len = w.msg_len /\ v.msg_crc = w.msg_crc /\ v.buf = w.buf
      /\ v.last_part_start = w.last_part_start /\ v.last_part_len = w.last_part_len
      /\ v.last_part_retry = w.last_part_retry
  BY <1>0, <1>5 DEF MarkReceived, UpStates
<1>9. v.recv_bitmap \in SUBSET (0 .. UPLINK_MAX_LEN - 1)
  <2>1. w.msg_len \in 0 .. UPLINK_MAX_LEN
    BY <1>5 DEF UpStates
  <2>2. 0 .. w.msg_len - 1 \subseteq 0 .. UPLINK_MAX_LEN - 1
    BY <2>1, UplinkAssumption
  <2> QED
    BY <1>7, <2>2
<1>10. v \in UpStates
  <2>1. v = [w EXCEPT !.recv_bitmap = v.recv_bitmap, !.received_bytes = v.received_bytes]
    BY <1>0, <1>5 DEF MarkReceived, UpStates
  <2> HIDE DEF v
  <2> QED
    BY <1>5, <1>7, <1>9, <2>1 DEF UpStates
<1> HIDE DEF v
<1>11. Counted(v)
  BY <1>7, <1>8 DEF Counted
<1>12. \A i \in 0 .. UPLINK_MAX_LEN - 1 :
         v.buf[i] = IF i \in range THEN data[i - start] ELSE u.buf[i]
  BY <1>4, <1>5, <1>8
<1> QED
  BY <1>5, <1>7, <1>8, <1>10, <1>11, <1>12 DEF Added, v

\* What Uplink_FindNextGap finds is missing, from its first byte to its last.
LEMMA GapFacts ==
  ASSUME NEW u \in UpStates, Missing(u) # {}
  PROVE  /\ GapStart(u) \in 0 .. UPLINK_MAX_LEN
         /\ GapLen(u) \in 1 .. UPLINK_MAX_LEN
         /\ GapStart(u) .. GapStart(u) + GapLen(u) - 1 \subseteq Missing(u)
<1> DEFINE g == GapStart(u)
           Ends == { i \in g + 1 .. u.msg_len : i = u.msg_len \/ i \in u.recv_bitmap }
           end == Least(Ends)
<1>0. u.msg_len \in 0 .. UPLINK_MAX_LEN /\ UPLINK_MAX_LEN \in Nat /\ UPLINK_PART_REQ_LEN \in Nat \ {0}
  BY UplinkAssumption DEF UpStates
<1>1. g \in Missing(u)
  <2>1. Missing(u) \subseteq Nat
    BY <1>0 DEF Missing
  <2> QED
    BY <2>1, LeastInSet DEF GapStart
<1>2. g \in 0 .. u.msg_len - 1 /\ g \notin u.recv_bitmap
  BY <1>1 DEF Missing
<1> HIDE DEF g
<1>3. u.msg_len \in Ends /\ Ends \subseteq Nat
  BY <1>0, <1>2
<1>4. end \in Ends /\ \A t \in Ends : end <= t
  BY <1>3, LeastInSet
<1>5. GapLen(u) = IF end - g > UPLINK_PART_REQ_LEN THEN UPLINK_PART_REQ_LEN ELSE end - g
  BY DEF GapLen, g
<1> HIDE DEF end
<1>6. end \in g + 1 .. u.msg_len
  BY <1>4
<1>7. GapLen(u) \in 1 .. end - g
  BY <1>0, <1>2, <1>5, <1>6
<1>8. ASSUME NEW i \in g .. g + GapLen(u) - 1 PROVE i \in Missing(u)
  <2>1. i \in g .. end - 1
    BY <1>0, <1>2, <1>6, <1>7
  <2>2. i \in 0 .. u.msg_len - 1
    BY <1>0, <1>2, <1>6, <2>1
  <2>3. CASE i = g
    BY <1>1, <2>3
  <2>4. CASE i # g
    <3>1. i \in g + 1 .. u.msg_len /\ ~(end <= i)
      BY <1>0, <1>2, <1>6, <2>1, <2>4
    <3>2. i \notin Ends
      BY <1>4, <3>1
    <3> QED
      BY <2>2, <3>1, <3>2 DEF Missing
  <2> QED
    BY <2>3, <2>4
<1>9. GapLen(u) \in 1 .. UPLINK_MAX_LEN /\ g \in 0 .. UPLINK_MAX_LEN
  BY <1>0, <1>2, <1>6, <1>7
<1> QED
  BY <1>8, <1>9 DEF g

LEMMA RequestFacts ==
  ASSUME NEW u \in UpStates
  PROVE  RequestNextPart(u) \in UpStates /\ SameButRequest(u, RequestNextPart(u))
<1>1. CASE AllReceived(u) \/ Missing(u) = {}
  BY <1>1 DEF RequestNextPart, SameButRequest
<1>2. CASE ~(AllReceived(u) \/ Missing(u) = {})
  <2>1. GapStart(u) \in 0 .. UPLINK_MAX_LEN /\ GapLen(u) \in 0 .. UPLINK_MAX_LEN
    <3>1. Missing(u) # {}
      BY <1>2
    <3>2. GapStart(u) \in 0 .. UPLINK_MAX_LEN /\ GapLen(u) \in 1 .. UPLINK_MAX_LEN
      BY <3>1, GapFacts
    <3> QED
      BY <3>2
  <2>2. 0 \in 0 .. UPLINK_MAX_PART_RETRY
    BY UplinkAssumption
  <2>3. RequestNextPart(u)
          = [[u EXCEPT !.last_part_start = GapStart(u), !.last_part_len = GapLen(u)]
               EXCEPT !.last_part_retry = 0]
    BY <1>2 DEF RequestNextPart, RequestPart
  <2> QED
    BY <2>1, <2>2, <2>3 DEF UpStates, SameButRequest
<1> QED
  BY <1>1, <1>2

LEMMA BadPartFacts ==
  ASSUME NEW u \in UpStates, NEW start \in Nat, NEW plen \in Nat, start + plen <= u.msg_len
  PROVE  LET v == AfterBadPart(u, start, plen)
         IN  v = Uplink_Reset \/ (v \in UpStates /\ SameButRequest(u, v))
<1>1. CASE start = u.last_part_start /\ plen = u.last_part_len
  <2>1. CASE u.last_part_retry < UPLINK_MAX_PART_RETRY
    <3>1. u.last_part_retry + 1 \in 0 .. UPLINK_MAX_PART_RETRY
      BY <2>1, UplinkAssumption DEF UpStates
    <3>2. AfterBadPart(u, start, plen) = [u EXCEPT !.last_part_retry = u.last_part_retry + 1]
      BY <1>1, <2>1 DEF AfterBadPart
    <3> QED
      BY <3>1, <3>2 DEF UpStates, SameButRequest
  <2> QED
    BY <1>1, <2>1 DEF AfterBadPart
<1>2. CASE ~(start = u.last_part_start /\ plen = u.last_part_len)
  <2>1. start \in 0 .. UPLINK_MAX_LEN /\ plen \in 0 .. UPLINK_MAX_LEN
        /\ 0 \in 0 .. UPLINK_MAX_PART_RETRY
    BY UplinkAssumption DEF UpStates
  <2>2. AfterBadPart(u, start, plen)
          = [[u EXCEPT !.last_part_start = start, !.last_part_len = plen]
               EXCEPT !.last_part_retry = 0]
    BY <1>2 DEF AfterBadPart, RequestPart
  <2> QED
    BY <2>1, <2>2 DEF UpStates, SameButRequest
<1> QED
  BY <1>1, <1>2

-----------------------------------------------------------------------------
(* The inductive invariant.                                                 *)

Intact(u) == \A i \in u.recv_bitmap : i \in DOMAIN u.msg_crc /\ u.buf[i] = u.msg_crc[i]

Announced(u) ==
  u.recv_bitmap = 0 .. u.msg_len - 1 /\ CalculateCRC32(u.buf, u.msg_len) = u.msg_crc

\* What the invariants say of a receive state.
Good(u, g) ==
  /\ u \in UpStates
  /\ Counted(u)
  /\ u.in_progress => u.received_bytes < u.msg_len
  /\ u.complete => Announced(u)
  /\ u.in_progress /\ g => Intact(u)

UpInv ==
  /\ Good(up, genuine)
  /\ rx \in [type : {0, 5, 6, 9}, status : {0, 1, 10, 20, 30}, id : {0}]
  /\ fwd \in [id : MessageIds \cup {0}, data : Content] \cup {NoMessage}
  /\ genuine \in BOOLEAN
  /\ pc \in {"rx", "notify", "tick", "forward"}
  /\ NothingOverwritten
  /\ pc # "notify" => rx = NoRx

LEMMA GoodReset == \A g \in BOOLEAN : Good(Uplink_Reset, g)
  BY ResetFacts DEF Good

LEMMA GoodStarted ==
  ASSUME NEW h \in Headers, ~InvalidLength(h)
  PROVE  Good(Started(h), TRUE)
  BY StartedFacts DEF Good, Intact

LEMMA GoodSame ==
  ASSUME NEW u, NEW v \in UpStates, NEW g \in BOOLEAN, Good(u, g), SameButRequest(u, v)
  PROVE  Good(v, g)
  BY DEF Good, SameButRequest, Counted, Announced, Intact

LEMMA GoodCleared ==
  ASSUME NEW u, NEW g \in BOOLEAN, Good(u, g), u.in_progress
  PROVE  Good(Cleared(u), TRUE)
<1> DEFINE v == Cleared(u)
<1>0. u \in UpStates /\ Counted(u) /\ u.received_bytes < u.msg_len
  BY DEF Good
<1>1. /\ v \in UpStates /\ v.recv_bitmap = {} /\ v.received_bytes = 0
      /\ v.msg_len = u.msg_len /\ v.complete = u.complete /\ v.buf = u.buf
      /\ v.msg_crc = u.msg_crc
  BY <1>0 DEF Cleared, UpStates
<1> HIDE DEF v
<1>2. u.received_bytes \in Nat /\ u.msg_len \in Nat
  BY <1>0 DEF UpStates
<1>3. 0 < v.msg_len
  BY <1>0, <1>1, <1>2
<1>4. Counted(v)
  BY <1>1, FS_EmptySet DEF Counted
<1>5. ~u.complete
  <2> SUFFICES ASSUME u.complete PROVE FALSE
    OBVIOUS
  <2>1. Cardinality(0 .. u.msg_len - 1) = u.msg_len
    BY <1>2, FS_Interval
  <2>2. u.received_bytes = u.msg_len
    BY <1>0, <2>1 DEF Good, Announced, Counted
  <2> QED
    BY <1>0, <1>2, <2>2
<1> QED
  BY <1>1, <1>3, <1>4, <1>5 DEF Good, Intact, v

\* A part that is accepted: either bytes are still missing, or the message is
\* complete, or everything is dropped.
LEMMA GoodPart ==
  ASSUME NEW u, NEW g \in BOOLEAN, Good(u, g), u.in_progress, ~u.complete,
         NEW start \in Nat, NEW plen \in Nat, start + plen <= u.msg_len,
         NEW data \in [0 .. plen - 1 -> Byte]
  PROVE  LET v  == WithPart(u, start, plen, data)
             g2 == g /\ IsSlice(u, start, plen, data)
         IN  /\ v \in UpStates /\ v.in_progress /\ ~v.complete
             /\ v.msg_id = u.msg_id /\ v.msg_crc = u.msg_crc /\ v.msg_len = u.msg_len
             /\ g2 => Intact(v)
             /\ ~AllReceived(v) => Good(v, g2)
             /\ AllReceived(v) => Good(Finished(v), g2)
             /\ AllReceived(v) => v.recv_bitmap = 0 .. v.msg_len - 1
<1> DEFINE range == start .. start + plen - 1
           v == WithPart(u, start, plen, data)
           g2 == g /\ IsSlice(u, start, plen, data)
<1>0. u \in UpStates /\ Counted(u)
  BY DEF Good
<1>1. /\ v \in UpStates /\ Counted(v)
      /\ v.in_progress = u.in_progress /\ v.complete = u.complete
      /\ v.msg_id = u.msg_id /\ v.msg_len = u.msg_len /\ v.msg_crc = u.msg_crc
      /\ v.recv_bitmap = u.recv_bitmap \cup range
      /\ \A i \in 0 .. UPLINK_MAX_LEN - 1 :
           v.buf[i] = IF i \in range THEN data[i - start] ELSE u.buf[i]
  <2>1. Added(u, start, plen, data, v)
    BY <1>0, WithPartFacts
  <2> QED
    BY <2>1 DEF Added
<1> HIDE DEF v
<1>2. ASSUME g2 PROVE Intact(v)
  <2> SUFFICES ASSUME NEW i \in v.recv_bitmap
               PROVE  i \in DOMAIN v.msg_crc /\ v.buf[i] = v.msg_crc[i]
    BY DEF Intact
  <2>1. i \in 0 .. UPLINK_MAX_LEN - 1
    BY <1>1 DEF UpStates
  <2>2. CASE i \in range
    <3>1. i - start \in 0 .. plen - 1 /\ start + (i - start) = i
      BY <2>1, <2>2
    <3>2. i \in DOMAIN u.msg_crc /\ data[i - start] = u.msg_crc[i]
      BY <1>2, <3>1 DEF IsSlice
    <3> QED
      BY <1>1, <2>1, <2>2, <3>2
  <2>3. CASE i \notin range
    <3>1. i \in u.recv_bitmap /\ Intact(u)
      BY <1>1, <1>2, <2>3 DEF Good
    <3> QED
      BY <1>1, <2>1, <2>3, <3>1 DEF Intact
  <2> QED
    BY <2>2, <2>3
<1>3. v.received_bytes \in Nat /\ v.msg_len \in Nat
  BY <1>1 DEF UpStates
<1>4. ~AllReceived(v) => Good(v, g2)
  BY <1>1, <1>2, <1>3 DEF AllReceived, Good
<1>g. g2 \in BOOLEAN
  OBVIOUS
<1>5. ASSUME AllReceived(v) PROVE v.recv_bitmap = 0 .. v.msg_len - 1
  <2>1. IsFiniteSet(0 .. v.msg_len - 1) /\ Cardinality(0 .. v.msg_len - 1) = v.msg_len
    BY <1>3, IntervalCard
  <2>2. v.recv_bitmap \subseteq 0 .. v.msg_len - 1
    BY <1>1 DEF Counted
  <2>3. /\ Cardinality(v.recv_bitmap) <= v.msg_len
        /\ v.msg_len = Cardinality(v.recv_bitmap) => v.recv_bitmap = 0 .. v.msg_len - 1
    BY <2>1, <2>2, FS_Subset
  <2>4. Cardinality(v.recv_bitmap) >= v.msg_len /\ Cardinality(v.recv_bitmap) \in Nat
    BY <1>1, <1>3, <1>5 DEF AllReceived, Counted
  <2> QED
    BY <1>3, <2>1, <2>3, <2>4
<1>6. ASSUME AllReceived(v) PROVE Good(Finished(v), g2)
  <2>1. CASE FullCrcMatches(v)
    <3> DEFINE w == [v EXCEPT !.complete = TRUE, !.in_progress = FALSE]
    <3>1. Finished(v) = w
      BY <2>1 DEF Finished
    <3>2. /\ w \in UpStates /\ w.complete = TRUE /\ w.in_progress = FALSE
          /\ w.recv_bitmap = v.recv_bitmap /\ w.received_bytes = v.received_bytes
          /\ w.msg_len = v.msg_len /\ w.msg_crc = v.msg_crc /\ w.buf = v.buf
      BY <1>1 DEF UpStates
    <3> HIDE DEF w
    <3>3. Announced(w)
      BY <1>5, <1>6, <2>1, <3>2 DEF Announced, FullCrcMatches
    <3>4. Counted(w)
      BY <1>1, <3>2 DEF Counted
    <3> QED
      BY <3>1, <3>2, <3>3, <3>4 DEF Good
  <2>2. CASE ~FullCrcMatches(v)
    BY <1>g, <2>2, GoodReset DEF Finished
  <2> QED
    BY <2>1, <2>2
<1> QED
  <2>1. v.in_progress /\ ~v.complete
    BY <1>1
  <2>2. v = WithPart(u, start, plen, data)
    BY DEF v
  <2> HIDE DEF g2
  <2>3. /\ v \in UpStates /\ v.in_progress /\ ~v.complete
        /\ v.msg_id = u.msg_id /\ v.msg_crc = u.msg_crc /\ v.msg_len = u.msg_len
        /\ g2 => Intact(v)
        /\ ~AllReceived(v) => Good(v, g2)
        /\ AllReceived(v) => Good(Finished(v), g2)
        /\ AllReceived(v) => v.recv_bitmap = 0 .. v.msg_len - 1
    BY <1>1, <1>2, <1>4, <1>5, <1>6, <2>1
  <2> QED
    BY <2>2, <2>3 DEF g2

LEMMA UpInvInit == UpInit => UpInv
<1> SUFFICES ASSUME UpInit PROVE UpInv
  OBVIOUS
<1>1. Good(up, genuine) /\ ~up.complete
  BY GoodReset, ResetFacts DEF UpInit
<1>2. rx \in [type : {0, 5, 6, 9}, status : {0, 1, 10, 20, 30}, id : {0}]
  BY DEF UpInit, NoRx, Rx
<1> QED
  BY <1>1, <1>2 DEF UpInit, UpInv, NothingOverwritten

\* A frame changes the receive state and reports; what is left is to see that
\* the new receive state is good.
Reported ==
  \E type \in {5, 6, 9}, status \in {0, 1, 10, 20, 30} : Report(type, status)

KeepsGood == Good(up', genuine') /\ genuine' \in BOOLEAN /\ Reported

LEMMA ReportStep ==
  ASSUME NEW type \in {5, 6, 9}, NEW status \in {0, 1, 10, 20, 30},
         Report(type, status), Good(up, genuine)', genuine' \in BOOLEAN
  PROVE  KeepsGood
  BY DEF KeepsGood, Reported

LEMMA FrameKeepsGood ==
  ASSUME Good(up, genuine), genuine \in BOOLEAN, NothingOverwritten, UpFrame
  PROVE  KeepsGood
<1>0. Good(up, genuine) /\ up \in UpStates /\ genuine \in BOOLEAN
  BY DEF Good
<1>1. ASSUME NEW type \in {5, 6, 9}, TooShort(type) PROVE KeepsGood
  <2>1. Good(up, genuine)' /\ genuine' \in BOOLEAN
    BY <1>0, <1>1 DEF TooShort
  <2> QED
    BY <1>1, <2>1, ReportStep DEF TooShort
<1>2. ASSUME NEW h \in Headers, NEW rc \in BOOLEAN, OfferReceiveMsg(h, rc) PROVE KeepsGood
  <2>1. CASE InvalidLength(h)
    <3>1. Good(up, genuine)' /\ genuine' \in BOOLEAN
      BY <1>0, <1>2, <2>1 DEF OfferReceiveMsg
    <3> QED
      BY <1>2, <2>1, <3>1, ReportStep DEF OfferReceiveMsg
  <2>2. CASE ~InvalidLength(h)
    <3>1. up' \in {Started(h), Uplink_Reset} /\ genuine' = TRUE
      BY <1>2, <2>2 DEF OfferReceiveMsg
    <3>2. Good(up, genuine)' /\ genuine' \in BOOLEAN
      BY <2>2, <3>1, GoodStarted, GoodReset
    <3>3. Report(6, IF rc THEN 0 ELSE 1)
      BY <1>2, <2>2 DEF OfferReceiveMsg
    <3> QED
      BY <3>2, <3>3, ReportStep
  <2> QED
    BY <2>1, <2>2
<1>3. ASSUME NEW h \in Headers, NEW rc \in BOOLEAN, SendMsgHeader(h, rc) PROVE KeepsGood
  <2>1. CASE InvalidLength(h) /\ Report(5, 10) /\ UNCHANGED <<up, genuine>>
    <3>1. Good(up, genuine)' /\ genuine' \in BOOLEAN
      BY <1>0, <2>1
    <3> QED
      BY <2>1, <3>1, ReportStep
  <2>2. CASE up' = Uplink_Reset /\ genuine' = TRUE /\ Report(5, 30)
    <3>1. Good(up, genuine)' /\ genuine' \in BOOLEAN
      BY <2>2, GoodReset
    <3> QED
      BY <2>2, <3>1, ReportStep
  <2>3. CASE /\ ~InvalidLength(h)
             /\ up' = RequestNextPart(IF Prepared(up) THEN Cleared(up) ELSE Started(h))
             /\ genuine' = TRUE
             /\ Report(5, IF rc THEN 0 ELSE 1)
    <3>1. Prepared(up) => Good(Cleared(up), TRUE)
      BY <1>0, GoodCleared DEF Prepared
    <3>2. PICK u : u = (IF Prepared(up) THEN Cleared(up) ELSE Started(h)) /\ Good(u, TRUE)
      BY <2>3, <3>1, GoodStarted
    <3>3. up' \in UpStates /\ SameButRequest(u, up')
      BY <2>3, <3>2, RequestFacts DEF Good
    <3>4. Good(up', TRUE)
      BY <3>2, <3>3, GoodSame
    <3>5. Good(up, genuine)' /\ genuine' \in BOOLEAN
      BY <2>3, <3>4
    <3> QED
      BY <2>3, <3>5, ReportStep
  <2> QED
    BY <1>3, <2>1, <2>2, <2>3 DEF SendMsgHeader
<1>4. ASSUME NEW id, NEW start, NEW plen, NEW len_agrees, PartRefused(id, start, plen, len_agrees)
      PROVE  KeepsGood
  <2>1. Good(up, genuine)' /\ genuine' \in BOOLEAN
    BY <1>0, <1>4 DEF PartRefused
  <2>2. Report(9, 30) \/ Report(9, 10)
    BY <1>4 DEF PartRefused
  <2> QED
    BY <2>1, <2>2, ReportStep
<1>5. ASSUME NEW id, NEW start \in Nat, NEW plen \in Nat, PartDamaged(id, start, plen)
      PROVE  KeepsGood
  <2>1. up' = AfterBadPart(up, start, plen) /\ start + plen <= up.msg_len
    BY <1>5 DEF PartDamaged, Expected
  <2>2. up' = Uplink_Reset \/ (up' \in UpStates /\ SameButRequest(up, up'))
    BY <1>0, <2>1, BadPartFacts
  <2>3. genuine' = (genuine \/ ~up'.in_progress) /\ up.in_progress
    BY <1>5 DEF PartDamaged, Expected
  <2>4. genuine' \in BOOLEAN /\ Report(9, 20)
    BY <1>5, <2>3 DEF PartDamaged
  <2>5. CASE up' = Uplink_Reset
    <3>1. Good(up, genuine)'
      BY <2>4, <2>5, GoodReset
    <3> QED
      BY <2>4, <3>1, ReportStep
  <2>6. CASE up' \in UpStates /\ SameButRequest(up, up')
    <3>1. Good(up', genuine)
      BY <1>0, <2>6, GoodSame
    <3>2. genuine' = genuine
      BY <1>0, <2>3, <2>6 DEF SameButRequest
    <3>3. Good(up, genuine)'
      BY <3>1, <3>2
    <3> QED
      BY <2>4, <3>3, ReportStep
  <2> QED
    BY <2>2, <2>5, <2>6
<1>6. ASSUME NEW id, NEW start \in Nat, NEW plen \in Nat, NEW data \in [0 .. plen - 1 -> Byte],
             SendMsgPart(id, start, plen, data)
      PROVE  KeepsGood
  <2>0. pc = "rx" /\ ~up.complete /\ up.in_progress /\ start + plen <= up.msg_len
    BY <1>6 DEF SendMsgPart, Expected, NothingOverwritten
  <2>1. PICK v : v = WithPart(up, start, plen, data)
    OBVIOUS
  <2>2. PICK g : g = (genuine /\ IsSlice(up, start, plen, data)) /\ g \in BOOLEAN
    OBVIOUS
  <2>3. /\ v \in UpStates
        /\ ~AllReceived(v) => Good(v, g)
        /\ AllReceived(v) => Good(Finished(v), g)
    BY <1>0, <2>0, <2>1, <2>2, GoodPart
  <2>4. /\ up' = IF AllReceived(v) THEN Finished(v) ELSE RequestNextPart(v)
        /\ genuine' = g
        /\ Report(9, IF AllReceived(v) /\ ~FullCrcMatches(v) THEN 30 ELSE 0)
    BY <1>6, <2>1, <2>2 DEF SendMsgPart
  <2>5. Good(up', g)
    <3>1. CASE AllReceived(v)
      BY <2>3, <2>4, <3>1
    <3>2. CASE ~AllReceived(v)
      <4>1. RequestNextPart(v) \in UpStates /\ SameButRequest(v, RequestNextPart(v))
        BY <2>3, RequestFacts
      <4> QED
        BY <2>2, <2>3, <2>4, <3>2, <4>1, GoodSame
    <3> QED
      BY <3>1, <3>2
  <2>6. Good(up, genuine)' /\ genuine' \in BOOLEAN
    BY <2>2, <2>4, <2>5
  <2> QED
    BY <2>4, <2>6, ReportStep
<1>7. \A part \in Spans : part.start \in Nat /\ part.plen \in Nat
  BY UplinkAssumption
<1> QED
  BY <1>1, <1>2, <1>3, <1>4, <1>5, <1>6, <1>7 DEF UpFrame

LEMMA UpInvStep == UpInv /\ [UpNext]_upVars => UpInv'
<1> SUFFICES ASSUME UpInv, [UpNext]_upVars PROVE UpInv'
  OBVIOUS
<1>0. Good(up, genuine) /\ up \in UpStates /\ genuine \in BOOLEAN
  BY DEF UpInv, Good
<1>6. CASE UpFrame
  <2>1. KeepsGood
    BY <1>0, <1>6, FrameKeepsGood DEF UpInv
  <2> QED
    BY <2>1 DEF KeepsGood, Reported, UpInv, Report, Rx, NothingOverwritten
<1>7. CASE NoFrame
  BY <1>7 DEF NoFrame, UpInv, NothingOverwritten
<1>8. CASE SessionTakes
  BY <1>8 DEF SessionTakes, UpInv, NothingOverwritten, NoRx, Rx
<1>9. CASE ForwardToSB
  <2>1. CASE up.complete
    <3>1. up' = Uplink_Reset /\ genuine' = TRUE /\ rx' = rx /\ pc' = "rx"
          /\ fwd' = [id |-> up.msg_id, data |-> CalculateCRC32(up.buf, up.msg_len)]
      BY <1>9, <2>1 DEF ForwardToSB, AfterCopyOut
    <3>2. CalculateCRC32(up.buf, up.msg_len) = up.msg_crc
      BY <1>0, <2>1 DEF Good, Announced
    <3>3. fwd' \in [id : MessageIds \cup {0}, data : Content]
      BY <1>0, <3>1, <3>2 DEF UpStates
    <3>4. Good(up, genuine)' /\ ~up'.complete
      BY <3>1, GoodReset, ResetFacts
    <3> QED
      <4>1. rx = NoRx
        BY <1>9 DEF ForwardToSB, UpInv
      <4> QED
        BY <3>1, <3>3, <3>4, <4>1 DEF UpInv, NothingOverwritten
  <2>2. CASE ~up.complete
    BY <1>9, <2>2 DEF ForwardToSB, UpInv, NothingOverwritten
  <2> QED
    BY <2>1, <2>2
<1>10. CASE UNCHANGED upVars
  BY <1>10 DEF upVars, UpInv, NothingOverwritten
<1> QED
  BY <1>6, <1>7, <1>8, <1>9, <1>10 DEF UpNext

LEMMA UpInvariant == UpSpec => []UpInv
  BY UpInvInit, UpInvStep, PTL DEF UpSpec

\* The receive state keeps its type, for messages of any length; no part is
\* requested again more often than LTRX_UPLINK_MAX_PART_RETRY says.
THEOREM UpTypeCorrect == UpSpec => []UpTypeOK
<1>1. UpInv => UpTypeOK
  BY DEF UpInv, UpTypeOK, Good
<1> QED
  BY <1>1, UpInvariant, PTL

\* However parts overlap, repeat or come out of order, the counter by which
\* Uplink_AllReceived decides counts each byte once.
THEOREM CountCorrect == UpSpec => []BytesCounted
<1>1. UpInv => BytesCounted
  BY DEF UpInv, BytesCounted, Good, Counted
<1> QED
  BY <1>1, UpInvariant, PTL

\* A message that is complete is the announced one, byte for byte.
THEOREM CompleteCorrect == UpSpec => [](CompleteIsAnnounced /\ NothingOverwritten)
<1>1. UpInv => CompleteIsAnnounced /\ NothingOverwritten
  BY DEF UpInv, CompleteIsAnnounced, Good, Announced
<1> QED
  BY <1>1, UpInvariant, PTL

\* True parts leave true bytes in the buffer.
THEOREM BufferCorrect == UpSpec => []GenuineIntact
<1>1. UpInv => GenuineIntact
  BY DEF UpInv, GenuineIntact, Good, Intact
<1> QED
  BY <1>1, UpInvariant, PTL

\* The receive state is sound after any frames in any order.
THEOREM ReceiveIsSound == UpSpec => []ReceiveSound
<1>1. UpTypeOK /\ BytesCounted /\ (CompleteIsAnnounced /\ NothingOverwritten) /\ GenuineIntact
        => ReceiveSound
  BY DEF ReceiveSound
<1> QED
  BY <1>1, UpTypeCorrect, CountCorrect, CompleteCorrect, BufferCorrect, PTL

-----------------------------------------------------------------------------
(* What a step may not do.                                                  *)

\* The steps that report on a part.
LEMMA PartReported ==
  ASSUME UpInv, UpNext, rx'.type = 9
  PROVE  \/ UNCHANGED up /\ rx'.status \in {10, 30}
         \/ rx'.status = 20
         \/ \E id \in MessageIds, part \in Spans : \E data \in [0 .. part.plen - 1 -> Byte] :
              SendMsgPart(id, part.start, part.plen, data)
<1>1. CASE UpFrame
  <2>1. ASSUME NEW h \in Headers, NEW rc \in BOOLEAN,
               OfferReceiveMsg(h, rc) \/ SendMsgHeader(h, rc)
        PROVE  FALSE
    <3>1. rx'.type \in {5, 6}
      BY <2>1 DEF OfferReceiveMsg, SendMsgHeader, Report, Rx
    <3> QED
      BY <3>1
  <2>2. ASSUME NEW id \in MessageIds, NEW part \in Spans, PartDamaged(id, part.start, part.plen)
        PROVE  rx'.status = 20
    BY <2>2 DEF PartDamaged, Report, Rx
  <2>3. ASSUME NEW id, NEW start, NEW plen, NEW len_agrees, PartRefused(id, start, plen, len_agrees)
        PROVE  UNCHANGED up /\ rx'.status \in {10, 30}
    BY <2>3 DEF PartRefused, Report, Rx
  <2>4. ASSUME NEW type \in {5, 6, 9}, TooShort(type)
        PROVE  UNCHANGED up /\ rx'.status \in {10, 30}
    BY <2>4 DEF TooShort, Report, Rx
  <2> QED
    BY <1>1, <2>1, <2>2, <2>3, <2>4 DEF UpFrame
<1>2. ASSUME rx' = NoRx PROVE FALSE
  BY <1>2 DEF NoRx, Rx
<1>3. CASE NoFrame \/ SessionTakes \/ ForwardToSB
  BY <1>2, <1>3 DEF NoFrame, SessionTakes, ForwardToSB, UpInv
<1> QED
  BY <1>1, <1>3 DEF UpNext

\* What a step with an accepted part knows.
LEMMA PartAccepted ==
  ASSUME UpInv, NEW id, NEW start \in Nat, NEW plen \in Nat,
         NEW data \in [0 .. plen - 1 -> Byte], SendMsgPart(id, start, plen, data)
  PROVE  \E v \in UpStates :
           /\ v.in_progress /\ ~v.complete /\ Counted(v)
           /\ v.msg_id = up.msg_id /\ v.msg_crc = up.msg_crc /\ v.msg_len = up.msg_len
           /\ genuine' => Intact(v)
           /\ AllReceived(v) => v.recv_bitmap = 0 .. v.msg_len - 1
           /\ up' = IF AllReceived(v) THEN Finished(v) ELSE RequestNextPart(v)
           /\ rx'.status = IF AllReceived(v) /\ ~FullCrcMatches(v) THEN 30 ELSE 0
<1>0. Good(up, genuine) /\ up \in UpStates /\ genuine \in BOOLEAN
  BY DEF UpInv, Good
<1>1. pc = "rx" /\ ~up.complete /\ up.in_progress /\ start + plen <= up.msg_len
  BY DEF SendMsgPart, Expected, UpInv, NothingOverwritten
<1>2. PICK v : v = WithPart(up, start, plen, data)
  OBVIOUS
<1>3. /\ v \in UpStates /\ v.in_progress /\ ~v.complete
      /\ v.msg_id = up.msg_id /\ v.msg_crc = up.msg_crc /\ v.msg_len = up.msg_len
      /\ (genuine /\ IsSlice(up, start, plen, data)) => Intact(v)
      /\ AllReceived(v) => v.recv_bitmap = 0 .. v.msg_len - 1
  BY <1>0, <1>1, <1>2, GoodPart
<1>4. Counted(v)
  <2>1. Counted(up)
    BY <1>0 DEF Good
  <2>2. Added(up, start, plen, data, v)
    BY <1>0, <1>1, <1>2, <2>1, WithPartFacts
  <2> QED
    BY <2>2 DEF Added
<1>5. /\ up' = IF AllReceived(v) THEN Finished(v) ELSE RequestNextPart(v)
      /\ genuine' = (genuine /\ IsSlice(up, start, plen, data))
      /\ Report(9, IF AllReceived(v) /\ ~FullCrcMatches(v) THEN 30 ELSE 0)
  BY <1>2 DEF SendMsgPart
<1>6. rx'.status = IF AllReceived(v) /\ ~FullCrcMatches(v) THEN 30 ELSE 0
  BY <1>5 DEF Report, Rx
<1>7. genuine' => Intact(v)
  BY <1>3, <1>5
<1> QED
  BY <1>3, <1>4, <1>5, <1>6, <1>7

LEMMA FinishedEnds ==
  ASSUME NEW v \in UpStates
  PROVE  ~Finished(v).in_progress
  BY ResetFacts DEF Finished, UpStates

\* After bytes have come in, the next request is for bytes that are missing,
\* all of them, whatever holes the parts have left.
THEOREM RequestCorrect == UpSpec => RequestsMissingBytes
<1> DEFINE Asks == /\ up'.last_part_len > 0
                   /\ up'.last_part_start .. up'.last_part_start + up'.last_part_len - 1
                        \subseteq Missing(up')
           Guard == up'.in_progress /\ rx'.type = 9 /\ rx'.status = 0 /\ pc = "rx"
<1>1. ASSUME UpInv, [UpNext]_upVars PROVE [Guard => Asks]_upVars
  <2> SUFFICES ASSUME UpNext, Guard PROVE Asks
    BY <1>1
  <2>1. PICK id \in MessageIds, part \in Spans : \E data \in [0 .. part.plen - 1 -> Byte] :
          SendMsgPart(id, part.start, part.plen, data)
    BY <1>1, PartReported
  <2>2. part.start \in Nat /\ part.plen \in Nat
    BY UplinkAssumption
  <2>3. PICK v \in UpStates :
          /\ v.in_progress /\ Counted(v)
          /\ up' = IF AllReceived(v) THEN Finished(v) ELSE RequestNextPart(v)
    BY <1>1, <2>1, <2>2, PartAccepted
  <2>4. ~AllReceived(v) /\ up' = RequestNextPart(v)
    BY <2>3, FinishedEnds
  <2>5. v.msg_len \in Nat /\ v.received_bytes \in Nat
    BY DEF UpStates
  <2>6. Missing(v) # {}
    <3> SUFFICES ASSUME Missing(v) = {} PROVE FALSE
      OBVIOUS
    <3>1. v.recv_bitmap = 0 .. v.msg_len - 1
      BY <2>3 DEF Missing, Counted
    <3>2. v.received_bytes = v.msg_len
      BY <2>3, <2>5, <3>1, IntervalCard DEF Counted
    <3> QED
      BY <2>3, <2>4, <2>5, <3>2 DEF AllReceived
  <2>7. /\ GapLen(v) \in 1 .. UPLINK_MAX_LEN
        /\ GapStart(v) .. GapStart(v) + GapLen(v) - 1 \subseteq Missing(v)
    BY <2>6, GapFacts
  <2>8. up' = [[v EXCEPT !.last_part_start = GapStart(v), !.last_part_len = GapLen(v)]
                 EXCEPT !.last_part_retry = 0]
    BY <2>4, <2>6 DEF RequestNextPart, RequestPart
  <2>9. /\ up'.last_part_start = GapStart(v) /\ up'.last_part_len = GapLen(v)
        /\ up'.msg_len = v.msg_len /\ up'.recv_bitmap = v.recv_bitmap
    BY <2>8 DEF UpStates
  <2>10. Missing(up') = Missing(v)
    BY <2>9 DEF Missing
  <2> QED
    BY <2>7, <2>9, <2>10
<1> QED
  BY <1>1, UpInvariant, PTL DEF UpSpec, RequestsMissingBytes

\* A message of which every part was true passes the check of its whole CRC.
THEOREM NoFalseRejection == UpSpec => NoFalseReject
<1> DEFINE Guard == up.in_progress /\ ~up'.in_progress /\ rx'.type = 9 /\ rx'.status = 30
           Excuse == ~genuine' \/ DOMAIN up.msg_crc # 0 .. up.msg_len - 1
<1>1. ASSUME UpInv, [UpNext]_upVars PROVE [Guard => Excuse]_upVars
  <2> SUFFICES ASSUME UpNext, Guard, genuine', DOMAIN up.msg_crc = 0 .. up.msg_len - 1
               PROVE  FALSE
    BY <1>1
  <2>1. PICK id \in MessageIds, part \in Spans : \E data \in [0 .. part.plen - 1 -> Byte] :
          SendMsgPart(id, part.start, part.plen, data)
    BY <1>1, PartReported
  <2>2. part.start \in Nat /\ part.plen \in Nat
    BY UplinkAssumption
  <2>3. PICK v \in UpStates :
          /\ v.msg_crc = up.msg_crc /\ v.msg_len = up.msg_len
          /\ Intact(v)
          /\ AllReceived(v) => v.recv_bitmap = 0 .. v.msg_len - 1
          /\ rx'.status = IF AllReceived(v) /\ ~FullCrcMatches(v) THEN 30 ELSE 0
    BY <1>1, <2>1, <2>2, PartAccepted
  <2>4. AllReceived(v) /\ ~FullCrcMatches(v) /\ v.recv_bitmap = 0 .. v.msg_len - 1
    BY <2>3
  <2>5. v.msg_crc \in Content
    BY DEF UpStates
  <2>6. v.msg_crc = [i \in DOMAIN v.msg_crc |-> v.msg_crc[i]]
    BY <2>5 DEF Content
  <2>7. \A i \in 0 .. v.msg_len - 1 : v.buf[i] = v.msg_crc[i]
    BY <2>3, <2>4 DEF Intact
  <2>8. v.msg_crc = [i \in 0 .. v.msg_len - 1 |-> v.buf[i]]
    BY <2>3, <2>6, <2>7
  <2> QED
    BY <2>4, <2>8 DEF FullCrcMatches, CalculateCRC32
<1> QED
  BY <1>1, UpInvariant, PTL DEF UpSpec, NoFalseReject

-----------------------------------------------------------------------------
(* The uplink implements LtrxDelivery.                                      *)

\* What is announced in a receive state.
Ann(u) == IF u.in_progress \/ u.complete THEN [id |-> u.msg_id, data |-> u.msg_crc] ELSE NoMessage

LEMMA AnnSame ==
  ASSUME NEW u, NEW v, SameButRequest(u, v)
  PROVE  Ann(v) = Ann(u)
  BY DEF Ann, SameButRequest

LEMMA AnnReset == Ann(Uplink_Reset) = NoMessage
  BY ResetFacts DEF Ann

LEMMA AnnStarted ==
  ASSUME NEW h \in Headers, ~InvalidLength(h)
  PROVE  Ann(Started(h)) \in [id : MessageIds, data : Content]
<1>1. h.id \in MessageIds /\ h.crc \in Content
  BY UplinkAssumption
<1> QED
  BY <1>1, StartedFacts DEF Ann

\* A frame announces, drops or leaves the announcement alone.
LEMMA FrameAnnounces ==
  ASSUME UpInv, UpFrame
  PROVE  /\ fwd' = NoMessage
         /\ \/ Ann(up') = Ann(up)
            \/ Ann(up') = NoMessage
            \/ Ann(up') \in [id : MessageIds, data : Content]
<1>0. up \in UpStates
  BY DEF UpInv, Good
<1>1. fwd' = NoMessage
  BY DEF UpFrame, TooShort, OfferReceiveMsg, SendMsgHeader, PartRefused, PartDamaged, SendMsgPart,
         Report
<1>2. ASSUME NEW h \in Headers, NEW rc \in BOOLEAN, OfferReceiveMsg(h, rc)
      PROVE  up' = up \/ Ann(up') \in [id : MessageIds, data : Content] \cup {NoMessage}
  <2>1. up' = up \/ up' = Uplink_Reset \/ (~InvalidLength(h) /\ up' = Started(h))
    BY <1>2 DEF OfferReceiveMsg
  <2> QED
    BY <2>1, AnnReset, AnnStarted
<1>3. ASSUME NEW h \in Headers, NEW rc \in BOOLEAN, SendMsgHeader(h, rc)
      PROVE  Ann(up') = Ann(up) \/ Ann(up') \in [id : MessageIds, data : Content] \cup {NoMessage}
  <2>1. CASE up' = up \/ up' = Uplink_Reset
    BY <2>1, AnnReset
  <2>2. CASE Prepared(up) /\ up' = RequestNextPart(Cleared(up))
    <3>1. /\ Cleared(up) \in UpStates /\ Cleared(up).in_progress = up.in_progress
          /\ Cleared(up).complete = up.complete /\ Cleared(up).msg_id = up.msg_id
          /\ Cleared(up).msg_crc = up.msg_crc
      BY <1>0 DEF Cleared, UpStates
    <3>2. SameButRequest(Cleared(up), up')
      BY <2>2, <3>1, RequestFacts
    <3>3. Ann(up') = Ann(Cleared(up))
      BY <3>2, AnnSame
    <3>4. Ann(Cleared(up)) = Ann(up)
      BY <3>1 DEF Ann
    <3> QED
      BY <3>3, <3>4
  <2>3. CASE ~InvalidLength(h) /\ up' = RequestNextPart(Started(h))
    <3>1. SameButRequest(Started(h), up')
      BY <2>3, StartedFacts, RequestFacts
    <3>2. Ann(up') = Ann(Started(h))
      BY <3>1, AnnSame
    <3> QED
      BY <2>3, <3>2, AnnStarted
  <2> QED
    BY <1>3, <2>1, <2>2, <2>3 DEF SendMsgHeader
<1>4. ASSUME NEW id, NEW start \in Nat, NEW plen \in Nat, PartDamaged(id, start, plen)
      PROVE  Ann(up') = Ann(up) \/ Ann(up') = NoMessage
  <2>1. up' = AfterBadPart(up, start, plen) /\ start + plen <= up.msg_len
    BY <1>4 DEF PartDamaged, Expected
  <2>2. up' = Uplink_Reset \/ SameButRequest(up, up')
    BY <1>0, <2>1, BadPartFacts
  <2> QED
    BY <2>2, AnnReset, AnnSame
<1>5. ASSUME NEW id, NEW start \in Nat, NEW plen \in Nat, NEW data \in [0 .. plen - 1 -> Byte],
             SendMsgPart(id, start, plen, data)
      PROVE  Ann(up') = Ann(up) \/ Ann(up') = NoMessage
  <2>1. PICK v \in UpStates :
          /\ v.in_progress /\ v.msg_id = up.msg_id /\ v.msg_crc = up.msg_crc
          /\ up' = IF AllReceived(v) THEN Finished(v) ELSE RequestNextPart(v)
    BY <1>5, PartAccepted
  <2>2. Ann(v) = Ann(up)
    BY <1>5, <2>1 DEF Ann, SendMsgPart, Expected
  <2>3. CASE up' = RequestNextPart(v)
    BY <2>2, <2>3, RequestFacts, AnnSame
  <2>4. CASE up' = Finished(v)
    <3>1. CASE up' = Uplink_Reset
      BY <3>1, AnnReset
    <3>2. CASE up' = [v EXCEPT !.complete = TRUE, !.in_progress = FALSE]
      <4>1. up'.complete = TRUE /\ up'.msg_id = v.msg_id /\ up'.msg_crc = v.msg_crc
        BY <3>2 DEF UpStates
      <4>2. Ann(up') = Ann(v)
        BY <2>1, <4>1 DEF Ann
      <4> QED
        BY <2>2, <4>2
    <3> QED
      BY <2>4, <3>1, <3>2 DEF Finished
  <2> QED
    BY <2>1, <2>3, <2>4
<1>6. UNCHANGED up => Ann(up') = Ann(up)
  OBVIOUS
<1>7. \A part \in Spans : part.start \in Nat /\ part.plen \in Nat
  BY UplinkAssumption
<1> QED
  BY <1>1, <1>2, <1>3, <1>4, <1>5, <1>6, <1>7 DEF UpFrame, TooShort, PartRefused

LEMMA DeliveryStep == UpInv /\ [UpNext]_upVars => [Delivery!Next]_(Delivery!vars)
<1> SUFFICES ASSUME UpInv, [UpNext]_upVars PROVE [Delivery!Next]_(Delivery!vars)
  OBVIOUS
<1>1. CASE UpFrame
  BY <1>1, FrameAnnounces
  DEF Ann, Delivery!Next, Delivery!Announce, Delivery!Drop, Delivery!Await
<1>2. CASE NoFrame
  BY <1>2 DEF NoFrame, Delivery!Next, Delivery!Await
<1>3. CASE SessionTakes
  BY <1>3 DEF SessionTakes, Delivery!vars
<1>4. CASE ForwardToSB
  <2>1. CASE up.complete
    <3>1. up' = Uplink_Reset
          /\ fwd' = [id |-> up.msg_id, data |-> CalculateCRC32(up.buf, up.msg_len)]
      BY <1>4, <2>1 DEF ForwardToSB, AfterCopyOut
    <3>2. up \in UpStates /\ CalculateCRC32(up.buf, up.msg_len) = up.msg_crc
      BY <2>1 DEF UpInv, Good, Announced
    <3>3. [id |-> up.msg_id, data |-> up.msg_crc] # NoMessage
      BY <3>2, UplinkAssumption DEF UpStates
    <3>4. ~up'.in_progress /\ ~up'.complete
      BY <3>1, ResetFacts
    <3> QED
      BY <2>1, <3>1, <3>2, <3>3, <3>4 DEF Delivery!Next, Delivery!Deliver
  <2>2. CASE ~up.complete
    BY <1>4, <2>2 DEF ForwardToSB, Delivery!vars
  <2> QED
    BY <2>1, <2>2
<1>5. CASE UNCHANGED upVars
  BY <1>5 DEF upVars, Delivery!vars
<1> QED
  BY <1>1, <1>2, <1>3, <1>4, <1>5 DEF UpNext

\* The uplink implements LtrxDelivery for messages of any length: what is
\* forwarded is the message announced last, whole, and at most once.
THEOREM UplinkDelivers == UpSpec => DeliveryRefined
<1>1. UpInit => Delivery!Init
  BY ResetFacts DEF UpInit, Delivery!Init
<1> QED
  BY <1>1, DeliveryStep, UpInvariant, PTL DEF UpSpec, DeliveryRefined, Delivery!Spec
=============================================================================
