------------------------------ MODULE TtcQueue ------------------------------
(***************************************************************************)
(* What the TTC timeline promises, without slots, statuses or a sorted     *)
(* index: accepted commands, each under a handle, and the order in which   *)
(* they were accepted.  A cycle that starts at time `now` takes the ones   *)
(* that are due, the earliest TimeTag first and among equal TimeTags the   *)
(* one accepted first, and sends, skips or aborts; it ends when nothing is *)
(* due any more.  Outside a cycle the ground may withdraw commands or send *)
(* them at once.                                                           *)
(***************************************************************************)
EXTENDS Integers

VARIABLES
  queue,  \* the accepted commands, a function of their handles
  order,  \* the pairs of handles whose first was accepted before the second
  now,    \* the time the running cycle works with, -1 outside a cycle
  sent    \* what this step sent, and on whose behalf

InCycle == now # -1

Nothing == sent'.by = "none"

KeepOnly(H) ==
  /\ queue' = [h \in H |-> queue[h]]
  /\ order' = order \cap (H \X H)

Remove(h) == KeepOnly(DOMAIN queue \ {h})

\* It is this command's turn.
Turn(h) ==
  \A g \in DOMAIN queue :
     \/ queue[h].TimeTag < queue[g].TimeTag
     \/ queue[h].TimeTag = queue[g].TimeTag /\ (g = h \/ <<h, g>> \in order)

Due(h) == InCycle /\ now >= queue[h].TimeTag

Late(h) == now - queue[h].TimeTag > queue[h].StalenessThreshold

Init == DOMAIN queue = {} /\ order = {} /\ now = -1 /\ sent.by = "none"

Accept ==
  /\ ~InCycle
  /\ \E h \in DOMAIN queue' \ DOMAIN queue :
       /\ DOMAIN queue' = DOMAIN queue \cup {h}
       /\ \A g \in DOMAIN queue : queue'[g] = queue[g]
       /\ order' = order \cup ((DOMAIN queue) \X {h})
  /\ Nothing
  /\ UNCHANGED now

Withdraw ==
  /\ ~InCycle
  /\ \E H \in SUBSET DOMAIN queue : KeepOnly(H)
  /\ Nothing
  /\ UNCHANGED now

SendOnCommand ==
  /\ ~InCycle
  /\ \E h \in DOMAIN queue :
       /\ sent' = [by |-> "command", entry |-> queue[h]]
       /\ UNCHANGED <<queue, order>> \/ Remove(h)
  /\ UNCHANGED now

BeginCycle == ~InCycle /\ now' >= 0 /\ Nothing /\ UNCHANGED <<queue, order>>

SendDue(h) ==
  /\ Turn(h) /\ Due(h)
  /\ Late(h) => queue[h].ExecutionType = "FORCE"
  /\ sent' = [by |-> "cycle", entry |-> queue[h]]
  /\ Remove(h)
  /\ UNCHANGED now

SkipLate(h) ==
  /\ Turn(h) /\ Due(h) /\ Late(h)
  /\ queue[h].ExecutionType = "SKIP_LATE"
  /\ Remove(h)
  /\ Nothing
  /\ UNCHANGED now

AbortLate(h) ==
  /\ Turn(h) /\ Due(h) /\ Late(h)
  /\ queue[h].ExecutionType = "ABORT_LATE"
  /\ KeepOnly({})
  /\ Nothing
  /\ UNCHANGED now

EndCycle ==
  /\ InCycle
  /\ \A h \in DOMAIN queue : ~Due(h)
  /\ now' = -1
  /\ Nothing
  /\ UNCHANGED <<queue, order>>

Restart == KeepOnly({}) /\ now' = -1 /\ Nothing

\* Steps that do not concern the queue: it is only known that nothing is sent.
Other == Nothing /\ UNCHANGED <<queue, order, now>>

Next ==
  \/ Accept \/ Withdraw \/ SendOnCommand
  \/ BeginCycle
  \/ \E h \in DOMAIN queue : SendDue(h) \/ SkipLate(h) \/ AbortLate(h)
  \/ EndCycle
  \/ Restart \/ Other

Spec == Init /\ [][Next]_<<queue, order, now, sent>>
=============================================================================
