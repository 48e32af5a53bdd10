--------------------------- MODULE MCTtcTimeline ---------------------------
(***************************************************************************)
(* Small instances of TtcTimeline.                                         *)
(***************************************************************************)
EXTENDS TtcTimeline

Request(type, id, group, tag, stale, exec, msg, size) ==
  [TimeTagType |-> type, EntryId |-> id, GroupId |-> group, TimeTag |-> tag,
   StalenessThreshold |-> stale, ExecutionType |-> exec, MsgSize |-> msg,
   CmdSize |-> size]

Chunk(offset, size, msg) == [Offset |-> offset, Size |-> size, MsgSize |-> msg]

\* Accepted and refused requests of every kind, for two slots.
MC_Requests ==
  { Request("ABSOLUTE", 1, 1, 1, 0, "SKIP_LATE", 8, 8),
    Request("RELATIVE", 2, 1, 1, 1, "FORCE", 8, 8),
    Request("ABSOLUTE", 0, 0, 1, 1, "ABORT_LATE", 8, 8),
    Request("ABSOLUTE", 1, 0, 2, 0, "INVALID", 8, 8),
    Request("RELATIVE", 1, 1, 3, 0, "SKIP_LATE", 9, 8),
    Request("INVALID", 1, 1, 3, 0, "SKIP_LATE", 8, 8),
    Request("ABSOLUTE", 2, 1, 3, 0, "SKIP_LATE", 10, 10) }

MC_Chunks == { Chunk(0, 6, 8), Chunk(6, 2, 9), Chunk(6, 6, 8) }

\* One way to be executed, skipped, aborted and refused, for the counters.
MC_Counted ==
  { Request("ABSOLUTE", 1, 1, 1, 0, "SKIP_LATE", 8, 8),
    Request("RELATIVE", 0, 0, 1, 0, "ABORT_LATE", 8, 8),
    Request("ABSOLUTE", 1, 1, 1, 0, "INVALID", 8, 8) }

MC_OneChunk == { Chunk(0, 8, 8) }
=============================================================================
