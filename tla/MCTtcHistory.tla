---------------------------- MODULE MCTtcHistory ----------------------------
(***************************************************************************)
(* A small instance of TtcHistory: three slots, two entries of one group   *)
(* and equal TimeTags.                                                     *)
(***************************************************************************)
EXTENDS TtcHistory

Request(type, id, group, tag, stale, exec) ==
  [TimeTagType |-> type, EntryId |-> id, GroupId |-> group, TimeTag |-> tag,
   StalenessThreshold |-> stale, ExecutionType |-> exec, MsgSize |-> 8,
   CmdSize |-> 8]

MC_Requests ==
  { Request("ABSOLUTE", 1, 1, 1, 0, "SKIP_LATE"),
    Request("RELATIVE", 0, 0, 1, 0, "FORCE"),
    Request("ABSOLUTE", 0, 1, 2, 0, "ABORT_LATE") }

MC_Chunks == { [Offset |-> 0, Size |-> 8, MsgSize |-> 8] }
=============================================================================
