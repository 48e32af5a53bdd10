------------------------------ MODULE TtcSearch ------------------------------
(***************************************************************************)
(* FindSortedIndex of apps/ttc/fsw/src/ttc_timeline.c: the binary search   *)
(* for the position of a new TimeTag among Count tags in descending order, *)
(* one step per iteration.  Tag[i] stands for                              *)
(* Entries[SortedIndex[i]].TimeTag.                                        *)
(***************************************************************************)
EXTENDS Integers, FiniteSetsExt

CONSTANTS
  MAX_COMMAND_ENTRIES,  \* the longest index
  TimeTags              \* the tags that may occur

ASSUME SearchAssumption ==
  MAX_COMMAND_ENTRIES \in Nat /\ TimeTags \subseteq Nat

VARIABLES Count, Tag, TimeTag, Bot, Top

vars == <<Count, Tag, TimeTag, Bot, Top>>

Descending(f, n) == \A i, j \in 0 .. n - 1 : i <= j => f[i] >= f[j]

Init ==
  /\ Count \in 0 .. MAX_COMMAND_ENTRIES
  /\ Tag \in [0 .. Count - 1 -> TimeTags]
  /\ Descending(Tag, Count)
  /\ TimeTag \in TimeTags
  /\ Bot = 0
  /\ Top = Count

Mid == (Bot + Top) \div 2

\* Mutant: the element in the middle is excluded from both halves.
IterateTooFar ==
  /\ Bot < Top
  /\ \/ TimeTag < Tag[Mid] /\ Bot' = Mid + 1 /\ Top' = Top
     \/ ~(TimeTag < Tag[Mid]) /\ Top' = (IF Mid > Bot THEN Mid - 1 ELSE Mid) /\ Bot' = Bot
  /\ UNCHANGED <<Count, Tag, TimeTag>>

\* Mutant: the lower half keeps the middle, so the interval may not shrink.
IterateStuck ==
  /\ Bot < Top
  /\ \/ TimeTag < Tag[Mid] /\ Bot' = Mid /\ Top' = Top
     \/ ~(TimeTag < Tag[Mid]) /\ Top' = Mid /\ Bot' = Bot
  /\ UNCHANGED <<Count, Tag, TimeTag>>

Iterate ==
  /\ Bot < Top
  /\ \/ TimeTag < Tag[Mid] /\ Bot' = Mid + 1 /\ Top' = Top
     \/ ~(TimeTag < Tag[Mid]) /\ Top' = Mid /\ Bot' = Bot
  /\ UNCHANGED <<Count, Tag, TimeTag>>

Spec == Init /\ [][Iterate]_vars

\* The loop runs in one task and is not abandoned.
FairSpec == Spec /\ WF_vars(Iterate)
------------------------------------------------------------------------------
TypeOK ==
  /\ Count \in 0 .. MAX_COMMAND_ENTRIES
  /\ Tag \in [0 .. Count - 1 -> TimeTags]
  /\ TimeTag \in TimeTags
  /\ Bot \in 0 .. Count
  /\ Top \in 0 .. Count

\* FindSortedIndex of module TtcTimeline, on this array.
InsertionPoint ==
  Min({k \in 0 .. Count : k < Count => ~(TimeTag < Tag[k])})

(***************************************************************************)
(* The loop only reads inside the array, and when it ends Bot is the       *)
(* position before the first tag that is not later: after all later tags   *)
(* and before the equal ones, whatever the tags and however many are equal.*)
(***************************************************************************)
SearchCorrect ==
  /\ Bot < Top => Mid \in 0 .. Count - 1
  /\ Bot >= Top => Bot = InsertionPoint

(***************************************************************************)
(* The search ends.                                                        *)
(***************************************************************************)
SearchEnds == <>(Bot >= Top)

\* What makes SearchCorrect inductive: the tags outside Bot .. Top are decided.
SearchInv ==
  /\ TypeOK
  /\ Descending(Tag, Count)
  /\ Bot <= Top
  /\ \A i \in 0 .. Bot - 1 : TimeTag < Tag[i]
  /\ \A i \in Top .. Count - 1 : ~(TimeTag < Tag[i])
==============================================================================
