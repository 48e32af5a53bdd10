--------------------------- MODULE TtcSearchProofs ---------------------------
(***************************************************************************)
(* The binary search of the TTC timeline is correct for an index of any    *)
(* length and any descending tags.                                         *)
(***************************************************************************)
EXTENDS TtcSearch, TLAPS

(***************************************************************************)
(* An element of a set of integers that is below all others is its Min.    *)
(***************************************************************************)
LEMMA MinIsLeast ==
  ASSUME NEW S, S \subseteq Int, NEW m \in S, \A x \in S : m <= x
  PROVE  Min(S) = m
<1>1. \E x \in S : \A y \in S : x <= y
  OBVIOUS
<1>2. Min(S) \in S /\ \A y \in S : Min(S) <= y
  BY <1>1 DEF Min
<1>3. Min(S) \in Int /\ m \in Int /\ Min(S) <= m /\ m <= Min(S)
  BY <1>2
<1> QED
  BY <1>3

(***************************************************************************)
(* While Bot and Top differ the middle lies between them and in the array. *)
(***************************************************************************)
LEMMA MidInRange ==
  ASSUME TypeOK, Bot < Top
  PROVE  Mid \in Int /\ Bot <= Mid /\ Mid < Top
BY SearchAssumption DEF TypeOK, Mid

(***************************************************************************)
(* SearchInv says what the halves already discarded contain; with the      *)
(* order of the tags, each iteration keeps it.                             *)
(***************************************************************************)
THEOREM SearchInvariant == Spec => []SearchInv
<1>1. Init => SearchInv
  BY SearchAssumption DEF Init, SearchInv, TypeOK
<1>2. SearchInv /\ [Iterate]_vars => SearchInv'
  <2> SUFFICES ASSUME SearchInv, [Iterate]_vars PROVE SearchInv'
    OBVIOUS
  <2>1. CASE UNCHANGED vars
    BY <2>1 DEF SearchInv, TypeOK, Descending, vars
  <2>2. CASE Iterate
    <3> USE <2>2, SearchAssumption
    <3>1. Mid \in Int /\ Bot <= Mid /\ Mid < Top
      BY MidInRange DEF SearchInv, Iterate
    <3>2. Count \in Nat /\ Mid \in 0 .. Count - 1
      BY <3>1 DEF SearchInv, TypeOK
    <3>3. \A i \in 0 .. Count - 1 : Tag[i] \in Int
      <4>1. \A x \in TimeTags : x \in Int
        BY SearchAssumption
      <4> QED
        BY <4>1 DEF SearchInv, TypeOK
    <3>4. TimeTag \in Int
      BY DEF SearchInv, TypeOK
    <3>5. CASE TimeTag < Tag[Mid] /\ Bot' = Mid + 1 /\ Top' = Top
      <4>1. \A i \in 0 .. Mid : TimeTag < Tag[i]
        <5> SUFFICES ASSUME NEW i \in 0 .. Mid PROVE TimeTag < Tag[i]
          OBVIOUS
        <5>1. i \in 0 .. Count - 1 /\ i <= Mid
          BY <3>2
        <5>2. Tag[i] >= Tag[Mid]
          BY <3>2, <5>1 DEF SearchInv, Descending
        <5> QED
          BY <3>2, <3>3, <3>4, <3>5, <5>1, <5>2
      <4> QED
        BY <3>1, <3>2, <3>5, <4>1 DEF SearchInv, TypeOK, Descending, Iterate
    <3>6. CASE ~(TimeTag < Tag[Mid]) /\ Top' = Mid /\ Bot' = Bot
      <4>1. \A i \in Mid .. Count - 1 : ~(TimeTag < Tag[i])
        BY <3>1, <3>2, <3>3, <3>4, <3>6 DEF SearchInv, Descending
      <4> QED
        BY <3>1, <3>2, <3>6, <4>1 DEF SearchInv, TypeOK, Descending, Iterate
    <3> QED
      BY <3>5, <3>6 DEF Iterate
  <2> QED
    BY <2>1, <2>2
<1> QED
  BY <1>1, <1>2, PTL DEF Spec

(***************************************************************************)
(* FindSortedIndex reads inside the index only and returns the insertion   *)
(* point that module TtcTimeline uses.                                     *)
(***************************************************************************)
THEOREM BinarySearchCorrect == Spec => []SearchCorrect
<1>1. SearchInv => SearchCorrect
  <2> SUFFICES ASSUME SearchInv PROVE SearchCorrect
    OBVIOUS
  <2>1. Bot < Top => Mid \in 0 .. Count - 1
    BY MidInRange, SearchAssumption DEF SearchInv, TypeOK
  <2>2. ASSUME Bot >= Top PROVE Bot = InsertionPoint
    <3> DEFINE S == {k \in 0 .. Count : k < Count => ~(TimeTag < Tag[k])}
    <3>1. Bot = Top /\ Bot \in 0 .. Count /\ Count \in Nat
      BY <2>2, SearchAssumption DEF SearchInv, TypeOK
    <3>2. Bot \in S
      BY <3>1 DEF SearchInv
    <3>3. \A x \in S : Bot <= x
      BY <3>1 DEF SearchInv
    <3>4. S \subseteq Int
      OBVIOUS
    <3> HIDE DEF S
    <3>5. Min(S) = Bot
      BY <3>2, <3>3, <3>4, MinIsLeast
    <3> QED
      BY <3>5 DEF S, InsertionPoint
  <2> QED
    BY <2>1, <2>2 DEF SearchCorrect
<1> QED
  BY <1>1, SearchInvariant, PTL
==============================================================================
