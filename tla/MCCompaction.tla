---------------------------- MODULE MCCompaction ---------------------------
(* Compaction for TLC in three slices: one turn with two answers, an       *)
(* overflow and one failure or another client, two turns with a failure    *)
(* and a crash, and one turn beside which others call compactRegion.       *)
EXTENDS Compaction

VARIABLE slice

\* What a slice leaves out of the behaviours within the bounds.
OneTurn    == Cardinality(Events(log', {"turn"})) <= 1
OneAnswer  == Cardinality(Events(log', {"assistant"})) <= 1
NoOverflow == phase' # "recovered" /\ tx'["driver"].trigger # "overflow"

MCInit == slice \in {"turn", "crashes", "beside"} /\ Init
MCNext ==
  /\ UNCHANGED slice
  /\ \/ slice = "turn" /\ Alone /\ OneTurn /\ others' + fails' <= 1
     \/ slice = "crashes" /\ (Alone \/ Crash) /\ OneAnswer /\ NoOverflow /\ others' <= 1
     \/ slice = "beside" /\ (Alone \/ CompactRegion) /\ OneTurn /\ OneAnswer /\ others' + fails' <= 2
MCSpec == MCInit /\ [][MCNext]_<<slice, vars>>

(* Cuts are the best ones and keep calls with their results: the parts are *)
(* stated in Compaction.                                                   *)
SelectionsAreSound == SelectionIsBest /\ PairsTogether
=============================================================================
