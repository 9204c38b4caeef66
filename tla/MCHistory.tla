------------------------------- MODULE MCHistory -------------------------------
(* TLC instances of market memory: what a session's features and its analogues
   are computed from (Analogues), and how the index that serves them is published
   and cached (HistoryIndex).  They share no variable, so that a behaviour is about
   one of them, its subject. *)
EXTENDS HistoryIndex, Analogues

VARIABLE subject

HistoryInit ==
  /\ subject \in {"index", "sessions"}
  /\ Init /\ AnaloguesInit

HistoryNext ==
  \/ subject = "index" /\ Next /\ UNCHANGED <<subject, memoryVars>>
  \/ subject = "sessions" /\ AnaloguesNext /\ UNCHANGED <<subject, vars>>

HistorySpec ==
  /\ HistoryInit
  /\ [][HistoryNext]_<<subject, vars, memoryVars>>
  /\ Fairness

MCSegment == [s \in Constituents |-> IF s = 1 THEN "bank" ELSE "auto"]

Row(c, v) == [close |-> c, volume |-> v]

(* Days on which the two move apart, on which one is missing and the other closes at
   zero, and without rows. *)
MCDayRows ==
  {<<Row(10, 1), Row(13, 2)>>, <<Row(13, 2), Row(10, 1)>>,
   <<Row(0, 1), NoRow>>, <<NoRow, NoRow>>}
===============================================================================
