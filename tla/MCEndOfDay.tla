------------------------------- MODULE MCEndOfDay -------------------------------
(* TLC instance of the end of a day: the control plane of EODControlPlane, and
   the market step of MarketIngestion on one equity and one macro proxy, four
   days with a holiday, two processes.  The first abstracts from what a step
   does and the second from how its rows are fenced, so that they share no
   variable and a behaviour is about one of them, its subject. *)
EXTENDS EODControlPlane, MarketIngestion, TLC

VARIABLE subject

EndOfDayInit ==
  /\ subject \in {"control plane", "market"}
  /\ Init /\ MarketInit

EndOfDayNext ==
  \/ subject = "control plane" /\ Next /\ UNCHANGED <<subject, marketVars>>
  \/ subject = "market" /\ MarketNext /\ UNCHANGED <<subject, vars>>

EndOfDaySpec == EndOfDayInit /\ [][EndOfDayNext]_<<subject, vars, marketVars>>

Renamed == "TATAMOTORS" :> "TMPV"

Scenario(together, started, troubles, adjustments) ==
  [together |-> together, starts |-> started, mishaps |-> troubles, revisions |-> adjustments]

AllScenarios == {Scenario(2, 2, 0, 1), Scenario(1, 3, 1, 0)}

Processes == Permutations(Workers) \cup Permutations(Jobs)
===============================================================================
