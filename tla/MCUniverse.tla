------------------------------- MODULE MCUniverse -------------------------------
(* TLC instances of the two ingests that follow the universe: the synchronisation
   of the indices' constituents (UniverseSync) and the news about them
   (NewsIngestion).  They share no variable, so that a behaviour is about one of
   them, its subject. *)
EXTENDS UniverseSync, NewsIngestion, TLC

VARIABLE subject

AnyScenario == CHOOSE s \in Scenarios : TRUE

UniverseInit ==
  /\ subject \in {"universe", "news"}
  /\ Init /\ NewsInit
  /\ subject = "universe" => serialised
  /\ subject = "news" => members = {} /\ scenario = AnyScenario

UniverseNext ==
  \/ subject = "universe" /\ Next /\ UNCHANGED <<subject, newsVars>>
  \/ subject = "news" /\ NewsNext /\ UNCHANGED <<subject, vars>>

UniverseSpec ==
  /\ UniverseInit
  /\ [][UniverseNext]_<<subject, vars, newsVars>>
  /\ Fairness /\ NewsFairness

(* Listings 1 and 2 and a listing 3 that was replaced by 1.  Three syncs, one
   after the other, let a constituent leave and return within one day; two
   overlapping ones meet on the rows of the stocks. *)
Renamed   == 3 :> 1
Published == {{1}, {2}, {1, 2}, {3}}
Fewer     == {{1}, {1, 2}, {3}}
First     == {{}, {1}, {3}}

Scenario(alone, started, troubles) ==
  [serialised |-> alone, syncs |-> started, mishaps |-> troubles]

AllScenarios == {Scenario(TRUE, 3, 0), Scenario(FALSE, 2, 1)}
Overlap      == {Scenario(FALSE, 2, 0)}

(* Two feeds carry the same story under different URLs, and one of them publishes
   it again under the same URL and another title: the first and the last of these
   items have nothing in common. *)
CONSTANTS Bank, Oil     \* stocks

Wire    == [url |-> 1, story |-> 1]
Reprint == [url |-> 2, story |-> 1]
Retitle == [url |-> 2, story |-> 2]

Feeds     == {Wire, Reprint, Retitle}
Companies == {Bank, Oil}
NamedIn   == <<{Bank, Oil}, {Oil}>>
=================================================================================
