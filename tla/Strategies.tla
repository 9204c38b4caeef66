------------------------------ MODULE Strategies ------------------------------
(***************************************************************************)
(* Strategies, their versions and the backtest runs: StrategyService and   *)
(* StrategyRepository (backend/app/strategy).                              *)
(*                                                                         *)
(* Requests of one user run concurrently, each in a session of its own: a  *)
(* request reads, then commits.  What BacktestDataLoader assembles is the  *)
(* revision of the stored market data it read, and a replay's result hash  *)
(* is the definition and the revision it replayed (BacktestEngine).  A     *)
(* request can die at any await.                                           *)
(***************************************************************************)
EXTENDS Naturals, Sequences

CONSTANTS
  Clients,        \* requests of this behaviour, each served once
  Rules,          \* strategy definitions
  MaxRevision,    \* bound: revisions of the market data
  Nothing         \* None

ASSUME StrategiesAssumption == MaxRevision \in Nat /\ Nothing \notin Rules \cup (Rules \X Nat)

VARIABLES
  strategies,     \* rows of strategies: [active, versions]; versions: their definitions
  replays,        \* rows of backtest_runs
  revision,       \* of the market data that the loader reads
  call            \* what each request has read, and its answer

strategyVars == <<strategies, replays, revision, call>>

Waiting == [at |-> "new", strategy |-> 0, version |-> 0, rules |-> Nothing,
            data |-> Nothing, replay |-> 0, seen |-> Nothing]

StrategiesInit ==
  /\ strategies = <<>> /\ replays = <<>> /\ revision = 1
  /\ call = [c \in Clients |-> Waiting]

Done(c, answer) == call' = [call EXCEPT ![c].at = answer]

(* _owned: archived strategies are not found *)
Owned == {i \in DOMAIN strategies : strategies[i].active}

(* _owned_run *)
OwnedRuns == DOMAIN replays

(* What the next ingest, correction or membership change brings. *)
DataRevised ==
  /\ revision < MaxRevision
  /\ revision' = revision + 1
  /\ UNCHANGED <<strategies, replays, call>>

Create(c) == \E rules \in Rules :
  /\ call[c].at = "new"
  /\ strategies' = Append(strategies, [active |-> TRUE, versions |-> <<rules>>])
  /\ Done(c, "created")
  /\ UNCHANGED <<replays, revision>>

(* update: the versions are read, then the next one is inserted *)
Update(c) == \E i \in Owned, rules \in Rules :
  /\ call[c].at = "new"
  /\ call' = [call EXCEPT ![c] = [Waiting EXCEPT !.at = "adding", !.strategy = i, !.rules = rules,
                                                 !.version = Len(strategies[i].versions) + 1]]
  /\ UNCHANGED <<strategies, replays, revision>>

(* Mutation: an update edits the version it read. *)
BugAddVersion(c) ==
  /\ call[c].at = "adding"
  /\ strategies' = [strategies EXCEPT ![call[c].strategy].versions[call[c].version - 1] = call[c].rules]
  /\ Done(c, "updated")
  /\ UNCHANGED <<replays, revision>>

(* add_version: uq_strategy_version refuses a number that another update of
   the same strategy has committed. *)
AddVersion(c) ==
  /\ call[c].at = "adding"
  /\ LET i == call[c].strategy IN
     IF Len(strategies[i].versions) >= call[c].version
     THEN Done(c, "server_error") /\ UNCHANGED strategies
     ELSE /\ strategies' = [strategies EXCEPT ![i].versions = Append(@, call[c].rules)]
          /\ Done(c, "updated")
  /\ UNCHANGED <<replays, revision>>

Archive(c) == \E i \in Owned :
  /\ call[c].at = "new"
  /\ strategies' = [strategies EXCEPT ![i].active = FALSE]
  /\ Done(c, "archived")
  /\ UNCHANGED <<replays, revision>>

-----------------------------------------------------------------------------
(* run_backtest: the latest version, the data, then the run row is committed *)

Backtest(c) == \E i \in Owned :
  /\ call[c].at = "new"
  /\ LET last == Len(strategies[i].versions) IN
     call' = [call EXCEPT ![c] = [Waiting EXCEPT !.at = "loading", !.strategy = i, !.version = last,
                                                 !.rules = strategies[i].versions[last]]]
  /\ UNCHANGED <<strategies, replays, revision>>

(* BacktestDataLoader.load, or BacktestDataError *)
LoadData(c) ==
  /\ call[c].at = "loading"
  /\ \/ Done(c, "no_data")
     \/ call' = [call EXCEPT ![c] = [@ EXCEPT !.at = "opening", !.data = revision]]
  /\ UNCHANGED <<strategies, replays, revision>>

OpenRun(c) ==
  /\ call[c].at = "opening"
  /\ replays' = Append(replays, [strategy |-> call[c].strategy, version |-> call[c].version,
                                 snapshot |-> call[c].rules, status |-> "running",
                                 result |-> Nothing, analysis |-> Nothing])
  /\ call' = [call EXCEPT ![c] = [@ EXCEPT !.at = "replaying", !.replay = Len(replays) + 1]]
  /\ UNCHANGED <<strategies, revision>>

Replayed(rules, data) == <<rules, data>>

(* complete_run: trades, metrics and the hash in one commit.  A replay that
   raises leaves the committed row running: fail_run has no caller. *)
CompleteRun(c) ==
  /\ call[c].at = "replaying"
  /\ \/ Done(c, "failed") /\ UNCHANGED replays
     \/ /\ replays' = [replays EXCEPT ![call[c].replay] =
                          [@ EXCEPT !.status = "completed",
                                    !.result = Replayed(call[c].rules, call[c].data)]]
        /\ Done(c, "completed")
  /\ UNCHANGED <<strategies, revision>>

-----------------------------------------------------------------------------
(* analyze_backtest: the snapshot is replayed on the data of today *)

Analyze(c) == \E j \in OwnedRuns :
  /\ call[c].at = "new"
  /\ call' = [call EXCEPT ![c] = [Waiting EXCEPT !.at = "checking", !.replay = j,
                                                 !.rules = replays[j].snapshot, !.data = revision,
                                                 !.seen = replays[j].result]]
  /\ UNCHANGED <<strategies, replays, revision>>

(* Mutation: the analysis is stored whatever the baseline is. *)
BugSaveAnalysis(c) ==
  /\ call[c].at = "checking"
  /\ replays' = [replays EXCEPT ![call[c].replay].analysis = Replayed(call[c].rules, call[c].data)]
  /\ Done(c, "analysed")
  /\ UNCHANGED <<strategies, revision>>

(* The hash compared is the one read with the run. *)
SaveAnalysis(c) ==
  /\ call[c].at = "checking"
  /\ LET baseline == Replayed(call[c].rules, call[c].data) IN
     IF baseline # call[c].seen
     THEN Done(c, "drift") /\ UNCHANGED replays
     ELSE /\ replays' = [replays EXCEPT ![call[c].replay].analysis = baseline]
          /\ Done(c, "analysed")
  /\ UNCHANGED <<strategies, revision>>

StrategiesNext ==
  \/ DataRevised
  \/ \E c \in Clients :
       \/ Create(c) \/ Update(c) \/ AddVersion(c) \/ Archive(c)
       \/ Backtest(c) \/ LoadData(c) \/ OpenRun(c) \/ CompleteRun(c)
       \/ Analyze(c) \/ SaveAnalysis(c)

StrategiesSpec == StrategiesInit /\ [][StrategiesNext]_strategyVars

-----------------------------------------------------------------------------
(* A stored result can be reproduced.  Whatever updates, archives and data
   revisions happen between the steps of a run, its snapshot is still the
   definition of the version it names, its result is a replay of that
   definition, and the robustness analysis kept with it was made from the very
   result it is shown with. *)
RunsAreReproducible ==
  \A j \in DOMAIN replays :
    LET row == replays[j] IN
    /\ row.snapshot = strategies[row.strategy].versions[row.version]
    /\ row.status = "completed" => row.result[1] = row.snapshot
    /\ row.analysis # Nothing => row.status = "completed" /\ row.analysis = row.result
===============================================================================
