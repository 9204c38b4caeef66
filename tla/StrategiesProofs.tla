--------------------------- MODULE StrategiesProofs ---------------------------
(***************************************************************************)
(* Proofs about Strategies, for any requests, definitions and revisions:   *)
(* the rows of backtest_runs can be reproduced, and what a row or a        *)
(* version says once is what it says for ever; and about BacktestEngine,   *)
(* for every set of stocks, bars and settings and any number of sessions:  *)
(* orders and ledger of a replay are honest; and about StrategyData, for   *)
(* any data and rules: no bar looks ahead, and no signal rests on data     *)
(* that is missing.                                                        *)
(***************************************************************************)
EXTENDS Strategies, BacktestEngine, StrategyData, SumTheorems

Results == (Rules \X Nat) \cup {Nothing}

StrategyRow == [active : BOOLEAN, versions : Seq(Rules)]

RunRow == [strategy : Nat, version : Nat, snapshot : Rules,
           status : {"running", "completed"}, result : Results, analysis : Results]

Program == {"new", "adding", "loading", "opening", "replaying", "checking", "created", "updated",
            "archived", "completed", "analysed", "no_data", "failed", "drift", "server_error"}

RequestState == [at : Program, strategy : Nat, version : Nat, rules : Rules \cup {Nothing},
                 data : Nat \cup {Nothing}, replay : Nat, seen : Results]

TypeInv ==
  /\ strategies \in Seq(StrategyRow)
  /\ replays \in Seq(RunRow)
  /\ revision \in Nat
  /\ call \in [Clients -> RequestState]

(* Version v of strategy i is the definition `rules'. *)
Defines(i, v, rules) ==
  /\ i \in DOMAIN strategies
  /\ v \in DOMAIN strategies[i].versions
  /\ strategies[i].versions[v] = rules

VersionsExist == \A i \in DOMAIN strategies : 1 \in DOMAIN strategies[i].versions

(* What a request that has read something may rely on when it commits. *)
Adding(c)    == call[c].at = "adding" =>
                  call[c].strategy \in DOMAIN strategies /\ call[c].rules \in Rules
Loading(c)   == call[c].at \in {"loading", "opening"} =>
                  Defines(call[c].strategy, call[c].version, call[c].rules)
HasData(c)   == call[c].at \in {"opening", "replaying", "checking"} => call[c].data \in Nat
Replaying(c) == call[c].at = "replaying" =>
                  /\ call[c].replay \in DOMAIN replays
                  /\ replays[call[c].replay].status = "running"
                  /\ replays[call[c].replay].snapshot = call[c].rules
Checking(c)  == call[c].at = "checking" =>
                  /\ call[c].replay \in DOMAIN replays
                  /\ replays[call[c].replay].snapshot = call[c].rules
                  /\ call[c].seen # Nothing =>
                       /\ replays[call[c].replay].status = "completed"
                       /\ replays[call[c].replay].result = call[c].seen

Relies(c) == Adding(c) /\ Loading(c) /\ HasData(c) /\ Replaying(c) /\ Checking(c)

RequestsRely == \A c \in Clients : Relies(c)

(* A run has one process that may complete it. *)
OneReplayer ==
  \A c, d \in Clients :
    call[c].at = "replaying" /\ call[d].at = "replaying" /\ call[c].replay = call[d].replay => c = d

RowsAreSound ==
  \A j \in DOMAIN replays :
    LET row == replays[j] IN
    /\ Defines(row.strategy, row.version, row.snapshot)
    /\ row.status = "running" => row.result = Nothing /\ row.analysis = Nothing
    /\ row.status = "completed" => row.result # Nothing /\ row.result[1] = row.snapshot
    /\ row.analysis # Nothing => row.analysis = row.result

(* Committed rows: nothing that a version or a run row has said is ever said
   differently, except that a running row may complete and a completed one
   may get its analysis. *)
VersionsAreKept ==
  \A i \in DOMAIN strategies :
    /\ i \in DOMAIN strategies'
    /\ \A v \in DOMAIN strategies[i].versions :
         /\ v \in DOMAIN strategies'[i].versions
         /\ strategies'[i].versions[v] = strategies[i].versions[v]

RowIsKept(j) ==
  /\ j \in DOMAIN replays'
  /\ replays'[j].strategy = replays[j].strategy
  /\ replays'[j].version = replays[j].version
  /\ replays'[j].snapshot = replays[j].snapshot
  /\ replays[j].status = "completed" =>
       replays'[j].status = "completed" /\ replays'[j].result = replays[j].result

RowsAreKept == \A j \in DOMAIN replays : RowIsKept(j)

IInv == TypeInv /\ VersionsExist /\ RequestsRely /\ OneReplayer /\ RowsAreSound

LEMMA RowTypes ==
  ASSUME TypeInv
  PROVE  /\ \A i \in DOMAIN strategies : strategies[i] \in StrategyRow /\ i \in Nat
         /\ \A j \in DOMAIN replays : replays[j] \in RunRow /\ j \in Nat
         /\ \A c \in Clients : call[c] \in RequestState
BY DEF TypeInv

LEMMA SoundIsReproducible == IInv => RunsAreReproducible
<1> SUFFICES ASSUME IInv, NEW j \in DOMAIN replays
             PROVE  /\ replays[j].snapshot = strategies[replays[j].strategy].versions[replays[j].version]
                    /\ replays[j].status = "completed" => replays[j].result[1] = replays[j].snapshot
                    /\ replays[j].analysis # Nothing =>
                         replays[j].status = "completed" /\ replays[j].analysis = replays[j].result
  BY DEF RunsAreReproducible
<1>1. replays[j].status \in {"running", "completed"}
  BY RowTypes DEF IInv, RunRow
<1>2. /\ Defines(replays[j].strategy, replays[j].version, replays[j].snapshot)
      /\ replays[j].status = "running" => replays[j].result = Nothing /\ replays[j].analysis = Nothing
      /\ replays[j].status = "completed" => replays[j].result # Nothing /\ replays[j].result[1] = replays[j].snapshot
      /\ replays[j].analysis # Nothing => replays[j].analysis = replays[j].result
  BY DEF IInv, RowsAreSound
<1> QED
  BY <1>1, <1>2 DEF Defines

LEMMA InvInit == StrategiesInit => IInv
<1> SUFFICES ASSUME StrategiesInit PROVE IInv
  OBVIOUS
<1>1. TypeInv
  BY DEF StrategiesInit, TypeInv, Waiting, RequestState, Results, Program
<1> QED
  BY <1>1 DEF StrategiesInit, IInv, VersionsExist, RequestsRely, OneReplayer, RowsAreSound,
              Waiting, Relies, Adding, Loading, HasData, Replaying, Checking
-----------------------------------------------------------------------------
(* What one step writes, in the shape the later proofs need: the request
   itself, one strategy, or one row. *)
LEMMA DoneStep ==
  ASSUME TypeInv, NEW c \in Clients, NEW answer \in Program, Done(c, answer)
  PROVE  /\ call' \in [Clients -> RequestState]
         /\ call'[c].at = answer
         /\ \A d \in Clients \ {c} : call'[d] = call[d]
BY DEF TypeInv, Done, RequestState

LEMMA CallStep ==
  ASSUME TypeInv, NEW c \in Clients, NEW r \in RequestState, call' = [call EXCEPT ![c] = r]
  PROVE  /\ call' \in [Clients -> RequestState]
         /\ call'[c] = r
         /\ \A d \in Clients \ {c} : call'[d] = call[d]
BY DEF TypeInv

LEMMA StrategyStep ==
  ASSUME TypeInv, NEW i \in DOMAIN strategies, NEW s \in StrategyRow,
         strategies' = [strategies EXCEPT ![i] = s]
  PROVE  /\ strategies' \in Seq(StrategyRow)
         /\ DOMAIN strategies' = DOMAIN strategies
         /\ strategies'[i] = s
         /\ \A k \in DOMAIN strategies \ {i} : strategies'[k] = strategies[k]
BY DEF TypeInv

LEMMA RowStep ==
  ASSUME TypeInv, NEW j \in DOMAIN replays, NEW row \in RunRow,
         replays' = [replays EXCEPT ![j] = row]
  PROVE  /\ replays' \in Seq(RunRow)
         /\ DOMAIN replays' = DOMAIN replays
         /\ replays'[j] = row
         /\ \A k \in DOMAIN replays \ {j} : replays'[k] = replays[k]
BY DEF TypeInv

-----------------------------------------------------------------------------
(* One lemma per action: the tables and the request after it. *)
LEMMA CreateStep ==
  ASSUME IInv, NEW c \in Clients, Create(c)
  PROVE  /\ TypeInv' /\ VersionsExist' /\ VersionsAreKept
         /\ replays' = replays
         /\ call'[c].at = "created"
         /\ \A d \in Clients \ {c} : call'[d] = call[d]
<1>1. PICK rules \in Rules : strategies' = Append(strategies, [active |-> TRUE, versions |-> <<rules>>])
  BY DEF Create
<1>2. [active |-> TRUE, versions |-> <<rules>>] \in StrategyRow
  BY DEF StrategyRow
<1>3. strategies' \in Seq(StrategyRow)
  BY <1>1, <1>2 DEF IInv, TypeInv
<1>4. Done(c, "created") /\ UNCHANGED <<replays, revision>>
  BY DEF Create
<1>5. /\ call' \in [Clients -> RequestState] /\ call'[c].at = "created"
      /\ \A d \in Clients \ {c} : call'[d] = call[d]
  BY <1>4, DoneStep DEF IInv, Program
<1>6. VersionsAreKept /\ VersionsExist'
  BY <1>1, <1>2 DEF IInv, TypeInv, VersionsExist, VersionsAreKept
<1> QED
  BY <1>3, <1>4, <1>5, <1>6 DEF IInv, TypeInv

LEMMA AddVersionStep ==
  ASSUME IInv, NEW c \in Clients, AddVersion(c)
  PROVE  /\ TypeInv' /\ VersionsExist' /\ VersionsAreKept
         /\ replays' = replays
         /\ call'[c].at \in {"updated", "server_error"}
         /\ \A d \in Clients \ {c} : call'[d] = call[d]
<1> DEFINE i == call[c].strategy
           s == [strategies[i] EXCEPT !.versions = Append(@, call[c].rules)]
<1>1. i \in DOMAIN strategies /\ call[c].rules \in Rules
  BY DEF AddVersion, IInv, RequestsRely, Relies, Adding
<1>2. strategies[i] \in StrategyRow /\ 1 \in DOMAIN strategies[i].versions
  BY <1>1, RowTypes DEF IInv, VersionsExist
<1>3. Append(strategies[i].versions, call[c].rules) \in Seq(Rules)
  BY <1>1, <1>2 DEF StrategyRow
<1>4. s \in StrategyRow /\ s.versions = Append(strategies[i].versions, call[c].rules)
  BY <1>2, <1>3 DEF StrategyRow
<1>5. \A v \in DOMAIN strategies[i].versions :
        v \in DOMAIN s.versions /\ s.versions[v] = strategies[i].versions[v]
  BY <1>1, <1>2, <1>4 DEF StrategyRow
<1>6. UNCHANGED <<replays, revision>>
  BY DEF AddVersion
<1>7. CASE Done(c, "server_error") /\ UNCHANGED strategies
  <2>1. /\ call' \in [Clients -> RequestState] /\ call'[c].at = "server_error"
        /\ \A d \in Clients \ {c} : call'[d] = call[d]
    BY <1>7, DoneStep DEF IInv, Program
  <2> QED
    BY <1>6, <1>7, <2>1 DEF IInv, TypeInv, VersionsAreKept, VersionsExist
<1>8. CASE strategies' = [strategies EXCEPT ![i] = s] /\ Done(c, "updated")
  <2>1. /\ call' \in [Clients -> RequestState] /\ call'[c].at = "updated"
        /\ \A d \in Clients \ {c} : call'[d] = call[d]
    BY <1>8, DoneStep DEF IInv, Program
  <2>2. /\ strategies' \in Seq(StrategyRow) /\ DOMAIN strategies' = DOMAIN strategies
        /\ strategies'[i] = s
        /\ \A k \in DOMAIN strategies \ {i} : strategies'[k] = strategies[k]
    BY <1>1, <1>4, <1>8, StrategyStep DEF IInv
  <2>3. VersionsAreKept /\ VersionsExist'
    BY <1>2, <1>5, <2>2 DEF VersionsAreKept, VersionsExist, IInv
  <2> QED
    BY <1>6, <2>1, <2>2, <2>3 DEF IInv, TypeInv
<1> QED
  BY <1>7, <1>8 DEF AddVersion

LEMMA ArchiveStep ==
  ASSUME IInv, NEW c \in Clients, Archive(c)
  PROVE  /\ TypeInv' /\ VersionsExist' /\ VersionsAreKept
         /\ replays' = replays
         /\ call'[c].at = "archived"
         /\ \A d \in Clients \ {c} : call'[d] = call[d]
<1>1. PICK i \in Owned : strategies' = [strategies EXCEPT ![i].active = FALSE]
  BY DEF Archive
<1> DEFINE s == [strategies[i] EXCEPT !.active = FALSE]
<1>2. i \in DOMAIN strategies /\ strategies[i] \in StrategyRow
  BY RowTypes DEF Owned, IInv
<1>3. s \in StrategyRow /\ s.versions = strategies[i].versions
  BY <1>2 DEF StrategyRow
<1>4. strategies' = [strategies EXCEPT ![i] = s]
  BY <1>1
<1>5. /\ strategies' \in Seq(StrategyRow) /\ DOMAIN strategies' = DOMAIN strategies
      /\ strategies'[i] = s
      /\ \A k \in DOMAIN strategies \ {i} : strategies'[k] = strategies[k]
  BY <1>2, <1>3, <1>4, StrategyStep DEF IInv
<1>6. Done(c, "archived") /\ UNCHANGED <<replays, revision>>
  BY DEF Archive
<1>7. /\ call' \in [Clients -> RequestState] /\ call'[c].at = "archived"
      /\ \A d \in Clients \ {c} : call'[d] = call[d]
  BY <1>6, DoneStep DEF IInv, Program
<1>8. VersionsAreKept /\ VersionsExist'
  BY <1>3, <1>5 DEF VersionsAreKept, VersionsExist, IInv
<1> QED
  BY <1>5, <1>6, <1>7, <1>8 DEF IInv, TypeInv

(* A request that only reads. *)
LEMMA UpdateStep ==
  ASSUME IInv, NEW c \in Clients, Update(c)
  PROVE  /\ TypeInv' /\ call'[c].at = "adding" /\ Relies(c)'
         /\ \A d \in Clients \ {c} : call'[d] = call[d]
<1>1. PICK i \in Owned, rules \in Rules :
        call' = [call EXCEPT ![c] = [Waiting EXCEPT !.at = "adding", !.strategy = i, !.rules = rules,
                                                 !.version = Len(strategies[i].versions) + 1]]
  BY DEF Update
<1> DEFINE next == Len(strategies[i].versions) + 1
           r == [Waiting EXCEPT !.at = "adding", !.strategy = i, !.rules = rules, !.version = next]
<1>2. i \in DOMAIN strategies /\ i \in Nat /\ strategies[i] \in StrategyRow
  BY RowTypes DEF Owned, IInv
<1>3. next \in Nat
  BY <1>2 DEF StrategyRow
<1>4. r \in RequestState /\ r.at = "adding" /\ r.strategy = i /\ r.rules = rules
  <2> HIDE DEF next
  <2> QED
    BY <1>1, <1>2, <1>3 DEF RequestState, Program, Waiting, Results
<1>5. UNCHANGED <<strategies, replays, revision>>
  BY DEF Update
<1>6. /\ call' \in [Clients -> RequestState] /\ call'[c] = r
      /\ \A d \in Clients \ {c} : call'[d] = call[d]
  BY <1>1, <1>4, CallStep DEF IInv
<1>7. TypeInv'
  BY <1>5, <1>6 DEF IInv, TypeInv
<1> HIDE DEF r
<1>8. Relies(c)'
  BY <1>2, <1>4, <1>5, <1>6 DEF Relies, Adding, Loading, HasData, Replaying, Checking
<1> QED
  BY <1>4, <1>6, <1>7, <1>8

LEMMA BacktestStep ==
  ASSUME IInv, NEW c \in Clients, Backtest(c)
  PROVE  /\ TypeInv' /\ call'[c].at = "loading" /\ Relies(c)'
         /\ \A d \in Clients \ {c} : call'[d] = call[d]
<1> DEFINE r(i) == [Waiting EXCEPT !.at = "loading", !.strategy = i, !.version = Len(strategies[i].versions),
                                   !.rules = strategies[i].versions[Len(strategies[i].versions)]]
<1>1. PICK i \in Owned : call' = [call EXCEPT ![c] = r(i)]
  BY DEF Backtest
<1> DEFINE last == Len(strategies[i].versions)
<1>2. i \in DOMAIN strategies /\ i \in Nat /\ strategies[i] \in StrategyRow
  BY RowTypes DEF Owned, IInv
<1>3. last \in Nat /\ last \in DOMAIN strategies[i].versions /\ strategies[i].versions[last] \in Rules
  BY <1>2 DEF StrategyRow, IInv, VersionsExist
<1>4. /\ r(i) \in RequestState /\ r(i).at = "loading" /\ r(i).strategy = i
      /\ r(i).version = last /\ r(i).rules = strategies[i].versions[last]
  BY <1>2, <1>3 DEF RequestState, Program, Waiting, Results
<1>5. UNCHANGED <<strategies, replays, revision>>
  BY DEF Backtest
<1>6. /\ call' \in [Clients -> RequestState] /\ call'[c] = r(i)
      /\ \A d \in Clients \ {c} : call'[d] = call[d]
  BY <1>1, <1>4, CallStep DEF IInv
<1>7. TypeInv'
  BY <1>5, <1>6 DEF IInv, TypeInv
<1> HIDE DEF r
<1>8. Relies(c)'
  BY <1>2, <1>3, <1>4, <1>5, <1>6 DEF Relies, Adding, Loading, HasData, Replaying, Checking, Defines
<1> QED
  BY <1>4, <1>6, <1>7, <1>8

LEMMA LoadDataStep ==
  ASSUME IInv, NEW c \in Clients, LoadData(c)
  PROVE  /\ TypeInv' /\ call'[c].at \in {"no_data", "opening"} /\ Relies(c)'
         /\ \A d \in Clients \ {c} : call'[d] = call[d]
<1> DEFINE r == [call[c] EXCEPT !.at = "opening", !.data = revision]
<1>1. call[c] \in RequestState /\ call[c].at = "loading" /\ revision \in Nat
  BY RowTypes DEF IInv, TypeInv, LoadData
<1>2. r \in RequestState /\ r.at = "opening" /\ r.data = revision /\ r.strategy = call[c].strategy
      /\ r.version = call[c].version /\ r.rules = call[c].rules
  BY <1>1 DEF RequestState, Program
<1>3. UNCHANGED <<strategies, replays, revision>>
  BY DEF LoadData
<1>4. CASE Done(c, "no_data")
  <2>1. /\ call' \in [Clients -> RequestState] /\ call'[c].at = "no_data"
        /\ \A d \in Clients \ {c} : call'[d] = call[d]
    BY <1>4, DoneStep DEF IInv, Program
  <2> QED
    BY <1>3, <2>1 DEF IInv, TypeInv, Relies, Adding, Loading, HasData, Replaying, Checking
<1>5. CASE call' = [call EXCEPT ![c] = r]
  <2>1. /\ call' \in [Clients -> RequestState] /\ call'[c] = r
        /\ \A d \in Clients \ {c} : call'[d] = call[d]
    BY <1>2, <1>5, CallStep DEF IInv
  <2>2. Defines(call[c].strategy, call[c].version, call[c].rules)
    BY <1>1 DEF IInv, RequestsRely, Relies, Loading
  <2>3. TypeInv'
    BY <1>3, <2>1 DEF IInv, TypeInv
  <2> HIDE DEF r
  <2>4. Relies(c)'
    BY <1>1, <1>2, <1>3, <2>1, <2>2 DEF Relies, Adding, Loading, HasData, Replaying, Checking, Defines
  <2> QED
    BY <1>2, <2>1, <2>3, <2>4
<1> QED
  BY <1>4, <1>5 DEF LoadData

LEMMA AnalyzeStep ==
  ASSUME IInv, NEW c \in Clients, Analyze(c)
  PROVE  /\ TypeInv' /\ call'[c].at = "checking" /\ Relies(c)'
         /\ \A d \in Clients \ {c} : call'[d] = call[d]
<1> DEFINE r(j) == [Waiting EXCEPT !.at = "checking", !.replay = j, !.rules = replays[j].snapshot,
                                   !.data = revision, !.seen = replays[j].result]
<1>1. PICK j \in OwnedRuns : call' = [call EXCEPT ![c] = r(j)]
  BY DEF Analyze
<1>2. j \in DOMAIN replays /\ j \in Nat /\ replays[j] \in RunRow /\ revision \in Nat
  BY RowTypes DEF OwnedRuns, IInv, TypeInv
<1>3. /\ r(j) \in RequestState /\ r(j).at = "checking" /\ r(j).replay = j /\ r(j).data = revision
      /\ r(j).rules = replays[j].snapshot /\ r(j).seen = replays[j].result
  BY <1>2 DEF RequestState, Program, Waiting, RunRow
<1>4. UNCHANGED <<strategies, replays, revision>>
  BY DEF Analyze
<1>5. /\ call' \in [Clients -> RequestState] /\ call'[c] = r(j)
      /\ \A d \in Clients \ {c} : call'[d] = call[d]
  BY <1>1, <1>3, CallStep DEF IInv
<1>6. TypeInv'
  BY <1>4, <1>5 DEF IInv, TypeInv
<1>7. replays[j].result # Nothing => replays[j].status = "completed"
  BY <1>2 DEF IInv, RowsAreSound, RunRow
<1> HIDE DEF r
<1>8. Relies(c)'
  BY <1>2, <1>3, <1>4, <1>5, <1>7 DEF Relies, Adding, Loading, HasData, Replaying, Checking
<1> QED
  BY <1>3, <1>5, <1>6, <1>8
-----------------------------------------------------------------------------
(* The three actions that write run rows. *)
LEMMA OpenRunStep ==
  ASSUME IInv, NEW c \in Clients, OpenRun(c)
  PROVE  /\ TypeInv' /\ RowsAreKept /\ RowsAreSound' /\ Relies(c)'
         /\ strategies' = strategies
         /\ \A j \in DOMAIN replays : replays'[j] = replays[j]
         /\ call'[c].replay \notin DOMAIN replays
         /\ \A d \in Clients \ {c} : call'[d] = call[d]
<1> DEFINE row == [strategy |-> call[c].strategy, version |-> call[c].version,
                   snapshot |-> call[c].rules, status |-> "running",
                   result |-> Nothing, analysis |-> Nothing]
           r == [call[c] EXCEPT !.at = "replaying", !.replay = Len(replays) + 1]
           n == Len(replays) + 1
<1>1. /\ call[c] \in RequestState /\ call[c].at = "opening" /\ replays \in Seq(RunRow)
      /\ Defines(call[c].strategy, call[c].version, call[c].rules) /\ call[c].data \in Nat
  BY RowTypes DEF IInv, TypeInv, OpenRun, RequestsRely, Relies, Loading, HasData
<1>2. call[c].rules \in Rules
  BY <1>1, RowTypes DEF Defines, StrategyRow, IInv
<1>3. row \in RunRow
  BY <1>1, <1>2 DEF RunRow, RequestState, Results
<1>4. n \in Nat /\ n \notin DOMAIN replays
  BY <1>1
<1>5. r \in RequestState /\ r.at = "replaying" /\ r.replay = n /\ r.data = call[c].data
      /\ r.rules = call[c].rules
  BY <1>1, <1>4 DEF RequestState, Program
<1>6. /\ replays' = Append(replays, row) /\ call' = [call EXCEPT ![c] = r]
      /\ UNCHANGED <<strategies, revision>>
  BY DEF OpenRun
<1>7. /\ call' \in [Clients -> RequestState] /\ call'[c] = r
      /\ \A d \in Clients \ {c} : call'[d] = call[d]
  BY <1>5, <1>6, CallStep DEF IInv
<1>8. /\ replays' \in Seq(RunRow) /\ DOMAIN replays' = DOMAIN replays \cup {n} /\ replays'[n] = row
      /\ \A j \in DOMAIN replays : replays'[j] = replays[j]
  BY <1>1, <1>3, <1>6
<1>9. TypeInv'
  BY <1>6, <1>7, <1>8 DEF IInv, TypeInv
<1>10. row.strategy = call[c].strategy /\ row.version = call[c].version /\ row.snapshot = call[c].rules
       /\ row.status = "running" /\ row.result = Nothing /\ row.analysis = Nothing
  OBVIOUS
<1> HIDE DEF row, r, n
<1>11. Relies(c)'
  BY <1>1, <1>5, <1>6, <1>7, <1>8, <1>10 DEF Relies, Adding, Loading, HasData, Replaying, Checking
<1>12. RowsAreKept
  BY <1>8 DEF RowsAreKept, RowIsKept
<1>13. RowsAreSound'
  BY <1>1, <1>6, <1>8, <1>10 DEF RowsAreSound, Defines, IInv
<1> QED
  BY <1>4, <1>5, <1>6, <1>7, <1>8, <1>9, <1>11, <1>12, <1>13

LEMMA CompleteRunStep ==
  ASSUME IInv, NEW c \in Clients, CompleteRun(c)
  PROVE  /\ TypeInv' /\ RowsAreKept /\ RowsAreSound' /\ Relies(c)'
         /\ strategies' = strategies
         /\ DOMAIN replays' = DOMAIN replays
         /\ \A j \in DOMAIN replays : replays'[j] = replays[j] \/ j = call[c].replay
         /\ call[c].at = "replaying" /\ call'[c].at # "replaying"
         /\ \A d \in Clients \ {c} : call'[d] = call[d]
<1> DEFINE j == call[c].replay
           result == Replayed(call[c].rules, call[c].data)
           row == [replays[j] EXCEPT !.status = "completed", !.result = result]
<1>1. /\ call[c] \in RequestState /\ call[c].at = "replaying" /\ call[c].data \in Nat
      /\ j \in DOMAIN replays /\ replays[j] \in RunRow
      /\ replays[j].status = "running" /\ replays[j].snapshot = call[c].rules
  BY RowTypes DEF IInv, CompleteRun, RequestsRely, Relies, Replaying, HasData
<1>2. call[c].rules \in Rules
  BY <1>1 DEF RunRow
<1>3. result \in Results /\ result # Nothing /\ result[1] = call[c].rules
  BY <1>1, <1>2, StrategiesAssumption DEF Results, Replayed
<1>4. /\ row \in RunRow /\ row.status = "completed" /\ row.result = result
      /\ row.strategy = replays[j].strategy /\ row.version = replays[j].version
      /\ row.snapshot = replays[j].snapshot /\ row.analysis = replays[j].analysis
  BY <1>1, <1>3 DEF RunRow
<1>5. UNCHANGED <<strategies, revision>>
  BY DEF CompleteRun
<1>6. CASE Done(c, "failed") /\ UNCHANGED replays
  <2>1. /\ call' \in [Clients -> RequestState] /\ call'[c].at = "failed"
        /\ \A d \in Clients \ {c} : call'[d] = call[d]
    BY <1>6, DoneStep DEF IInv, Program
  <2>2. Relies(c)'
    BY <2>1 DEF Relies, Adding, Loading, HasData, Replaying, Checking
  <2> QED
    BY <1>1, <1>5, <1>6, <2>1, <2>2 DEF IInv, TypeInv, RowsAreKept, RowIsKept, RowsAreSound, Defines
<1>7. CASE Done(c, "completed") /\ replays' = [replays EXCEPT ![j] = row]
  <2>1. /\ call' \in [Clients -> RequestState] /\ call'[c].at = "completed"
        /\ \A d \in Clients \ {c} : call'[d] = call[d]
    BY <1>7, DoneStep DEF IInv, Program
  <2>2. Relies(c)'
    BY <2>1 DEF Relies, Adding, Loading, HasData, Replaying, Checking
  <2>3. /\ replays' \in Seq(RunRow) /\ DOMAIN replays' = DOMAIN replays /\ replays'[j] = row
        /\ \A k \in DOMAIN replays \ {j} : replays'[k] = replays[k]
    BY <1>1, <1>4, <1>7, RowStep DEF IInv
  <2>4. TypeInv'
    BY <1>5, <2>1, <2>3 DEF IInv, TypeInv
  <2>5. replays[j].analysis = Nothing /\ Defines(replays[j].strategy, replays[j].version, replays[j].snapshot)
    BY <1>1 DEF IInv, RowsAreSound
  <2> HIDE DEF row, result, j
  <2>6. RowsAreKept
    BY <1>1, <1>4, <2>3 DEF RowsAreKept, RowIsKept
  <2>7. RowsAreSound'
    BY <1>1, <1>3, <1>4, <1>5, <2>3, <2>5 DEF RowsAreSound, Defines, IInv
  <2> QED
    BY <1>1, <1>5, <2>1, <2>2, <2>3, <2>4, <2>6, <2>7 DEF j
<1> QED
  BY <1>6, <1>7 DEF CompleteRun

LEMMA SaveAnalysisStep ==
  ASSUME IInv, NEW c \in Clients, SaveAnalysis(c)
  PROVE  /\ TypeInv' /\ RowsAreKept /\ RowsAreSound' /\ Relies(c)'
         /\ strategies' = strategies
         /\ DOMAIN replays' = DOMAIN replays
         /\ \A j \in DOMAIN replays : replays[j].status = "running" => replays'[j].status = "running"
         /\ call'[c].at # "replaying"
         /\ \A d \in Clients \ {c} : call'[d] = call[d]
<1> DEFINE j == call[c].replay
           result == Replayed(call[c].rules, call[c].data)
           row == [replays[j] EXCEPT !.analysis = result]
<1>1. /\ call[c] \in RequestState /\ call[c].at = "checking" /\ call[c].data \in Nat
      /\ j \in DOMAIN replays /\ replays[j] \in RunRow
      /\ replays[j].snapshot = call[c].rules
      /\ call[c].seen # Nothing => replays[j].status = "completed" /\ replays[j].result = call[c].seen
  BY RowTypes DEF IInv, SaveAnalysis, RequestsRely, Relies, Checking, HasData
<1>2. call[c].rules \in Rules
  BY <1>1 DEF RunRow
<1>3. result \in Results /\ result # Nothing
  BY <1>1, <1>2, StrategiesAssumption DEF Results, Replayed
<1>4. /\ row \in RunRow /\ row.status = replays[j].status /\ row.result = replays[j].result
      /\ row.strategy = replays[j].strategy /\ row.version = replays[j].version
      /\ row.snapshot = replays[j].snapshot /\ row.analysis = result
  BY <1>1, <1>3 DEF RunRow
<1>5. UNCHANGED <<strategies, revision>>
  BY DEF SaveAnalysis
<1>6. CASE Done(c, "drift") /\ UNCHANGED replays
  <2>1. /\ call' \in [Clients -> RequestState] /\ call'[c].at = "drift"
        /\ \A d \in Clients \ {c} : call'[d] = call[d]
    BY <1>6, DoneStep DEF IInv, Program
  <2>2. Relies(c)'
    BY <2>1 DEF Relies, Adding, Loading, HasData, Replaying, Checking
  <2> QED
    BY <1>1, <1>5, <1>6, <2>1, <2>2 DEF IInv, TypeInv, RowsAreKept, RowIsKept, RowsAreSound, Defines
<1>7. CASE Done(c, "analysed") /\ result = call[c].seen /\ replays' = [replays EXCEPT ![j].analysis = result]
  <2>1. /\ call' \in [Clients -> RequestState] /\ call'[c].at = "analysed"
        /\ \A d \in Clients \ {c} : call'[d] = call[d]
    BY <1>7, DoneStep DEF IInv, Program
  <2>2. Relies(c)'
    BY <2>1 DEF Relies, Adding, Loading, HasData, Replaying, Checking
  <2>3. /\ replays' \in Seq(RunRow) /\ DOMAIN replays' = DOMAIN replays /\ replays'[j] = row
        /\ \A k \in DOMAIN replays \ {j} : replays'[k] = replays[k]
    BY <1>1, <1>4, <1>7, RowStep DEF IInv
  <2>4. TypeInv'
    BY <1>5, <2>1, <2>3 DEF IInv, TypeInv
  <2>5. replays[j].status = "completed" /\ replays[j].result = result
        /\ Defines(replays[j].strategy, replays[j].version, replays[j].snapshot)
        /\ replays[j].result[1] = replays[j].snapshot
    BY <1>1, <1>3, <1>7 DEF IInv, RowsAreSound
  <2> HIDE DEF row, result, j
  <2>6. RowsAreKept
    BY <1>1, <1>4, <2>3 DEF RowsAreKept, RowIsKept
  <2>7. RowsAreSound'
    BY <1>1, <1>3, <1>4, <1>5, <2>3, <2>5 DEF RowsAreSound, Defines, IInv
  <2> QED
    BY <1>1, <1>4, <1>5, <2>1, <2>2, <2>3, <2>4, <2>6, <2>7
<1> QED
  BY <1>6, <1>7 DEF SaveAnalysis
-----------------------------------------------------------------------------
(* The requests that did not move keep what they rely on: committed rows are
   kept, and the row of a replay is completed by its own request only. *)
LEMMA OthersRely ==
  ASSUME IInv, VersionsAreKept, RowsAreKept, NEW d \in Clients, call'[d] = call[d],
         call[d].at = "replaying" => replays'[call[d].replay].status = "running"
  PROVE  Relies(d)'
<1>1. Relies(d)
  BY DEF IInv, RequestsRely
<1> QED
  BY <1>1 DEF Relies, Adding, Loading, HasData, Replaying, Checking, Defines,
              VersionsAreKept, RowsAreKept, RowIsKept

LEMMA SoundRowsAreKept ==
  ASSUME IInv, VersionsAreKept, replays' = replays
  PROVE  RowsAreSound' /\ RowsAreKept
BY DEF IInv, VersionsAreKept, RowsAreSound, Defines, RowsAreKept, RowIsKept

(* No step disturbs a committed version or row. *)
LEMMA TablesStep ==
  ASSUME IInv, [StrategiesNext]_strategyVars
  PROVE  TypeInv' /\ VersionsExist' /\ RowsAreSound' /\ VersionsAreKept /\ RowsAreKept
<1>1. ASSUME UNCHANGED <<strategies, replays>>
      PROVE  VersionsExist' /\ RowsAreSound' /\ VersionsAreKept /\ RowsAreKept
  BY <1>1, SoundRowsAreKept DEF IInv, VersionsExist, VersionsAreKept
<1>2. ASSUME UNCHANGED strategies PROVE VersionsExist' /\ VersionsAreKept
  BY <1>2 DEF IInv, VersionsExist, VersionsAreKept
<1>3. CASE UNCHANGED strategyVars
  BY <1>1, <1>3 DEF strategyVars, IInv, TypeInv
<1>4. CASE DataRevised
  BY <1>1, <1>4 DEF DataRevised, IInv, TypeInv
<1>5. ASSUME NEW c \in Clients, Create(c) \/ AddVersion(c) \/ Archive(c)
      PROVE  TypeInv' /\ VersionsExist' /\ RowsAreSound' /\ VersionsAreKept /\ RowsAreKept
  BY <1>5, CreateStep, AddVersionStep, ArchiveStep, SoundRowsAreKept
<1>6. ASSUME NEW c \in Clients, Update(c) \/ Backtest(c) \/ LoadData(c) \/ Analyze(c)
      PROVE  TypeInv' /\ VersionsExist' /\ RowsAreSound' /\ VersionsAreKept /\ RowsAreKept
  <2>1. TypeInv'
    BY <1>6, UpdateStep, BacktestStep, LoadDataStep, AnalyzeStep
  <2>2. UNCHANGED <<strategies, replays>>
    BY <1>6 DEF Update, Backtest, LoadData, Analyze
  <2> QED
    BY <2>1, <2>2, <1>1
<1>7. ASSUME NEW c \in Clients, OpenRun(c) \/ CompleteRun(c) \/ SaveAnalysis(c)
      PROVE  TypeInv' /\ VersionsExist' /\ RowsAreSound' /\ VersionsAreKept /\ RowsAreKept
  BY <1>2, <1>7, OpenRunStep, CompleteRunStep, SaveAnalysisStep
<1> QED
  BY <1>3, <1>4, <1>5, <1>6, <1>7 DEF StrategiesNext

LEMMA RequestsStep == IInv /\ [StrategiesNext]_strategyVars => RequestsRely'
<1> SUFFICES ASSUME IInv, [StrategiesNext]_strategyVars, NEW d \in Clients PROVE Relies(d)'
  BY DEF RequestsRely
<1>1. VersionsAreKept /\ RowsAreKept
  BY TablesStep
<1>2. call[d].at = "replaying" =>
        call[d].replay \in DOMAIN replays /\ replays[call[d].replay].status = "running"
  BY DEF IInv, RequestsRely, Relies, Replaying
<1>3. CASE UNCHANGED strategyVars
  BY <1>1, <1>2, <1>3, OthersRely DEF strategyVars
<1>4. CASE DataRevised
  BY <1>1, <1>2, <1>4, OthersRely DEF DataRevised
<1>5. ASSUME NEW c \in Clients, Create(c) \/ AddVersion(c) \/ Archive(c) PROVE Relies(d)'
  <2>1. /\ replays' = replays
        /\ call'[c].at \in {"created", "updated", "server_error", "archived"}
        /\ \A e \in Clients \ {c} : call'[e] = call[e]
    BY <1>5, CreateStep, AddVersionStep, ArchiveStep
  <2>2. CASE d = c
    BY <2>1, <2>2 DEF Relies, Adding, Loading, HasData, Replaying, Checking
  <2>3. CASE d # c
    BY <1>1, <1>2, <2>1, <2>3, OthersRely
  <2> QED
    BY <2>2, <2>3
<1>6. ASSUME NEW c \in Clients, Update(c) \/ Backtest(c) \/ LoadData(c) \/ Analyze(c)
      PROVE Relies(d)'
  <2>1. Relies(c)' /\ \A e \in Clients \ {c} : call'[e] = call[e]
    BY <1>6, UpdateStep, BacktestStep, LoadDataStep, AnalyzeStep
  <2>2. replays' = replays
    BY <1>6 DEF Update, Backtest, LoadData, Analyze
  <2>3. CASE d # c
    BY <1>1, <1>2, <2>1, <2>2, <2>3, OthersRely
  <2> QED
    BY <2>1, <2>3
<1>7. ASSUME NEW c \in Clients, OpenRun(c) PROVE Relies(d)'
  <2>1. CASE d # c
    BY <1>1, <1>2, <1>7, <2>1, OpenRunStep, OthersRely
  <2> QED
    BY <1>7, <2>1, OpenRunStep
<1>8. ASSUME NEW c \in Clients, CompleteRun(c) PROVE Relies(d)'
  <2>1. CASE d # c
    <3>1. call[d].at = "replaying" => call[d].replay # call[c].replay
      BY <1>8, <2>1, CompleteRunStep DEF IInv, OneReplayer
    <3> QED
      BY <1>1, <1>2, <1>8, <2>1, <3>1, CompleteRunStep, OthersRely
  <2> QED
    BY <1>8, <2>1, CompleteRunStep
<1>9. ASSUME NEW c \in Clients, SaveAnalysis(c) PROVE Relies(d)'
  <2>1. CASE d # c
    BY <1>1, <1>2, <1>9, <2>1, SaveAnalysisStep, OthersRely
  <2> QED
    BY <1>9, <2>1, SaveAnalysisStep
<1> QED
  BY <1>3, <1>4, <1>5, <1>6, <1>7, <1>8, <1>9 DEF StrategiesNext

(* A replay starts with a row that is new; every other step ends a replay or
   leaves the replaying requests as they were. *)
LEMMA ReplayersStep == IInv /\ [StrategiesNext]_strategyVars => OneReplayer'
<1> SUFFICES ASSUME IInv, [StrategiesNext]_strategyVars PROVE OneReplayer'
  OBVIOUS
<1>1. \A d \in Clients : call[d].at = "replaying" => call[d].replay \in DOMAIN replays
  BY DEF IInv, RequestsRely, Relies, Replaying
<1>2. ASSUME NEW c \in Clients, call'[c].at # "replaying",
             \A e \in Clients \ {c} : call'[e] = call[e]
      PROVE  OneReplayer'
  BY <1>2 DEF OneReplayer, IInv
<1>3. CASE UNCHANGED call
  BY <1>3 DEF OneReplayer, IInv
<1>4. ASSUME NEW c \in Clients, Create(c) \/ AddVersion(c) \/ Archive(c) PROVE OneReplayer'
  BY <1>2, <1>4, CreateStep, AddVersionStep, ArchiveStep
<1>5. ASSUME NEW c \in Clients, Update(c) \/ Backtest(c) \/ LoadData(c) \/ Analyze(c)
      PROVE OneReplayer'
  <2>1. call'[c].at \in {"adding", "loading", "no_data", "opening", "checking"}
    BY <1>5, UpdateStep, BacktestStep, LoadDataStep, AnalyzeStep
  <2>2. \A e \in Clients \ {c} : call'[e] = call[e]
    BY <1>5, UpdateStep, BacktestStep, LoadDataStep, AnalyzeStep
  <2> QED
    BY <1>2, <2>1, <2>2
<1>6. ASSUME NEW c \in Clients, OpenRun(c) PROVE OneReplayer'
  BY <1>1, <1>6, OpenRunStep DEF OneReplayer, IInv
<1>7. ASSUME NEW c \in Clients, CompleteRun(c) \/ SaveAnalysis(c) PROVE OneReplayer'
  BY <1>2, <1>7, CompleteRunStep, SaveAnalysisStep
<1> QED
  BY <1>3, <1>4, <1>5, <1>6, <1>7 DEF StrategiesNext, DataRevised, strategyVars

LEMMA InvStep == IInv /\ [StrategiesNext]_strategyVars => IInv'
BY TablesStep, RequestsStep, ReplayersStep DEF IInv
-----------------------------------------------------------------------------
(* Stored backtest results can be reproduced: for any number of concurrent
   requests of StrategyService, any definitions and any number of data
   revisions, every row of backtest_runs shows the definition of the version
   it names, a result replayed from it, and an analysis of that very result. *)
THEOREM RunsStayReproducible == StrategiesSpec => []RunsAreReproducible
<1>1. StrategiesSpec => []IInv
  BY InvInit, InvStep, PTL DEF StrategiesSpec
<1> QED
  BY <1>1, SoundIsReproducible, PTL

(* The history is append-only: whatever update, archive, backtest and
   analyze_backtest do, an inserted strategy version is never rewritten, and a
   run row never changes its version, its snapshot, or the result it completed
   with. *)
THEOREM HistoryIsAppendOnly == StrategiesSpec => [][VersionsAreKept /\ RowsAreKept]_strategyVars
<1>1. StrategiesSpec => []IInv
  BY InvInit, InvStep, PTL DEF StrategiesSpec
<1>2. IInv /\ [StrategiesNext]_strategyVars => [VersionsAreKept /\ RowsAreKept]_strategyVars
  BY TablesStep
<1> QED
  BY <1>1, <1>2, PTL DEF StrategiesSpec

-----------------------------------------------------------------------------
(* What the properties leave out: where the dates of bars, orders and positions
   lie. *)

InSession == {"exits", "entries", "risk", "signals"}

BarsAreDated ==
  /\ date \in Nat
  /\ phase \in InSession \cup {"session", "finish"}
  /\ DOMAIN lastBar \subseteq Symbols
  /\ traded \subseteq DOMAIN lastBar
  /\ \A s \in DOMAIN lastBar : lastBar[s].date \in 1..date
  /\ \A s \in traded : lastBar[s].date = date

(* A position was bought after its signal, on a day its stock traded. *)
PositionsAreDated ==
  /\ DOMAIN positions \subseteq DOMAIN lastBar
  /\ \A s \in DOMAIN positions :
       /\ {"signal", "entry"} \subseteq DOMAIN positions[s]
       /\ positions[s].signal \in Nat /\ positions[s].entry \in Nat
       /\ positions[s].signal < positions[s].entry
       /\ positions[s].entry <= lastBar[s].date

EntriesAreDated ==
  /\ DOMAIN pendingEntries \subseteq Symbols
  /\ \A s \in DOMAIN pendingEntries : pendingEntries[s] \in Nat

(* An exit order is as old as the last bar of its stock, except that it is older
   while today's open, at which it will trade, is being processed. *)
ExitsAreDated ==
  phase # "finish" =>
    /\ DOMAIN pendingExits \subseteq DOMAIN positions
    /\ \A s \in DOMAIN pendingExits :
         /\ pendingExits[s] \in Nat
         /\ positions[s].entry <= pendingExits[s]
         /\ \/ pendingExits[s] = lastBar[s].date /\ (phase \in InSession => s \notin traded)
            \/ phase = "exits" /\ s \in traded /\ pendingExits[s] < date

Disjoint == DOMAIN pendingEntries \cap DOMAIN positions = {}

TradesAreDated ==
  \A t \in trades :
    /\ t.entrySignal < t.entry /\ t.entry <= t.exit
    /\ t.exitSignal # None => t.exitSignal \in t.entry .. t.exit - 1

Dated ==
  /\ BarsAreDated /\ PositionsAreDated /\ EntriesAreDated
  /\ ExitsAreDated /\ Disjoint /\ TradesAreDated

USE DEF InSession

(* Restrict, as it is used to take one stock out of a book. *)
LEMMA WithoutOne ==
  ASSUME NEW f, NEW x
  PROVE  /\ DOMAIN Without(f, x) = DOMAIN f \ {x}
         /\ \A y \in DOMAIN f \ {x} : Without(f, x)[y] = f[y]
BY DEF Without, Restrict

LEMMA DatedInit == Init => Dated
BY DEF Init, Dated, BarsAreDated, PositionsAreDated, EntriesAreDated, ExitsAreDated,
       Disjoint, TradesAreDated, Empty

(* Closing a position keeps the others and adds a trade that is dated like it. *)
LEMMA CloseKeeps ==
  ASSUME Dated, NEW s \in DOMAIN positions, NEW raw,
         NEW exit \in Nat, NEW signal \in Nat,
         positions[s].entry <= exit,
         signal # None => signal \in positions[s].entry .. exit - 1,
         Close(s, raw, exit, signal), UNCHANGED <<date, lastBar, traded>>
  PROVE  /\ DOMAIN positions' = DOMAIN positions \ {s}
         /\ \A r \in DOMAIN positions \ {s} : positions'[r] = positions[r]
         /\ PositionsAreDated' /\ TradesAreDated'
<1>1. /\ DOMAIN positions' = DOMAIN positions \ {s}
      /\ \A r \in DOMAIN positions \ {s} : positions'[r] = positions[r]
  BY WithoutOne DEF Close
<1>2. PositionsAreDated'
  BY <1>1 DEF Dated, PositionsAreDated
<1>3. positions[s].signal < positions[s].entry
  BY DEF Dated, PositionsAreDated
<1>4. \A t \in trades' \ trades :
        /\ t.entrySignal = positions[s].signal /\ t.entry = positions[s].entry
        /\ t.exit = exit /\ t.exitSignal = signal
  BY DEF Close
<1>5. TradesAreDated'
  BY <1>3, <1>4 DEF Dated, TradesAreDated
<1> QED
  BY <1>1, <1>2, <1>5

LEMMA SessionKeeps == Dated /\ Session => Dated'
<1> SUFFICES ASSUME Dated, Session PROVE Dated'
  OBVIOUS
<1> PICK today \in SUBSET Symbols : \E bars \in [today -> Bars] :
      /\ traded' = today
      /\ lastBar' = [s \in DOMAIN lastBar \cup today |->
                       IF s \in today THEN [date |-> date', bar |-> bars[s]] ELSE lastBar[s]]
  BY DEF Session
<1>1. phase = "session" /\ phase' = "exits" /\ date' = date + 1
  BY DEF Session, After
<1>2. UNCHANGED <<positions, trades, pendingEntries, pendingExits>>
  BY DEF Session, account, orders
<1>3. /\ DOMAIN lastBar' = DOMAIN lastBar \cup today
      /\ \A s \in today : lastBar'[s].date = date'
      /\ \A s \in DOMAIN lastBar \ today : lastBar'[s] = lastBar[s]
  OBVIOUS
<1>4. BarsAreDated'
  BY <1>1, <1>3 DEF Dated, BarsAreDated
<1>5. PositionsAreDated'
  <2> SUFFICES ASSUME NEW s \in DOMAIN positions
               PROVE  positions[s].entry <= lastBar'[s].date
    BY <1>2, <1>3 DEF Dated, PositionsAreDated
  <2>1. CASE s \in today
    BY <1>1, <1>3, <2>1 DEF Dated, PositionsAreDated, BarsAreDated
  <2>2. CASE s \notin today
    BY <1>3, <2>2 DEF Dated, PositionsAreDated, BarsAreDated
  <2> QED
    BY <2>1, <2>2
<1>6. ExitsAreDated'
  <2> SUFFICES ASSUME NEW s \in DOMAIN pendingExits
               PROVE  \/ pendingExits[s] = lastBar'[s].date /\ s \notin today
                      \/ s \in today /\ pendingExits[s] < date'
    BY <1>1, <1>2 DEF Dated, ExitsAreDated
  <2>1. pendingExits[s] = lastBar[s].date /\ s \in DOMAIN lastBar
    BY <1>1 DEF Dated, ExitsAreDated, PositionsAreDated
  <2> QED
    BY <1>1, <1>3, <2>1 DEF Dated, BarsAreDated
<1> QED
  BY <1>2, <1>4, <1>5, <1>6 DEF Dated, EntriesAreDated, Disjoint, TradesAreDated

(* The books of a phase are empty of today's stocks when it ends. *)
LEMMA PhaseEndsKeeps == Dated /\ PhaseEnds => Dated'
<1> SUFFICES ASSUME Dated, PhaseEnds PROVE Dated'
  OBVIOUS
<1>1. UNCHANGED <<date, traded, lastBar, positions, trades, pendingEntries, pendingExits>>
  BY DEF PhaseEnds, account, orders
<1>2. \/ phase = "exits" /\ phase' = "entries" /\ ExitsDue = {}
      \/ phase = "entries" /\ phase' = "risk"
      \/ phase = "risk" /\ phase' = "signals"
  BY DEF PhaseEnds, After
<1>3. ExitsAreDated'
  BY <1>1, <1>2 DEF Dated, ExitsAreDated, ExitsDue
<1> QED
  BY <1>1, <1>2, <1>3 DEF Dated, BarsAreDated, PositionsAreDated, EntriesAreDated,
                         Disjoint, TradesAreDated

LEMMA ExitAtOpenKeeps ==
  ASSUME NEW s \in Symbols, Dated, ExitAtOpen(s) PROVE Dated'
<1>1. /\ phase = "exits" /\ phase' = phase
      /\ s \in DOMAIN pendingExits /\ s \in traded
      /\ pendingExits' = Without(pendingExits, s)
      /\ UNCHANGED <<date, traded, lastBar, pendingEntries>>
  BY DEF ExitAtOpen, ExitsDue
<1>2. /\ s \in DOMAIN positions
      /\ pendingExits[s] \in Nat /\ pendingExits[s] < date
      /\ positions[s].entry <= pendingExits[s] /\ positions[s].entry \in Nat
      /\ date \in Nat
  BY <1>1 DEF Dated, ExitsAreDated, PositionsAreDated, BarsAreDated
<1>3. Close(s, lastBar[s].bar.open, date, pendingExits[s])
  BY <1>2 DEF ExitAtOpen
<1>4. positions[s].entry <= date /\ pendingExits[s] \in positions[s].entry .. date - 1
  BY <1>2
<1>5. /\ DOMAIN positions' = DOMAIN positions \ {s}
      /\ \A r \in DOMAIN positions \ {s} : positions'[r] = positions[r]
      /\ PositionsAreDated' /\ TradesAreDated'
  BY <1>1, <1>2, <1>3, <1>4, CloseKeeps
<1>6. /\ DOMAIN pendingExits' = DOMAIN pendingExits \ {s}
      /\ \A r \in DOMAIN pendingExits \ {s} : pendingExits'[r] = pendingExits[r]
  BY <1>1, WithoutOne
<1>7. ExitsAreDated'
  BY <1>1, <1>5, <1>6 DEF Dated, ExitsAreDated
<1> QED
  BY <1>1, <1>5, <1>7 DEF Dated, BarsAreDated, EntriesAreDated, Disjoint

LEMMA EnterAtOpenKeeps ==
  ASSUME NEW s \in Symbols, Dated, EnterAtOpen(s) PROVE Dated'
<1>1. /\ phase = "entries" /\ phase' = phase
      /\ s \in DOMAIN pendingEntries /\ s \in traded
      /\ pendingEntries' = Without(pendingEntries, s)
      /\ UNCHANGED <<date, traded, lastBar, pendingExits, trades>>
  BY DEF EnterAtOpen, EntriesDue, account
<1>2. /\ DOMAIN pendingEntries' = DOMAIN pendingEntries \ {s}
      /\ \A r \in DOMAIN pendingEntries \ {s} : pendingEntries'[r] = pendingEntries[r]
  BY <1>1, WithoutOne
<1>3. EntriesAreDated' /\ BarsAreDated' /\ TradesAreDated'
  BY <1>1, <1>2 DEF Dated, EntriesAreDated, BarsAreDated, TradesAreDated
<1>4. CASE positions' = positions
  BY <1>1, <1>2, <1>3, <1>4 DEF Dated, PositionsAreDated, ExitsAreDated, Disjoint
<1>5. CASE positions' # positions
  <2> DEFINE fill == Buy(lastBar[s].bar.open)
             position == [signal |-> pendingEntries[s], entry |-> date, price |-> fill,
                          quantity |-> Quantity(fill), held |-> 0]
  <2>1. /\ s \notin DOMAIN positions /\ ~(date <= pendingEntries[s])
        /\ positions' = [r \in DOMAIN positions \cup {s} |->
                           IF r = s THEN position ELSE positions[r]]
    BY <1>5 DEF EnterAtOpen, account
  <2>2. /\ DOMAIN positions' = DOMAIN positions \cup {s}
        /\ positions'[s] = position
        /\ \A r \in DOMAIN positions : positions'[r] = positions[r]
    BY <2>1
  <2>3. /\ {"signal", "entry"} \subseteq DOMAIN position
        /\ position.signal = pendingEntries[s] /\ position.entry = date
    OBVIOUS
  <2> HIDE DEF position
  <2>4. /\ pendingEntries[s] \in Nat /\ date \in Nat /\ pendingEntries[s] < date
        /\ lastBar[s].date = date /\ s \in DOMAIN lastBar
    BY <1>1, <2>1 DEF Dated, EntriesAreDated, BarsAreDated
  <2>5. PositionsAreDated'
    BY <1>1, <2>2, <2>3, <2>4 DEF Dated, PositionsAreDated
  <2>6. ExitsAreDated'
    BY <1>1, <2>1, <2>2 DEF Dated, ExitsAreDated
  <2>7. Disjoint'
    BY <1>2, <2>2 DEF Dated, Disjoint
  <2> QED
    BY <1>3, <2>5, <2>6, <2>7 DEF Dated
<1> QED
  BY <1>4, <1>5

LEMMA RiskExitKeeps ==
  ASSUME NEW s \in Symbols, Dated, RiskExit(s) PROVE Dated'
<1>1. /\ phase = "risk" /\ phase' = phase
      /\ s \in DOMAIN positions /\ s \in traded
      /\ pendingExits' = Without(pendingExits, s)
      /\ UNCHANGED <<date, traded, lastBar, pendingEntries>>
  BY DEF RiskExit, RisksDue
<1>2. date \in Nat /\ positions[s].entry <= date
  BY <1>1 DEF Dated, PositionsAreDated, BarsAreDated
<1>3. Close(s, RiskFill(positions[s], lastBar[s].bar), date, None)
  BY DEF RiskExit
<1>4. /\ DOMAIN positions' = DOMAIN positions \ {s}
      /\ \A r \in DOMAIN positions \ {s} : positions'[r] = positions[r]
      /\ PositionsAreDated' /\ TradesAreDated'
  <2>1. None \in Nat
    BY DEF None
  <2> QED
    BY <1>1, <1>2, <1>3, <2>1, CloseKeeps
<1>5. ExitsAreDated'
  <2>1. DOMAIN pendingExits' = DOMAIN pendingExits \ {s}
    BY <1>1, WithoutOne
  <2>2. \A r \in DOMAIN pendingExits \ {s} : pendingExits'[r] = pendingExits[r]
    BY <1>1, WithoutOne
  <2> QED
    BY <1>1, <1>4, <2>1, <2>2 DEF Dated, ExitsAreDated
<1> QED
  BY <1>1, <1>4, <1>5 DEF Dated, BarsAreDated, EntriesAreDated, Disjoint

LEMMA SignalsAtCloseKeeps == Dated /\ SignalsAtClose => Dated'
<1> SUFFICES ASSUME Dated, SignalsAtClose PROVE Dated'
  OBVIOUS
<1> PICK fired \in SUBSET traded :
      /\ pendingExits' = Signalled(pendingExits, Leaving(fired))
      /\ pendingEntries' = Signalled(pendingEntries, Entering(fired))
  BY DEF SignalsAtClose
<1>1. /\ phase = "signals" /\ phase' = "session"
      /\ UNCHANGED <<date, traded, lastBar, trades>>
  BY DEF SignalsAtClose, After
<1>2. /\ DOMAIN positions' = DOMAIN positions
      /\ \A s \in DOMAIN positions :
           positions'[s] = IF s \in traded THEN [positions[s] EXCEPT !.held = @ + 1]
                                           ELSE positions[s]
  BY DEF SignalsAtClose
<1>3. \A s \in DOMAIN positions :
        /\ DOMAIN positions'[s] = DOMAIN positions[s]
        /\ positions'[s].signal = positions[s].signal
        /\ positions'[s].entry = positions[s].entry
  BY <1>2 DEF Dated, PositionsAreDated
<1>4. PositionsAreDated'
  BY <1>1, <1>2, <1>3 DEF Dated, PositionsAreDated
<1>5. Leaving(fired) \subseteq DOMAIN positions \cap traded
  BY DEF Leaving
<1>6. /\ DOMAIN pendingExits' = DOMAIN pendingExits \cup Leaving(fired)
      /\ \A s \in DOMAIN pendingExits' :
           pendingExits'[s] = IF s \in DOMAIN pendingExits THEN pendingExits[s] ELSE date
  BY DEF Signalled
<1>7. ExitsAreDated'
  <2> SUFFICES ASSUME NEW s \in DOMAIN pendingExits'
               PROVE  /\ pendingExits'[s] \in Nat
                      /\ positions[s].entry <= pendingExits'[s]
                      /\ pendingExits'[s] = lastBar[s].date
                      /\ s \in DOMAIN positions
    BY <1>1, <1>2, <1>3 DEF ExitsAreDated
  <2>1. CASE s \in DOMAIN pendingExits
    BY <1>1, <1>6, <2>1 DEF Dated, ExitsAreDated
  <2>2. CASE s \notin DOMAIN pendingExits
    <3>1. s \in DOMAIN positions /\ s \in traded /\ pendingExits'[s] = date
      BY <1>5, <1>6, <2>2
    <3> QED
      BY <3>1 DEF Dated, PositionsAreDated, BarsAreDated
  <2> QED
    BY <2>1, <2>2
<1>8. Entering(fired) \subseteq traded \ DOMAIN positions
  BY DEF Entering
<1>9. /\ DOMAIN pendingEntries' = DOMAIN pendingEntries \cup Entering(fired)
      /\ \A s \in DOMAIN pendingEntries' :
           pendingEntries'[s] = IF s \in DOMAIN pendingEntries THEN pendingEntries[s] ELSE date
  BY DEF Signalled
<1>10. EntriesAreDated'
  BY <1>8, <1>9 DEF Dated, EntriesAreDated, BarsAreDated
<1>11. Disjoint'
  BY <1>2, <1>8, <1>9 DEF Dated, Disjoint
<1> QED
  BY <1>1, <1>4, <1>7, <1>10, <1>11 DEF Dated, BarsAreDated, TradesAreDated

LEMMA FinishKeeps == Dated /\ Finish => Dated'
BY DEF Finish, account, orders, Dated, BarsAreDated, PositionsAreDated, EntriesAreDated,
       ExitsAreDated, Disjoint, TradesAreDated

LEMMA CloseOutKeeps ==
  ASSUME NEW s \in Symbols, Dated, CloseOut(s) PROVE Dated'
<1>1. /\ phase = "finish" /\ phase' = phase
      /\ s \in DOMAIN positions
      /\ Close(s, lastBar[s].bar.close, lastBar[s].date, None)
      /\ UNCHANGED <<date, traded, lastBar, pendingEntries, pendingExits>>
  BY DEF CloseOut, orders
<1>2. lastBar[s].date \in Nat /\ positions[s].entry <= lastBar[s].date /\ None \in Nat
  BY <1>1 DEF Dated, PositionsAreDated, BarsAreDated, None
<1>3. DOMAIN positions' = DOMAIN positions \ {s} /\ PositionsAreDated' /\ TradesAreDated'
  BY <1>1, <1>2, CloseKeeps
<1> QED
  BY <1>1, <1>3 DEF Dated, BarsAreDated, EntriesAreDated, ExitsAreDated, Disjoint

LEMMA DatedStep == Dated /\ [Next]_vars => Dated'
<1>1. Dated /\ UNCHANGED vars => Dated'
  BY DEF vars, account, orders, Dated, BarsAreDated, PositionsAreDated, EntriesAreDated,
         ExitsAreDated, Disjoint, TradesAreDated
<1> QED
  BY <1>1, SessionKeeps, PhaseEndsKeeps, ExitAtOpenKeeps, EnterAtOpenKeeps, RiskExitKeeps,
     SignalsAtCloseKeeps, FinishKeeps, CloseOutKeeps DEF Next

(* No look-ahead: in every replay, signals and fills follow each other in time
   and no exit waits over a session of its stock (the order of the phases in the
   loop of engine.py:204). *)
THEOREM NoLookAhead == Spec => []TradesFollowSignals
<1>1. Dated => TradesFollowSignals
  BY DEF Dated, TradesAreDated, ExitsAreDated, TradesFollowSignals
<1> QED
  BY <1>1, DatedInit, DatedStep, PTL DEF Spec

-----------------------------------------------------------------------------
(* Slots are counted: positions are finitely many, and one is only opened while
   fewer are open than the settings allow. *)

SlotsCounted ==
  /\ execution.positions \in Nat
  /\ DOMAIN positions \subseteq Symbols
  /\ Cardinality(DOMAIN positions) <= execution.positions

LEMMA SlotsInit == Init => SlotsCounted
<1> SUFFICES ASSUME Init PROVE SlotsCounted
  OBVIOUS
<1>1. DOMAIN positions = {}
  BY DEF Init, Empty
<1>2. execution.positions \in Nat
  BY ExecutionAssumption DEF Init
<1> QED
  BY <1>1, <1>2, FS_EmptySet DEF SlotsCounted

(* The books may lose positions; only EnterAtOpen gains one. *)
LEMMA FewerFit ==
  ASSUME SlotsCounted, DOMAIN positions' \subseteq DOMAIN positions, execution' = execution
  PROVE  SlotsCounted'
<1>1. IsFiniteSet(DOMAIN positions)
  BY SymbolsAssumption, FS_Subset DEF SlotsCounted
<1>2. /\ Cardinality(DOMAIN positions') <= Cardinality(DOMAIN positions)
      /\ Cardinality(DOMAIN positions') \in Nat /\ Cardinality(DOMAIN positions) \in Nat
  BY <1>1, FS_Subset, FS_CardinalityType
<1> QED
  BY <1>2 DEF SlotsCounted

LEMMA EnterFits ==
  ASSUME SlotsCounted, NEW s \in Symbols, EnterAtOpen(s)
  PROVE  SlotsCounted'
<1>1. /\ execution' = execution
      /\ Slots > 0
      /\ DOMAIN positions' \in {DOMAIN positions, DOMAIN positions \cup {s}}
  BY DEF EnterAtOpen, account
<1>2. CASE DOMAIN positions' = DOMAIN positions
  BY <1>1, <1>2, FewerFit
<1>3. CASE DOMAIN positions' = DOMAIN positions \cup {s}
  <2>1. IsFiniteSet(DOMAIN positions)
    BY SymbolsAssumption, FS_Subset DEF SlotsCounted
  <2>2. /\ Cardinality(DOMAIN positions) \in Nat
        /\ Cardinality(DOMAIN positions') \in
             {Cardinality(DOMAIN positions), Cardinality(DOMAIN positions) + 1}
    BY <1>3, <2>1, FS_AddElement, FS_CardinalityType
  <2> QED
    BY <1>1, <1>3, <2>2 DEF SlotsCounted, Slots
<1> QED
  BY <1>1, <1>2, <1>3

LEMMA CloseFits ==
  ASSUME NEW s, NEW raw, NEW exit, NEW signal, Close(s, raw, exit, signal)
  PROVE  DOMAIN positions' \subseteq DOMAIN positions
BY WithoutOne DEF Close

LEMMA SlotsStep == SlotsCounted /\ [Next]_vars => SlotsCounted'
<1> SUFFICES ASSUME SlotsCounted, [Next]_vars PROVE SlotsCounted'
  OBVIOUS
<1>1. CASE UNCHANGED vars \/ Session \/ PhaseEnds \/ Finish
  <2>1. positions' = positions /\ execution' = execution
    BY <1>1 DEF vars, account, Session, PhaseEnds, Finish
  <2> QED
    BY <2>1, FewerFit
<1>2. CASE SignalsAtClose
  <2>1. DOMAIN positions' = DOMAIN positions /\ execution' = execution
    BY <1>2 DEF SignalsAtClose
  <2> QED
    BY <2>1, FewerFit
<1>3. ASSUME NEW s \in Symbols, EnterAtOpen(s) PROVE SlotsCounted'
  BY <1>3, EnterFits
<1>4. ASSUME NEW s \in Symbols, ExitAtOpen(s) \/ RiskExit(s) \/ CloseOut(s)
      PROVE  SlotsCounted'
  <2>1. execution' = execution
    BY <1>4 DEF ExitAtOpen, RiskExit, CloseOut
  <2>2. positions' = positions \/ \E raw, exit, signal : Close(s, raw, exit, signal)
    BY <1>4 DEF ExitAtOpen, RiskExit, CloseOut, account
  <2>3. DOMAIN positions' \subseteq DOMAIN positions
    BY <2>2, CloseFits
  <2> QED
    BY <2>1, <2>3, FewerFit
<1> QED
  BY <1>1, <1>2, <1>3, <1>4 DEF Next

(* No order outlives its position, none is placed for a stock that is held, and
   no more is held than there are slots: the checks at engine.py:211 and
   engine.py:232 never find anything to do. *)
THEOREM OrdersMatchPositions == Spec => []OneOrderPerStock
<1>1. Dated /\ SlotsCounted => OneOrderPerStock
  <2> SUFFICES ASSUME Dated, SlotsCounted PROVE OneOrderPerStock
    OBVIOUS
  <2>1. Cardinality(DOMAIN positions) \in Nat
    BY SymbolsAssumption, FS_Subset, FS_CardinalityType DEF SlotsCounted
  <2> QED
    BY <2>1 DEF Dated, Disjoint, ExitsAreDated, SlotsCounted, Slots, OneOrderPerStock
<1> QED
  BY <1>1, DatedInit, DatedStep, SlotsInit, SlotsStep, PTL DEF Spec

(* No look-ahead and no orphaned order, for any stocks, bars and settings. *)
THEOREM ReplaysAreHonest == Spec => []OrdersAreHonest
  BY NoLookAhead, OrdersMatchPositions, PTL DEF OrdersAreHonest

-----------------------------------------------------------------------------
(* The ledger.  Amounts first: a part of an amount is no more than the amount,
   and what is bought fits the cash with its fee. *)

LEMMA Division ==
  ASSUME NEW a \in Nat, NEW b \in Nat \ {0}
  PROVE  a \div b \in Nat /\ b * (a \div b) <= a
OBVIOUS

LEMMA PartIs ==
  ASSUME NEW percent \in 0..100, NEW amount \in Nat
  PROVE  Part(percent, amount) \in 0..amount
<1> DEFINE product == percent * amount
<1>1. product \in Nat /\ product <= 100 * amount /\ Part(percent, amount) = product \div 100
  BY DEF Part
<1> HIDE DEF product
<1> QED
  BY <1>1

LEMMA SellIs ==
  ASSUME NEW low \in Nat, NEW high \in Nat, NEW raw \in low .. high
  PROVE  Sell(raw) \in Nat /\ Sell(raw) \in Sell(low) .. Sell(high)
<1>1. Slippage \in {0, 1, 2, 3, 4, 5}
  BY ExecutionAssumption
<1> QED
  BY <1>1 DEF Sell, Part

LEMMA Affordable ==
  ASSUME NEW money \in Nat, NEW price \in Nat \ {0},
         NEW quantity, quantity = (100 * money) \div (price * (100 + Cost))
  PROVE  /\ quantity \in Nat /\ quantity * price \in Nat
         /\ quantity * price + Fee(quantity * price) <= money
         /\ Fee(quantity * price) \in Nat
<1> DEFINE unit == price * (100 + Cost)
           paid == quantity * price
<1>0. Cost \in {0, 1, 2, 3, 4, 5}
  BY ExecutionAssumption
<1>1. unit \in Nat \ {0} /\ 100 * money \in Nat
  BY <1>0
<1>2. quantity \in Nat /\ unit * quantity <= 100 * money
  <2> HIDE DEF unit
  <2> QED
    BY <1>1, Division DEF unit
<1>3. paid \in Nat /\ unit * quantity = (100 + Cost) * paid
  BY <1>0, <1>2
<1> HIDE DEF paid
<1>4. (100 + Cost) * paid <= 100 * money
  BY <1>2, <1>3
<1>5. paid + Fee(paid) <= money /\ Fee(paid) \in Nat
  BY <1>0, <1>3, <1>4 DEF Fee, Part
<1> QED
  BY <1>2, <1>3, <1>5 DEF paid

LEMMA FeeIs == ASSUME NEW notional \in Nat PROVE Fee(notional) \in 0..notional
<1>1. Cost \in 0..100
  BY ExecutionAssumption
<1> QED
  BY <1>1, PartIs DEF Fee


LEMMA BarIs ==
  ASSUME NEW b \in Bars
  PROVE  /\ b.open \in Nat \ {0} /\ b.low \in Nat /\ b.high \in Nat /\ b.close \in Nat
         /\ b.open \in b.low .. b.high /\ b.close \in b.low .. b.high
BY BarsAssumption

(* A stop or a target that the day reached fills inside its bar. *)
LEMMA RiskFillIsQuoted ==
  ASSUME execution \in Executions, NEW b \in Bars, NEW p, p.price \in Nat, AtRisk(p, b)
  PROVE  RiskFill(p, b) \in b.low .. b.high
<1>1. execution.stop \in 0..100 /\ execution.take \in Nat
  BY ExecutionAssumption
<1>2. /\ b.open \in Nat /\ b.low \in Nat /\ b.high \in Nat
      /\ b.low <= b.open /\ b.open <= b.high
  BY BarIs
<1>3. StopLevel(p) \in Int /\ TakeLevel(p) \in Int
  <2>1. Part(execution.stop, p.price) \in 0..p.price
    BY <1>1, PartIs
  <2>2. execution.take * p.price \in Nat
    BY <1>1
  <2>3. Part(execution.take, p.price) \in Nat
    BY <2>2 DEF Part
  <2> QED
    BY <2>1, <2>3 DEF StopLevel, TakeLevel
<1>4. CASE HitsStop(p, b.low) /\ ~ HitsTake(p, b.open)
  <2>1. b.low <= StopLevel(p) /\ RiskFill(p, b) = Min({b.open, StopLevel(p)})
    BY <1>4 DEF RiskFill, HitsStop
  <2> DEFINE open == b.open
             level == StopLevel(p)
  <2> HIDE DEF open, level
  <2>2. open \in Int /\ level \in Int
    BY <1>2, <1>3 DEF open, level
  <2>3. Min({open, level}) \in {open, level} /\ Min({open, level}) <= open
    BY <2>2, Pair
  <2> QED
    BY <1>2, <2>1, <2>2, <2>3 DEF open, level
<1>5. CASE ~ (HitsStop(p, b.low) /\ ~ HitsTake(p, b.open))
  <2>1. RiskFill(p, b) = Max({b.open, TakeLevel(p)}) /\ TakeLevel(p) <= b.high
    BY <1>2, <1>3, <1>5 DEF RiskFill, AtRisk, HitsTake
  <2> DEFINE open == b.open
             level == TakeLevel(p)
  <2> HIDE DEF open, level
  <2>2. open \in Int /\ level \in Int
    BY <1>2, <1>3 DEF open, level
  <2>3. Max({open, level}) \in {open, level} /\ Max({open, level}) >= open
    BY <2>2, Pair
  <2> QED
    BY <1>2, <2>1, <2>2, <2>3 DEF open, level
<1> QED
  BY <1>4, <1>5

(* What the account is made of.  A trade is of the past: whatever is held or
   waited for in its stock came later, so that no trade is ever made twice. *)
HoldingsAreSound ==
  /\ execution \in Executions /\ cash \in Nat
  /\ \A s \in DOMAIN lastBar : lastBar[s].bar \in Bars
  /\ DOMAIN positions \subseteq Symbols
  /\ \A s \in DOMAIN positions :
       /\ {"price", "quantity"} \subseteq DOMAIN positions[s]
       /\ positions[s].price \in Nat /\ positions[s].quantity \in Nat

TradesAreSound ==
  /\ IsFiniteSet(trades)
  /\ \A t \in trades :
       /\ t.net \in Int /\ t.entry \in Nat /\ t.exit \in Nat /\ t.entry <= t.exit
       /\ t.symbol \in DOMAIN lastBar /\ t.exit <= lastBar[t.symbol].date
       /\ t.symbol \in DOMAIN positions => t.exit < positions[t.symbol].entry
       /\ t.symbol \in DOMAIN pendingEntries => t.exit <= pendingEntries[t.symbol]

Costs == [s \in DOMAIN positions |-> Paid(positions[s])]
Nets  == [t \in trades |-> t.net]

Balanced == cash + Sum(Costs, DOMAIN positions) = Capital + Sum(Nets, trades)

LedgerInv == HoldingsAreSound /\ TradesAreSound /\ FillsAreQuoted /\ Balanced

(* The sums of the property are sums of these functions. *)
LEMMA SumOfCosts ==
  MapThenSumSet(LAMBDA s : Paid(positions[s]), DOMAIN positions) = Sum(Costs, DOMAIN positions)
<1> DEFINE D == DOMAIN positions
<1>1. ASSUME NEW h
      PROVE  h = [s \in SUBSET D |-> IF s = {} THEN 0
                                     ELSE Paid(positions[Chosen(s)]) + h[s \ {Chosen(s)}]]
             <=> Sums(h, Costs, D)
  <2>1. \A s \in SUBSET D : s # {} => Costs[Chosen(s)] = Paid(positions[Chosen(s)])
    BY ChosenIsIn DEF Costs
  <2>2. [s \in SUBSET D |-> IF s = {} THEN 0
                            ELSE Paid(positions[Chosen(s)]) + h[s \ {Chosen(s)}]]
        = [s \in SUBSET D |-> IF s = {} THEN 0 ELSE Costs[Chosen(s)] + h[s \ {Chosen(s)}]]
    BY <2>1
  <2> QED
    BY <2>2 DEF Sums
<1>2. (CHOOSE h : h = [s \in SUBSET D |-> IF s = {} THEN 0
                                          ELSE Paid(positions[Chosen(s)]) + h[s \ {Chosen(s)}]])
      = CHOOSE h : Sums(h, Costs, D)
  BY <1>1
<1> QED
  BY <1>2 DEF MapThenSumSet, MapThenFoldSet, Sum, Chosen

LEMMA SumOfNets == MapThenSumSet(LAMBDA t : t.net, trades) = Sum(Nets, trades)
<1>1. ASSUME NEW h
      PROVE  h = [s \in SUBSET trades |-> IF s = {} THEN 0
                                          ELSE Chosen(s).net + h[s \ {Chosen(s)}]]
             <=> Sums(h, Nets, trades)
  <2>1. \A s \in SUBSET trades : s # {} => Nets[Chosen(s)] = Chosen(s).net
    BY ChosenIsIn DEF Nets
  <2>2. [s \in SUBSET trades |-> IF s = {} THEN 0 ELSE Chosen(s).net + h[s \ {Chosen(s)}]]
        = [s \in SUBSET trades |-> IF s = {} THEN 0 ELSE Nets[Chosen(s)] + h[s \ {Chosen(s)}]]
    BY <2>1
  <2> QED
    BY <2>2 DEF Sums
<1>2. (CHOOSE h : h = [s \in SUBSET trades |-> IF s = {} THEN 0
                                               ELSE Chosen(s).net + h[s \ {Chosen(s)}]])
      = CHOOSE h : Sums(h, Nets, trades)
  BY <1>1
<1> QED
  BY <1>2 DEF MapThenSumSet, MapThenFoldSet, Sum, Chosen

LEMMA LedgerIs == LedgerInv => LedgerIsHonest
BY SumOfCosts, SumOfNets DEF LedgerInv, HoldingsAreSound, Balanced, CashConserved, LedgerIsHonest

LEMMA LedgerInit == Init => LedgerInv
<1> SUFFICES ASSUME Init PROVE LedgerInv
  OBVIOUS
<1>1. /\ DOMAIN positions = {} /\ DOMAIN lastBar = {} /\ trades = {} /\ cash = Capital
      /\ execution \in Executions
  BY DEF Init, Empty
<1>2. HoldingsAreSound /\ TradesAreSound /\ FillsAreQuoted
  BY <1>1, FS_EmptySet, ExecutionAssumption DEF HoldingsAreSound, TradesAreSound, FillsAreQuoted
<1>3. Balanced
  BY <1>1, SumOfNothing, ExecutionAssumption DEF Balanced
<1> QED
  BY <1>2, <1>3 DEF LedgerInv

LEMMA CostIs ==
  ASSUME LedgerInv
  PROVE  /\ IsFiniteSet(DOMAIN positions)
         /\ \A s \in DOMAIN positions : Costs[s] = Paid(positions[s]) /\ Costs[s] \in Nat
         /\ Sum(Costs, DOMAIN positions) \in Int
         /\ IsFiniteSet(trades) /\ (\A t \in trades : Nets[t] = t.net /\ Nets[t] \in Int)
         /\ Sum(Nets, trades) \in Int
<1>1. IsFiniteSet(DOMAIN positions) /\ IsFiniteSet(trades)
  BY SymbolsAssumption, FS_Subset DEF LedgerInv, HoldingsAreSound, TradesAreSound
<1>2. ASSUME NEW s \in DOMAIN positions PROVE Costs[s] = Paid(positions[s]) /\ Costs[s] \in Nat
  <2>1. positions[s].quantity * positions[s].price \in Nat
    BY DEF LedgerInv, HoldingsAreSound
  <2> QED
    BY <2>1, FeeIs DEF Costs, Paid
<1>3. \A t \in trades : Nets[t] = t.net /\ Nets[t] \in Int
  BY DEF LedgerInv, TradesAreSound, Nets
<1>4. Sum(Costs, DOMAIN positions) \in Int /\ Sum(Nets, trades) \in Int
  BY <1>1, <1>2, <1>3, SumType
<1> QED
  BY <1>1, <1>2, <1>3, <1>4

(* Closing a position turns its cost into cash and the difference into a trade. *)
LEMMA CloseKeepsLedger ==
  ASSUME Dated, LedgerInv, NEW s \in DOMAIN positions, NEW raw, NEW signal,
         raw \in lastBar[s].bar.low .. lastBar[s].bar.high,
         Close(s, raw, lastBar[s].date, signal),
         UNCHANGED <<execution, lastBar, pendingEntries>>
  PROVE  LedgerInv'
<1> DEFINE exit == lastBar[s].date
           notional == positions[s].quantity * Sell(raw)
           gain == notional - Fee(notional)
           new == [symbol |-> s, entrySignal |-> positions[s].signal,
                   entry |-> positions[s].entry, exitSignal |-> signal, exit |-> exit,
                   price |-> Sell(raw), net |-> gain - Paid(positions[s])]
<1>1. /\ s \in DOMAIN lastBar /\ lastBar[s].bar \in Bars /\ s \notin DOMAIN pendingEntries
      /\ positions[s].entry \in Nat /\ positions[s].entry <= exit /\ exit \in Nat
  BY DEF Dated, BarsAreDated, PositionsAreDated, Disjoint, LedgerInv, HoldingsAreSound
<1>2. /\ Sell(raw) \in Nat
      /\ Sell(raw) \in Sell(lastBar[s].bar.low) .. Sell(lastBar[s].bar.high)
  BY <1>1, BarIs, SellIs
<1>3. gain \in Nat
  <2>1. notional \in Nat
    BY <1>2 DEF LedgerInv, HoldingsAreSound
  <2> HIDE DEF notional
  <2> QED
    BY <2>1, FeeIs
<1>4. /\ cash' = cash + gain /\ trades' = trades \cup {new}
      /\ DOMAIN positions' = DOMAIN positions \ {s}
      /\ \A r \in DOMAIN positions \ {s} : positions'[r] = positions[r]
  <2>1. positions' = Without(positions, s) /\ trades' = trades \cup {new}
    BY DEF Close
  <2>2. cash' = cash + notional - Fee(notional)
    BY DEF Close
  <2>3. cash \in Nat /\ notional \in Nat /\ Fee(notional) \in Int
    <3>1. notional \in Nat
      BY <1>2 DEF LedgerInv, HoldingsAreSound
    <3> HIDE DEF notional
    <3> QED
      BY <3>1, FeeIs DEF LedgerInv, HoldingsAreSound
  <2> HIDE DEF notional, new
  <2> QED
    BY <2>1, <2>2, <2>3, WithoutOne
<1>5. Costs[s] = Paid(positions[s]) /\ Paid(positions[s]) \in Nat
  BY CostIs
<1>6. /\ new.symbol = s /\ new.entry = positions[s].entry /\ new.exit = exit
      /\ new.price = Sell(raw) /\ new.net = gain - Paid(positions[s])
  OBVIOUS
<1> HIDE DEF new, gain
<1>7. new \notin trades
  BY <1>1, <1>6 DEF LedgerInv, TradesAreSound
<1>8. HoldingsAreSound'
  BY <1>3, <1>4 DEF LedgerInv, HoldingsAreSound
<1>9. TradesAreSound'
  <2>1. IsFiniteSet(trades')
    BY <1>4, CostIs, FS_AddElement
  <2>2. ASSUME NEW t \in trades'
        PROVE  /\ t.net \in Int /\ t.entry \in Nat /\ t.exit \in Nat /\ t.entry <= t.exit
               /\ t.symbol \in DOMAIN lastBar' /\ t.exit <= lastBar'[t.symbol].date
               /\ t.symbol \in DOMAIN positions' => t.exit < positions'[t.symbol].entry
               /\ t.symbol \in DOMAIN pendingEntries' => t.exit <= pendingEntries'[t.symbol]
    <3>1. CASE t \in trades
      BY <1>4, <3>1 DEF LedgerInv, TradesAreSound
    <3>2. CASE t = new
      BY <1>1, <1>3, <1>4, <1>5, <1>6, <3>2
    <3> QED
      BY <1>4, <3>1, <3>2
  <2> QED
    BY <2>1, <2>2 DEF TradesAreSound
<1>10. FillsAreQuoted'
  <2> SUFFICES ASSUME NEW t \in trades', lastBar'[t.symbol].date = t.exit
               PROVE  t.price \in Sell(lastBar'[t.symbol].bar.low) .. Sell(lastBar'[t.symbol].bar.high)
    BY DEF FillsAreQuoted
  <2>1. CASE t \in trades
    BY <2>1 DEF LedgerInv, FillsAreQuoted
  <2>2. CASE t = new
    BY <1>2, <1>6, <2>2
  <2> QED
    BY <1>4, <2>1, <2>2
<1>11. Sum(Costs', DOMAIN positions') = Sum(Costs, DOMAIN positions) - Paid(positions[s])
  <2> DEFINE D == DOMAIN positions
             rest == D \ {s}
  <2>1. IsFiniteSet(rest) /\ \A r \in rest : Costs[r] \in Int
    BY CostIs, FS_Subset
  <2>2. Sum(Costs, D) = Costs[s] + Sum(Costs, rest)
    BY CostIs, SumSplit
  <2>3. \A r \in rest : Costs'[r] = Costs[r]
    BY <1>4 DEF Costs
  <2>4. Sum(Costs', rest) = Sum(Costs, rest) /\ Sum(Costs, rest) \in Int
    <3> HIDE DEF rest
    <3> QED
      BY <2>1, <2>3, SumEqual, SumType
  <2> QED
    BY <1>4, <1>5, <2>2, <2>4
<1>12. Sum(Nets', trades') = Sum(Nets, trades) + new.net
  <2>1. (\A t \in trades : Nets'[t] = Nets[t]) /\ Nets'[new] = new.net /\ new.net \in Int
    BY <1>3, <1>4, <1>5, <1>6 DEF Nets
  <2>2. Sum(Nets', trades \cup {new}) = new.net + Sum(Nets', trades)
    BY <1>7, <2>1, CostIs, SumWith
  <2>3. Sum(Nets', trades) = Sum(Nets, trades)
    BY <2>1, CostIs, SumEqual
  <2> QED
    BY <1>4, <2>1, <2>2, <2>3, CostIs
<1>13. Balanced'
  <2> DEFINE held == Sum(Costs, DOMAIN positions)
             made == Sum(Nets, trades)
             paid == Paid(positions[s])
  <2>1. /\ held \in Int /\ made \in Int /\ paid \in Int /\ gain \in Int
        /\ cash \in Int /\ Capital \in Int
    BY <1>3, <1>5, CostIs, ExecutionAssumption DEF LedgerInv, HoldingsAreSound
  <2>2. cash + held = Capital + made
    BY DEF LedgerInv, Balanced
  <2>3. /\ cash' = cash + gain /\ Sum(Costs', DOMAIN positions') = held - paid
        /\ Sum(Nets', trades') = made + (gain - paid)
    BY <1>4, <1>6, <1>11, <1>12
  <2> HIDE DEF held, made, paid
  <2>4. (cash + gain) + (held - paid) = Capital + (made + (gain - paid))
    BY <2>1, <2>2
  <2> QED
    BY <2>3, <2>4 DEF Balanced
<1> QED
  BY <1>8, <1>9, <1>10, <1>13 DEF LedgerInv

LEMMA ExitAtOpenKeepsLedger ==
  ASSUME NEW s \in Symbols, Dated, LedgerInv, ExitAtOpen(s) PROVE LedgerInv'
<1>1. s \in DOMAIN positions /\ s \in DOMAIN lastBar /\ lastBar[s].date = date
  BY DEF ExitAtOpen, ExitsDue, Dated, ExitsAreDated, BarsAreDated
<1>2. /\ Close(s, lastBar[s].bar.open, lastBar[s].date, pendingExits[s])
      /\ UNCHANGED <<execution, lastBar, pendingEntries>>
  BY <1>1 DEF ExitAtOpen
<1>3. lastBar[s].bar.open \in lastBar[s].bar.low .. lastBar[s].bar.high
  BY <1>1, BarIs DEF LedgerInv, HoldingsAreSound
<1> QED
  BY <1>1, <1>2, <1>3, CloseKeepsLedger

LEMMA RiskExitKeepsLedger ==
  ASSUME NEW s \in Symbols, Dated, LedgerInv, RiskExit(s) PROVE LedgerInv'
<1>1. /\ s \in DOMAIN positions /\ s \in DOMAIN lastBar /\ lastBar[s].date = date
      /\ AtRisk(positions[s], lastBar[s].bar)
  BY DEF RiskExit, RisksDue, Dated, BarsAreDated
<1>2. /\ Close(s, RiskFill(positions[s], lastBar[s].bar), lastBar[s].date, None)
      /\ UNCHANGED <<execution, lastBar, pendingEntries>>
  BY <1>1 DEF RiskExit
<1>3. RiskFill(positions[s], lastBar[s].bar) \in lastBar[s].bar.low .. lastBar[s].bar.high
  BY <1>1, RiskFillIsQuoted DEF LedgerInv, HoldingsAreSound
<1> QED
  BY <1>1, <1>2, <1>3, CloseKeepsLedger

LEMMA CloseOutKeepsLedger ==
  ASSUME NEW s \in Symbols, Dated, LedgerInv, CloseOut(s) PROVE LedgerInv'
<1>1. /\ s \in DOMAIN positions /\ s \in DOMAIN lastBar
      /\ Close(s, lastBar[s].bar.close, lastBar[s].date, None)
      /\ UNCHANGED <<execution, lastBar, pendingEntries>>
  BY DEF CloseOut, orders, Dated, PositionsAreDated
<1>2. lastBar[s].bar.close \in lastBar[s].bar.low .. lastBar[s].bar.high
  BY <1>1, BarIs DEF LedgerInv, HoldingsAreSound
<1> QED
  BY <1>1, <1>2, CloseKeepsLedger

(* What is bought is paid from the cash, fee included. *)
LEMMA EnterAtOpenKeepsLedger ==
  ASSUME NEW s \in Symbols, Dated, LedgerInv, EnterAtOpen(s) PROVE LedgerInv'
<1> DEFINE fill == Buy(lastBar[s].bar.open)
           quantity == Quantity(fill)
           position == [signal |-> pendingEntries[s], entry |-> date, price |-> fill,
                        quantity |-> quantity, held |-> 0]
<1>1. /\ s \in DOMAIN pendingEntries /\ s \in DOMAIN lastBar /\ lastBar[s].bar \in Bars
      /\ pendingEntries[s] \in Nat /\ date \in Nat
      /\ pendingEntries' = Without(pendingEntries, s)
      /\ UNCHANGED <<execution, lastBar, trades>>
  BY DEF EnterAtOpen, EntriesDue, account, Dated, BarsAreDated, EntriesAreDated, LedgerInv,
         HoldingsAreSound
<1>2. /\ DOMAIN pendingEntries' = DOMAIN pendingEntries \ {s}
      /\ \A r \in DOMAIN pendingEntries \ {s} : pendingEntries'[r] = pendingEntries[r]
  BY <1>1, WithoutOne
<1>3. FillsAreQuoted'
  BY <1>1 DEF LedgerInv, FillsAreQuoted
<1>4. CASE UNCHANGED account
  <2>1. UNCHANGED <<cash, positions, trades>>
    BY <1>4 DEF account
  <2>2. HoldingsAreSound'
    BY <1>1, <2>1 DEF LedgerInv, HoldingsAreSound
  <2>3. TradesAreSound'
    BY <1>1, <1>2, <2>1 DEF LedgerInv, TradesAreSound
  <2>4. Balanced'
    BY <2>1 DEF LedgerInv, Balanced, Costs, Nets
  <2> QED
    BY <1>3, <2>2, <2>3, <2>4 DEF LedgerInv
<1>5. CASE ~ UNCHANGED account
  <2>1. /\ s \notin DOMAIN positions /\ pendingEntries[s] < date
        /\ cash' = cash - Paid(position)
        /\ positions' = [r \in DOMAIN positions \cup {s} |->
                           IF r = s THEN position ELSE positions[r]]
    BY <1>1, <1>5 DEF EnterAtOpen
  <2>2. fill \in Nat \ {0}
    <3>1. lastBar[s].bar.open \in Nat \ {0}
      BY <1>1, BarIs
    <3>2. Slippage \in {0, 1, 2, 3, 4, 5}
      BY ExecutionAssumption
    <3>3. Part(Slippage, lastBar[s].bar.open) \in Nat
      <4>1. Slippage \in 0..100 /\ lastBar[s].bar.open \in Nat
        BY <3>1, <3>2
      <4>2. Part(Slippage, lastBar[s].bar.open) \in 0..lastBar[s].bar.open
        BY <4>1, PartIs
      <4> QED
        BY <4>1, <4>2
    <3> QED
      BY <3>1, <3>3 DEF Buy
  <2>3. /\ quantity \in Nat /\ Paid(position) \in Nat /\ Paid(position) <= cash
    <3> DEFINE budget == Capital \div execution.positions
               money == Min({budget, cash})
    <3>1. budget \in Nat
      BY Division, ExecutionAssumption DEF LedgerInv, HoldingsAreSound
    <3>2. money \in Nat /\ money <= cash
      <4>1. cash \in Nat
        BY DEF LedgerInv, HoldingsAreSound
      <4> HIDE DEF budget
      <4> QED
        BY <3>1, <4>1, Pair
    <3>3. quantity = (100 * money) \div (fill * (100 + Cost))
      BY DEF Quantity
    <3>4. Paid(position) = quantity * fill + Fee(quantity * fill)
      BY DEF Paid
    <3>5. cash \in Nat
      BY DEF LedgerInv, HoldingsAreSound
    <3> HIDE DEF money, fill, quantity, position
    <3>6. /\ quantity \in Nat /\ quantity * fill \in Nat
          /\ quantity * fill + Fee(quantity * fill) <= money /\ Fee(quantity * fill) \in Nat
      BY <2>2, <3>2, <3>3, Affordable
    <3> QED
      BY <3>2, <3>4, <3>5, <3>6
  <2>4. /\ position.price = fill /\ position.quantity = quantity /\ position.entry = date
        /\ {"price", "quantity"} \subseteq DOMAIN position
    OBVIOUS
  <2> HIDE DEF position, quantity, fill
  <2>5. /\ DOMAIN positions' = DOMAIN positions \cup {s} /\ positions'[s] = position
        /\ \A r \in DOMAIN positions : positions'[r] = positions[r]
    BY <2>1
  <2>6. cash \in Nat /\ cash' \in Nat
    BY <2>1, <2>3 DEF LedgerInv, HoldingsAreSound
  <2>7. HoldingsAreSound'
    BY <1>1, <2>2, <2>3, <2>4, <2>5, <2>6 DEF LedgerInv, HoldingsAreSound
  <2>8. TradesAreSound'
    <3> SUFFICES ASSUME NEW t \in trades
                 PROVE  /\ t.symbol \in DOMAIN positions' => t.exit < positions'[t.symbol].entry
                        /\ t.symbol \in DOMAIN pendingEntries' =>
                             t.exit <= pendingEntries'[t.symbol]
      BY <1>1 DEF LedgerInv, TradesAreSound
    <3>1. CASE t.symbol = s
      BY <1>1, <1>2, <2>1, <2>4, <2>5, <3>1 DEF LedgerInv, TradesAreSound
    <3>2. CASE t.symbol # s
      BY <1>2, <2>5, <3>2 DEF LedgerInv, TradesAreSound
    <3> QED
      BY <3>1, <3>2
  <2>9. Sum(Costs', DOMAIN positions') = Paid(position) + Sum(Costs, DOMAIN positions)
    <3>1. Costs'[s] = Paid(position) /\ \A r \in DOMAIN positions : Costs'[r] = Costs[r]
      BY <2>5 DEF Costs
    <3>2. Sum(Costs', DOMAIN positions \cup {s}) = Costs'[s] + Sum(Costs', DOMAIN positions)
      BY <2>1, <2>3, <3>1, CostIs, SumWith
    <3>3. Sum(Costs', DOMAIN positions) = Sum(Costs, DOMAIN positions)
      BY <3>1, CostIs, SumEqual
    <3> QED
      BY <2>5, <3>1, <3>2, <3>3
  <2>10. Balanced'
    <3> DEFINE bought == Sum(Costs, DOMAIN positions)
               made == Sum(Nets, trades)
               paid == Paid(position)
    <3>1. bought \in Int /\ made \in Int /\ paid \in Int /\ Capital \in Int
      BY <2>3, CostIs, ExecutionAssumption
    <3>2. cash + bought = Capital + made
      BY DEF LedgerInv, Balanced
    <3>3. cash' = cash - paid /\ Sum(Costs', DOMAIN positions') = paid + bought
          /\ Sum(Nets', trades') = made
      BY <1>1, <2>1, <2>9 DEF Nets
    <3> HIDE DEF bought, made, paid
    <3>4. (cash - paid) + (paid + bought) = Capital + made
      BY <2>6, <3>1, <3>2
    <3> QED
      BY <3>3, <3>4 DEF Balanced
  <2> QED
    BY <1>3, <2>7, <2>8, <2>10 DEF LedgerInv
<1> QED
  BY <1>4, <1>5

LEMMA SignalsAtCloseKeepsLedger == Dated /\ LedgerInv /\ SignalsAtClose => LedgerInv'
<1> SUFFICES ASSUME Dated, LedgerInv, SignalsAtClose PROVE LedgerInv'
  OBVIOUS
<1> PICK fired \in SUBSET traded : pendingEntries' = Signalled(pendingEntries, Entering(fired))
  BY DEF SignalsAtClose
<1>1. UNCHANGED <<execution, date, lastBar, cash, trades>>
  BY DEF SignalsAtClose
<1>2. /\ DOMAIN positions' = DOMAIN positions
      /\ \A s \in DOMAIN positions :
           positions'[s] = IF s \in traded THEN [positions[s] EXCEPT !.held = @ + 1]
                                           ELSE positions[s]
  BY DEF SignalsAtClose
<1>3. \A s \in DOMAIN positions :
        /\ positions'[s].price = positions[s].price
        /\ positions'[s].quantity = positions[s].quantity
        /\ positions'[s].entry = positions[s].entry
        /\ DOMAIN positions'[s] = DOMAIN positions[s]
  BY <1>2 DEF Dated, PositionsAreDated, LedgerInv, HoldingsAreSound
<1>4. /\ DOMAIN pendingEntries' = DOMAIN pendingEntries \cup Entering(fired)
      /\ \A s \in DOMAIN pendingEntries' :
           pendingEntries'[s] = IF s \in DOMAIN pendingEntries THEN pendingEntries[s] ELSE date
  BY DEF Signalled
<1>5. HoldingsAreSound' /\ FillsAreQuoted'
  BY <1>1, <1>2, <1>3 DEF LedgerInv, HoldingsAreSound, FillsAreQuoted
<1>6. TradesAreSound'
  <2> SUFFICES ASSUME NEW t \in trades
               PROVE  /\ t.symbol \in DOMAIN positions' => t.exit < positions'[t.symbol].entry
                      /\ t.symbol \in DOMAIN pendingEntries' =>
                           t.exit <= pendingEntries'[t.symbol]
    BY <1>1 DEF LedgerInv, TradesAreSound
  <2>1. t.symbol \in DOMAIN lastBar /\ t.exit <= lastBar[t.symbol].date /\ t.exit \in Nat
    BY DEF LedgerInv, TradesAreSound
  <2>2. lastBar[t.symbol].date \in Nat /\ lastBar[t.symbol].date <= date /\ date \in Nat
    BY <2>1 DEF Dated, BarsAreDated
  <2> QED
    BY <1>2, <1>3, <1>4, <2>1, <2>2 DEF LedgerInv, TradesAreSound
<1>7. Balanced'
  <2>1. \A s \in DOMAIN positions : Costs'[s] = Costs[s]
    BY <1>2, <1>3 DEF Costs, Paid
  <2>2. Sum(Costs', DOMAIN positions) = Sum(Costs, DOMAIN positions)
    BY <2>1, CostIs, SumEqual
  <2> QED
    BY <1>1, <1>2, <2>2 DEF LedgerInv, Balanced, Nets
<1> QED
  BY <1>5, <1>6, <1>7 DEF LedgerInv

LEMMA SessionKeepsLedger == Dated /\ LedgerInv /\ Session => LedgerInv'
<1> SUFFICES ASSUME Dated, LedgerInv, Session PROVE LedgerInv'
  OBVIOUS
<1> PICK today \in SUBSET Symbols : \E bars \in [today -> Bars] :
      lastBar' = [s \in DOMAIN lastBar \cup today |->
                    IF s \in today THEN [date |-> date', bar |-> bars[s]] ELSE lastBar[s]]
  BY DEF Session
<1> PICK bars \in [today -> Bars] :
      lastBar' = [s \in DOMAIN lastBar \cup today |->
                    IF s \in today THEN [date |-> date', bar |-> bars[s]] ELSE lastBar[s]]
  OBVIOUS
<1>1. UNCHANGED <<execution, cash, positions, trades, pendingEntries>> /\ date' = date + 1
  BY DEF Session, account, orders
<1>2. /\ DOMAIN lastBar' = DOMAIN lastBar \cup today
      /\ \A s \in today : lastBar'[s].date = date' /\ lastBar'[s].bar \in Bars
      /\ \A s \in DOMAIN lastBar \ today : lastBar'[s] = lastBar[s]
  OBVIOUS
<1>3. ASSUME NEW t \in trades
      PROVE  /\ t.symbol \in DOMAIN lastBar' /\ t.exit <= lastBar'[t.symbol].date
             /\ t.symbol \in today => t.exit < lastBar'[t.symbol].date
  <2>1. t.symbol \in DOMAIN lastBar /\ t.exit <= lastBar[t.symbol].date /\ t.exit \in Nat
    BY DEF LedgerInv, TradesAreSound
  <2>2. lastBar[t.symbol].date \in Nat /\ lastBar[t.symbol].date <= date /\ date \in Nat
    BY <2>1 DEF Dated, BarsAreDated
  <2> QED
    BY <1>1, <1>2, <2>1, <2>2
<1>4. HoldingsAreSound'
  BY <1>1, <1>2 DEF LedgerInv, HoldingsAreSound
<1>5. TradesAreSound'
  BY <1>1, <1>3 DEF LedgerInv, TradesAreSound
<1>6. FillsAreQuoted'
  <2> SUFFICES ASSUME NEW t \in trades, lastBar'[t.symbol].date = t.exit
               PROVE  t.price \in Sell(lastBar'[t.symbol].bar.low) .. Sell(lastBar'[t.symbol].bar.high)
    BY <1>1 DEF FillsAreQuoted
  <2>1. t.symbol \in DOMAIN lastBar /\ t.exit \in Nat
    BY DEF LedgerInv, TradesAreSound
  <2>2. t.symbol \notin today
    <3>1. t.symbol \in today => t.exit < lastBar'[t.symbol].date
      BY <1>3
    <3>2. ~ t.exit < t.exit
      BY <2>1
    <3> QED
      BY <3>1, <3>2
  <2> QED
    BY <1>2, <2>1, <2>2 DEF LedgerInv, FillsAreQuoted
<1>7. Balanced'
  BY <1>1 DEF LedgerInv, Balanced, Costs, Nets
<1> QED
  BY <1>4, <1>5, <1>6, <1>7 DEF LedgerInv

LEMMA LedgerStep == Dated /\ LedgerInv /\ [Next]_vars => LedgerInv'
<1> SUFFICES ASSUME Dated, LedgerInv, [Next]_vars PROVE LedgerInv'
  OBVIOUS
<1>1. CASE UNCHANGED vars \/ PhaseEnds \/ Finish
  <2>1. UNCHANGED <<execution, lastBar, cash, positions, trades, pendingEntries>>
    BY <1>1 DEF vars, account, orders, PhaseEnds, Finish
  <2> QED
    BY <2>1 DEF LedgerInv, HoldingsAreSound, TradesAreSound, FillsAreQuoted, Balanced, Costs, Nets
<1> QED
  BY <1>1, SessionKeepsLedger, SignalsAtCloseKeepsLedger, ExitAtOpenKeepsLedger,
     EnterAtOpenKeepsLedger, RiskExitKeepsLedger, CloseOutKeepsLedger DEF Next

(* A replay's ledger is one a broker could have kept, for any stocks, bars and
   settings and any number of sessions: what was put in and what the trades made
   is the cash and the cost of what is held, to the last fee; nothing is bought
   on credit; and every sale is at a price of its day (BacktestEngine.run,
   _close_position, _risk_exit). *)
THEOREM LedgersAreHonest == Spec => []LedgerIsHonest
  BY DatedInit, DatedStep, LedgerInit, LedgerStep, LedgerIs, PTL DEF Spec

-----------------------------------------------------------------------------
(* StrategyData: no look-ahead.  A bar of a closed session is computed from the
   rows up to it, from who was a member in them, and from the articles that were
   known first in it; none of these is touched by what comes later. *)

DataInv ==
  /\ tape \in Seq([Listed -> SessionRows])
  /\ articles \in Seq([stock : Listed, session : Nat, late : BOOLEAN, score : Scores])
  /\ periods \in [Listed -> [from : Nat, to : Nat \cup {Absent}]]

LEMMA DataInvInit == DataInit => DataInv
BY DEF DataInit, DataInv

LEMMA DataInvStep == DataInv /\ [DataNext]_dataVars => DataInv'
<1> SUFFICES ASSUME DataInv, [DataNext]_dataVars PROVE DataInv'
  OBVIOUS
<1>0. Len(tape) \in Nat
  BY DEF DataInv
<1>1. CASE UNCHANGED dataVars
  BY <1>1 DEF DataInv, dataVars
<1>2. CASE SessionCloses
  <2>1. PICK rows \in [Listed -> SessionRows] : tape' = Append(tape, rows)
    BY <1>2 DEF SessionCloses
  <2>2. tape' \in Seq([Listed -> SessionRows]) /\ Len(tape') \in Nat
    <3>1. tape' \in Seq([Listed -> SessionRows])
      BY <2>1 DEF DataInv
    <3> QED
      BY <3>1
  <2>3. articles' \in Seq([stock : Listed, session : Nat, late : BOOLEAN, score : Scores])
    <3>1. CASE UNCHANGED articles
      BY <3>1 DEF DataInv
    <3>2. CASE ~ UNCHANGED articles
      <4>1. PICK s \in Listed, score \in Scores :
              articles' = Append(articles, Article(s, Len(tape'), FALSE, score))
        BY <1>2, <3>2 DEF SessionCloses
      <4>2. Article(s, Len(tape'), FALSE, score)
              \in [stock : Listed, session : Nat, late : BOOLEAN, score : Scores]
        BY <2>2 DEF Article
      <4> DEFINE Articles == [stock : Listed, session : Nat, late : BOOLEAN, score : Scores]
                 new == Article(s, Len(tape'), FALSE, score)
      <4>3. articles \in Seq(Articles) /\ new \in Articles /\ articles' = Append(articles, new)
        BY <4>1, <4>2 DEF DataInv
      <4> HIDE DEF Articles, new
      <4>4. articles' \in Seq(Articles)
        BY <4>3
      <4> QED
        BY <4>4 DEF Articles
    <3> QED
      BY <3>1, <3>2
  <2> QED
    BY <1>2, <2>2, <2>3 DEF DataInv, SessionCloses
<1>3. CASE PublishedLate
  <2>1. PICK s \in Listed, score \in Scores :
          articles' = Append(articles, Article(s, Len(tape), TRUE, score))
    BY <1>3 DEF PublishedLate
  <2>2. Article(s, Len(tape), TRUE, score)
          \in [stock : Listed, session : Nat, late : BOOLEAN, score : Scores]
    BY <1>0 DEF Article
  <2> DEFINE Articles == [stock : Listed, session : Nat, late : BOOLEAN, score : Scores]
             new == Article(s, Len(tape), TRUE, score)
  <2>3. articles \in Seq(Articles) /\ new \in Articles /\ articles' = Append(articles, new)
    BY <2>1, <2>2 DEF DataInv
  <2> HIDE DEF Articles, new
  <2>4. articles' \in Seq(Articles)
    BY <2>3
  <2>5. articles' \in Seq([stock : Listed, session : Nat, late : BOOLEAN, score : Scores])
    BY <2>4 DEF Articles
  <2> QED
    BY <1>3, <2>5 DEF DataInv, PublishedLate
<1>4. ASSUME NEW s \in Listed, Leaves(s) PROVE DataInv'
  <2>1. periods' = [periods EXCEPT ![s].to = Len(tape) + 1] /\ UNCHANGED <<tape, articles>>
    BY <1>4 DEF Leaves
  <2> DEFINE n == Len(tape) + 1
  <2>2. n \in Nat
    BY <1>0
  <2> HIDE DEF n
  <2>3. periods' = [periods EXCEPT ![s].to = n]
    BY <2>1 DEF n
  <2> QED
    BY <2>1, <2>2, <2>3 DEF DataInv
<1> QED
  BY <1>1, <1>2, <1>3, <1>4 DEF DataNext

(* The first n sessions, and who was a member in them, stay. *)
PastStays(n) ==
  /\ n \in Nat /\ n <= Len(tape) /\ Len(tape) <= Len(tape')
  /\ \A k \in 1..n : tape'[k] = tape[k]
  /\ \A k \in 1..n, s \in Listed : Eligible(s, k)' <=> Eligible(s, k)

(* What a bar of session d is computed from looks at sessions up to d only. *)
LEMMA EarlierStays ==
  ASSUME NEW n, PastStays(n), NEW d \in 1..n, NEW s
  PROVE  Earlier(s, d)' = Earlier(s, d)
<1> DEFINE held == {<<k, tape[k][s]>> : k \in {j \in 1..(d - 1) : tape[j][s] # Absent}}
           new == {<<k, tape'[k][s]>> : k \in {j \in 1..(d - 1) : tape'[j][s] # Absent}}
           order(S) == [i \in 1..Cardinality(S) |->
                         (CHOOSE p \in S : Cardinality({q \in S : q[1] >= p[1]}) = i)[2]]
<1>1. \A j \in 1..(d - 1) : tape'[j][s] = tape[j][s]
  <2>1. \A j \in 1..(d - 1) : j \in 1..n
    BY DEF PastStays
  <2> QED
    BY <2>1 DEF PastStays
<1>2. new = held
  BY <1>1
<1>3. Earlier(s, d) = order(held)
  BY DEF Earlier
<1>4. Earlier(s, d)' = order(new)
  BY DEF Earlier
<1> HIDE DEF held, new, order
<1> QED
  BY <1>2, <1>3, <1>4

LEMMA ChangeStays ==
  ASSUME NEW n, PastStays(n), NEW d \in 1..n, NEW s, NEW k
  PROVE  Change(s, d, k)' = Change(s, d, k) /\ VolumeRatio(s, d)' = VolumeRatio(s, d)
<1>1. Earlier(s, d)' = Earlier(s, d) /\ tape'[d] = tape[d]
  BY EarlierStays DEF PastStays
<1> QED
  BY <1>1 DEF Change, VolumeRatio, Median

LEMMA ComputedStays ==
  ASSUME NEW n, PastStays(n), NEW d \in 1..n
  PROVE  Computed(d)' = Computed(d)
<1>1. \A s \in Listed : (Eligible(s, d)' <=> Eligible(s, d)) /\ tape'[d][s] = tape[d][s]
  BY DEF PastStays
<1> QED
  BY <1>1 DEF Computed

LEMMA MomentumStays ==
  ASSUME NEW n, PastStays(n), NEW d \in 1..n, NEW x
  PROVE  SectorMomentum(x, d)' = SectorMomentum(x, d)
<1> DEFINE known == {s \in Computed(d) : Industry[s] = x /\ Change(s, d, Lookback) # Absent}
           new == {s \in Computed(d)' : Industry[s] = x /\ Change(s, d, Lookback)' # Absent}
           f == [s \in known |-> Change(s, d, Lookback)]
           g == [s \in new |-> Change(s, d, Lookback)']
<1>1. Computed(d)' = Computed(d) /\ \A s : Change(s, d, Lookback)' = Change(s, d, Lookback)
  BY ComputedStays, ChangeStays
<1>2. new = known
  BY <1>1
<1>3. g = f
  BY <1>1, <1>2
<1>4. SectorMomentum(x, d) = IF known = {} THEN Absent ELSE Mean(f)
  BY DEF SectorMomentum
<1>5. SectorMomentum(x, d)' = IF new = {} THEN Absent ELSE Mean(g)
  BY DEF SectorMomentum, Mean, MapThenSumSet, MapThenFoldSet
<1> HIDE DEF known, new, f, g
<1> QED
  BY <1>2, <1>3, <1>4, <1>5

LEMMA BreadthStays ==
  ASSUME NEW n, PastStays(n), NEW d \in 1..n
  PROVE  BreadthPercent(d)' = BreadthPercent(d)
<1> DEFINE moved == {s \in Computed(d) : Change(s, d, 1) # Absent}
           up == {s \in moved : Change(s, d, 1) > 0}
           moved2 == {s \in Computed(d)' : Change(s, d, 1)' # Absent}
           up2 == {s \in moved2 : Change(s, d, 1)' > 0}
<1>1. Computed(d)' = Computed(d) /\ \A s : Change(s, d, 1)' = Change(s, d, 1)
  BY ComputedStays, ChangeStays
<1>2. moved2 = moved
  BY <1>1
<1>3. up2 = up
  <2> HIDE DEF moved, moved2
  <2> QED
    BY <1>1, <1>2
<1>4. BreadthPercent(d) = IF moved = {} THEN Absent
                          ELSE (Cardinality(up) * 100) \div Cardinality(moved)
  BY DEF BreadthPercent
<1>5. BreadthPercent(d)' = IF moved2 = {} THEN Absent
                           ELSE (Cardinality(up2) * 100) \div Cardinality(moved2)
  BY DEF BreadthPercent
<1> HIDE DEF moved, moved2, up, up2
<1> QED
  BY <1>2, <1>3, <1>4, <1>5

LEMMA BarsStay ==
  ASSUME NEW n, PastStays(n), NEW d \in 1..n, \A s : Sentiment(s, d)' = Sentiment(s, d)
  PROVE  SessionBars(d)' = SessionBars(d)
<1> DEFINE bars(rows, C, breadth, momentum(_), ratio(_), news(_)) ==
             [s \in C |->
               [close |-> rows[s].close, rsi |-> rows[s].rsi, volume_ratio |-> ratio(s),
                sector_momentum |-> [x \in {Industry[t] : t \in C} |-> momentum(x)][Industry[s]],
                market_breadth |-> breadth, market_regime |-> RegimeOf(breadth),
                news_sentiment |-> news(s)]]
<1>1. Computed(d)' = Computed(d) /\ BreadthPercent(d)' = BreadthPercent(d) /\ tape'[d] = tape[d]
  BY ComputedStays, BreadthStays DEF PastStays
<1>2. \A x : SectorMomentum(x, d)' = SectorMomentum(x, d)
  BY MomentumStays
<1>3. \A s : VolumeRatio(s, d)' = VolumeRatio(s, d)
  BY ChangeStays
<1> QED
  BY <1>1, <1>2, <1>3 DEF SessionBars, RegimeOf


(* KnownAt over a given set of sessions *)
KnownIn(S, a) ==
  LET later == {d \in S : d > a.session \/ (d = a.session /\ ~a.late)}
  IN  IF later = {} THEN Absent ELSE Min(later)

(* Sentiment over a given set of sessions and list of articles *)
KnownOf(S, list, s, d) == {i \in DOMAIN list : list[i].stock = s /\ KnownIn(S, list[i]) = d}

SentimentOf(S, list, s, d) ==
  IF KnownOf(S, list, s, d) = {} THEN Absent
  ELSE Mean([i \in KnownOf(S, list, s, d) |-> list[i].score])

(* When an article is known: the first of its later sessions. *)
LEMMA KnownInIs ==
  ASSUME NEW n \in Nat, NEW S, S \subseteq 1..n, NEW a, NEW d \in 1..n
  PROVE  KnownIn(S, a) = d
           <=> /\ d \in S /\ (d > a.session \/ (d = a.session /\ ~a.late))
               /\ \A e \in S : e > a.session \/ (e = a.session /\ ~a.late) => d <= e
<1> DEFINE P(e) == e > a.session \/ (e = a.session /\ ~a.late)
           later == {e \in S : P(e)}
<1>1. KnownIn(S, a) = IF later = {} THEN Absent ELSE Min(later)
  BY DEF KnownIn
<1> HIDE DEF P
<1>2. d \in Int /\ Absent # d
  BY StrategyDataAssumption
<1>3. CASE later = {}
  <2>1. ~ (d \in S /\ P(d))
    BY <1>3
  <2> QED
    BY <1>1, <1>2, <1>3, <2>1 DEF P
<1>4. CASE later # {}
  <2>1. later \subseteq 1..n /\ later \subseteq Int
    <3>1. later \subseteq 1..n
      OBVIOUS
    <3>2. 1..n \subseteq Int
      OBVIOUS
    <3> QED
      BY ONLY <3>1, <3>2
  <2>2. IsFiniteSet(later)
    <3>1. IsFiniteSet(1..n)
      BY FS_Interval
    <3> QED
      BY <2>1, <3>1, FS_Subset
  <2> HIDE DEF later
  <2>3. Min(later) \in later /\ \A y \in later : Min(later) <= y
    BY <2>1, <2>2, <1>4, Smallest
  <2>4. Min(later) = d <=> d \in later /\ \A e \in later : d <= e
    <3> DEFINE m == Min(later)
    <3>1. m \in later /\ \A y \in later : m <= y
      BY <2>3
    <3> HIDE DEF m
    <3>2. m = d <=> d \in later /\ \A e \in later : d <= e
      BY ONLY <1>2, <2>1, <3>1
    <3> QED
      BY <3>2 DEF m
  <2>5. Min(later) = d <=> (d \in S /\ P(d)) /\ \A e \in S : P(e) => d <= e
    BY <2>4 DEF later
  <2> QED
    BY <1>1, <1>4, <2>5 DEF P
<1> QED
  BY <1>3, <1>4

(* T has the sessions of S, and perhaps one more. *)
Extends(T, S, n) ==
  n \in Nat /\ S \subseteq 1..n /\ T \subseteq 1..(n + 1) /\ \A e \in 1..n : e \in T <=> e \in S

(* One session more changes nothing about the sessions before it. *)
LEMMA KnownStays ==
  ASSUME NEW n, NEW S, NEW T, Extends(T, S, n), NEW a, NEW d \in 1..n
  PROVE  KnownIn(T, a) = d <=> KnownIn(S, a) = d
<1>0. n \in Nat /\ S \subseteq 1..n /\ T \subseteq 1..(n + 1) /\ \A e \in 1..n : e \in T <=> e \in S
  BY DEF Extends
<1> DEFINE P(e) == e > a.session \/ (e = a.session /\ ~a.late)
<1>1. KnownIn(S, a) = d <=> (d \in S /\ P(d)) /\ \A e \in S : P(e) => d <= e
  BY <1>0, KnownInIs
<1>2. n + 1 \in Nat /\ d \in 1..(n + 1)
  BY <1>0
<1>3. KnownIn(T, a) = d <=> (d \in T /\ P(d)) /\ \A e \in T : P(e) => d <= e
  BY ONLY <1>0, <1>2, KnownInIs
<1> HIDE DEF P
<1>4. \A e \in T : e \in 1..n \/ e = n + 1
  BY <1>0
<1>5. \A e \in S : e \in 1..n
  BY <1>0
<1>6. d <= n + 1
  BY <1>0
<1>7. (\A e \in T : P(e) => d <= e) <=> (\A e \in S : P(e) => d <= e)
  BY <1>0, <1>4, <1>5, <1>6
<1> QED
  BY <1>0, <1>1, <1>3, <1>7

(* The two sides of a step, over the sessions and articles of each. *)
LEMMA SentimentIs ==
  ASSUME NEW s, NEW d
  PROVE  /\ Sentiment(s, d) = SentimentOf(Sessions, articles, s, d)
         /\ Sentiment(s, d)' = SentimentOf(Sessions', articles', s, d)
<1>1. Sentiment(s, d) = SentimentOf(Sessions, articles, s, d)
  BY DEF Sentiment, SentimentOf, KnownOf, KnownAt, KnownIn
<1>2. Sentiment(s, d)' = SentimentOf(Sessions', articles', s, d)
  BY DEF Sentiment, SentimentOf, KnownOf, KnownAt, KnownIn, Mean, MapThenSumSet, MapThenFoldSet, Min
<1> QED
  BY <1>1, <1>2

LEMMA SentimentOfStays ==
  ASSUME NEW S, NEW T, NEW p, NEW q, NEW s, NEW d,
         KnownOf(T, q, s, d) = KnownOf(S, p, s, d),
         \A i \in KnownOf(S, p, s, d) : q[i] = p[i]
  PROVE  SentimentOf(T, q, s, d) = SentimentOf(S, p, s, d)
BY DEF SentimentOf

(* No step touches a recorded session, or who was a member in it: who leaves, leaves
   from the next session on. *)
LEMMA PastIsKept == DataInv /\ [DataNext]_dataVars => PastStays(Len(tape))
<1> SUFFICES ASSUME DataInv, [DataNext]_dataVars PROVE PastStays(Len(tape))
  OBVIOUS
<1> DEFINE n == Len(tape)
<1>1. tape \in Seq([Listed -> SessionRows]) /\ n \in Nat
  BY DEF DataInv
<1>2. CASE UNCHANGED <<tape, periods>>
  BY <1>1, <1>2 DEF PastStays, Eligible
<1>3. CASE SessionCloses
  <2>1. PICK rows \in [Listed -> SessionRows] : tape' = Append(tape, rows)
    BY <1>3 DEF SessionCloses
  <2>2. Len(tape') = n + 1 /\ \A k \in 1..n : tape'[k] = tape[k]
    BY <1>1, <2>1
  <2>3. UNCHANGED periods
    BY <1>3 DEF SessionCloses
  <2>4. n <= Len(tape')
    BY <1>1, <2>2
  <2>5. \A k \in 1..n, s \in Listed : Eligible(s, k)' <=> Eligible(s, k)
    BY <2>3 DEF Eligible
  <2> QED
    BY <1>1, <2>2, <2>4, <2>5 DEF PastStays
<1>4. ASSUME NEW s \in Listed, Leaves(s) PROVE PastStays(n)
  <2>1. periods[s].to = Absent /\ periods' = [periods EXCEPT ![s].to = n + 1] /\ tape' = tape
    BY <1>4 DEF Leaves
  <2>2. periods \in [Listed -> [from : Nat, to : Nat \cup {Absent}]]
    BY DEF DataInv
  <2>3. n + 1 # Absent
    BY <1>1, StrategyDataAssumption
  <2>4. periods'[s].from = periods[s].from /\ periods'[s].to = n + 1
        /\ \A t \in Listed : t # s => periods'[t] = periods[t]
    BY <2>1, <2>2
  <2>5. ASSUME NEW k \in 1..n, NEW t \in Listed PROVE Eligible(t, k)' <=> Eligible(t, k)
    <3>1. CASE t = s
      <4>1. k < n + 1
        BY <1>1
      <4> QED
        BY <2>1, <2>3, <2>4, <3>1, <4>1 DEF Eligible
    <3>2. CASE t # s
      BY <2>4, <3>2 DEF Eligible
    <3> QED
      BY <3>1, <3>2
  <2> QED
    BY <1>1, <2>1, <2>5 DEF PastStays
<1> QED
  BY <1>2, <1>3, <1>4 DEF DataNext, PublishedLate, dataVars

(* Nothing published after the close of session n is known first in a session up to n,
   and what was published before stays known in the same one. *)
LEMMA KnownArticlesStay ==
  ASSUME DataInv, [DataNext]_dataVars, NEW d \in 1..Len(tape), NEW s
  PROVE  /\ KnownOf(Sessions', articles', s, d) = KnownOf(Sessions, articles, s, d)
         /\ \A i \in DOMAIN articles : articles'[i] = articles[i]
<1> DEFINE n == Len(tape)
           m == Len(articles)
<1>1. n \in Nat /\ m \in Nat /\ tape \in Seq([Listed -> SessionRows]) /\ DOMAIN tape = 1..n
      /\ DOMAIN articles = 1..m /\ d \in 1..n
  BY DEF DataInv
<1>2. PastStays(n)
  BY PastIsKept
<1>3. Sessions \subseteq 1..n
  BY <1>1 DEF Sessions
<1>4. DOMAIN tape' = 1..Len(tape') /\ (Len(tape') = n \/ Len(tape') = n + 1)
  <2>1. CASE UNCHANGED tape
    BY <1>1, <2>1
  <2>2. CASE SessionCloses
    BY <1>1, <2>2 DEF SessionCloses
  <2> QED
    BY <2>1, <2>2 DEF DataNext, PublishedLate, Leaves, dataVars
<1>5. Sessions' \subseteq 1..Len(tape') /\ Sessions' \subseteq 1..(n + 1)
  <2>1. Sessions' \subseteq 1..Len(tape')
    BY <1>4 DEF Sessions
  <2>2. 1..Len(tape') \subseteq 1..(n + 1)
    <3> DEFINE k == Len(tape')
    <3>1. n \in Nat /\ (k = n \/ k = n + 1)
      BY <1>1, <1>4
    <3> HIDE DEF n, k
    <3>2. 1..k \subseteq 1..(n + 1)
      BY ONLY <3>1
    <3> QED
      BY <3>2 DEF k
  <2> QED
    BY ONLY <2>1, <2>2
<1>6. \A e \in 1..n : e \in Sessions' <=> e \in Sessions
  <2> SUFFICES ASSUME NEW e \in 1..n PROVE e \in Sessions' <=> e \in Sessions
    OBVIOUS
  <2>1. Computed(e)' = Computed(e)
    BY <1>2, ComputedStays
  <2>2. e \in DOMAIN tape /\ e \in DOMAIN tape'
    <3> DEFINE k == Len(tape')
    <3>1. n \in Nat /\ (k = n \/ k = n + 1) /\ e \in 1..n
      BY <1>1, <1>4
    <3> HIDE DEF n, k
    <3>2. e \in 1..k
      BY ONLY <3>1
    <3> QED
      BY <1>1, <1>4, <3>2 DEF k
  <2> QED
    BY <2>1, <2>2 DEF Sessions
<1>7. \A a : KnownIn(Sessions', a) = d <=> KnownIn(Sessions, a) = d
  <2> DEFINE S == Sessions
             T == Sessions'
  <2>1. Extends(T, S, n) /\ d \in 1..n
    BY <1>1, <1>3, <1>5, <1>6 DEF Extends
  <2> HIDE DEF n, S, T
  <2>2. \A a : KnownIn(T, a) = d <=> KnownIn(S, a) = d
    BY ONLY <2>1, KnownStays
  <2> QED
    BY <2>2 DEF S, T
<1>8. \/ articles' = articles
      \/ \E a : /\ articles' = Append(articles, a)
                /\ KnownIn(Sessions', a) # d
  <2>1. CASE ~ SessionCloses /\ ~ PublishedLate
    BY <2>1 DEF DataNext, Leaves, dataVars
  <2>2. CASE SessionCloses /\ ~ UNCHANGED articles
    <3>1. Len(tape') = n + 1
      BY <1>1, <2>2 DEF SessionCloses
    <3>2. PICK t \in Listed, score \in Scores :
            articles' = Append(articles, Article(t, Len(tape'), FALSE, score))
      BY <2>2 DEF SessionCloses
    <3> DEFINE a == Article(t, Len(tape'), FALSE, score)
    <3>3. a.session = n + 1
      BY <3>1 DEF Article
    <3> HIDE DEF a, n
    <3>4. ~ (d > a.session) /\ d # a.session
      BY ONLY <1>1, <3>3
    <3>5. ~ (d > a.session \/ (d = a.session /\ ~a.late))
      BY <3>4
    <3>6. n + 1 \in Nat /\ d \in 1..(n + 1)
      BY <1>1
    <3>7. KnownIn(Sessions', a) # d
      BY ONLY <1>5, <3>5, <3>6, KnownInIs
    <3> QED
      BY <3>2, <3>7 DEF a
  <2>3. CASE PublishedLate
    <3>1. PICK t \in Listed, score \in Scores :
            articles' = Append(articles, Article(t, Len(tape), TRUE, score))
      BY <2>3 DEF PublishedLate
    <3> DEFINE a == Article(t, Len(tape), TRUE, score)
    <3>2. a.session = n /\ a.late
      BY DEF Article
    <3> HIDE DEF a, n
    <3>3. ~ (d > a.session)
      BY ONLY <1>1, <3>2
    <3>4. ~ (d > a.session \/ (d = a.session /\ ~a.late))
      BY <3>2, <3>3
    <3>5. n + 1 \in Nat /\ d \in 1..(n + 1)
      BY <1>1
    <3>6. KnownIn(Sessions', a) # d
      BY ONLY <1>5, <3>4, <3>5, KnownInIs
    <3> QED
      BY <3>1, <3>6 DEF a
  <2> QED
    BY <2>1, <2>2, <2>3
<1>9. CASE articles' = articles
  <2>1. \A i \in DOMAIN articles' : KnownIn(Sessions', articles'[i]) = d
                                    <=> KnownIn(Sessions, articles'[i]) = d
    BY <1>7
  <2> QED
    BY <1>9, <2>1 DEF KnownOf
<1>10. ASSUME NEW a, articles' = Append(articles, a), KnownIn(Sessions', a) # d
       PROVE  /\ KnownOf(Sessions', articles', s, d) = KnownOf(Sessions, articles, s, d)
              /\ \A i \in DOMAIN articles : articles'[i] = articles[i]
  <2>1. /\ DOMAIN articles' = 1..(m + 1)
        /\ \A i \in 1..m : articles'[i] = articles[i]
        /\ articles'[m + 1] = a
    BY <1>1, <1>10 DEF DataInv
  <2>2. ASSUME NEW i \in 1..(m + 1), KnownIn(Sessions', articles'[i]) = d PROVE i \in 1..m
    <3>1. i # m + 1
      BY <1>10, <2>1, <2>2
    <3> QED
      BY <1>1, <3>1
  <2>3. \A i \in 1..m : i \in 1..(m + 1)
    BY <1>1
  <2>4. \A i \in 1..m : KnownIn(Sessions', articles'[i]) = d <=> KnownIn(Sessions, articles[i]) = d
    BY <1>7, <2>1
  <2> HIDE DEF n, m
  <2>5. KnownOf(Sessions', articles', s, d)
          = {i \in 1..(m + 1) : articles'[i].stock = s /\ KnownIn(Sessions', articles'[i]) = d}
    BY <2>1 DEF KnownOf
  <2>6. KnownOf(Sessions, articles, s, d)
          = {i \in 1..m : articles[i].stock = s /\ KnownIn(Sessions, articles[i]) = d}
    BY <1>1 DEF KnownOf
  <2>7. {i \in 1..(m + 1) : articles'[i].stock = s /\ KnownIn(Sessions', articles'[i]) = d}
          = {i \in 1..m : articles[i].stock = s /\ KnownIn(Sessions, articles[i]) = d}
    BY <2>1, <2>2, <2>3, <2>4
  <2> QED
    BY <1>1, <2>1, <2>5, <2>6, <2>7
<1> QED
  BY <1>8, <1>9, <1>10

(* No look-ahead: once a session has closed its bars stay as they are, whatever later
   sessions, articles and membership changes bring. *)
THEOREM BarsStayPointInTime == DataInit /\ [][DataNext]_dataVars => BarsArePointInTime
<1>1. DataInit => DataInv
  BY DataInvInit
<1>2. DataInv /\ [DataNext]_dataVars => DataInv'
  BY DataInvStep
<1>3. DataInv /\ [DataNext]_dataVars
        => [\A d \in DOMAIN tape : SessionBars(d)' = SessionBars(d)]_dataVars
  <2> SUFFICES ASSUME DataInv, [DataNext]_dataVars, NEW d \in DOMAIN tape
               PROVE  SessionBars(d)' = SessionBars(d)
    OBVIOUS
  <2>1. d \in 1..Len(tape) /\ PastStays(Len(tape))
    BY PastIsKept DEF DataInv
  <2>2. ASSUME NEW s PROVE Sentiment(s, d)' = Sentiment(s, d)
    <3>1. KnownOf(Sessions', articles', s, d) = KnownOf(Sessions, articles, s, d)
      BY <2>1, KnownArticlesStay
    <3>2. \A i \in KnownOf(Sessions, articles, s, d) : articles'[i] = articles[i]
      BY <2>1, KnownArticlesStay DEF KnownOf
    <3>3. SentimentOf(Sessions', articles', s, d) = SentimentOf(Sessions, articles, s, d)
      BY <3>1, <3>2, SentimentOfStays
    <3> QED
      BY <3>3, SentimentIs
  <2> QED
    BY <2>1, <2>2, BarsStay
<1> QED
  BY <1>1, <1>2, <1>3, PTL DEF BarsArePointInTime

-----------------------------------------------------------------------------
(* StrategyData: the rule language.  A rule's value is found from the rules inside it,
   so what holds of every condition and carries over from the rules inside a group to
   the group holds of every rule: a least set of rules, closed under the rules inside
   them, in which it failed would have an outermost one to take away. *)

Closed(R) == \A r \in R : Inside(r) \subseteq R

Rest(R, outer) == {r \in R : r # outer}

(* A least set of the family has an outermost rule, and is no longer in the family
   without it. *)
LEMMA Outermost ==
  ASSUME NEW F, F \subseteq SUBSET RuleSet, F # {}, {} \notin F, \A R \in F : Closed(R)
  PROVE  \E R \in F : \E outer \in R :
           /\ Inside(outer) \subseteq Rest(R, outer)
           /\ Closed(Rest(R, outer)) /\ Rest(R, outer) \notin F
<1>1. PICK R \in F : \A U \in F : U \subseteq R => U = R
  <2>1. F \in SUBSET SUBSET RuleSet /\ IsFiniteSet(RuleSet)
    BY RulesAssumption
  <2> QED
    BY ONLY <2>1, F # {}, LeastSet
<1>2. R \in SUBSET RuleSet /\ R # {} /\ Closed(R)
  OBVIOUS
<1>3. PICK outer \in R : \A rule \in R : outer \notin Inside(rule)
  BY <1>2, RulesAssumption
<1>4. Rest(R, outer) \subseteq R /\ Rest(R, outer) # R
  BY DEF Rest
<1>5. \A r \in R : Inside(r) \subseteq Rest(R, outer)
  BY <1>2, <1>3 DEF Closed, Rest
<1>6. Closed(Rest(R, outer))
  BY <1>4, <1>5 DEF Closed
<1>7. Rest(R, outer) \notin F
  BY <1>1, <1>4
<1> QED
  BY <1>5, <1>6, <1>7

Term(r, v, bar) ==
  IF IsGroup(r) THEN Group(r.operator, {v[inner] : inner \in Inside(r)}) ELSE Condition(r, bar)

(* v gives every rule of R its value, by the recursion of Evaluate. *)
Values(v, R, bar) == v = [r \in R |-> Term(r, v, bar)]

LEMMA TermIs ==
  ASSUME NEW r, NEW v, NEW w, NEW bar, \A inner \in Inside(r) : v[inner] = w[inner]
  PROVE  Term(r, v, bar) = Term(r, w, bar)
<1>1. {v[inner] : inner \in Inside(r)} = {w[inner] : inner \in Inside(r)}
  OBVIOUS
<1> QED
  BY <1>1 DEF Term

(* The recursion of Evaluate has a solution on every set of rules. *)
LEMMA ValuesExist == ASSUME NEW bar PROVE \E v : Values(v, RuleSet, bar)
<1> DEFINE F == {R \in SUBSET RuleSet : Closed(R) /\ \A v : ~ Values(v, R, bar)}
<1>1. SUFFICES ASSUME F # {} PROVE FALSE
  <2>1. Closed(RuleSet)
    BY RulesAssumption DEF Closed
  <2> QED
    BY <2>1
<1>2. {} \notin F
  <2>1. Values([r \in {} |-> Absent], {}, bar)
    BY DEF Values
  <2> QED
    BY <2>1
<1>3. PICK R \in F : \E outer \in R :
        /\ Inside(outer) \subseteq Rest(R, outer)
        /\ Closed(Rest(R, outer)) /\ Rest(R, outer) \notin F
  <2>1. F \subseteq SUBSET RuleSet /\ \A R \in F : Closed(R)
    OBVIOUS
  <2> HIDE DEF F
  <2> QED
    BY ONLY <1>1, <1>2, <2>1, Outermost
<1>4. PICK outer \in R :
        /\ Inside(outer) \subseteq Rest(R, outer)
        /\ Closed(Rest(R, outer)) /\ Rest(R, outer) \notin F
  BY <1>3
<1>5. PICK w : Values(w, Rest(R, outer), bar)
  <2>1. Rest(R, outer) \in SUBSET RuleSet
    BY DEF Rest
  <2> QED
    BY <1>4, <2>1
<1> DEFINE v == [r \in R |-> IF r = outer THEN Term(outer, w, bar) ELSE w[r]]
<1>6. \A r \in Rest(R, outer) : v[r] = w[r] /\ w[r] = Term(r, w, bar)
  BY <1>5 DEF Values, Rest
<1>7. \A r \in R : Inside(r) \subseteq Rest(R, outer)
  <2>1. \A r \in R : r # outer => r \in Rest(R, outer)
    BY DEF Rest
  <2> QED
    BY <1>4, <2>1 DEF Closed
<1>8. ASSUME NEW r \in R PROVE v[r] = Term(r, v, bar)
  <2>1. Term(r, v, bar) = Term(r, w, bar)
    <3>1. \A inner \in Inside(r) : v[inner] = w[inner]
      BY <1>6, <1>7
    <3> HIDE DEF v
    <3> QED
      BY <3>1, TermIs
  <2>2. v[r] = Term(r, w, bar)
    <3>1. CASE r = outer
      BY <3>1
    <3>2. CASE r # outer
      BY <1>6, <3>2 DEF Rest
    <3> QED
      BY <3>1, <3>2
  <2> QED
    BY <2>1, <2>2
<1>9. Values(v, R, bar)
  <2>1. v = [r \in R |-> v[r]]
    OBVIOUS
  <2> HIDE DEF v
  <2>2. [r \in R |-> v[r]] = [r \in R |-> Term(r, v, bar)]
    BY <1>8
  <2> QED
    BY <2>1, <2>2 DEF Values
<1> QED
  BY <1>9

ValuesOf(bar) == CHOOSE v : Values(v, RuleSet, bar)

LEMMA EvaluateIs ==
  ASSUME NEW bar, NEW rule \in RuleSet
  PROVE  /\ Evaluate(rule, bar) = ValuesOf(bar)[rule]
         /\ Evaluate(rule, bar) = Term(rule, ValuesOf(bar), bar)
<1>1. Evaluate(rule, bar) = ValuesOf(bar)[rule]
  BY DEF Evaluate, ValuesOf, Values, Term
<1>2. Values(ValuesOf(bar), RuleSet, bar)
  BY ValuesExist DEF ValuesOf
<1>3. ValuesOf(bar)[rule] = Term(rule, ValuesOf(bar), bar)
  BY <1>2 DEF Values
<1> QED
  BY <1>1, <1>3

(* A bar agrees with another on what it has. *)
Completes(whole, bar) == \A f \in Fields : bar[f] # Absent => whole[f] = bar[f]

LEMMA ConditionKeeps ==
  ASSUME NEW rule, rule.field \in Fields, NEW bar, NEW whole, Completes(whole, bar),
         Condition(rule, bar) # Absent
  PROVE  Condition(rule, whole) = Condition(rule, bar)
<1>1. bar[rule.field] # Absent
  BY DEF Condition
<1>2. whole[rule.field] = bar[rule.field]
  BY <1>1 DEF Completes
<1> QED
  BY <1>2 DEF Condition

(* Three values: what a group says without the conditions it has no data for, it says
   with them. *)
LEMMA GroupKeeps ==
  ASSUME NEW operator, NEW I, NEW v, NEW w, \A i \in I : v[i] # Absent => w[i] = v[i],
         Group(operator, {v[i] : i \in I}) # Absent
  PROVE  Group(operator, {w[i] : i \in I}) = Group(operator, {v[i] : i \in I})
<1> DEFINE V == {v[i] : i \in I}
           W == {w[i] : i \in I}
<1>1. (TRUE \in V => TRUE \in W) /\ (FALSE \in V => FALSE \in W)
  <2>1. Absent # TRUE /\ Absent # FALSE
    BY StrategyDataAssumption
  <2>2. ASSUME NEW x \in V, x # Absent PROVE x \in W
    BY <2>2
  <2> HIDE DEF V, W
  <2> QED
    BY <2>1, <2>2
<1>2. Absent \notin V => W = V
  <2> SUFFICES ASSUME Absent \notin V PROVE W = V
    OBVIOUS
  <2>1. \A i \in I : w[i] = v[i]
    OBVIOUS
  <2> QED
    BY <2>1
<1>3. Group(operator, V) # Absent
  OBVIOUS
<1> HIDE DEF V, W
<1>4. Group(operator, W) = Group(operator, V)
  <2>1. CASE Absent \notin V
    BY <1>2, <2>1
  <2>2. CASE Absent \in V /\ operator = "AND"
    <3>1. FALSE \in V
      BY <1>3, <2>2 DEF Group
    <3> QED
      BY <1>1, <2>2, <3>1 DEF Group
  <2>3. CASE Absent \in V /\ operator = "OR"
    <3>1. TRUE \in V
      BY <1>3, <2>3 DEF Group
    <3> QED
      BY <1>1, <2>3, <3>1 DEF Group
  <2>4. CASE Absent \in V /\ operator # "AND" /\ operator # "OR"
    BY <1>3, <2>4 DEF Group
  <2> QED
    BY <2>1, <2>2, <2>3, <2>4
<1> QED
  BY <1>4 DEF V, W

(* What a rule says of a bar it says of every bar that completes it. *)
LEMMA EvaluateKeeps ==
  ASSUME NEW bar, NEW whole, Completes(whole, bar), NEW rule \in RuleSet,
         Evaluate(rule, bar) # Absent
  PROVE  Evaluate(rule, whole) = Evaluate(rule, bar)
<1> DEFINE v == ValuesOf(bar)
           w == ValuesOf(whole)
           Kept(r) == v[r] # Absent => w[r] = v[r]
           F == {R \in SUBSET RuleSet : Closed(R) /\ \E r \in R : ~ Kept(r)}
<1>1. \A r \in RuleSet : /\ Evaluate(r, bar) = v[r] /\ v[r] = Term(r, v, bar)
                         /\ Evaluate(r, whole) = w[r] /\ w[r] = Term(r, w, whole)
  BY EvaluateIs
<1> HIDE DEF v, w
<1>2. SUFFICES ASSUME ~ Kept(rule) PROVE FALSE
  BY <1>1
<1>3. RuleSet \in F
  <2>1. Closed(RuleSet)
    BY RulesAssumption DEF Closed
  <2> HIDE DEF Kept
  <2> QED
    BY <1>2, <2>1
<1>4. {} \notin F
  OBVIOUS
<1>5. F \subseteq SUBSET RuleSet /\ \A R \in F : Closed(R)
  OBVIOUS
<1>6. PICK R \in F : \E outer \in R :
        /\ Inside(outer) \subseteq Rest(R, outer)
        /\ Closed(Rest(R, outer)) /\ Rest(R, outer) \notin F
  <2> HIDE DEF F
  <2> QED
    BY ONLY <1>3, <1>4, <1>5, Outermost
<1>7. PICK outer \in R :
        /\ Inside(outer) \subseteq Rest(R, outer)
        /\ Closed(Rest(R, outer)) /\ Rest(R, outer) \notin F
  BY <1>6
<1>8. \A r \in Rest(R, outer) : Kept(r)
  <2> HIDE DEF Kept
  <2>1. Rest(R, outer) \in SUBSET RuleSet
    BY DEF Rest
  <2> QED
    BY <1>7, <2>1
<1>9. ~ Kept(outer)
  <2> HIDE DEF Kept
  <2>1. PICK r \in R : ~ Kept(r)
    OBVIOUS
  <2>2. r = outer
    BY <1>8, <2>1 DEF Rest
  <2> QED
    BY <2>1, <2>2
<1>10. outer \in RuleSet /\ Term(outer, v, bar) # Absent /\ Term(outer, w, whole) # Term(outer, v, bar)
  BY <1>1, <1>9
<1>11. CASE IsGroup(outer)
  <2>1. \A inner \in Inside(outer) : v[inner] # Absent => w[inner] = v[inner]
    BY <1>7, <1>8
  <2>2. Term(outer, v, bar) = Group(outer.operator, {v[inner] : inner \in Inside(outer)})
    BY <1>11 DEF Term
  <2>3. Term(outer, w, whole) = Group(outer.operator, {w[inner] : inner \in Inside(outer)})
    BY <1>11 DEF Term
  <2> HIDE DEF Kept, F
  <2> QED
    BY <1>10, <2>1, <2>2, <2>3, GroupKeeps
<1>12. CASE ~ IsGroup(outer)
  <2>1. outer.field \in Fields
    BY <1>10, <1>12, RulesAssumption
  <2>2. Term(outer, v, bar) = Condition(outer, bar) /\ Term(outer, w, whole) = Condition(outer, whole)
    BY <1>12 DEF Term
  <2> HIDE DEF Kept, F
  <2> QED
    BY <1>10, <2>1, <2>2, ConditionKeeps
<1> QED
  BY <1>11, <1>12

Filled(bar, r, n) == [bar EXCEPT !.rsi = r, !.news_sentiment = n]

LEMMA CompletionsAre ==
  ASSUME NEW bar
  PROVE  Completions(bar) =
           {Filled(bar, r, n) :
              r \in IF bar.rsi = Absent THEN {20, 80} ELSE {bar.rsi},
              n \in IF bar.news_sentiment = Absent THEN {-20, 0, 20} ELSE {bar.news_sentiment}}
BY DEF Completions, Filled

LEMMA CompletionsAgree ==
  ASSUME NEW s, NEW d, s \in DOMAIN SessionBars(d), NEW whole \in Completions(SessionBars(d)[s])
  PROVE  Completes(whole, SessionBars(d)[s])
<1> DEFINE bar == SessionBars(d)[s]
<1>1. PICK close, rsi, ratio, momentum, breadth, regime, sentiment :
        bar = [close |-> close, rsi |-> rsi, volume_ratio |-> ratio, sector_momentum |-> momentum,
               market_breadth |-> breadth, market_regime |-> regime, news_sentiment |-> sentiment]
  BY DEF SessionBars
<1>2. PICK r, n : /\ bar.rsi # Absent => r = bar.rsi
                  /\ bar.news_sentiment # Absent => n = bar.news_sentiment
                  /\ whole = Filled(bar, r, n)
  <2>1. whole \in Completions(bar)
    OBVIOUS
  <2> HIDE DEF bar
  <2> DEFINE A == IF bar.rsi = Absent THEN {20, 80} ELSE {bar.rsi}
             B == IF bar.news_sentiment = Absent THEN {-20, 0, 20} ELSE {bar.news_sentiment}
  <2>2. whole \in {Filled(bar, r, n) : r \in A, n \in B}
    BY <2>1, CompletionsAre
  <2>3. /\ \A r \in A : bar.rsi # Absent => r = bar.rsi
        /\ \A n \in B : bar.news_sentiment # Absent => n = bar.news_sentiment
    OBVIOUS
  <2> HIDE DEF A, B
  <2>4. PICK r \in A, n \in B : whole = Filled(bar, r, n)
    BY <2>2
  <2> QED
    BY <2>3, <2>4
<1> HIDE DEF bar
<1>3. Completes(whole, bar)
  BY <1>1, <1>2 DEF Completes, Fields, Filled
<1> QED
  BY <1>3 DEF bar

(* A signal that data supports stands whatever a missing field turns out to be. *)
THEOREM SignalsRestOnData == DataInit /\ [][DataNext]_dataVars => []SignalsNeedData
<1>1. SignalsNeedData
  BY CompletionsAgree, EvaluateKeeps DEF SignalsNeedData
<1> QED
  BY <1>1, PTL
===============================================================================
