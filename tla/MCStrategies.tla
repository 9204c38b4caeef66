------------------------------ MODULE MCStrategies ------------------------------
(* TLC instances of the three parts of a backtest: what a replay is fed
   (StrategyData), the replay (BacktestEngine), and the rows that strategies and
   runs leave (Strategies).  Each takes the others' result as a value, so that
   they share no variable and a behaviour is about one of them, its subject. *)
EXTENDS BacktestEngine, Strategies, StrategyData, TLC

VARIABLE subject

StrategiesSumInit ==
  /\ subject \in {"data", "replay", "rows"}
  /\ DataInit /\ Init /\ StrategiesInit

StrategiesSumNext ==
  \/ subject = "data" /\ DataNext /\ UNCHANGED <<subject, vars, strategyVars>>
  \/ subject = "replay" /\ Next /\ UNCHANGED <<subject, dataVars, strategyVars>>
  \/ subject = "rows" /\ StrategiesNext /\ UNCHANGED <<subject, dataVars, vars>>

StrategiesSumSpec ==
  StrategiesSumInit /\ [][StrategiesSumNext]_<<subject, dataVars, vars, strategyVars>>

OneDay(open, high, low) == [open |-> open, high |-> high, low |-> low, close |-> open]

(* A quiet day, one that spans the stop and the target of a position bought on
   a quiet day, and gaps below its stop and above its target. *)
Days == {OneDay(20000, 20000, 20000), OneDay(20000, 50000, 10000),
         OneDay(8000, 12000, 8000), OneDay(60000, 60000, 10000)}

Settings ==
  {[positions |-> 1, stop |-> 50, take |-> 100, holding |-> 0],
   [positions |-> 2, stop |-> 50, take |-> 0, holding |-> 2]}

OneSector == [s \in Listed |-> "bank"]

(* Without a price, without an indicator, and with all of it. *)
RowsOfDay == {Absent, [close |-> 10, volume |-> 3, rsi |-> Absent],
              [close |-> 11, volume |-> 5, rsi |-> 80]}

BadNews == {-20}

Leaf(f, o, v) == [field |-> f, operator |-> o, value |-> v]
Compound(o, r) == [operator |-> o, rules |-> r]

NestedRules ==
  LET strong == Leaf("rsi", "gt", 50)
      bad == Leaf("news_sentiment", "lte", 0)
      broad == Leaf("market_regime", "is", "broad_positive")
      neither(r) == Compound("NOT", <<r>>)
      both == Compound("AND", <<strong, bad>>)
      either == Compound("OR", <<bad, broad>>)
  IN  {strong, bad, broad, both, either, neither(bad), neither(both), neither(either),
       Compound("AND", <<strong, neither(bad)>>), Compound("OR", <<broad, neither(both)>>),
       [field |-> "market_breadth", operator |-> "between", value |-> 40, upper_value |-> 70]}

Alike == Permutations(Listed)
===============================================================================
