----------------------------- MODULE StrategyData -----------------------------
(***************************************************************************)
(* What a replay sees: BacktestDataLoader (backend/app/strategy/data.py)   *)
(* and the rule language of engine.py.                                     *)
(*                                                                         *)
(* Sessions are numbered; a session is recorded at its close, and an       *)
(* article is known before the close of a session or after it.  Returns    *)
(* and sentiments are whole per cents.  The range starts at session 1 and  *)
(* ends at the latest; the mode is historical_membership, since            *)
(* current_universe says itself that it is not point in time.              *)
(***************************************************************************)
EXTENDS Integers, Sequences, FiniteSets, FiniteSetsExt

CONSTANTS
  Listed,         \* stocks
  Industry,       \* stock -> sector
  SessionRows,    \* what a session may record: [close, volume, rsi], or Absent
  Scores,         \* sentiment scores of articles
  RuleSet,        \* entry and exit rules of strategies, and the rules inside them
  Lookback,       \* the 20 sessions of momentum and of the volume median
  LastSession,    \* bound: sessions recorded
  MaxArticles,    \* bound: articles
  Absent          \* None

ASSUME StrategyDataAssumption ==
  /\ Lookback \in Nat \ {0} /\ Scores \subseteq Int /\ LastSession \in Nat /\ MaxArticles \in Nat
  /\ Absent \notin Int /\ Absent \notin BOOLEAN

VARIABLES
  tape,           \* session -> stock -> row
  articles,       \* [stock, session, late, score]
  periods         \* stock -> [from, to], to = Absent while it is a member

dataVars == <<tape, articles, periods>>

DataInit ==
  /\ tape = <<>> /\ articles = <<>>
  /\ periods = [s \in Listed |-> [from |-> 1, to |-> Absent]]

Article(s, session, late, score) ==
  [stock |-> s, session |-> session, late |-> late, score |-> score]

(* MarketIngestion and NewsIngestion: a session, and what was published by
   its close. *)
SessionCloses ==
  /\ Len(tape) < LastSession
  /\ \E rows \in [Listed -> SessionRows] : tape' = Append(tape, rows)
  /\ \/ UNCHANGED articles
     \/ /\ Len(articles) < MaxArticles
        /\ \E s \in Listed, score \in Scores :
             articles' = Append(articles, Article(s, Len(tape'), FALSE, score))
  /\ UNCHANGED periods

(* ... and what is published after the close of the latest session *)
PublishedLate ==
  /\ tape # <<>> /\ Len(articles) < MaxArticles
  /\ \E s \in Listed, score \in Scores :
       articles' = Append(articles, Article(s, Len(tape), TRUE, score))
  /\ UNCHANGED <<tape, periods>>

(* UniverseSync: a constituent leaves from the next session on. *)
Leaves(s) ==
  /\ tape # <<>> /\ periods[s].to = Absent
  /\ periods' = [periods EXCEPT ![s].to = Len(tape) + 1]
  /\ UNCHANGED <<tape, articles>>

DataNext == SessionCloses \/ PublishedLate \/ \E s \in Listed : Leaves(s)

-----------------------------------------------------------------------------
(* load *)

(* the rows of s before session d, the newest first *)
Earlier(s, d) ==
  LET held == {<<k, tape[k][s]>> : k \in {j \in 1..(d - 1) : tape[j][s] # Absent}}
  IN  [i \in 1..Cardinality(held) |->
        (CHOOSE p \in held : Cardinality({q \in held : q[1] >= p[1]}) = i)[2]]

Change(s, d, k) ==
  IF Len(Earlier(s, d)) < k THEN Absent
  ELSE LET then == Earlier(s, d)[k].close
       IN  ((tape[d][s].close - then) * 100) \div then

Median(f) ==
  LET n == Len(f)
      at(i) == CHOOSE x \in {f[k] : k \in 1..n} :
                 /\ Cardinality({k \in 1..n : f[k] < x}) < i
                 /\ Cardinality({k \in 1..n : f[k] <= x}) >= i
  IN  IF n % 2 = 1 THEN at((n + 1) \div 2) ELSE (at(n \div 2) + at(n \div 2 + 1)) \div 2

VolumeRatio(s, d) ==
  LET before == Earlier(s, d)
      median == Median([i \in 1..Lookback |-> before[i].volume])
  IN  IF Len(before) < Lookback THEN Absent
      ELSE IF median <= 0 THEN Absent ELSE (tape[d][s].volume * 100) \div median

Eligible(s, d) ==
  periods[s].from <= d /\ (periods[s].to = Absent \/ d < periods[s].to)

Computed(d) == {s \in Listed : tape[d][s] # Absent /\ Eligible(s, d)}

Sessions == {d \in DOMAIN tape : Computed(d) # {}}

Mean(f) == MapThenSumSet(LAMBDA x : f[x], DOMAIN f) \div Cardinality(DOMAIN f)

(* Mutation: the close of the session is not looked at. *)
BugKnownAt(a) ==
  LET later == {d \in Sessions : d >= a.session}
  IN  IF later = {} THEN Absent ELSE Min(later)

(* _point_in_time_news: the first session whose close comes after it *)
KnownAt(a) ==
  LET later == {d \in Sessions : d > a.session \/ (d = a.session /\ ~a.late)}
  IN  IF later = {} THEN Absent ELSE Min(later)

Sentiment(s, d) ==
  LET known == {i \in DOMAIN articles : articles[i].stock = s /\ KnownAt(articles[i]) = d}
  IN  IF known = {} THEN Absent ELSE Mean([i \in known |-> articles[i].score])

BreadthPercent(d) ==
  LET moved == {s \in Computed(d) : Change(s, d, 1) # Absent}
  IN  IF moved = {} THEN Absent
      ELSE (Cardinality({s \in moved : Change(s, d, 1) > 0}) * 100) \div Cardinality(moved)

RegimeOf(breadth) ==
  CASE breadth = Absent -> Absent
    [] breadth >= 60 -> "broad_positive"
    [] breadth <= 40 -> "broad_negative"
    [] OTHER -> "mixed"

SectorMomentum(x, d) ==
  LET known == {s \in Computed(d) : Industry[s] = x /\ Change(s, d, Lookback) # Absent}
  IN  IF known = {} THEN Absent ELSE Mean([s \in known |-> Change(s, d, Lookback)])

SessionBars(d) ==
  LET breadth == BreadthPercent(d)
      momentum == [x \in {Industry[s] : s \in Computed(d)} |-> SectorMomentum(x, d)]
  IN  [s \in Computed(d) |->
        [close |-> tape[d][s].close, rsi |-> tape[d][s].rsi, volume_ratio |-> VolumeRatio(s, d),
         sector_momentum |-> momentum[Industry[s]], market_breadth |-> breadth,
         market_regime |-> RegimeOf(breadth), news_sentiment |-> Sentiment(s, d)]]

-----------------------------------------------------------------------------
(* The rule language: TRUE, FALSE, or Absent *)

Fields ==
  {"rsi", "volume_ratio", "sector_momentum", "market_breadth", "market_regime", "news_sentiment"}

Condition(rule, bar) ==
  LET value == bar[rule.field] IN
  IF value = Absent THEN Absent
  ELSE CASE rule.operator = "is" -> value = rule.value
         [] rule.operator = "gt" -> value > rule.value
         [] rule.operator = "lte" -> value <= rule.value
         [] rule.operator = "between" -> rule.value <= value /\ value <= rule.upper_value

(* Mutation: a group ignores the conditions it has no data for. *)
BugGroup(operator, values) ==
  CASE operator = "AND" -> FALSE \notin values
    [] operator = "OR" -> TRUE \in values
    [] OTHER -> TRUE \notin values

Group(operator, values) ==
  CASE operator = "AND" -> IF FALSE \in values THEN FALSE
                           ELSE IF Absent \in values THEN Absent ELSE TRUE
    [] operator = "OR" -> IF TRUE \in values THEN TRUE
                          ELSE IF Absent \in values THEN Absent ELSE FALSE
    [] OTHER -> IF Absent \in values THEN Absent ELSE TRUE \notin values

IsGroup(rule) == "rules" \in DOMAIN rule

Inside(rule) == IF IsGroup(rule) THEN {rule.rules[i] : i \in DOMAIN rule.rules} ELSE {}

(* A condition names a field of a bar, and a group is no part of itself. *)
ASSUME RulesAssumption ==
  /\ IsFiniteSet(RuleSet)
  /\ \A rule \in RuleSet :
       /\ Inside(rule) \subseteq RuleSet
       /\ ~IsGroup(rule) => rule.field \in Fields
  /\ \A rules \in SUBSET RuleSet :
       rules # {} => \E outer \in rules : \A rule \in rules : outer \notin Inside(rule)

Evaluate(rule, bar) ==
  LET value[r \in RuleSet] ==
        IF IsGroup(r) THEN Group(r.operator, {value[inner] : inner \in Inside(r)})
        ELSE Condition(r, bar)
  IN  value[rule]

-----------------------------------------------------------------------------
(* No look-ahead: what later sessions, articles and membership changes bring
   never changes a bar of a session that has closed, although averages, ranks
   and news are assembled over the whole range at once. *)
BarsArePointInTime ==
  [][\A d \in DOMAIN tape : SessionBars(d)' = SessionBars(d)]_dataVars

(* A signal rests on data that is there.  If a rule is true or false of a bar
   with missing fields, it stays so whatever value a missing field takes:
   three-valued evaluation through nested AND, OR and NOT. *)
Completions(bar) ==
  {[bar EXCEPT !.rsi = r, !.news_sentiment = n] :
     r \in IF bar.rsi = Absent THEN {20, 80} ELSE {bar.rsi},
     n \in IF bar.news_sentiment = Absent THEN {-20, 0, 20} ELSE {bar.news_sentiment}}

SignalsNeedData ==
  \A d \in Sessions :
    LET bars == SessionBars(d) IN
    \A s \in DOMAIN bars, rule \in RuleSet :
      LET signal == Evaluate(rule, bars[s]) IN
      signal # Absent =>
        \A whole \in Completions(bars[s]) : Evaluate(rule, whole) = signal
===============================================================================
