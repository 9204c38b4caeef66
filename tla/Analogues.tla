------------------------------- MODULE Analogues -------------------------------
(***************************************************************************)
(* What the similarity index is computed from: the construction of market  *)
(* sessions out of stored rows (backend/app/history/session_builder.py,    *)
(* feature_engineering.py), their outcomes (service.py), and the search    *)
(* for similar ones with its statistics (similarity.py, embeddings.py).    *)
(* HistoryIndex models how an index is committed, published and cached.    *)
(*                                                                         *)
(* Returns are whole per cents.  Of the 25 features, one of each kind is   *)
(* kept: a capped mean, shares, a count over a threshold, a sector spread. *)
(***************************************************************************)
EXTENDS Integers, Sequences, FiniteSets, FiniteSetsExt

CONSTANTS
  Constituents,   \* stocks, numbered by id
  Segment,        \* stock -> sector, or NoRow
  DayRows,        \* what ingestion may store for a day: stock -> [close, volume] or NoRow
  Window,         \* 20: sessions of momentum, volatility and relative volume
  MinUsable,      \* MIN_USABLE_CONSTITUENTS
  MinCoverage,    \* MIN_CONSTITUENT_COVERAGE, in per cent
  MinSegments,    \* MIN_SECTOR_COVERAGE, in per cent
  ReturnCap,      \* RETURN_CAP, in per cent
  Horizon,        \* 5: sessions of the longer outcome
  TopK,           \* settings.history_top_k
  LastDay,        \* bound: days
  MaxGaps,        \* bound: days without complete macro data
  MaxChanges,     \* bound: memberships opened and closed
  NoRow           \* None

ASSUME AnaloguesAssumption ==
  /\ IsFiniteSet(Constituents)
  /\ DayRows \subseteq [Constituents -> [close : Nat, volume : Nat] \cup {NoRow}]
  /\ Window \in Nat \ {0} /\ MinUsable \in Nat \ {0} /\ MinSegments \in Nat \ {0}
  /\ MinCoverage \in Nat /\ ReturnCap \in Nat /\ Horizon \in Nat /\ TopK \in Nat
  /\ NoRow \notin Int /\ NoRow \notin [from : Nat, to : Nat \cup {NoRow}]

VARIABLES
  days,       \* stored rows: for each day, stock -> [close, volume] or NoRow
  macroDays,  \* days on which all four macro series have a return
  spans       \* index_memberships: stock -> [from, to], or NoRow

-----------------------------------------------------------------------------
(* _price_metrics and StockDay: what is known of a stock on a day. *)

(* the days up to d that have a row of s *)
RowDays(s, d) == {i \in 1..d : days[i][s] # NoRow}

PriorDays(s, d) == RowDays(s, d - 1)

LastOf(S, n) == {i \in S : Cardinality({j \in S : j >= i}) <= n}

(* the i-th smallest value of f *)
Ranked(f, i) ==
  CHOOSE x \in {f[k] : k \in DOMAIN f} :
    /\ Cardinality({k \in DOMAIN f : f[k] < x}) < i
    /\ Cardinality({k \in DOMAIN f : f[k] <= x}) >= i

(* twice the median *)
MedianTwice(f) ==
  LET n == Cardinality(DOMAIN f)
  IN  Ranked(f, (n + 1) \div 2) + Ranked(f, n \div 2 + 1)

MedianVolumeTwice(s, d) ==
  MedianTwice([i \in LastOf(PriorDays(s, d), Window) |-> days[i][s].volume])

(* the day's return has a base *)
HasReturn(s, d) == PriorDays(s, d) # {} /\ days[Max(PriorDays(s, d))][s].close > 0

(* StockDay.usable: a row today, a full window of rows and of returns before it, bases
   for return and momentum, and a median volume to compare with.  The indicators need
   no longer history. *)
Usable(s, d) ==
  /\ days[d][s] # NoRow
  /\ Cardinality(PriorDays(s, d)) >= Window
  /\ HasReturn(s, d)
  /\ days[Min(LastOf(PriorDays(s, d), Window))][s].close > 0
  /\ Cardinality({i \in RowDays(s, d) : HasReturn(s, i)}) >= Window
  /\ MedianVolumeTwice(s, d) > 0

RawReturn(s, d) ==
  (days[d][s].close * 100) \div days[Max(PriorDays(s, d))][s].close - 100

Elevated(s, d) == 4 * days[d][s].volume >= 3 * MedianVolumeTwice(s, d)   \* 1.5 times

(* MembershipResolver.for_date, for the memberships m *)
KnownFrom(m) == {m[s].from : s \in {t \in Constituents : m[t] # NoRow}}

Effective(m, d) == KnownFrom(m) # {} /\ d >= Min(KnownFrom(m))

(* Mutation: today's members stand for those of every day. *)
BugExpected(m, d) == {s \in Constituents : m[s] # NoRow => m[s].to = NoRow}

Expected(m, d) ==
  IF Effective(m, d)
  THEN {s \in Constituents : m[s] # NoRow /\ m[s].from <= d
                             /\ (m[s].to # NoRow => d < m[s].to)}
  ELSE Constituents

-----------------------------------------------------------------------------
(* compute_session_feature *)

Clip(x, limit) == Max({-limit, Min({limit, x})})

Total(f, S) == MapThenSumSet(LAMBDA s : f[s], S)

MeanOf(f, S) == Total(f, S) \div Cardinality(S)

Sectored(S) == {s \in S : Segment[s] # NoRow}

(* The reason a day is rejected for, or "none"; the tests in their order. *)
Rejection(m, d) ==
  LET expected == Expected(m, d)
      usable == {s \in expected : Usable(s, d)}
  IN  CASE expected = {} -> "no_expected_constituents"
        [] Cardinality(usable) < MinUsable -> "insufficient_constituents"
        [] Cardinality(usable) * 100 < MinCoverage * Cardinality(expected) -> "insufficient_coverage"
        [] Cardinality(Sectored(usable)) * 100 < MinSegments * Cardinality(usable)
             -> "insufficient_sector_coverage"
        [] d \notin macroDays -> "missing_macro_context"
        [] OTHER -> "none"

Kinds == 1..5

(* The vector <<mean return, advancers, decliners, elevated volumes, spread>>;
   shares are taken of the number of usable constituents, in per cent. *)
Features(m, d) ==
  LET usable == {s \in Expected(m, d) : Usable(s, d)}
      raw == [s \in usable |-> RawReturn(s, d)]
      capped == [s \in usable |-> Clip(raw[s], ReturnCap)]
      share(S) == (Cardinality(S) * 100) \div Cardinality(usable)
      means == {MeanOf(capped, {s \in usable : Segment[s] = x}) :
                  x \in {Segment[s] : s \in Sectored(usable)}}
  IN  <<MeanOf(capped, usable),
        share({s \in usable : raw[s] > 0}), share({s \in usable : raw[s] < 0}),
        share({s \in usable : Elevated(s, d)}), Max(means) - Min(means)>>

(* build, from the rows of the first n days: the candidates are the days with
   any price, and a rejected one keeps its place in their numbering. *)
Candidates(n) == {d \in 1..n : \E s \in Constituents : days[d][s] # NoRow}

Accepted(m, n) == {d \in Candidates(n) : Rejection(m, d) = "none"}

Place(S, d) == Cardinality({e \in S : e <= d})

Engineered(m, n) ==
  LET session(d) == [day |-> d, index |-> Place(Candidates(n), d), features |-> Features(m, d),
                     membership |-> IF Effective(m, d) THEN "effective" ELSE "proxy"]
  IN  [i \in 1..Cardinality(Accepted(m, n)) |->
        session(CHOOSE d \in Accepted(m, n) : Place(Accepted(m, n), d) = i)]

-----------------------------------------------------------------------------
(* _forward_outcome: the next session counts only if no candidate between was
   rejected; wealth is compounded in units of 1/100 per session. *)

(* Mutation: the next accepted session counts, however far away it is. *)
BugConsecutive(sessions, i, n) == i + n <= Len(sessions)

Consecutive(sessions, i, n) ==
  /\ i + n <= Len(sessions)
  /\ sessions[i + n].index = sessions[i].index + n

NextReturn(sessions, i) ==
  IF Consecutive(sessions, i, 1) THEN sessions[i + 1].features[1] ELSE NoRow

(* forward_5_session_return and drawdown *)
Wealth(sessions, i) ==
  LET after[n \in 0..Horizon] ==
        IF n = 0 THEN 100 ELSE (after[n - 1] * (100 + sessions[i + n].features[1])) \div 100
  IN  after

HorizonOutcome(sessions, i) ==
  IF \A n \in 1..Horizon : Consecutive(sessions, i, n)
  THEN LET w == Wealth(sessions, i) IN
       [return |-> w[Horizon] - 100,
        drawdown |-> Min({w[p[2]] - w[p[1]] :
                          p \in {q \in (0..Horizon) \X (0..Horizon) : q[1] <= q[2]}}),
        upside |-> Max({w[n] - 100 : n \in 0..Horizon})]
  ELSE NoRow

-----------------------------------------------------------------------------
(* Normalizer and FaissIndexStore: quartiles by linear interpolation, in 1/4. *)
Quartile(f, quarter) ==
  LET n == Cardinality(DOMAIN f)
      position == quarter * (n - 1)
      low == position \div 4 + 1
      high == Min({low + 1, n})
  IN  Ranked(f, low) * (4 - (position % 4)) + Ranked(f, high) * (position % 4)

(* Normalizer.transform, in tenths: a feature without spread does not count. *)
Normalized(column, v) ==
  LET scale == Quartile(column, 3) - Quartile(column, 1)
  IN  IF scale = 0 THEN 0 ELSE Clip(((4 * v - Quartile(column, 2)) * 10) \div scale, 80)

(* the vectors of the index: for each session, its normalized features *)
Space(sessions) ==
  LET column == [f \in Kinds |-> [j \in DOMAIN sessions |-> sessions[j].features[f]]]
  IN  [i \in DOMAIN sessions |->
        [f \in Kinds |-> Normalized(column[f], sessions[i].features[f])]]

(* squared L2 distance *)
Distance(u, v) == Total([f \in DOMAIN u |-> (u[f] - v[f]) * (u[f] - v[f])], DOMAIN u)

Closer(space, i, a, b) ==
  \/ Distance(space[i], space[a]) < Distance(space[i], space[b])
  \/ Distance(space[i], space[a]) = Distance(space[i], space[b]) /\ a < b

(* FaissIndexStore.search: the k nearest, ties in the order of insertion *)
Nearest(space, i, k) ==
  {a \in DOMAIN space : Cardinality({b \in DOMAIN space : Closer(space, i, b, a)}) < k}

(* Mutation: the session itself takes one of the k places. *)
BugSimilar(space, i) == Nearest(space, i, TopK) \ {i}

(* _search: k + 1 are asked for, the query's own session is dropped; among
   identical vectors it may not be one of them. *)
Similar(space, i) ==
  LET found == Nearest(space, i, TopK + 1) \ {i}
  IN  {a \in found : Cardinality({b \in found : Closer(space, i, b, a)}) < TopK}

(* compute_statistics over the outcomes of the neighbours that are known *)
Statistics(sessions, neighbours) ==
  LET outcome == [j \in neighbours |-> NextReturn(sessions, j)]
      known == {j \in neighbours : outcome[j] # NoRow}
      count(S) == Cardinality(S)
  IN  IF known = {} THEN [sample |-> 0, bullish |-> 0, bearish |-> 0, neutral |-> 0,
                          average |-> NoRow, best |-> NoRow, worst |-> NoRow]
      ELSE LET bullish == count({j \in known : outcome[j] > 0})
               bearish == count({j \in known : outcome[j] < 0})
           IN  [sample |-> count(known), bullish |-> bullish, bearish |-> bearish,
                neutral |-> count(known) - bullish - bearish,
                average |-> MeanOf(outcome, known),
                best |-> Max({outcome[j] : j \in known}),
                worst |-> Min({outcome[j] : j \in known})]

-----------------------------------------------------------------------------
memoryVars == <<days, macroDays, spans>>

AnaloguesInit ==
  /\ days = <<>>
  /\ macroDays = {}
  /\ spans = [s \in Constituents |-> NoRow]

(* An end-of-day run stores a session; a symbol or the macro data may fail. *)
StoreDay ==
  /\ Len(days) < LastDay
  /\ \E row \in DayRows : days' = Append(days, row)
  /\ \E complete \in BOOLEAN :
       /\ ~complete => Len(days) - Cardinality(macroDays) < MaxGaps
       /\ macroDays' = IF complete THEN macroDays \cup {Len(days) + 1} ELSE macroDays
  /\ UNCHANGED spans

(* Universe synchronization opens and closes memberships as of the next day. *)
Moves ==
  LET held == {s \in Constituents : spans[s] # NoRow}
  IN  Cardinality(held) + Cardinality({s \in held : spans[s].to # NoRow})

Join(s) ==
  /\ Moves < MaxChanges /\ spans[s] = NoRow
  /\ spans' = [spans EXCEPT ![s] = [from |-> Len(days) + 1, to |-> NoRow]]
  /\ UNCHANGED <<days, macroDays>>

Leave(s) ==
  /\ Moves < MaxChanges /\ spans[s] # NoRow /\ spans[s].to = NoRow /\ spans[s].from <= Len(days)
  /\ spans' = [spans EXCEPT ![s].to = Len(days) + 1]
  /\ UNCHANGED <<days, macroDays>>

AnaloguesNext == StoreDay \/ \E s \in Constituents : Join(s) \/ Leave(s)

-----------------------------------------------------------------------------
Sessions == Engineered(spans, Len(days))

(* The memberships as they were recorded when day n had been stored. *)
SpansAsOf(n) ==
  [s \in Constituents |->
     IF spans[s] = NoRow THEN NoRow
     ELSE IF spans[s].from > n + 1 THEN NoRow
     ELSE [spans[s] EXCEPT !.to = IF @ = NoRow THEN NoRow ELSE IF @ > n + 1 THEN NoRow ELSE @]]

(* History is not rewritten: a build of today contains every session that a
   build of any earlier day made, with the same features and, where it was
   known, the same outcome -- no later price, membership or session leaks into
   what an earlier date looked like. *)
HistoryIsPointInTime ==
  \A n \in 0..Len(days) :
    LET before == Engineered(SpansAsOf(n), n)
        after == Sessions
    IN  \A i \in DOMAIN before :
          /\ i \in DOMAIN after
          /\ before[i] = after[i]
          /\ NextReturn(before, i) \in {NoRow, NextReturn(after, i)}
          /\ HorizonOutcome(before, i) \in {NoRow, HorizonOutcome(after, i)}

(* An outcome is tomorrow's: it is known exactly when the next day that has
   prices was accepted, and it is that day's return, also after rejected days. *)
OutcomesAreTomorrows ==
  LET sessions == Sessions IN
  \A i \in DOMAIN sessions :
    LET later == {d \in sessions[i].day + 1..Len(days) : \E s \in Constituents : days[d][s] # NoRow}
    IN  NextReturn(sessions, i) =
          IF later = {} \/ Rejection(spans, Min(later)) # "none" THEN NoRow
          ELSE Features(spans, Min(later))[1]

(* Statistics speak of what is shown: a query of any session shows as many
   other sessions as there are, at most k, never itself; every session shown
   counts once, as bullish, bearish or neutral if its outcome is known. *)
StatisticsAreOfTheShown ==
  LET sessions == Sessions
      space == Space(sessions)
  IN
  \A i \in DOMAIN sessions :
    LET shown == Similar(space, i)
        s == Statistics(sessions, shown)
    IN  /\ i \notin shown
        /\ Cardinality(shown) = Min({TopK, Len(sessions) - 1})
        /\ s.sample = s.bullish + s.bearish + s.neutral
        /\ s.sample = Cardinality({j \in shown : NextReturn(sessions, j) # NoRow})
        /\ s.sample > 0 => s.worst <= s.average /\ s.average <= s.best
        /\ s.neutral >= 0

(* What market memory says of its analogues is about them, and about their next
   trading day. *)
AnaloguesAreHonest == OutcomesAreTomorrows /\ StatisticsAreOfTheShown
===============================================================================
