----------------------------- MODULE MarketQueries -----------------------------
(***************************************************************************)
(* What the market pages say of the stored rows: MarketQueryService        *)
(* (backend/app/market/service.py), the window queries of                  *)
(* MarketRepository, signals.py and attribution.py.                        *)
(*                                                                         *)
(* The board holds for each stock its closes, newest first, and its latest *)
(* indicator row.  A percentage is a whole number of Scale; averages keep  *)
(* that unit.  Names, labels and observation texts are left out.           *)
(***************************************************************************)
EXTENDS Integers, Sequences, FiniteSets, FiniteSetsExt

CONSTANTS
  Stocks,         \* numbers: symbols in alphabetical order
  Sector,         \* stock -> sector, or Missing
  MacroSectors,   \* sectors with a macro-exposure rule
  Prices,         \* closing prices
  IndicatorRows,  \* what an indicator row may hold: <<ema_20, macd_histogram>>
  Week, Month,    \* the 5 and 20 sessions of the return windows
  Scale,          \* units of one per cent, times 100
  MaxSessions,    \* bound: closes of a stock
  Missing         \* None

ASSUME BoardAssumption ==
  /\ Stocks \subseteq Nat /\ IsFiniteSet(Stocks)
  /\ Prices \subseteq Nat \ {0} /\ MaxSessions \in Nat
  /\ Missing \notin Int /\ Missing \notin {"bullish", "bearish"}
  /\ \A row \in IndicatorRows : row[1] \in Int \cup {Missing} /\ row[2] \in Int \cup {Missing}
  /\ {Week, Month, Scale} \subseteq Nat \ {0} /\ Week < Month

VARIABLE board

Unpriced == [closes |-> <<>>, ema |-> Missing, hist |-> Missing]

BoardInit == board = [s \in Stocks |-> Unpriced]

(* MarketIngestion stores a session: an indicator row once it is defined. *)
Ingested(s) ==
  /\ Len(board[s].closes) < MaxSessions
  /\ \E close \in Prices :
     \E row \in IndicatorRows :
       board' = [board EXCEPT ![s] = [closes |-> <<close>> \o @.closes,
                                      ema |-> row[1], hist |-> row[2]]]

BoardNext == \E s \in Stocks : Ingested(s)

-----------------------------------------------------------------------------
(* Rows and averages: what is missing is not counted. *)

Total(f, S) == MapThenSumSet(LAMBDA s : f[s], S)

(* Mutation: a missing value counts as zero. *)
BugAverage(f, S) ==
  LET known == {s \in S : f[s] # Missing}
  IN  IF S = {} THEN Missing ELSE Total(f, known) \div Cardinality(S)

Average(f, S) ==
  LET known == {s \in S : f[s] # Missing}
  IN  IF known = {} THEN Missing ELSE Total(f, known) \div Cardinality(known)

(* get_return_windows, and _quote_from_prices for one session *)
Return(b, s, sessions) ==
  LET c == b[s].closes
  IN  IF Len(c) <= sessions THEN Missing
      ELSE ((c[1] - c[sessions + 1]) * Scale) \div c[sessions + 1]

Changes(b, S) == [s \in S |-> Return(b, s, 1)]

Known(f) == {s \in DOMAIN f : f[s] # Missing}

(* _breadth_from *)
Breadth(b, S) ==
  LET change == Changes(b, S)
      moved(P(_)) == Cardinality({s \in Known(change) : P(change[s])})
      up   == moved(LAMBDA x : x > 0)
      down == moved(LAMBDA x : x < 0)
  IN  [advancers |-> up, decliners |-> down, unchanged |-> moved(LAMBDA x : x = 0),
       total |-> Cardinality(Known(change)),
       ratio |-> IF down = 0 THEN Missing ELSE (up * Scale) \div down]

(* list.sort: by key, and stable: equal keys keep the order of the symbols *)
Before(key, reverse, s, t) ==
  \/ IF reverse THEN key[s] > key[t] ELSE key[s] < key[t]
  \/ key[s] = key[t] /\ s < t

Ranked(S, key, reverse) ==
  CHOOSE q \in [1..Cardinality(S) -> S] :
    \A i, j \in 1..Cardinality(S) : i < j => Before(key, reverse, q[i], q[j])

First(q, limit) == SubSeq(q, 1, IF Len(q) < limit THEN Len(q) ELSE limit)

Gainers(b, S, limit) ==
  LET change == Changes(b, S)
  IN  First(Ranked({s \in Known(change) : change[s] > 0}, change, TRUE), limit)

Losers(b, S, limit) ==
  LET change == Changes(b, S)
  IN  First(Ranked({s \in Known(change) : change[s] < 0}, change, FALSE), limit)

SectorsOf(S) == {Sector[s] : s \in S} \ {Missing}
InSector(S, x) == {s \in S : Sector[s] = x}

(* _sectors_from, get_sector_performance *)
Sectors(b, S) ==
  [x \in SectorsOf(S) |-> [count |-> Cardinality(InSector(S, x)),
                           average |-> Average(Changes(b, S), InSector(S, x))]]

(* sector_rotation_regime: rates per session, compared without division *)
Regime(one, five, twenty) ==
  LET o == one * Week * Month  f == five * Month  t == twenty * Week IN
  CASE o > f /\ f > t -> "improving"
    [] o < f /\ f < t -> "weakening"
    [] one > 0 /\ five > 0 /\ twenty > 0 -> "leader"
    [] one < 0 /\ five < 0 /\ twenty < 0 -> "laggard"
    [] OTHER -> "mixed"

(* _rotation_from: stocks with any stored close *)
Rotation(b, S) ==
  LET stored == {s \in S : b[s].closes # <<>>}
      window(x, k) == Average([s \in stored |-> Return(b, s, k)], InSector(stored, x))
      regime(x) ==
        IF Missing \in {window(x, 1), window(x, Week), window(x, Month)} THEN "unavailable"
        ELSE Regime(window(x, 1), window(x, Week), window(x, Month))
  IN  [x \in SectorsOf(stored) |-> [count |-> Cardinality(InSector(stored, x)),
                                    regime |-> regime(x)]]

(* Mutation: one falling indicator is enough. *)
BugTrend(b, s) ==
  LET row == b[s]
  IN  IF row.closes = <<>> \/ Missing \in {row.ema, row.hist} THEN Missing
      ELSE IF Head(row.closes) > row.ema /\ row.hist > 0 THEN "bullish"
      ELSE IF Head(row.closes) < row.ema \/ row.hist < 0 THEN "bearish"
      ELSE "mixed"

(* trend_signal *)
Trend(b, s) ==
  LET row == b[s]
  IN  IF row.closes = <<>> \/ Missing \in {row.ema, row.hist} THEN Missing
      ELSE IF Head(row.closes) > row.ema /\ row.hist > 0 THEN "bullish"
      ELSE IF Head(row.closes) < row.ema /\ row.hist < 0 THEN "bearish"
      ELSE "mixed"

(* _technical_summary_for: the stocks that have an indicator row *)
Technical(b, S) ==
  LET rows == {s \in S : b[s].ema # Missing \/ b[s].hist # Missing}
  IN  [rows |-> Cardinality(rows),
       above |-> Cardinality({s \in rows : b[s].ema # Missing /\ Head(b[s].closes) > b[s].ema}),
       positive |-> Cardinality({s \in rows : b[s].hist # Missing /\ b[s].hist > 0})]

(* _market_rows_from and _heatmap_from: the table and the map of the workspace *)
Rows(b, S) == [s \in S |-> [change |-> Return(b, s, 1), trend |-> Trend(b, s)]]

Heatmap(b, S) ==
  [s \in {t \in S : Sector[t] # Missing} |->
     [change |-> Return(b, s, 1), signal |-> Trend(b, s)]]

(* get_workspace: every panel from one read of the universe *)
Workspace(b, S) ==
  [stocks |-> Rows(b, S), breadth |-> Breadth(b, S), sectors |-> Sectors(b, S),
   technical |-> Technical(b, S), heatmap |-> Heatmap(b, S), rotation |-> Rotation(b, S)]

-----------------------------------------------------------------------------
(* get_movement_attribution *)

(* directional_view *)
Direction(value, band) ==
  IF value = Missing THEN "unavailable"
  ELSE IF value > band THEN "bullish"
  ELSE IF value < -band THEN "bearish" ELSE "neutral"

Signal(direction, confidence) == [direction |-> direction, confidence |-> confidence]

(* technical_view: one vote for each indicator that is there; 0.72 and 0.5 *)
TechnicalView(b, s) ==
  LET row == b[s]
      vote(up) == IF up THEN "bullish" ELSE "bearish"
      votes == (IF row.closes = <<>> \/ row.ema = Missing THEN {}
                ELSE {vote(Head(row.closes) >= row.ema)})
               \cup (IF row.hist = Missing THEN {} ELSE {vote(row.hist >= 0)})
  IN  IF votes = {} THEN Signal("unavailable", 0)
      ELSE IF Cardinality(votes) = 2 THEN Signal("neutral", 50)
      ELSE Signal(CHOOSE v \in votes : TRUE, 72)

(* The part of the analogue statistics: only those of the quote's own date. *)
HistoricalView(statistics, day) ==
  IF statistics.day # day THEN Signal("unavailable", 0)
  ELSE Signal(CASE statistics.bullish > 55 -> "bullish"
                [] statistics.bullish < 45 -> "bearish"
                [] OTHER -> "neutral", statistics.confidence)

NewsView(news) == Signal(Direction(news, 10), IF news = Missing THEN 0 ELSE 60)

SectorView(b, S, s) ==
  LET average == Average(Changes(b, S), InSector(S, Sector[s]))
  IN  Signal(Direction(average, (15 * Scale) \div 10000), IF average = Missing THEN 0 ELSE 80)

(* driver_values: what is said to have contributed, in its fixed order.  The
   macro rules know some sectors; a corporate action speaks with the news. *)
Drivers(b, S, s, news, corporate, volume, statistics) ==
  LET market == Average(Changes(b, S), {t \in S : Sector[t] # Missing})
      there(given, direction, confidence) ==
        IF given THEN Signal(direction, confidence) ELSE Signal("unavailable", 0)
  IN  <<NewsView(news), SectorView(b, S, s),
        there(market # Missing, Direction(market, (15 * Scale) \div 10000), 70),
        TechnicalView(b, s),
        there(volume # Missing, "neutral", 65),
        HistoricalView(statistics, Len(b[s].closes)),
        there(Sector[s] \in MacroSectors, "neutral", 40),
        there(corporate, NewsView(news).direction, NewsView(news).confidence)>>

(* The four of them that conflict_summary hears. *)
Signals(b, S, s, news, statistics) ==
  <<TechnicalView(b, s), NewsView(news), SectorView(b, S, s),
    HistoricalView(statistics, Len(b[s].closes))>>

(* conflict_summary; confidence is 100 times the sum and the product it rounds *)
Conflict(signals) ==
  LET available == {i \in DOMAIN signals : signals[i].direction # "unavailable"}
      voted(d) == {i \in available : signals[i].direction = d}
      directional == voted("bullish") \cup voted("bearish")
      conflict == voted("bullish") # {} /\ voted("bearish") # {}
      largest == Max({Cardinality(voted("bullish")), Cardinality(voted("bearish"))})
      base == Total([i \in available |-> signals[i].confidence], available)
  IN  IF available = {}
      THEN [consensus |-> "unavailable", conflict |-> FALSE, confidence |-> 0]
      ELSE [consensus |-> IF conflict THEN "mixed"
                          ELSE IF directional = {} THEN "neutral"
                          ELSE signals[CHOOSE i \in directional : TRUE].direction,
            conflict |-> conflict,
            confidence |-> IF directional = {}
                           THEN (base * 50) \div Cardinality(available)
                           ELSE (base * 100 * largest)
                                \div (Cardinality(available) * Cardinality(directional))]

-----------------------------------------------------------------------------
Priced(b, S) == {s \in S : Len(b[s].closes) > 1}

(* Missing data is neutral.  A stock whose change is unknown, which a newly
   listed constituent is on its first day, moves no average, breadth, ranking
   or regime, and an unavailable signal moves neither consensus nor confidence
   of an attribution: the pages show the same with and without it, up to the
   counts that are said to include it. *)
MissingIsNeutral ==
  LET known == Priced(board, Stocks)
      view(S) == <<Breadth(board, S), Gainers(board, S, 2), Losers(board, S, 2)>>
  IN  /\ view(Stocks) = view(known)
      /\ \A x \in SectorsOf(known) :
           /\ Sectors(board, Stocks)[x].average = Sectors(board, known)[x].average
           /\ Rotation(board, Stocks)[x].regime = Rotation(board, known)[x].regime
      /\ \A x \in SectorsOf(Stocks) \ SectorsOf(known) :
           Sectors(board, Stocks)[x].average = Missing
      /\ \A s \in Stocks, news \in {Missing, -11, 0, 11} :
           LET given == Signals(board, Stocks, s, news, [day |-> 2, bullish |-> 60, confidence |-> 40])
               available == {i \in DOMAIN given : given[i].direction # "unavailable"}
               place == Ranked(available, [i \in available |-> i], FALSE)
               heard == [k \in DOMAIN place |-> given[place[k]]]
               drivers(S) == Drivers(board, S, s, news, FALSE, Missing,
                                     [day |-> 2, bullish |-> 60, confidence |-> 40])
           IN  /\ Conflict(given) = Conflict(heard)
               /\ drivers(Stocks) = drivers(known \cup {s})

(* No two pages contradict each other about one stock: what the attribution
   calls bullish the table does not call bearish, nor the other way round, and
   a consensus is never the opposite of the table's trend unless a conflict is
   reported; every mover shown counts as an advancer or decliner, and every
   bullish stock of the table as above its average in the summary. *)
PagesAgree ==
  LET movers == Gainers(board, Stocks, 1) \o Losers(board, Stocks, 1)
      page == Workspace(board, Stocks)
      opposite == {<<"bullish", "bearish">>, <<"bearish", "bullish">>}
      bullish == {s \in Stocks : page.stocks[s].trend = "bullish"}
  IN  /\ \A s \in Stocks :
           LET view == TechnicalView(board, s).direction
               signals == Signals(board, Stocks, s, Missing, [day |-> 0, bullish |-> 50, confidence |-> 0])
           IN  /\ <<view, page.stocks[s].trend>> \notin opposite
               /\ <<Conflict(signals).consensus, page.stocks[s].trend>> \notin opposite
      /\ \A s \in DOMAIN page.heatmap : page.heatmap[s].signal = page.stocks[s].trend
      /\ Len(movers) = Cardinality({d \in {"advancers", "decliners"} : page.breadth[d] > 0})
      /\ Cardinality(bullish) <= page.technical.above
      /\ Cardinality(bullish) <= page.technical.positive
      /\ page.breadth.total = Cardinality(Known(Changes(board, Stocks)))
      /\ \A x \in DOMAIN page.rotation : page.rotation[x].count <= page.sectors[x].count
===============================================================================
