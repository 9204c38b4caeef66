------------------------------ MODULE PagesProofs ------------------------------
(***************************************************************************)
(* Proofs about the modules of MCMarketPages, which share no variable: the *)
(* screener of Discovery, the portfolio pages of Portfolios and the market *)
(* pages of MarketQueries.                                                 *)
(*                                                                         *)
(* Most of what they promise is about the functions they compute and holds *)
(* of any rows.  The invariants say the rest: a saved screen is what its   *)
(* text parses to (ScreenInv), and quantities, closes and indicators are   *)
(* numbers (PortfolioInv, BoardInv).  That contributions add up is the law *)
(* that a table may be summed by rows or by columns (SumTheorems).         *)
(***************************************************************************)
EXTENDS MarketQueries, Discovery, Portfolios, SumTheorems

-----------------------------------------------------------------------------
(* Discovery *)

(* A screen asks for nothing but these conditions. *)
Phrased ==
  {<<"sector", "eq", "bank", 0>>, <<"rsi_14", "between", 40, 60>>, <<"rsi_14", "gt", 50, 0>>,
   <<"price_vs_ema20", "above", 0, 0>>, <<"price_vs_ema20", "below", 0, 0>>,
   <<"macd_histogram", "negative", 0, 0>>, <<"news_sentiment", "non_negative", 0, 0>>,
   <<"price_change_percent", "positive", 0, 0>>, <<"price_change_percent", "negative", 0, 0>>,
   <<"signal_state", "eq", "bullish", 0>>, <<"signal_state", "eq", "neutral", 0>>,
   <<"regime_fit", "eq", "aligned", 0>>}

LEMMA OneChoice ==
  ASSUME NEW text, NEW one, NEW c \in FirstOf(text, <<one>>) PROVE c = one[2]
<1> DEFINE choices == <<one>>
           found == {i \in DOMAIN choices : choices[i][1] \in text}
<1>1. DOMAIN choices = {1} /\ choices[1] = one
  OBVIOUS
<1>2. FirstOf(text, choices) = IF found = {} THEN {}
                               ELSE {choices[CHOOSE i \in found : \A j \in found : i <= j][2]}
  BY DEF FirstOf
<1>3. found # {} => found = {1}
  BY <1>1
<1>4. found # {} => (CHOOSE i \in found : \A j \in found : i <= j) = 1
  <2> HIDE DEF found
  <2> QED
    BY <1>3
<1> HIDE DEF found, choices
<1> QED
  BY <1>1, <1>2, <1>4 DEF choices

LEMMA TwoChoices ==
  ASSUME NEW text, NEW one, NEW two, NEW c \in FirstOf(text, <<one, two>>)
  PROVE  c \in {one[2], two[2]}
<1> DEFINE choices == <<one, two>>
           found == {i \in DOMAIN choices : choices[i][1] \in text}
           first == CHOOSE i \in found : \A j \in found : i <= j
<1>1. DOMAIN choices = {1, 2} /\ choices[1] = one /\ choices[2] = two
  OBVIOUS
<1>2. FirstOf(text, choices) = IF found = {} THEN {} ELSE {choices[first][2]}
  BY DEF FirstOf
<1>3. found \subseteq {1, 2}
  BY <1>1
<1>4. found # {} => first \in found
  <2> SUFFICES ASSUME found # {} PROVE first \in found
    OBVIOUS
  <2> HIDE DEF found
  <2>1. \E i \in found : \A j \in found : i <= j
    <3>1. CASE 1 \in found
      <4>1. \A j \in found : 1 <= j
        BY <1>3
      <4> QED
        BY <3>1, <4>1
    <3>2. CASE 1 \notin found
      <4>1. found = {2}
        BY <1>3, <3>2
      <4> QED
        BY <4>1
    <3> QED
      BY <3>1, <3>2
  <2> QED
    BY <2>1
<1> HIDE DEF found, first, choices
<1> QED
  BY <1>1, <1>2, <1>3, <1>4 DEF choices

LEMMA ConditionsArePhrased == ASSUME NEW text PROVE Conditions(text) \subseteq Phrased
<1> SUFFICES ASSUME NEW c \in Conditions(text) PROVE c \in Phrased
  OBVIOUS
<1>1. \/ c \in FirstOf(text, << <<"in the bank sector", <<"sector", "eq", "bank", 0>> >> >>)
      \/ c \in FirstOf(text, << <<"rsi 40 to 60", <<"rsi_14", "between", 40, 60>> >>,
                                <<"rsi above 50", <<"rsi_14", "gt", 50, 0>> >> >>)
      \/ c \in FirstOf(text, << <<"above ema 20", <<"price_vs_ema20", "above", 0, 0>> >>,
                                <<"below ema 20", <<"price_vs_ema20", "below", 0, 0>> >> >>)
      \/ c \in FirstOf(text, << <<"macd negative", <<"macd_histogram", "negative", 0, 0>> >> >>)
      \/ c \in FirstOf(text, << <<"sentiment non-negative",
                                  <<"news_sentiment", "non_negative", 0, 0>> >> >>)
      \/ c \in FirstOf(text, << <<"gainers", <<"price_change_percent", "positive", 0, 0>> >>,
                                <<"losers", <<"price_change_percent", "negative", 0, 0>> >> >>)
      \/ c \in FirstOf(text, << <<"signals bullish", <<"signal_state", "eq", "bullish", 0>> >>,
                                <<"signals neutral", <<"signal_state", "eq", "neutral", 0>> >> >>)
      \/ c \in FirstOf(text, << <<"fits the current regime",
                                  <<"regime_fit", "eq", "aligned", 0>> >> >>)
  BY DEF Conditions
<1>2. CASE c \in FirstOf(text,
                 << <<"in the bank sector", <<"sector", "eq", "bank", 0>> >> >>)
  BY <1>2, OneChoice DEF Phrased
<1>3. CASE c \in FirstOf(text, << <<"rsi 40 to 60", <<"rsi_14", "between", 40, 60>> >>,
                                  <<"rsi above 50", <<"rsi_14", "gt", 50, 0>> >> >>)
  <2> DEFINE one == <<"rsi 40 to 60", <<"rsi_14", "between", 40, 60>> >>
             two == <<"rsi above 50", <<"rsi_14", "gt", 50, 0>> >>
  <2>1. c \in FirstOf(text, <<one, two>>)
    BY <1>3
  <2>2. one[2] \in Phrased /\ two[2] \in Phrased
    BY DEF Phrased
  <2> HIDE DEF one, two
  <2> QED
    BY <2>1, <2>2, TwoChoices
<1>4. CASE c \in FirstOf(text,
                 << <<"above ema 20", <<"price_vs_ema20", "above", 0, 0>> >>,
                    <<"below ema 20", <<"price_vs_ema20", "below", 0, 0>> >> >>)
  <2> DEFINE one == <<"above ema 20", <<"price_vs_ema20", "above", 0, 0>> >>
             two == <<"below ema 20", <<"price_vs_ema20", "below", 0, 0>> >>
  <2>1. c \in FirstOf(text, <<one, two>>)
    BY <1>4
  <2>2. one[2] \in Phrased /\ two[2] \in Phrased
    BY DEF Phrased
  <2> HIDE DEF one, two
  <2> QED
    BY <2>1, <2>2, TwoChoices
<1>5. CASE c \in FirstOf(text,
                 << <<"macd negative", <<"macd_histogram", "negative", 0, 0>> >> >>)
  BY <1>5, OneChoice DEF Phrased
<1>6. CASE c \in FirstOf(text,
                 << <<"sentiment non-negative", <<"news_sentiment", "non_negative", 0, 0>> >> >>)
  BY <1>6, OneChoice DEF Phrased
<1>7. CASE c \in FirstOf(text,
                 << <<"gainers", <<"price_change_percent", "positive", 0, 0>> >>,
                    <<"losers", <<"price_change_percent", "negative", 0, 0>> >> >>)
  <2> DEFINE one == <<"gainers", <<"price_change_percent", "positive", 0, 0>> >>
             two == <<"losers", <<"price_change_percent", "negative", 0, 0>> >>
  <2>1. c \in FirstOf(text, <<one, two>>)
    BY <1>7
  <2>2. one[2] \in Phrased /\ two[2] \in Phrased
    BY DEF Phrased
  <2> HIDE DEF one, two
  <2> QED
    BY <2>1, <2>2, TwoChoices
<1>8. CASE c \in FirstOf(text,
                 << <<"signals bullish", <<"signal_state", "eq", "bullish", 0>> >>,
                    <<"signals neutral", <<"signal_state", "eq", "neutral", 0>> >> >>)
  <2> DEFINE one == <<"signals bullish", <<"signal_state", "eq", "bullish", 0>> >>
             two == <<"signals neutral", <<"signal_state", "eq", "neutral", 0>> >>
  <2>1. c \in FirstOf(text, <<one, two>>)
    BY <1>8
  <2>2. one[2] \in Phrased /\ two[2] \in Phrased
    BY DEF Phrased
  <2> HIDE DEF one, two
  <2> QED
    BY <2>1, <2>2, TwoChoices
<1>9. CASE c \in FirstOf(text,
                 << <<"fits the current regime", <<"regime_fit", "eq", "aligned", 0>> >> >>)
  BY <1>9, OneChoice DEF Phrased
<1> QED
  BY <1>1, <1>2, <1>3, <1>4, <1>5, <1>6, <1>7, <1>8, <1>9

(* No state of a stock or of the market that a condition may name is "unavailable". *)
LEMMA MarketStateIs ==
  ASSUME NEW stocks PROVE MarketState(stocks) \in {"bullish", "bearish", "neutral"}
BY DEF MarketState

LEMMA StateIsKnown ==
  ASSUME NEW row, State(row) # "unavailable"
  PROVE  Undefined \notin {row.close, row.ema_20, row.macd}
BY DEF State

LEMMA ShownIsKnown ==
  ASSUME NEW s, NEW c \in Phrased, NEW market \in {"bullish", "bearish", "neutral"},
         Matches(s, c, market)
  PROVE  CASE c[1] \in {"sector"} -> TRUE
           [] c[1] \in {"signal_state", "regime_fit", "price_vs_ema20"} ->
                Undefined \notin {facts[s].close, facts[s].ema_20}
           [] OTHER -> Value(s, c[1]) # Undefined
<1> DEFINE row == facts[s]
<1>1. CASE c[1] = "sector"
  BY <1>1
<1>2. CASE c[1] \in {"signal_state", "regime_fit"}
  <2>1. State(row) # "unavailable"
    <3>1. c[1] = "signal_state" => c[3] \in {"bullish", "neutral"}
      BY DEF Phrased
    <3>2. State(row) = IF c[1] = "signal_state" THEN c[3] ELSE market
      BY <1>2 DEF Matches
    <3> QED
      BY <3>1, <3>2, <1>2
  <2>2. Undefined \notin {row.close, row.ema_20}
    BY <2>1, StateIsKnown
  <2> QED
    BY <1>2, <2>2
<1>3. CASE c[1] = "price_vs_ema20"
  <2>1. Undefined \notin {row.close, row.ema_20}
    BY <1>3 DEF Matches
  <2> QED
    BY <1>3, <2>1
<1>4. CASE c[1] \notin {"sector", "signal_state", "regime_fit", "price_vs_ema20"}
  <2>1. Numeric(Value(s, c[1]), c)
    BY <1>4 DEF Matches
  <2>2. Value(s, c[1]) # Undefined
    BY <2>1 DEF Numeric
  <2> QED
    BY <1>4, <2>2
<1> QED
  BY <1>1, <1>2, <1>3, <1>4

(* Narrowing needs no invariant: it holds of any rows whatever. *)
LEMMA ScreensNarrow == NarrowingNarrows
<1>1. ASSUME NEW a \in Asts, NEW b \in Asts, a.universe = b.universe,
             a.conditions \subseteq b.conditions
      PROVE  Execute(b) \subseteq Execute(a)
  BY <1>1 DEF Execute
<1>2. ASSUME NEW a \in Asts, NEW s \in Execute(a), NEW c \in a.conditions
      PROVE  CASE c[1] \in {"sector"} -> TRUE
               [] c[1] \in {"signal_state", "regime_fit", "price_vs_ema20"} ->
                    Undefined \notin {facts[s].close, facts[s].ema_20}
               [] OTHER -> Value(s, c[1]) # Undefined
  <2>1. PICK text \in Texts : a = Parse(text) /\ a # Undefined
    BY DEF Asts
  <2>2. a.conditions = Conditions(text)
    BY <2>1 DEF Parse
  <2>3. c \in Phrased
    BY <2>2, ConditionsArePhrased
  <2>4. Matches(s, c, MarketState(Approved(a.universe)))
    BY DEF Execute
  <2> QED
    BY <2>3, <2>4, MarketStateIs, ShownIsKnown
<1> DEFINE shown == [a \in Asts |-> Execute(a)]
<1>3. \A a \in Asts : shown[a] = Execute(a)
  OBVIOUS
<1> HIDE DEF shown
<1>4. /\ \A a, b \in Asts :
           a.universe = b.universe /\ a.conditions \subseteq b.conditions
             => shown[b] \subseteq shown[a]
      /\ \A a \in Asts : \A s \in shown[a] : \A c \in a.conditions :
           CASE c[1] \in {"sector"} -> TRUE
             [] c[1] \in {"signal_state", "regime_fit", "price_vs_ema20"} ->
                  Undefined \notin {facts[s].close, facts[s].ema_20}
             [] OTHER -> Value(s, c[1]) # Undefined
  BY <1>1, <1>2, <1>3
<1> QED
  BY <1>4 DEF NarrowingNarrows, shown

(* What was saved is what its text parses to, as long as it is saved. *)
ScreenInv ==
  /\ DOMAIN screens = ScreenIds
  /\ \A i \in ScreenIds : screens[i] # Undefined =>
       Parse(screens[i].text) # Undefined /\ screens[i].ast = Parse(screens[i].text)

(* For any texts, users, stocks, facts and screens: a screen with more conditions
   shows no more, never shows a stock for a fact that is missing, and a saved
   screen shows its owner, and nobody else, what its text would show now
   (parser.py, DiscoveryService.execute, save and run_saved). *)
THEOREM ScreensStayHonest ==
  DiscoveryInit /\ [][DiscoveryNext]_<<members, facts, screens>> => []ScreensAreHonest
<1>1. DiscoveryInit => ScreenInv
  BY DEF DiscoveryInit, ScreenInv
<1>2. ScreenInv /\ [DiscoveryNext]_<<members, facts, screens>> => ScreenInv'
  <2> SUFFICES ASSUME ScreenInv, [DiscoveryNext]_<<members, facts, screens>> PROVE ScreenInv'
    OBVIOUS
  <2>1. ASSUME NEW i \in ScreenIds, SaveScreen(i) PROVE ScreenInv'
    <3>1. PICK u \in Owners, text \in Texts, ast \in Asts :
            /\ Accepted(text, ast)
            /\ screens' = [screens EXCEPT ![i] = [owner |-> u, text |-> text, ast |-> ast]]
      BY <2>1 DEF SaveScreen
    <3>2. Parse(text) # Undefined /\ ast = Parse(text)
      BY <3>1 DEF Accepted
    <3> QED
      BY <3>1, <3>2 DEF ScreenInv
  <2>2. ASSUME NEW u \in Owners, NEW i \in ScreenIds, DeleteSaved(u, i) PROVE ScreenInv'
    BY <2>2 DEF DeleteSaved, ScreenInv
  <2>3. CASE UNCHANGED screens
    BY <2>3 DEF ScreenInv
  <2> QED
    BY <2>1, <2>2, <2>3 DEF DiscoveryNext, Session, Reconstituted
<1>3. ScreenInv => SavedAnswersItsText
  <2> SUFFICES ASSUME ScreenInv, NEW u \in Owners, NEW i \in ScreenIds, Found(u, i)
               PROVE  /\ Parse(screens[i].text) # Undefined
                      /\ RunSaved(u, i) = Execute(Parse(screens[i].text))
                      /\ \A other \in Owners \ {u} : RunSaved(other, i) = Undefined
    BY DEF SavedAnswersItsText
  <2>1. Parse(screens[i].text) # Undefined /\ screens[i].ast = Parse(screens[i].text)
    BY DEF Found, ScreenInv
  <2> QED
    BY <2>1 DEF Found, RunSaved
<1>4. ScreenInv => ScreensAreHonest
  BY <1>3, ScreensNarrow DEF ScreensAreHonest
<1> QED
  BY <1>1, <1>2, <1>4, PTL

-----------------------------------------------------------------------------
(* Portfolios *)

(* The rows of a portfolio and of the prices. *)
PortfolioInv ==
  /\ holdings \in [Tracked -> Nat]
  /\ adding # Unknown => adding \in [stock : Tracked, quantity : Quantities]
  /\ closes \in Seq([Tracked -> Closes \cup {Unknown}])

LEMMA SummedIs == ASSUME NEW f PROVE Summed(f) = Sum(f, DOMAIN f)
BY DEF Summed, MapThenSumSet, MapThenFoldSet, Sum, Sums, Chosen

LEMMA HeldIs ==
  ASSUME NEW h \in [Tracked -> Int]
  PROVE  /\ Held(h) \in SUBSET Tracked /\ IsFiniteSet(Held(h))
         /\ \A s \in Held(h) : h[s] \in Nat \ {0}
  BY PortfoliosAssumption, FS_Subset DEF Held

LEMMA DatesAre ==
  ASSUME PortfolioInv, NEW s \in Tracked
  PROVE  /\ Dates(s) \subseteq Int /\ IsFiniteSet(Dates(s))
         /\ \A d \in Dates(s) : closes[d][s] \in Nat \ {0}
<1> DEFINE n == Len(closes)
<1>1. n \in Nat /\ DOMAIN closes = 1..n
  BY DEF PortfolioInv
<1>2. IsFiniteSet(1..n) /\ Dates(s) \subseteq 1..n
  BY <1>1, FS_Interval DEF Dates
<1>3. \A d \in 1..n : closes[d] \in [Tracked -> Closes \cup {Unknown}]
  BY <1>1 DEF PortfolioInv
<1>4. \A d \in Dates(s) : closes[d][s] \in Closes
  BY <1>2, <1>3 DEF Dates
<1>5. IsFiniteSet(Dates(s)) /\ Dates(s) \subseteq Int
  BY <1>1, <1>2, FS_Subset
<1> QED
  BY <1>4, <1>5, PortfoliosAssumption

LEMMA PriceIs ==
  ASSUME PortfolioInv, NEW s \in Tracked, Price(s) # Unknown
  PROVE  Price(s) \in Nat \ {0}
<1>1. Dates(s) # {} /\ Price(s) = closes[Max(Dates(s))][s]
  BY DEF Price
<1>2. Max(Dates(s)) \in Dates(s)
  BY <1>1, DatesAre, Largest
<1> QED
  BY <1>1, <1>2, DatesAre

LEMMA ReturnsAre ==
  ASSUME NEW series, DOMAIN series \subseteq Int, IsFiniteSet(DOMAIN series),
         \A d \in DOMAIN series : series[d] \in Nat \ {0}
  PROVE  /\ DOMAIN Returns(series) = ReturnDates(DOMAIN series)
         /\ \A d \in DOMAIN Returns(series) : Returns(series)[d] \in Int
<1> DEFINE days == DOMAIN series
           earlier(d) == {e \in days : e < d}
           before == [d \in ReturnDates(days) |-> series[Max(earlier(d))]]
<1>1. Returns(series) = [d \in ReturnDates(days) |-> ((series[d] - before[d]) * 100) \div before[d]]
  BY DEF Returns
<1>2. ASSUME NEW d \in ReturnDates(days)
      PROVE  /\ d \in days /\ series[d] \in Int
             /\ series[Max(earlier(d))] \in Int /\ series[Max(earlier(d))] > 0
  <2>1. days # {} /\ d \in days /\ d # Min(days)
    BY DEF ReturnDates
  <2>2. Min(days) \in days /\ Min(days) <= d
    BY <2>1, Smallest
  <2>3. Min(days) \in earlier(d)
    BY <2>1, <2>2
  <2>4. earlier(d) \subseteq Int /\ IsFiniteSet(earlier(d)) /\ earlier(d) # {} /\ earlier(d) \subseteq days
    BY <2>3, FS_Subset
  <2>5. Max(earlier(d)) \in earlier(d)
    <3> HIDE DEF earlier, days
    <3> QED
      BY <2>4, Largest
  <2> QED
    BY <2>1, <2>4, <2>5
<1>3. ASSUME NEW a \in Int, NEW b \in Int, b > 0 PROVE ((a - b) * 100) \div b \in Int
  BY <1>3
<1>4. \A d \in ReturnDates(days) : before[d] = series[Max(earlier(d))]
  OBVIOUS
<1> HIDE DEF before, earlier
<1>5. \A d \in ReturnDates(days) : ((series[d] - before[d]) * 100) \div before[d] \in Int
  BY <1>2, <1>3, <1>4
<1> QED
  BY <1>1, <1>5

LEMMA StockReturnsAre ==
  ASSUME PortfolioInv, NEW s \in Tracked
  PROVE  \A d \in DOMAIN StockReturns(s) : StockReturns(s)[d] \in Int
<1> DEFINE series == [d \in Dates(s) |-> closes[d][s]]
<1>1. DOMAIN series \subseteq Int /\ IsFiniteSet(DOMAIN series) /\ \A d \in DOMAIN series : series[d] \in Nat \ {0}
  BY DatesAre
<1>2. StockReturns(s) = Returns(series)
  BY DEF StockReturns
<1> HIDE DEF series
<1> QED
  BY <1>1, <1>2, ReturnsAre

LEMMA CommonDatesAre ==
  ASSUME PortfolioInv, NEW returns
  PROVE  /\ IsFiniteSet(CommonDates(returns))
         /\ \A s \in DOMAIN returns : CommonDates(returns) \subseteq DOMAIN returns[s]
<1> DEFINE n == Len(closes)
           index == [d \in DOMAIN closes |-> Index[d]]
<1>1. n \in Nat /\ DOMAIN closes = 1..n /\ IsFiniteSet(1..n)
  BY FS_Interval DEF PortfolioInv
<1>2. DOMAIN IndexReturns \subseteq DOMAIN closes
  BY DEF IndexReturns, Returns, ReturnDates
<1>3. CommonDates(returns) \subseteq DOMAIN closes
  BY <1>2 DEF CommonDates
<1>4. \A s \in DOMAIN returns : CommonDates(returns) \subseteq DOMAIN returns[s]
  BY DEF CommonDates
<1> QED
  BY <1>1, <1>3, <1>4, FS_Subset
-----------------------------------------------------------------------------
(* Both contributions are a sum by rows of a table whose sum by columns is what
   they are contributions to. *)
LEMMA ReturnsAddUp ==
  ASSUME NEW values, NEW returns, NEW days, IsFiniteSet(days), IsFiniteSet(DOMAIN values),
         \A s \in DOMAIN values : values[s] \in Int /\ \A d \in days : returns[s][d] \in Int
  PROVE  LET portfolio == Combined(values, returns, days) IN
         /\ Summed(ReturnContributions(values, returns, days)) = Summed(portfolio)
         /\ DOMAIN portfolio = days /\ \A d \in days : portfolio[d] \in Int
         /\ DOMAIN ReturnContributions(values, returns, days) = DOMAIN values
         /\ \A s \in DOMAIN values : ReturnContributions(values, returns, days)[s] \in Int
<1> DEFINE S == DOMAIN values
           portfolio == Combined(values, returns, days)
           shares == ReturnContributions(values, returns, days)
           row(s) == [d \in days |-> returns[s][d]]
           table == [s \in S |-> [d \in days |-> values[s] * returns[s][d]]]
           byRow == [s \in S |-> Sum(table[s], days)]
           column(d) == [s \in S |-> table[s][d]]
           byColumn == [d \in days |-> Sum(column(d), S)]
<1>1. \A s \in S : \A d \in days : table[s][d] = values[s] * row(s)[d] /\ row(s)[d] \in Int /\ table[s][d] \in Int
  OBVIOUS
<1>2. ASSUME NEW s \in S PROVE shares[s] = Sum(table[s], days) /\ shares[s] \in Int
  <2>1. shares[s] = values[s] * Summed(row(s))
    BY DEF ReturnContributions, Measured
  <2>2. Summed(row(s)) = Sum(row(s), days)
    <3>1. DOMAIN row(s) = days
      OBVIOUS
    <3> HIDE DEF row
    <3> QED
      BY <3>1, SummedIs
  <2>3. Sum(table[s], days) = values[s] * Sum(row(s), days)
    <3>1. values[s] \in Int
      OBVIOUS
    <3> HIDE DEF row, table
    <3> QED
      BY <1>1, <3>1, SumOfMultiples
  <2>4. Sum(table[s], days) \in Int
    <3> HIDE DEF table
    <3> QED
      BY <1>1, SumType
  <2> QED
    BY <2>1, <2>2, <2>3, <2>4
<1>3. DOMAIN shares = S /\ DOMAIN portfolio = days
  BY DEF ReturnContributions, Combined
<1>4. Summed(shares) = Sum(byRow, S)
  <2>1. \A s \in S : byRow[s] = shares[s]
    BY <1>2
  <2>2. Summed(shares) = Sum(shares, S)
    BY <1>3, SummedIs
  <2> HIDE DEF byRow, shares
  <2> QED
    BY <2>1, <2>2, SumEqual
<1>5. Sum(byRow, S) = Sum(byColumn, days)
  <2> HIDE DEF table
  <2> QED
    BY <1>1, SumByColumns
<1>6. ASSUME NEW d \in days PROVE portfolio[d] = byColumn[d] /\ portfolio[d] \in Int
  <2> DEFINE terms == [s \in DOMAIN values |-> values[s] * returns[s][d]]
  <2>1. portfolio[d] = Summed(terms)
    BY DEF Combined
  <2>2. Summed(terms) = Sum(terms, S)
    <3>1. DOMAIN terms = S
      OBVIOUS
    <3> HIDE DEF terms
    <3> QED
      BY <3>1, SummedIs
  <2>3. \A s \in S : terms[s] = column(d)[s] /\ terms[s] \in Int
    BY <1>1
  <2>4. Sum(terms, S) = Sum(column(d), S) /\ Sum(terms, S) \in Int
    <3> HIDE DEF terms, column
    <3> QED
      BY <2>3, SumEqual, SumType
  <2>5. byColumn[d] = Sum(column(d), S)
    <3> HIDE DEF column
    <3> QED
      OBVIOUS
  <2> QED
    BY <2>1, <2>2, <2>4, <2>5
<1>7. Summed(portfolio) = Sum(byColumn, days)
  <2>1. Summed(portfolio) = Sum(portfolio, days)
    BY <1>3, SummedIs
  <2> HIDE DEF portfolio, byColumn
  <2> QED
    BY <1>6, <2>1, SumEqual
<1> HIDE DEF byRow, byColumn, shares, portfolio
<1>8. Summed(shares) = Summed(portfolio)
  BY <1>4, <1>5, <1>7
<1> QED
  BY <1>2, <1>3, <1>6, <1>8 DEF shares, portfolio

LEMMA CovarianceIs ==
  ASSUME NEW days, IsFiniteSet(days), NEW f, NEW g,
         \A d \in days : f[d] \in Int /\ g[d] \in Int
  PROVE  /\ Covariance(days, f, g)
              = Cardinality(days) * Sum([d \in days |-> f[d] * g[d]], days) - Sum(f, days) * Sum(g, days)
         /\ Cardinality(days) \in Nat /\ Sum([d \in days |-> f[d] * g[d]], days) \in Int
         /\ Sum(f, days) \in Int /\ Sum(g, days) \in Int
<1> DEFINE same(h) == [d \in days |-> h[d]]
           product == [d \in days |-> f[d] * g[d]]
<1>1. ASSUME NEW h PROVE Summed(same(h)) = Sum(h, days)
  <2>1. DOMAIN same(h) = days /\ \A d \in days : same(h)[d] = h[d]
    OBVIOUS
  <2> HIDE DEF same
  <2> QED
    BY <2>1, SummedIs, SumEqual
<1>2. Summed(product) = Sum(product, days) /\ Sum(product, days) \in Int
  <2>1. DOMAIN product = days /\ \A d \in days : product[d] \in Int
    OBVIOUS
  <2> HIDE DEF product
  <2> QED
    BY <2>1, SummedIs, SumType
<1>3. Covariance(days, f, g) = Cardinality(days) * Summed(product) - Summed(same(f)) * Summed(same(g))
  BY DEF Covariance
<1>4. Covariance(days, f, g) = Cardinality(days) * Sum(product, days) - Sum(f, days) * Sum(g, days)
  <2> HIDE DEF same, product
  <2> QED
    BY <1>1, <1>2, <1>3
<1>5. Cardinality(days) \in Nat /\ Sum(f, days) \in Int /\ Sum(g, days) \in Int
  BY FS_CardinalityType, SumType
<1> QED
  BY <1>2, <1>4, <1>5

LEMMA RisksAddUp ==
  ASSUME NEW values, NEW returns, NEW days, IsFiniteSet(days), IsFiniteSet(DOMAIN values),
         \A s \in DOMAIN values : values[s] \in Int /\ \A d \in days : returns[s][d] \in Int
  PROVE  LET portfolio == Combined(values, returns, days) IN
         Summed(RiskContributions(values, returns, days)) = Covariance(days, portfolio, portfolio)
<1> DEFINE S == DOMAIN values
           n == Cardinality(days)
           p == Combined(values, returns, days)
           P == Sum(p, days)
           risks == RiskContributions(values, returns, days)
           means == ReturnContributions(values, returns, days)
           product(s) == [d \in days |-> returns[s][d] * p[d]]
           table == [s \in S |-> [d \in days |-> values[s] * (returns[s][d] * p[d])]]
           byRow == [s \in S |-> Sum(table[s], days)]
           column(d) == [s \in S |-> table[s][d]]
           byColumn == [d \in days |-> Sum(column(d), S)]
           square == [d \in days |-> p[d] * p[d]]
<1>1. /\ Summed(means) = Summed(p) /\ DOMAIN p = days /\ DOMAIN means = S
      /\ \A d \in days : p[d] \in Int
      /\ \A s \in S : means[s] \in Int
  BY ReturnsAddUp
<1>2. Summed(p) = P /\ Summed(means) = Sum(means, S) /\ P \in Int
  <2> HIDE DEF p, means
  <2> QED
    BY <1>1, SummedIs, SumType
<1>3. n \in Nat
  BY FS_CardinalityType
<1>4. ASSUME NEW s \in S, NEW d \in days
      PROVE  /\ table[s][d] = values[s] * product(s)[d] /\ product(s)[d] \in Int
             /\ table[s][d] = p[d] * (values[s] * returns[s][d]) /\ table[s][d] \in Int
  <2>1. values[s] \in Int /\ returns[s][d] \in Int /\ p[d] \in Int
    BY <1>1
  <2>2. table[s][d] = values[s] * (returns[s][d] * p[d]) /\ product(s)[d] = returns[s][d] * p[d]
    <3> HIDE DEF p
    <3> QED
      OBVIOUS
  <2>3. ASSUME NEW a \in Int, NEW b \in Int, NEW c \in Int
        PROVE  a * (b * c) = c * (a * b) /\ b * c \in Int /\ a * (b * c) \in Int
    OBVIOUS
  <2> HIDE DEF table, product, p
  <2> QED
    BY <2>1, <2>2, <2>3
<1>5. ASSUME NEW s \in S
      PROVE  /\ means[s] = values[s] * Sum(returns[s], days) /\ Sum(returns[s], days) \in Int
             /\ byRow[s] = values[s] * Sum(product(s), days) /\ Sum(product(s), days) \in Int
             /\ Covariance(days, returns[s], p) = n * Sum(product(s), days) - Sum(returns[s], days) * P
  <2>1. means[s] = values[s] * Summed([d \in days |-> returns[s][d]])
    BY DEF ReturnContributions, Measured
  <2>2. Summed([d \in days |-> returns[s][d]]) = Sum(returns[s], days)
    <3> DEFINE row == [d \in days |-> returns[s][d]]
    <3>1. DOMAIN row = days /\ \A d \in days : row[d] = returns[s][d]
      OBVIOUS
    <3>2. Summed(row) = Sum(returns[s], days)
      <4> HIDE DEF row
      <4> QED
        BY <3>1, SummedIs, SumEqual
    <3> QED
      BY <3>2
  <2>3. \A d \in days : returns[s][d] \in Int /\ p[d] \in Int
    BY <1>1
  <2>4. /\ Covariance(days, returns[s], p) = n * Sum(product(s), days) - Sum(returns[s], days) * P
        /\ Sum(returns[s], days) \in Int /\ Sum(product(s), days) \in Int
    <3> HIDE DEF p
    <3> QED
      BY <2>3, CovarianceIs
  <2>5. Sum(table[s], days) = values[s] * Sum(product(s), days)
    <3>1. values[s] \in Int
      OBVIOUS
    <3> HIDE DEF table, product
    <3> QED
      BY <1>4, <3>1, SumOfMultiples
  <2>6. byRow[s] = Sum(table[s], days)
    <3> HIDE DEF table
    <3> QED
      OBVIOUS
  <2> HIDE DEF means, byRow, product
  <2> QED
    BY <2>1, <2>2, <2>4, <2>5, <2>6
<1>6. ASSUME NEW s \in S
      PROVE  risks[s] = n * byRow[s] + (-P) * means[s] /\ byRow[s] \in Int
  <2>1. risks[s] = values[s] * Covariance(days, returns[s], p)
    BY DEF RiskContributions
  <2>2. values[s] \in Int
    OBVIOUS
  <2>3. ASSUME NEW v \in Int, NEW a \in Int, NEW b \in Int, NEW m \in Int, NEW q \in Int
        PROVE  v * (m * a - b * q) = m * (v * a) + (-q) * (v * b) /\ v * a \in Int
    OBVIOUS
  <2> HIDE DEF risks, byRow, means, n, P, p, product
  <2> QED
    BY <1>2, <1>3, <1>5, <2>1, <2>2, <2>3
<1>7. Sum(byRow, S) = Sum(square, days)
  <2>1. Sum(byRow, S) = Sum(byColumn, days)
    <3> HIDE DEF table
    <3> QED
      BY <1>4, SumByColumns
  <2>2. ASSUME NEW d \in days PROVE byColumn[d] = square[d]
    <3> DEFINE terms == [s \in S |-> values[s] * returns[s][d]]
    <3>1. p[d] = Summed(terms)
      BY DEF Combined
    <3>2. Summed(terms) = Sum(terms, S)
      <4>1. DOMAIN terms = S
        OBVIOUS
      <4> HIDE DEF terms
      <4> QED
        BY <4>1, SummedIs
    <3>3. \A s \in S : terms[s] \in Int /\ column(d)[s] = p[d] * terms[s]
      <4>1. \A s \in S : terms[s] = values[s] * returns[s][d] /\ terms[s] \in Int /\ column(d)[s] = table[s][d]
        <5> HIDE DEF table
        <5> QED
          OBVIOUS
      <4> HIDE DEF terms, table, column, p
      <4> QED
        BY <1>4, <4>1
    <3>4. Sum(column(d), S) = p[d] * Sum(terms, S)
      <4>1. p[d] \in Int
        BY <1>1
      <4> HIDE DEF terms, column, p
      <4> QED
        BY <3>3, <4>1, SumOfMultiples
    <3>5. byColumn[d] = Sum(column(d), S) /\ square[d] = p[d] * p[d]
      <4> HIDE DEF column, p
      <4> QED
        OBVIOUS
    <3> HIDE DEF terms, column, p, byColumn, square
    <3> QED
      BY <3>1, <3>2, <3>4, <3>5
  <2> HIDE DEF byRow, byColumn, square
  <2> QED
    BY <2>1, <2>2, SumEqual
<1>8. Summed(risks) = n * Sum(byRow, S) + (-P) * Sum(means, S)
  <2> DEFINE whole == [s \in S |-> n * byRow[s]]
             less == [s \in S |-> (-P) * means[s]]
  <2>1. DOMAIN risks = S
    BY DEF RiskContributions
  <2>2. Summed(risks) = Sum(risks, S)
    <3> HIDE DEF risks
    <3> QED
      BY <2>1, SummedIs
  <2>3. \A s \in S : whole[s] = n * byRow[s] /\ less[s] = (-P) * means[s]
    <3> HIDE DEF byRow, means, n, P
    <3> QED
      OBVIOUS
  <2>4. -P \in Int /\ n \in Int
    BY <1>2, <1>3
  <2>5. \A s \in S : whole[s] \in Int /\ less[s] \in Int /\ risks[s] = whole[s] + less[s]
    <3>1. ASSUME NEW a \in Int, NEW b \in Int PROVE a * b \in Int
      OBVIOUS
    <3> HIDE DEF risks, whole, less, byRow, means, n, P
    <3> QED
      BY <1>1, <1>6, <2>3, <2>4, <3>1
  <2>6. Sum(risks, S) = Sum(whole, S) + Sum(less, S)
    <3> HIDE DEF risks, whole, less
    <3> QED
      BY <2>5, SumOfSums
  <2>7. Sum(whole, S) = n * Sum(byRow, S) /\ Sum(less, S) = (-P) * Sum(means, S)
    <3> HIDE DEF whole, less, byRow, means, n, P
    <3> QED
      BY <1>1, <1>6, <2>3, <2>4, SumOfMultiples
  <2> HIDE DEF risks, whole, less, byRow, means, n, P
  <2> QED
    BY <2>2, <2>6, <2>7
<1>9. Covariance(days, p, p) = n * Sum(square, days) - P * P /\ Sum(square, days) \in Int
  <2> HIDE DEF p
  <2> QED
    BY <1>1, CovarianceIs
<1>10. ASSUME NEW a \in Int, NEW b \in Int PROVE a + (-b) * b = a - b * b
  OBVIOUS
<1>11. n * Sum(square, days) \in Int
  BY <1>3, <1>9
<1> HIDE DEF risks, byRow, means, n, P, square
<1>12. Summed(risks) = Covariance(days, p, p)
  BY <1>1, <1>2, <1>7, <1>8, <1>9, <1>10, <1>11
<1> QED
  BY <1>12 DEF risks

LEMMA SectorsAre ==
  ASSUME NEW values, IsFiniteSet(DOMAIN values), \A s \in DOMAIN values : values[s] \in Int
  PROVE  /\ IsFiniteSet(DOMAIN BySector(values))
         /\ \A x \in DOMAIN BySector(values) : BySector(values)[x] \in Int
<1> DEFINE S == DOMAIN values
           branches == {Branch[s] : s \in S}
           of(x) == [s \in {t \in S : Branch[t] = x} |-> values[s]]
           to == [s \in S |-> Branch[s]]
<1>1. BySector(values) = [x \in branches |-> Summed(of(x))]
  BY DEF BySector
<1>2. IsFiniteSet(branches)
  <2>1. to \in Surjection(S, branches)
    BY DEF Surjection
  <2> HIDE DEF branches, to
  <2> QED
    BY <2>1, FS_Surjection
<1>3. ASSUME NEW x PROVE Summed(of(x)) \in Int
  <2>1. DOMAIN of(x) \subseteq S /\ \A s \in DOMAIN of(x) : of(x)[s] \in Int
    OBVIOUS
  <2>2. IsFiniteSet(DOMAIN of(x))
    <3> HIDE DEF of
    <3> QED
      BY <2>1, FS_Subset
  <2> HIDE DEF of
  <2> QED
    BY <2>1, <2>2, SummedIs, SumType
<1> HIDE DEF branches, of
<1> QED
  BY <1>1, <1>2, <1>3

LEMMA BenchmarkSectorsAre ==
  /\ IsFiniteSet(DOMAIN BenchmarkSectors)
  /\ \A x \in DOMAIN BenchmarkSectors : BenchmarkSectors[x] \in Int
<1> DEFINE weights == [s \in Tracked |-> IF \E t \in Tracked : Capitalisation[t] = Unknown
                                         THEN 1 ELSE Capitalisation[s]]
<1>1. DOMAIN weights = Tracked /\ \A s \in Tracked : weights[s] \in Int
  BY PortfoliosAssumption
<1>2. BenchmarkSectors = BySector(weights)
  BY DEF BenchmarkSectors
<1> HIDE DEF weights
<1> QED
  BY <1>1, <1>2, SectorsAre, PortfoliosAssumption

LEMMA DeviationsAddUp ==
  ASSUME NEW sectors, IsFiniteSet(DOMAIN sectors), \A x \in DOMAIN sectors : sectors[x] \in Int
  PROVE  Summed(Deviation(sectors)) = 0
<1> DEFINE D == DOMAIN sectors \cup DOMAIN BenchmarkSectors
           at(weights) == [x \in D |-> IF x \in DOMAIN weights THEN weights[x] ELSE 0]
           own == Summed(sectors)
           theirs == Summed(BenchmarkSectors)
           over == [x \in D |-> theirs * at(sectors)[x]]
           under == [x \in D |-> (-own) * at(BenchmarkSectors)[x]]
           deviation == Deviation(sectors)
<1>1. IsFiniteSet(D)
  BY BenchmarkSectorsAre, FS_Union
<1>2. ASSUME NEW weights, DOMAIN weights \subseteq D, \A x \in DOMAIN weights : weights[x] \in Int
      PROVE  /\ Sum(at(weights), D) = Summed(weights) /\ Summed(weights) \in Int
             /\ \A x \in D : at(weights)[x] \in Int
  <2>1. /\ \A x \in DOMAIN weights : at(weights)[x] = weights[x] /\ at(weights)[x] \in Int
        /\ \A x \in D \ DOMAIN weights : at(weights)[x] = 0
        /\ \A x \in D : at(weights)[x] \in Int
    BY <1>2
  <2>2. IsFiniteSet(DOMAIN weights)
    BY <1>1, <1>2, FS_Subset
  <2> HIDE DEF at, D
  <2>3. Sum(at(weights), D) = Sum(at(weights), DOMAIN weights)
    BY <1>1, <1>2, <2>1, SumWithoutZeros
  <2>4. Sum(at(weights), DOMAIN weights) = Sum(weights, DOMAIN weights)
    BY <2>1, <2>2, SumEqual
  <2>5. Summed(weights) = Sum(weights, DOMAIN weights) /\ Summed(weights) \in Int
    BY <1>2, <2>2, SummedIs, SumType
  <2> QED
    BY <2>1, <2>3, <2>4, <2>5
<1>3. /\ Sum(at(sectors), D) = own /\ own \in Int
      /\ \A x \in D : at(sectors)[x] \in Int
  <2>1. DOMAIN sectors \subseteq D
    OBVIOUS
  <2> HIDE DEF at, D
  <2> QED
    BY <1>2, <2>1
<1>4. /\ Sum(at(BenchmarkSectors), D) = theirs /\ theirs \in Int
      /\ \A x \in D : at(BenchmarkSectors)[x] \in Int
  <2>1. DOMAIN BenchmarkSectors \subseteq D
    OBVIOUS
  <2> HIDE DEF at, D
  <2> QED
    BY <1>2, <2>1, BenchmarkSectorsAre
<1>5. /\ deviation = [x \in D |-> at(sectors)[x] * theirs - at(BenchmarkSectors)[x] * own]
      /\ DOMAIN deviation = D
  BY DEF Deviation
<1>6. \A x \in D : /\ over[x] = theirs * at(sectors)[x] /\ over[x] \in Int
                   /\ under[x] = (-own) * at(BenchmarkSectors)[x] /\ under[x] \in Int
  <2> HIDE DEF at, D, own, theirs
  <2>1. ASSUME NEW a \in Int, NEW b \in Int PROVE a * b \in Int /\ -a \in Int
    OBVIOUS
  <2> QED
    BY <1>3, <1>4, <2>1
<1>7. \A x \in D : deviation[x] = over[x] + under[x]
  <2>1. ASSUME NEW a \in Int, NEW b \in Int, NEW c \in Int, NEW d \in Int
        PROVE  a * b - c * d = b * a + (-d) * c
    OBVIOUS
  <2>2. \A x \in D : deviation[x] = at(sectors)[x] * theirs - at(BenchmarkSectors)[x] * own
    <3> HIDE DEF at, D, own, theirs, deviation
    <3> QED
      BY <1>5
  <2> HIDE DEF at, D, own, theirs, deviation, over, under
  <2> QED
    BY <1>3, <1>4, <1>6, <2>1, <2>2
<1>8. Summed(deviation) = Sum(over, D) + Sum(under, D)
  <2> HIDE DEF at, D, own, theirs, deviation, over, under
  <2> QED
    BY <1>1, <1>5, <1>6, <1>7, SummedIs, SumOfSums
<1>9. Sum(over, D) = theirs * own /\ Sum(under, D) = (-own) * theirs
  <2>1. -own \in Int
    BY <1>3
  <2> HIDE DEF at, D, own, theirs, deviation, over, under
  <2> QED
    BY <1>1, <1>3, <1>4, <1>6, <2>1, SumOfMultiples
<1>10. ASSUME NEW a \in Int, NEW b \in Int PROVE a * b + (-b) * a = 0
  OBVIOUS
<1> HIDE DEF own, theirs, over, under, D
<1>11. Summed(deviation) = 0
  BY <1>3, <1>4, <1>8, <1>9, <1>10
<1> QED
  BY <1>11

-----------------------------------------------------------------------------
LEMMA LatestIsPrice == ASSUME NEW s PROVE Latest(s) = Price(s)
BY DEF Latest, Price

(* What the risk page measures. *)
ReturnsOf(h) == [s \in DOMAIN h |-> StockReturns(s)]
DatesOf(h) == CommonDates(ReturnsOf(h))
Portfolio(h) == Combined(Valued(h), ReturnsOf(h), DatesOf(h))

LEMMA MeasuresAre ==
  ASSUME NEW h
  PROVE  LET r == Measures(h) IN
         /\ r.values = Valued(h) /\ r.total = Summed(Valued(h))
         /\ r.hhi = IF Summed(Valued(h)) = 0 THEN Unknown
                    ELSE Summed([s \in DOMAIN h |-> Valued(h)[s] * Valued(h)[s]])
         /\ r.complete => Summed(Valued(h)) > 0
         /\ r.sectors = BySector(Valued(h))
         /\ r.complete =>
              /\ r.mean = Summed(Portfolio(h))
              /\ r.variance = Covariance(DatesOf(h), Portfolio(h), Portfolio(h))
              /\ r.return_contribution = ReturnContributions(Valued(h), ReturnsOf(h), DatesOf(h))
              /\ r.variance # 0 =>
                   r.risk_contribution = RiskContributions(Valued(h), ReturnsOf(h), DatesOf(h))
<1> DEFINE ready == Complete(Valued(h), ReturnsOf(h), DatesOf(h))
<1> USE DEF Measures, ReturnsOf, DatesOf, Portfolio
<1>1. Measures(h).values = Valued(h)
  OBVIOUS
<1>2. Measures(h).total = Summed(Valued(h))
  OBVIOUS
<1>3. Measures(h).hhi = IF Summed(Valued(h)) = 0 THEN Unknown
                        ELSE Summed([s \in DOMAIN h |-> Valued(h)[s] * Valued(h)[s]])
  OBVIOUS
<1>4. Measures(h).complete = ready
  OBVIOUS
<1>5. Measures(h).sectors = BySector(Valued(h))
  OBVIOUS
<1>6. ready => Measures(h).mean = Summed(Portfolio(h))
  OBVIOUS
<1>7. ready => Measures(h).variance = Covariance(DatesOf(h), Portfolio(h), Portfolio(h))
  OBVIOUS
<1>8. ready =>
        Measures(h).return_contribution = ReturnContributions(Valued(h), ReturnsOf(h), DatesOf(h))
  OBVIOUS
<1>9. ready /\ Covariance(DatesOf(h), Portfolio(h), Portfolio(h)) # 0 =>
        Measures(h).risk_contribution = RiskContributions(Valued(h), ReturnsOf(h), DatesOf(h))
  OBVIOUS
<1> HIDE DEF Measures, ReturnsOf, DatesOf, Portfolio
<1>10. ready => Summed(Valued(h)) > 0
  BY DEF Complete
<1> QED
  BY <1>1, <1>2, <1>3, <1>4, <1>5, <1>6, <1>7, <1>8, <1>9, <1>10

LEMMA ValuedIs ==
  ASSUME PortfolioInv, NEW h, DOMAIN h \subseteq Tracked, \A s \in DOMAIN h : h[s] \in Nat \ {0}
  PROVE  /\ DOMAIN Valued(h) \subseteq DOMAIN h /\ IsFiniteSet(DOMAIN Valued(h))
         /\ \A s \in DOMAIN Valued(h) : Valued(h)[s] \in Nat \ {0}
         /\ Summed(Valued(h)) # 0 => DOMAIN Valued(h) = DOMAIN h
<1>1. CASE \A s \in DOMAIN h : Price(s) # Unknown
  <2>1. Valued(h) = [s \in DOMAIN h |-> h[s] * Price(s)]
    BY <1>1 DEF Valued
  <2>2. ASSUME NEW s \in DOMAIN h PROVE h[s] * Price(s) \in Nat \ {0}
    <3>1. Price(s) \in Nat \ {0} /\ h[s] \in Nat \ {0}
      BY <1>1, PriceIs
    <3>2. ASSUME NEW a \in Nat \ {0}, NEW b \in Nat \ {0} PROVE a * b \in Nat \ {0}
      OBVIOUS
    <3> QED
      BY <3>1, <3>2
  <2>3. DOMAIN Valued(h) = DOMAIN h /\ \A s \in DOMAIN h : Valued(h)[s] \in Nat \ {0}
    BY <2>1, <2>2
  <2> QED
    BY <2>3, PortfoliosAssumption, FS_Subset
<1>2. CASE ~ \A s \in DOMAIN h : Price(s) # Unknown
  <2>1. Valued(h) = <<>>
    BY <1>2 DEF Valued
  <2>2. DOMAIN Valued(h) = {}
    BY <2>1
  <2>3. Summed(Valued(h)) = 0
    BY <2>2, SummedIs, SumOfNothing
  <2> QED
    BY <2>2, <2>3, FS_EmptySet
<1> QED
  BY <1>1, <1>2

LEMMA OwnIs ==
  ASSUME PortfolioInv
  PROVE  LET own == Restricted(holdings) IN
         /\ DOMAIN own = Held(holdings) /\ DOMAIN own \subseteq Tracked
         /\ \A s \in DOMAIN own : own[s] \in Nat \ {0}
         /\ Risk(holdings) = Measures(own)
<1>1. Restricted(holdings) = [s \in Held(holdings) |-> holdings[s]]
  BY DEF Restricted
<1>2. holdings \in [Tracked -> Int]
  BY DEF PortfolioInv
<1> QED
  BY <1>1, <1>2, HeldIs DEF Risk

LEMMA ContributionsDo == ASSUME PortfolioInv PROVE ContributionsAddUp
<1> DEFINE h == Restricted(holdings)
           r == Risk(holdings)
           values == Valued(h)
<1>1. SUFFICES ASSUME r.complete
               PROVE  /\ Summed(r.return_contribution) = r.mean
                      /\ r.variance # 0 => Summed(r.risk_contribution) = r.variance
                      /\ Summed(Deviation(r.sectors)) = 0
  BY DEF ContributionsAddUp
<1>2. DOMAIN h \subseteq Tracked /\ (\A s \in DOMAIN h : h[s] \in Nat \ {0}) /\ r = Measures(h)
  BY OwnIs
<1>3. /\ r.mean = Summed(Portfolio(h))
      /\ r.variance = Covariance(DatesOf(h), Portfolio(h), Portfolio(h))
      /\ r.return_contribution = ReturnContributions(values, ReturnsOf(h), DatesOf(h))
      /\ r.variance # 0 => r.risk_contribution = RiskContributions(values, ReturnsOf(h), DatesOf(h))
      /\ r.sectors = BySector(values)
  <2> HIDE DEF h, r
  <2> QED
    BY <1>1, <1>2, MeasuresAre
<1>4. /\ DOMAIN values \subseteq DOMAIN h /\ IsFiniteSet(DOMAIN values)
      /\ \A s \in DOMAIN values : values[s] \in Int
  <2> HIDE DEF h
  <2> QED
    BY <1>2, ValuedIs
<1>5. IsFiniteSet(DatesOf(h))
  BY CommonDatesAre DEF DatesOf
<1>6. \A s \in DOMAIN values : values[s] \in Int /\ \A d \in DatesOf(h) : ReturnsOf(h)[s][d] \in Int
  <2> SUFFICES ASSUME NEW s \in DOMAIN values, NEW d \in DatesOf(h) PROVE ReturnsOf(h)[s][d] \in Int
    BY <1>4
  <2> HIDE DEF h, values
  <2>1. s \in DOMAIN h /\ s \in Tracked
    BY <1>2, <1>4
  <2>2. ReturnsOf(h)[s] = StockReturns(s) /\ s \in DOMAIN ReturnsOf(h)
    BY <2>1 DEF ReturnsOf
  <2>3. d \in DOMAIN StockReturns(s)
    BY <2>2, CommonDatesAre DEF DatesOf
  <2> QED
    BY <2>1, <2>2, <2>3, StockReturnsAre
<1>7. Summed(r.return_contribution) = r.mean
  <2> HIDE DEF h, r, values
  <2>1. Summed(ReturnContributions(values, ReturnsOf(h), DatesOf(h)))
          = Summed(Combined(values, ReturnsOf(h), DatesOf(h)))
    BY <1>4, <1>5, <1>6, ReturnsAddUp
  <2> QED
    BY <1>3, <2>1 DEF Portfolio, values
<1>8. r.variance # 0 => Summed(r.risk_contribution) = r.variance
  <2> DEFINE portfolio == Combined(values, ReturnsOf(h), DatesOf(h))
  <2> HIDE DEF h, r, values
  <2>1. Summed(RiskContributions(values, ReturnsOf(h), DatesOf(h)))
          = Covariance(DatesOf(h), portfolio, portfolio)
    BY <1>4, <1>5, <1>6, RisksAddUp
  <2>2. portfolio = Portfolio(h)
    BY DEF Portfolio, values
  <2> QED
    BY <1>3, <2>1, <2>2
<1>9. Summed(Deviation(r.sectors)) = 0
  <2> HIDE DEF h, r, values
  <2> QED
    BY <1>3, <1>4, SectorsAre, DeviationsAddUp
<1> QED
  BY <1>7, <1>8, <1>9
-----------------------------------------------------------------------------
LEMMA AnalyticsIs ==
  ASSUME NEW h, DOMAIN h # {}
  PROVE  LET a == Analytics(h)
             value == [s \in DOMAIN h |-> h[s] * Latest(s)] IN
         IF \A s \in DOMAIN h : Latest(s) # Unknown
         THEN /\ a.complete = TRUE /\ a.total = Summed(value) /\ a.values = value
              /\ a.hhi = Summed([s \in DOMAIN h |-> value[s] * value[s]])
         ELSE a.complete = FALSE
BY DEF Analytics

LEMMA ValuationsDo == ASSUME PortfolioInv PROVE ValuationsAgree
<1> DEFINE h == Restricted(holdings)
           a == Analytics(h)
           r == Risk(holdings)
           values == Valued(h)
           value == [s \in DOMAIN h |-> h[s] * Latest(s)]
           squares == [s \in DOMAIN h |-> values[s] * values[s]]
<1>1. SUFFICES ASSUME Held(holdings) # {}
               PROVE  /\ a.complete <=> r.values # <<>>
                      /\ a.complete => a.total = r.total /\ a.values = r.values /\ a.hhi = r.hhi
                      /\ r.complete => a.complete
  BY DEF ValuationsAgree
<1>2. /\ DOMAIN h # {} /\ DOMAIN h \subseteq Tracked /\ r = Measures(h)
      /\ \A s \in DOMAIN h : h[s] \in Nat \ {0}
  BY <1>1, OwnIs
<1> HIDE DEF h
<1>3. /\ r.values = values /\ r.total = Summed(values)
      /\ r.hhi = IF Summed(values) = 0 THEN Unknown ELSE Summed(squares)
      /\ r.complete => Summed(values) > 0
  <2> HIDE DEF r
  <2> QED
    BY <1>2, MeasuresAre
<1>4. /\ IsFiniteSet(DOMAIN values)
      /\ \A s \in DOMAIN values : values[s] \in Nat \ {0}
      /\ Summed(values) # 0 => DOMAIN values = DOMAIN h
  BY <1>2, ValuedIs
<1>5. CASE \A s \in DOMAIN h : Latest(s) # Unknown
  <2>1. values = value
    <3>1. values = [s \in DOMAIN h |-> h[s] * Price(s)]
      BY <1>5, LatestIsPrice DEF Valued
    <3>2. \A s \in DOMAIN h : h[s] * Price(s) = h[s] * Latest(s)
      BY LatestIsPrice
    <3> HIDE DEF values
    <3> QED
      BY <3>1, <3>2
  <2>2. DOMAIN values = DOMAIN h
    BY <2>1
  <2>3. Summed(values) > 0
    <3>1. \A s \in DOMAIN values : values[s] \in Int /\ values[s] > 0
      BY <1>4
    <3>2. Sum(values, DOMAIN values) > 0
      <4> HIDE DEF values
      <4> QED
        BY <1>2, <1>4, <2>2, <3>1, SumOfPositives
    <3> HIDE DEF values
    <3> QED
      BY <3>2, SummedIs
  <2>4. values # <<>>
    BY <1>2, <2>2
  <2>5. a.complete = TRUE /\ a.total = Summed(value) /\ a.values = value
        /\ a.hhi = Summed([s \in DOMAIN h |-> value[s] * value[s]])
    BY <1>2, <1>5, AnalyticsIs
  <2>6. [s \in DOMAIN h |-> value[s] * value[s]] = squares
    BY <2>1
  <2> HIDE DEF a, r, values, value, squares
  <2>7. Summed(values) # 0
    BY <2>3
  <2> QED
    BY <1>3, <2>1, <2>4, <2>5, <2>6, <2>7
<1>6. CASE ~ \A s \in DOMAIN h : Latest(s) # Unknown
  <2>1. a.complete = FALSE
    BY <1>2, <1>6, AnalyticsIs
  <2>2. values = <<>>
    BY <1>6, LatestIsPrice DEF Valued
  <2>3. Summed(values) = 0
    <3>1. DOMAIN values = {}
      BY <2>2
    <3> HIDE DEF values
    <3> QED
      BY <3>1, SummedIs, SumOfNothing
  <2>4. ~ (Summed(values) > 0)
    <3> HIDE DEF values
    <3> QED
      BY <2>3
  <2> HIDE DEF a, r, values, value, squares
  <2> QED
    BY <1>3, <2>1, <2>2, <2>4
<1> QED
  BY <1>5, <1>6

(* Selling all of a stock leaves nothing of it to measure. *)
LEMMA CounterfactualDoes == ASSUME PortfolioInv PROVE CounterfactualForetells
<1> SUFFICES ASSUME NEW changes \in [Tracked -> {-1, 1}], Counterfactual(changes) # Unknown
             PROVE  Counterfactual(changes) = Risk(Restricted(Changed(changes)))
  BY DEF CounterfactualForetells
<1> DEFINE after == Changed(changes)
           touched == [s \in {t \in Tracked : holdings[t] > 0 \/ changes[t] # 0} |-> after[s]]
           kept == Restricted(after)
<1>1. Counterfactual(changes) = Risk(touched)
  BY DEF Counterfactual
<1>2. \A s \in Tracked : after[s] = holdings[s] + changes[s] /\ changes[s] \in {-1, 1} /\ after[s] \in Int
  BY DEF Changed, PortfolioInv
<1>3. DOMAIN after = Tracked
  BY DEF Changed
<1>4. DOMAIN touched = Tracked /\ \A s \in Tracked : touched[s] = after[s]
  BY <1>2
<1>5. DOMAIN kept = Held(after) /\ \A s \in Held(after) : kept[s] = after[s]
  BY DEF Restricted
<1> HIDE DEF after, touched, kept
<1>6. Held(touched) = Held(after)
  BY <1>3, <1>4 DEF Held
<1>7. Held(kept) = Held(after)
  BY <1>5 DEF Held
<1>8. [s \in Held(touched) |-> touched[s]] = [s \in Held(kept) |-> kept[s]]
  BY <1>3, <1>4, <1>5, <1>6, <1>7 DEF Held
<1>9. Risk(touched) = Risk(kept)
  BY <1>8 DEF Risk
<1> QED
  BY <1>1, <1>9 DEF kept, after
-----------------------------------------------------------------------------
LEMMA PortfolioInvInit == PortfoliosInit => PortfolioInv
BY DEF PortfoliosInit, PortfolioInv

LEMMA PortfolioInvNext == PortfolioInv /\ [PortfoliosNext]_portfolioVars => PortfolioInv'
<1> SUFFICES ASSUME PortfolioInv, [PortfoliosNext]_portfolioVars PROVE PortfolioInv'
  OBVIOUS
<1> USE DEF PortfolioInv
<1>1. CASE StoreCloses
  BY <1>1 DEF StoreCloses
<1>2. CASE InsertHolding
  <2>1. adding.stock \in Tracked /\ adding.quantity \in Nat
    BY <1>2, PortfoliosAssumption DEF InsertHolding
  <2> QED
    BY <1>2, <2>1 DEF InsertHolding
<1>3. CASE DeletePortfolio
  BY <1>3 DEF DeletePortfolio, Edit
<1>4. ASSUME NEW s \in Tracked, NEW q \in Quantities,
             AddHolding(s, q) \/ UpdateHolding(s, q) \/ InsertElsewhere(s, q)
      PROVE  PortfolioInv'
  <2>1. q \in Nat
    BY PortfoliosAssumption
  <2> QED
    BY <1>4, <2>1 DEF AddHolding, UpdateHolding, InsertElsewhere, Edit
<1>5. ASSUME NEW s \in Tracked, RemoveHolding(s) PROVE PortfolioInv'
  BY <1>5 DEF RemoveHolding, Edit
<1>6. CASE UNCHANGED portfolioVars
  BY <1>6 DEF portfolioVars
<1> QED
  BY <1>1, <1>2, <1>3, <1>4, <1>5, <1>6 DEF PortfoliosNext

(* For any stocks, sectors, capitalisations, closes and holdings: the two pages
   value a portfolio alike, its contributions and its sector deviations add up,
   and a scenario foretells what carrying it out will show
   (compute_portfolio_analytics, compute_portfolio_risk,
   PortfolioService.counterfactual). *)
THEOREM PortfolioPagesStayAgreed ==
  PortfoliosInit /\ [][PortfoliosNext]_portfolioVars => []PortfolioPagesAgree
<1>1. PortfolioInv => PortfolioPagesAgree
  BY ValuationsDo, ContributionsDo, CounterfactualDoes DEF PortfolioPagesAgree
<1> QED
  BY <1>1, PortfolioInvInit, PortfolioInvNext, PTL

-----------------------------------------------------------------------------
(* Rankings.  Every finite set of stocks has one, it names each of them once, and
   it depends on nothing but their keys. *)
Ordered(q, S, key, reverse) ==
  \A i, j \in 1..Cardinality(S) : i < j => Before(key, reverse, q[i], q[j])

LEMMA LastIsThere ==
  ASSUME NEW T, T \subseteq Int, IsFiniteSet(T), T # {}, NEW key, \A s \in T : key[s] \in Int,
         NEW reverse \in BOOLEAN
  PROVE  \E e \in T : \A s \in T : s # e => Before(key, reverse, s, e)
<1> DEFINE keys == {key[s] : s \in T}
           m == IF reverse THEN Min(keys) ELSE Max(keys)
           ties == {s \in T : key[s] = m}
           e == Max(ties)
<1>1. keys \subseteq Int /\ IsFiniteSet(keys) /\ keys # {}
  <2>1. [s \in T |-> key[s]] \in Surjection(T, keys)
    BY DEF Surjection
  <2>2. IsFiniteSet(keys)
    <3> HIDE DEF keys
    <3> QED
      BY <2>1, FS_Surjection
  <2> QED
    BY <2>2
<1>2. /\ Min(keys) \in keys /\ \A k \in keys : Min(keys) <= k
      /\ Max(keys) \in keys /\ \A k \in keys : k <= Max(keys)
  <2> HIDE DEF keys
  <2> QED
    BY <1>1, Largest, Smallest
<1>3. m \in keys /\ \A k \in keys : IF reverse THEN m <= k ELSE k <= m
  <2> HIDE DEF keys
  <2> QED
    BY <1>2
<1>4. ties \subseteq Int /\ IsFiniteSet(ties) /\ ties # {}
  <2>1. \E s \in T : key[s] = m
    <3> HIDE DEF m
    <3> QED
      BY <1>3
  <2>2. ties \in SUBSET T
    OBVIOUS
  <2> HIDE DEF m
  <2> QED
    BY <2>1, <2>2, FS_Subset
<1>5. e \in ties /\ \A s \in ties : s <= e
  <2> HIDE DEF ties
  <2> QED
    BY <1>4, Largest
<1>6. e \in T /\ key[e] = m
  <2> HIDE DEF m, e
  <2> QED
    BY <1>5
<1>7. ASSUME NEW s \in T, s # e PROVE Before(key, reverse, s, e)
  <2>1. s \in Int /\ e \in Int /\ key[s] \in Int /\ key[e] \in Int
    <3> HIDE DEF m, e
    <3> QED
      BY <1>6
  <2>2. key[s] \in keys
    OBVIOUS
  <2>3. IF reverse THEN key[e] <= key[s] ELSE key[s] <= key[e]
    <3> HIDE DEF m, e, keys
    <3> QED
      BY <1>3, <1>6, <2>2
  <2>4. key[s] = key[e] => s <= e
    <3>1. key[s] = key[e] => s \in ties
      BY <1>6
    <3> HIDE DEF m, e, ties
    <3> QED
      BY <1>5, <3>1
  <2> HIDE DEF m, e, ties
  <2> QED
    BY <1>7, <2>1, <2>3, <2>4 DEF Before
<1> HIDE DEF e, ties, m, keys
<1> QED
  BY <1>6, <1>7

LEMMA OrderIsThere ==
  ASSUME NEW S, S \subseteq Int, IsFiniteSet(S), NEW key, \A s \in S : key[s] \in Int,
         NEW reverse \in BOOLEAN
  PROVE  \E q \in [1..Cardinality(S) -> S] : Ordered(q, S, key, reverse)
<1> DEFINE F == {T \in SUBSET S : ~ \E q \in [1..Cardinality(T) -> T] : Ordered(q, T, key, reverse)}
<1>1. SUFFICES ASSUME F # {} PROVE FALSE
  OBVIOUS
<1>2. PICK T \in F : \A U \in F : U \subseteq T => U = T
  <2>1. F \in SUBSET SUBSET S
    OBVIOUS
  <2>2. IsFiniteSet(S)
    OBVIOUS
  <2> HIDE DEF F
  <2> QED
    BY ONLY <1>1, <2>1, <2>2, LeastSet
<1>3. T \subseteq Int /\ IsFiniteSet(T) /\ Cardinality(T) \in Nat /\ \A s \in T : key[s] \in Int
  BY FS_Subset, FS_CardinalityType
<1>4. CASE T = {}
  <2>1. Cardinality(T) = 0
    BY <1>4, FS_EmptySet
  <2>2. [i \in 1..0 |-> i] \in [1..Cardinality(T) -> T] /\ Ordered([i \in 1..0 |-> i], T, key, reverse)
    BY <2>1 DEF Ordered
  <2> QED
    BY <2>2
<1>5. CASE T # {}
  <2>1. PICK e \in T : \A s \in T : s # e => Before(key, reverse, s, e)
    <3> HIDE DEF F
    <3> QED
      BY ONLY <1>3, <1>5, LastIsThere, reverse \in BOOLEAN
  <2> DEFINE U == T \ {e}
             n == Cardinality(U)
  <2>2. n \in Nat /\ Cardinality(T) = n + 1
    <3>1. IsFiniteSet(U) /\ n = Cardinality(T) - 1
      BY <1>3, FS_RemoveElement
    <3>2. n \in Nat
      BY <3>1, FS_CardinalityType
    <3> QED
      BY <1>3, <3>1, <3>2
  <2>3. PICK q \in [1..n -> U] : Ordered(q, U, key, reverse)
    <3>1. U \notin F
      <4>1. U \subseteq T /\ U # T
        OBVIOUS
      <4> HIDE DEF F, U
      <4> QED
        BY <1>2, <4>1
    <3>2. U \in SUBSET S
      OBVIOUS
    <3> QED
      BY <3>1, <3>2
  <2> DEFINE r == [i \in 1..n + 1 |-> IF i = n + 1 THEN e ELSE q[i]]
  <2>4. \A i \in 1..n : q[i] \in U /\ q[i] \in T
    OBVIOUS
  <2>5. r \in [1..n + 1 -> T]
    <3> HIDE DEF U, n
    <3> QED
      BY <2>2, <2>4
  <2>6. ASSUME NEW i \in 1..n + 1, NEW j \in 1..n + 1, i < j
        PROVE  Before(key, reverse, r[i], r[j])
    <3>1. i \in 1..n /\ r[i] = q[i]
      <4> HIDE DEF U, n
      <4> QED
        BY <2>2, <2>6
    <3>2. CASE j = n + 1
      <4>1. r[j] = e
        BY <3>2
      <4> HIDE DEF r, n
      <4> QED
        BY <2>1, <2>4, <3>1, <4>1
    <3>3. CASE j # n + 1
      <4>1. j \in 1..n /\ r[j] = q[j]
        <5> HIDE DEF U, n
        <5> QED
          BY <2>2, <3>3
      <4> HIDE DEF r
      <4> QED
        BY <2>3, <2>6, <3>1, <4>1 DEF Ordered
    <3> QED
      BY <3>2, <3>3
  <2>7. Ordered(r, T, key, reverse)
    <3> HIDE DEF n, r
    <3> QED
      BY <2>2, <2>6 DEF Ordered
  <2> HIDE DEF n, r
  <2>8. r \in [1..Cardinality(T) -> T]
    BY <2>2, <2>5
  <2> QED
    BY <2>7, <2>8
<1> QED
  BY <1>4, <1>5

Enumerates(q, S) ==
  LET D == 1..Cardinality(S)
  IN  /\ IsFiniteSet(D) /\ Cardinality(S) \in Nat /\ q \in [D -> S]
      /\ \A i, j \in D : q[i] = q[j] => i = j
      /\ \A s \in S : \E i \in D : q[i] = s

LEMMA RankedIs ==
  ASSUME NEW S, S \subseteq Int, IsFiniteSet(S), NEW key, \A s \in S : key[s] \in Int,
         NEW reverse \in BOOLEAN
  PROVE  Enumerates(Ranked(S, key, reverse), S)
<1> DEFINE q == Ranked(S, key, reverse)
           n == Cardinality(S)
<1>1. n \in Nat /\ IsFiniteSet(1..n) /\ Cardinality(1..n) = n
  <2>1. n \in Nat
    BY FS_CardinalityType
  <2> HIDE DEF n
  <2> QED
    BY <2>1, FS_Interval
<1>2. \E p \in [1..n -> S] : \A i, j \in 1..n : i < j => Before(key, reverse, p[i], p[j])
  <2>1. PICK p \in [1..n -> S] : Ordered(p, S, key, reverse)
    BY OrderIsThere
  <2> QED
    BY <2>1 DEF Ordered
<1>3. q \in [1..n -> S] /\ \A i, j \in 1..n : i < j => Before(key, reverse, q[i], q[j])
  BY <1>2 DEF Ranked
<1>4. ASSUME NEW s \in S PROVE ~ Before(key, reverse, s, s)
  <2>1. s \in Int /\ key[s] \in Int
    OBVIOUS
  <2> QED
    BY <2>1 DEF Before
<1> HIDE DEF q, n
<1>5. ASSUME NEW i \in 1..n, NEW j \in 1..n, q[i] = q[j] PROVE i = j
  <2>1. q[i] \in S /\ ~ Before(key, reverse, q[i], q[j]) /\ ~ Before(key, reverse, q[j], q[i])
    BY <1>3, <1>4, <1>5
  <2>2. ~ (i < j) /\ ~ (j < i)
    BY <1>3, <2>1
  <2> QED
    BY <1>1, <2>2
<1>6. q \in Injection(1..n, S)
  BY <1>3, <1>5 DEF Injection, IsInjective
<1>7. q \in Surjection(1..n, S)
  BY <1>1, <1>6, FS_Injection DEF n
<1> QED
  BY <1>1, <1>3, <1>5, <1>7 DEF Surjection, Enumerates, q, n

LEMMA RankedSame ==
  ASSUME NEW S, NEW key, NEW other, NEW reverse, \A s \in S : key[s] = other[s]
  PROVE  Ranked(S, key, reverse) = Ranked(S, other, reverse)
<1> DEFINE C == 1..Cardinality(S)
           P(q) == q \in [C -> S] /\ \A i, j \in C : i < j => Before(key, reverse, q[i], q[j])
           Q(q) == q \in [C -> S] /\ \A i, j \in C : i < j => Before(other, reverse, q[i], q[j])
<1>1. ASSUME NEW q \in [C -> S], NEW i \in C, NEW j \in C
      PROVE  Before(key, reverse, q[i], q[j]) <=> Before(other, reverse, q[i], q[j])
  <2> HIDE DEF C
  <2>1. q[i] \in S /\ q[j] \in S
    OBVIOUS
  <2>2. key[q[i]] = other[q[i]] /\ key[q[j]] = other[q[j]]
    BY <2>1
  <2> QED
    BY <2>2 DEF Before
<1>2. \A q : P(q) <=> Q(q)
  <2> HIDE DEF C
  <2> QED
    BY <1>1
<1>3. (CHOOSE q : P(q)) = (CHOOSE q : Q(q))
  <2> HIDE DEF P, Q
  <2> QED
    BY <1>2
<1> QED
  BY <1>3 DEF Ranked

-----------------------------------------------------------------------------
(* MarketQueries: averages and attributions *)

LEMMA TotalIs == ASSUME NEW f, NEW S PROVE Total(f, S) = Sum(f, S)
BY DEF Total, MapThenSumSet, MapThenFoldSet, Sum, Sums, Chosen

(* Two averages of the same known values are equal. *)
LEMMA AveragesAgree ==
  ASSUME NEW f, NEW g, NEW A, NEW B, IsFiniteSet(A),
         {s \in A : f[s] # Missing} = {s \in B : g[s] # Missing},
         \A s \in A : f[s] # Missing => f[s] = g[s]
  PROVE  Average(f, A) = Average(g, B)
<1> DEFINE known == {s \in A : f[s] # Missing}
<1>1. IsFiniteSet(known)
  BY FS_Subset
<1>2. \A s \in known : f[s] = g[s]
  OBVIOUS
<1>3. Average(f, A) = IF known = {} THEN Missing ELSE Total(f, known) \div Cardinality(known)
  BY DEF Average
<1>4. Average(g, B) = IF known = {} THEN Missing ELSE Total(g, known) \div Cardinality(known)
  BY DEF Average
<1>5. Total(f, known) = Total(g, known)
  <2> HIDE DEF known
  <2> QED
    BY <1>1, <1>2, SumEqual, TotalIs
<1> HIDE DEF known
<1> QED
  BY <1>3, <1>4, <1>5

Available(signals) == {i \in DOMAIN signals : signals[i].direction # "unavailable"}
Voted(signals, d) == {i \in Available(signals) : signals[i].direction = d}
Voices(signals) == Voted(signals, "bullish") \cup Voted(signals, "bearish")
Base(signals) == Total([i \in Available(signals) |-> signals[i].confidence], Available(signals))

LEMMA ConflictIs ==
  ASSUME NEW signals
  PROVE  LET bulls == Voted(signals, "bullish")
             bears == Voted(signals, "bearish")
             n == Cardinality(Available(signals))
             m == Cardinality(Voices(signals))
         IN  Conflict(signals) =
               IF Available(signals) = {}
               THEN [consensus |-> "unavailable", conflict |-> FALSE, confidence |-> 0]
               ELSE [consensus |-> IF bulls # {} /\ bears # {} THEN "mixed"
                                   ELSE IF Voices(signals) = {} THEN "neutral"
                                   ELSE signals[CHOOSE i \in Voices(signals) : TRUE].direction,
                     conflict |-> bulls # {} /\ bears # {},
                     confidence |->
                       IF Voices(signals) = {} THEN (Base(signals) * 50) \div n
                       ELSE (Base(signals) * 100 * Max({Cardinality(bulls), Cardinality(bears)}))
                              \div (n * m)]
BY DEF Conflict, Available, Voted, Voices, Base

(* What a consensus is when the votes do not conflict. *)
LEMMA ConsensusIs ==
  ASSUME NEW signals, NEW i \in DOMAIN signals, signals[i].direction \in {"bullish", "bearish"}
  PROVE  Conflict(signals).consensus \in {"mixed", signals[i].direction}
<1>1. i \in Voices(signals) /\ Available(signals) # {}
  BY DEF Available, Voted, Voices
<1> DEFINE k == CHOOSE j \in Voices(signals) : TRUE
           conflict == Voted(signals, "bullish") # {} /\ Voted(signals, "bearish") # {}
<1>2. k \in Voices(signals)
  BY <1>1
<1>3. Conflict(signals).consensus = IF conflict THEN "mixed" ELSE signals[k].direction
  <2>1. \E c : Conflict(signals) =
          [consensus |-> IF conflict THEN "mixed" ELSE signals[k].direction,
           conflict |-> conflict, confidence |-> c]
    <3>1. Voices(signals) # {}
      BY <1>1
    <3> QED
      BY <1>1, <3>1, ConflictIs
  <2> HIDE DEF k, conflict
  <2> QED
    BY <2>1
<1> HIDE DEF k
<1>4. ~ conflict => signals[k].direction = signals[i].direction
  BY <1>1, <1>2 DEF Voices, Voted
<1> QED
  BY <1>3, <1>4

LEMMA SameSize ==
  ASSUME NEW D, IsFiniteSet(D), NEW A, NEW q, q \in [D -> A],
         \A i, j \in D : q[i] = q[j] => i = j, \A s \in A : \E i \in D : q[i] = s,
         NEW P, P \subseteq A, NEW Q, Q = {i \in D : q[i] \in P}
  PROVE  Cardinality(Q) = Cardinality(P) /\ (Q = {} <=> P = {})
<1> DEFINE p == [i \in Q |-> q[i]]
<1>1. IsFiniteSet(Q)
  BY FS_Subset
<1>2. p \in Injection(Q, P) /\ p \in Surjection(Q, P)
  BY DEF Injection, IsInjective, Surjection
<1>3. ExistsBijection(Q, P)
  BY <1>2 DEF ExistsBijection, Bijection
<1>4. Cardinality(Q) = Cardinality(P)
  BY <1>1, <1>3, FS_Bijection
<1>5. Q = {} <=> P = {}
  OBVIOUS
<1> QED
  BY <1>4, <1>5

(* Signals that say nothing may be left out. *)
LEMMA SilenceIsNeutral ==
  ASSUME NEW signals, DOMAIN signals \subseteq Int, IsFiniteSet(DOMAIN signals),
         \A i \in DOMAIN signals : signals[i].confidence \in Int
  PROVE  LET A == Available(signals)
             place == Ranked(A, [i \in A |-> i], FALSE)
         IN  Conflict(signals) = Conflict([k \in DOMAIN place |-> signals[place[k]]])
<1> DEFINE A == Available(signals)
           n == Cardinality(A)
           place == Ranked(A, [i \in A |-> i], FALSE)
           heard == [k \in DOMAIN place |-> signals[place[k]]]
<1>1. A \subseteq Int /\ IsFiniteSet(A) /\ A \subseteq DOMAIN signals
      /\ \A i \in A : signals[i].direction # "unavailable"
  BY FS_Subset DEF Available
<1>2. /\ n \in Nat /\ IsFiniteSet(1..n) /\ place \in [1..n -> A]
      /\ \A i, j \in 1..n : place[i] = place[j] => i = j
      /\ \A s \in A : \E i \in 1..n : place[i] = s
  <2> DEFINE key == [i \in A |-> i]
  <2>1. (\A i \in A : key[i] \in Int) /\ FALSE \in BOOLEAN
    BY <1>1
  <2> HIDE DEF key, A
  <2>2. Enumerates(Ranked(A, key, FALSE), A)
    BY ONLY <1>1, <2>1, RankedIs
  <2>3. Enumerates(place, A)
    BY <2>2 DEF key, place
  <2> HIDE DEF place
  <2> QED
    BY <2>3 DEF Enumerates, n
<1>3. DOMAIN heard = 1..n /\ \A k \in 1..n : heard[k] = signals[place[k]] /\ place[k] \in A
  <2> HIDE DEF A, n, place
  <2> QED
    BY <1>2
<1> HIDE DEF heard, place, n, A
<1>4. Available(heard) = 1..n /\ Available(heard) = {k \in 1..n : place[k] \in Available(signals)}
  BY <1>1, <1>3 DEF Available, A
<1>5. \A d : Voted(heard, d) = {k \in 1..n : place[k] \in Voted(signals, d)}
  BY <1>3, <1>4 DEF Voted, A
<1>6. Voices(heard) = {k \in 1..n : place[k] \in Voices(signals)}
  BY <1>5 DEF Voices
<1>7. Voted(signals, "bullish") \subseteq A /\ Voted(signals, "bearish") \subseteq A
      /\ Voices(signals) \subseteq A /\ A \subseteq A
  BY DEF Voted, Voices, A
<1> DEFINE of(P) == {k \in 1..n : place[k] \in P}
<1>0. ASSUME NEW P, P \subseteq A
      PROVE  Cardinality(of(P)) = Cardinality(P) /\ (of(P) = {} <=> P = {})
  <2> DEFINE Q == of(P)
  <2>1. Q = {k \in 1..n : place[k] \in P}
    OBVIOUS
  <2> DEFINE D == 1..n
  <2>2. /\ IsFiniteSet(D) /\ place \in [D -> A] /\ \A i, j \in D : place[i] = place[j] => i = j
        /\ \A s \in A : \E i \in D : place[i] = s
    BY <1>2
  <2>3. Cardinality(Q) = Cardinality(P) /\ (Q = {} <=> P = {})
    <3>1. Q = {k \in D : place[k] \in P}
      BY <2>1
    <3> HIDE DEF Q, of, D
    <3> QED
      BY ONLY <1>0, <2>2, <3>1, SameSize
  <2> QED
    BY <2>3
<1>8. /\ Cardinality(Available(heard)) = Cardinality(Available(signals))
      /\ Available(heard) = {} <=> Available(signals) = {}
  BY <1>0, <1>4, <1>7 DEF A
<1>9. /\ Cardinality(Voices(heard)) = Cardinality(Voices(signals))
      /\ Voices(heard) = {} <=> Voices(signals) = {}
  BY <1>0, <1>6, <1>7
<1>10. \A d \in {"bullish", "bearish"} :
         /\ Cardinality(Voted(heard, d)) = Cardinality(Voted(signals, d))
         /\ Voted(heard, d) = {} <=> Voted(signals, d) = {}
  BY <1>0, <1>5, <1>7
<1>11. Base(heard) = Base(signals)
  <2> DEFINE f == [i \in A |-> signals[i].confidence]
             g == [k \in 1..n |-> heard[k].confidence]
  <2>1. Base(heard) = Sum(g, 1..n)
    BY <1>4, TotalIs DEF Base
  <2>2. Base(signals) = Sum(f, A)
    BY TotalIs DEF Base, A
  <2>3. \A k \in 1..n : g[k] = f[place[k]] /\ f[place[k]] \in Int
    BY <1>1, <1>3
  <2>4. IsFiniteSet(1..n)
    BY <1>2
  <2>5. A = {place[k] : k \in 1..n}
    BY <1>2
  <2>6. Sum(g, 1..n) = Sum(f, {place[k] : k \in 1..n})
    <3> DEFINE D == 1..n
    <3>1. /\ IsFiniteSet(D) /\ \A k \in D : g[k] = f[place[k]] /\ f[place[k]] \in Int
          /\ \A i, j \in D : place[i] = place[j] => i = j
      BY <1>2, <2>3, <2>4
    <3> HIDE DEF f, g, D
    <3>2. Sum(g, D) = Sum(f, {place[k] : k \in D})
      BY <3>1, SumReindexed
    <3> QED
      BY <3>2 DEF D
  <2> HIDE DEF f, g
  <2> QED
    BY <2>1, <2>2, <2>5, <2>6
<1>12. CASE Voices(signals) = {} \/ (Voted(signals, "bullish") # {} /\ Voted(signals, "bearish") # {})
  <2>1. Conflict(heard) = Conflict(signals)
    BY <1>8, <1>9, <1>10, <1>11, <1>12, ConflictIs
  <2> QED
    BY <2>1 DEF heard, place, A
<1>13. CASE Voices(signals) # {} /\ ~ (Voted(signals, "bullish") # {} /\ Voted(signals, "bearish") # {})
  <2> DEFINE i == CHOOSE i \in Voices(signals) : TRUE
             k == CHOOSE k \in Voices(heard) : TRUE
  <2>1. i \in Voices(signals) /\ k \in Voices(heard)
    BY <1>9, <1>13
  <2> HIDE DEF i, k
  <2>2. place[k] \in Voices(signals) /\ heard[k] = signals[place[k]]
    BY <1>3, <1>6, <2>1
  <2>3. heard[k].direction = signals[i].direction
    BY <1>13, <2>1, <2>2 DEF Voices, Voted
  <2>4. Conflict(heard) = Conflict(signals)
    BY <1>8, <1>9, <1>10, <1>11, <2>3, ConflictIs DEF i, k
  <2> QED
    BY <2>4 DEF heard, place, A
<1> QED
  BY <1>12, <1>13

(* What is stored: closes that are prices and indicators that are numbers, where
   they are there. *)
BoardInv ==
  board \in [Stocks -> [closes : Seq(Prices), ema : Int \cup {Missing}, hist : Int \cup {Missing}]]

LEMMA BoardInvInit == BoardInit => BoardInv
BY DEF BoardInit, BoardInv, Unpriced

LEMMA BoardInvNext == BoardInv /\ [BoardNext]_board => BoardInv'
<1> SUFFICES ASSUME BoardInv, [BoardNext]_board PROVE BoardInv'
  OBVIOUS
<1>1. CASE UNCHANGED board
  BY <1>1 DEF BoardInv
<1>2. ASSUME NEW s \in Stocks, Ingested(s) PROVE BoardInv'
  <2>1. PICK close \in Prices, row \in IndicatorRows :
          board' = [board EXCEPT ![s] = [closes |-> <<close>> \o board[s].closes,
                                         ema |-> row[1], hist |-> row[2]]]
    BY <1>2 DEF Ingested
  <2>2. board[s].closes \in Seq(Prices)
    BY DEF BoardInv
  <2>3. <<close>> \o board[s].closes \in Seq(Prices)
    BY <2>2
  <2>4. row[1] \in Int \cup {Missing} /\ row[2] \in Int \cup {Missing}
    BY BoardAssumption
  <2> DEFINE new == <<close>> \o board[s].closes
             a == row[1]
             b == row[2]
  <2> HIDE DEF new, a, b
  <2>5. board' = [board EXCEPT ![s] = [closes |-> new, ema |-> a, hist |-> b]]
    BY <2>1 DEF new, a, b
  <2>6. new \in Seq(Prices) /\ a \in Int \cup {Missing} /\ b \in Int \cup {Missing}
    BY <2>3, <2>4 DEF new, a, b
  <2> QED
    BY <2>5, <2>6 DEF BoardInv
<1> QED
  BY <1>1, <1>2 DEF BoardNext

(* A return is known only of a stock with two closes, and then it is a number. *)
LEMMA ReturnIs ==
  ASSUME BoardInv, NEW s \in Stocks, NEW k \in Nat \ {0}
  PROVE  /\ Return(board, s, k) \in Int \cup {Missing}
         /\ Return(board, s, k) # Missing => s \in Priced(board, Stocks)
<1> DEFINE c == board[s].closes
<1>1. c \in Seq(Prices) /\ Len(c) \in Nat
  BY DEF BoardInv
<1>2. Return(board, s, k) =
        IF Len(c) <= k THEN Missing ELSE ((c[1] - c[k + 1]) * Scale) \div c[k + 1]
  BY DEF Return
<1>3. s \in Priced(board, Stocks) <=> Len(c) > 1
  BY DEF Priced
<1> HIDE DEF c
<1>4. CASE Len(c) <= k
  BY <1>2, <1>4
<1>5. CASE ~ (Len(c) <= k)
  <2>1. 1 \in 1..Len(c) /\ k + 1 \in 1..Len(c) /\ Len(c) > 1
    BY <1>1, <1>5
  <2>2. c[1] \in Nat \ {0} /\ c[k + 1] \in Nat \ {0}
    <3>1. \A i \in 1..Len(c) : c[i] \in Prices
      BY <1>1
    <3>2. Prices \subseteq Nat \ {0}
      BY BoardAssumption
    <3> QED
      BY <2>1, <3>1, <3>2
  <2> DEFINE gain == (c[1] - c[k + 1]) * Scale
             base == c[k + 1]
  <2>3. gain \in Int /\ base \in Nat \ {0}
    BY <2>2, BoardAssumption
  <2> HIDE DEF gain, base
  <2>4. gain \div base \in Int
    BY <2>3
  <2> QED
    BY <1>2, <1>3, <1>5, <2>1, <2>4 DEF gain, base
<1> QED
  BY <1>4, <1>5

LEMMA PricedIs == Priced(board, Stocks) \subseteq Stocks /\ IsFiniteSet(Stocks) /\ Stocks \subseteq Int
BY BoardAssumption DEF Priced

(* Averages of the returns of sets with the same priced stocks are equal. *)
LEMMA PricedAverages ==
  ASSUME BoardInv, NEW k \in Nat \ {0},
         NEW S, S \subseteq Stocks, NEW A, A \subseteq S, NEW T, T \subseteq Stocks, NEW B, B \subseteq T,
         \A s \in Priced(board, Stocks) : s \in A <=> s \in B
  PROVE  Average([s \in S |-> Return(board, s, k)], A) = Average([s \in T |-> Return(board, s, k)], B)
<1> DEFINE f == [s \in S |-> Return(board, s, k)]
           g == [s \in T |-> Return(board, s, k)]
<1>1. \A s \in A : f[s] = Return(board, s, k) /\ (f[s] # Missing => s \in Priced(board, Stocks))
  BY ReturnIs
<1>2. \A s \in B : g[s] = Return(board, s, k) /\ (g[s] # Missing => s \in Priced(board, Stocks))
  BY ReturnIs
<1>3. IsFiniteSet(A)
  BY PricedIs, FS_Subset
<1> HIDE DEF f, g
<1>4. {s \in A : f[s] # Missing} = {s \in B : g[s] # Missing}
  BY <1>1, <1>2
<1>5. \A s \in A : f[s] # Missing => f[s] = g[s]
  BY <1>1, <1>2
<1>6. Average(f, A) = Average(g, B)
  BY <1>3, <1>4, <1>5, AveragesAgree
<1> QED
  BY <1>6 DEF f, g

LEMMA KnownIs ==
  ASSUME NEW S
  PROVE  /\ Known(Changes(board, S)) = {s \in S : Return(board, s, 1) # Missing}
         /\ \A s \in S : Changes(board, S)[s] = Return(board, s, 1)
BY DEF Known, Changes

Rising(S) == {s \in S : Return(board, s, 1) # Missing /\ Return(board, s, 1) > 0}
Falling(S) == {s \in S : Return(board, s, 1) # Missing /\ Return(board, s, 1) < 0}
Still(S) == {s \in S : Return(board, s, 1) # Missing /\ Return(board, s, 1) = 0}
Moved(S) == {s \in S : Return(board, s, 1) # Missing}

LEMMA BreadthIs ==
  ASSUME NEW S
  PROVE  Breadth(board, S) =
           [advancers |-> Cardinality(Rising(S)), decliners |-> Cardinality(Falling(S)),
            unchanged |-> Cardinality(Still(S)), total |-> Cardinality(Moved(S)),
            ratio |-> IF Cardinality(Falling(S)) = 0 THEN Missing
                      ELSE (Cardinality(Rising(S)) * Scale) \div Cardinality(Falling(S))]
<1> DEFINE change == Changes(board, S)
<1>1. Known(change) = Moved(S) /\ \A s \in S : change[s] = Return(board, s, 1)
  BY KnownIs DEF Moved
<1>2. /\ {s \in Known(change) : change[s] > 0} = Rising(S)
      /\ {s \in Known(change) : change[s] < 0} = Falling(S)
      /\ {s \in Known(change) : change[s] = 0} = Still(S)
  <2> HIDE DEF change
  <2> QED
    BY <1>1 DEF Moved, Rising, Falling, Still
<1> QED
  BY <1>1, <1>2 DEF Breadth

LEMMA MoversAre ==
  ASSUME NEW S, NEW limit
  PROVE  /\ Gainers(board, S, limit) = First(Ranked(Rising(S), Changes(board, S), TRUE), limit)
         /\ Losers(board, S, limit) = First(Ranked(Falling(S), Changes(board, S), FALSE), limit)
<1> DEFINE change == Changes(board, S)
<1>1. Known(change) = Moved(S) /\ \A s \in S : change[s] = Return(board, s, 1)
  BY KnownIs DEF Moved
<1>2. /\ {s \in Known(change) : change[s] > 0} = Rising(S)
      /\ {s \in Known(change) : change[s] < 0} = Falling(S)
  <2> HIDE DEF change
  <2> QED
    BY <1>1 DEF Moved, Rising, Falling
<1> QED
  BY <1>2 DEF Gainers, Losers

LEMMA ViewsAreNeutral ==
  ASSUME BoardInv
  PROVE  LET known == Priced(board, Stocks)
         IN  /\ Breadth(board, Stocks) = Breadth(board, known)
             /\ \A limit : /\ Gainers(board, Stocks, limit) = Gainers(board, known, limit)
                           /\ Losers(board, Stocks, limit) = Losers(board, known, limit)
<1> DEFINE known == Priced(board, Stocks)
<1>1. known \subseteq Stocks /\ \A s \in Stocks : Return(board, s, 1) # Missing => s \in known
  BY ReturnIs, PricedIs
<1> HIDE DEF known
<1>2. /\ Rising(Stocks) = Rising(known) /\ Falling(Stocks) = Falling(known)
      /\ Still(Stocks) = Still(known) /\ Moved(Stocks) = Moved(known)
  BY <1>1 DEF Rising, Falling, Still, Moved
<1>3. Rising(known) \subseteq known /\ Falling(known) \subseteq known
  BY DEF Rising, Falling
<1>4. \A s \in known : Changes(board, Stocks)[s] = Changes(board, known)[s]
  BY <1>1, KnownIs
<1>5. /\ \A s \in Rising(known) : Changes(board, Stocks)[s] = Changes(board, known)[s]
      /\ \A s \in Falling(known) : Changes(board, Stocks)[s] = Changes(board, known)[s]
  BY <1>3, <1>4
<1>6. Breadth(board, Stocks) = Breadth(board, known)
  BY <1>2, BreadthIs
<1>7. /\ Ranked(Rising(known), Changes(board, Stocks), TRUE) = Ranked(Rising(known), Changes(board, known), TRUE)
      /\ Ranked(Falling(known), Changes(board, Stocks), FALSE) = Ranked(Falling(known), Changes(board, known), FALSE)
  BY <1>5, RankedSame
<1> QED
  BY <1>2, <1>6, <1>7, MoversAre DEF known

Stored(S) == {s \in S : board[s].closes # <<>>}
Windowed(S, x, k) == Average([s \in Stored(S) |-> Return(board, s, k)], InSector(Stored(S), x))

LEMMA RotationIs ==
  ASSUME NEW S
  PROVE  /\ DOMAIN Rotation(board, S) = SectorsOf(Stored(S))
         /\ \A x \in SectorsOf(Stored(S)) :
              /\ Rotation(board, S)[x].count = Cardinality(InSector(Stored(S), x))
              /\ Rotation(board, S)[x].regime =
                   IF Missing \in {Windowed(S, x, 1), Windowed(S, x, Week), Windowed(S, x, Month)}
                   THEN "unavailable"
                   ELSE Regime(Windowed(S, x, 1), Windowed(S, x, Week), Windowed(S, x, Month))
BY DEF Rotation, Stored, Windowed

LEMMA SectorsAverage ==
  ASSUME NEW S, NEW x \in SectorsOf(S)
  PROVE  Sectors(board, S)[x].average = Average([s \in S |-> Return(board, s, 1)], InSector(S, x))
BY DEF Sectors, Changes

LEMMA SectorPagesAreNeutral ==
  ASSUME BoardInv
  PROVE  LET known == Priced(board, Stocks)
         IN  /\ \A x \in SectorsOf(known) :
                  /\ Sectors(board, Stocks)[x].average = Sectors(board, known)[x].average
                  /\ Rotation(board, Stocks)[x].regime = Rotation(board, known)[x].regime
             /\ \A x \in SectorsOf(Stocks) \ SectorsOf(known) :
                  Sectors(board, Stocks)[x].average = Missing
<1> DEFINE known == Priced(board, Stocks)
<1>1. known \subseteq Stocks /\ Stocks \subseteq Stocks /\ 1 \in Nat \ {0}
      /\ Week \in Nat \ {0} /\ Month \in Nat \ {0}
  BY PricedIs, BoardAssumption
<1>2. /\ Stored(Stocks) \subseteq Stocks /\ Stored(known) \subseteq Stocks
      /\ known \subseteq Stored(Stocks) /\ known \subseteq Stored(known)
  <2>1. ASSUME NEW s \in known PROVE board[s].closes # <<>>
    <3>1. Len(board[s].closes) > 1
      BY <2>1 DEF Priced
    <3> QED
      BY <3>1
  <2> QED
    BY <1>1, <2>1 DEF Stored
<1>3. ASSUME NEW x \in SectorsOf(known)
      PROVE  /\ x \in SectorsOf(Stocks) /\ x \in SectorsOf(Stored(Stocks))
             /\ x \in SectorsOf(Stored(known))
  BY <1>1, <1>2, <1>3 DEF SectorsOf
<1>4. ASSUME NEW x, NEW k \in Nat \ {0}
      PROVE  Windowed(Stocks, x, k) = Windowed(known, x, k)
  <2>1. /\ InSector(Stored(Stocks), x) \subseteq Stored(Stocks)
        /\ InSector(Stored(known), x) \subseteq Stored(known)
        /\ \A s \in known : s \in InSector(Stored(Stocks), x) <=> s \in InSector(Stored(known), x)
    BY <1>2 DEF InSector
  <2> QED
    BY <1>2, <2>1, PricedAverages DEF Windowed
<1>5. ASSUME NEW x \in SectorsOf(known)
      PROVE  Sectors(board, Stocks)[x].average = Sectors(board, known)[x].average
  <2>1. /\ InSector(Stocks, x) \subseteq Stocks /\ InSector(known, x) \subseteq known
        /\ \A s \in known : s \in InSector(Stocks, x) <=> s \in InSector(known, x)
    BY <1>1 DEF InSector
  <2>2. Average([s \in Stocks |-> Return(board, s, 1)], InSector(Stocks, x))
          = Average([s \in known |-> Return(board, s, 1)], InSector(known, x))
    BY <1>1, <2>1, PricedAverages
  <2> HIDE DEF known
  <2> QED
    BY <1>3, <1>5, <2>2, SectorsAverage
<1>6. ASSUME NEW x \in SectorsOf(known)
      PROVE  Rotation(board, Stocks)[x].regime = Rotation(board, known)[x].regime
  <2>1. /\ Windowed(Stocks, x, 1) = Windowed(known, x, 1)
        /\ Windowed(Stocks, x, Week) = Windowed(known, x, Week)
        /\ Windowed(Stocks, x, Month) = Windowed(known, x, Month)
    BY <1>1, <1>4
  <2> HIDE DEF known
  <2> QED
    BY <1>3, <1>6, <2>1, RotationIs
<1>7. ASSUME NEW x \in SectorsOf(Stocks), x \notin SectorsOf(known)
      PROVE  Sectors(board, Stocks)[x].average = Missing
  <2>1. \A s \in InSector(Stocks, x) : s \notin known /\ s \in Stocks
    BY <1>7 DEF SectorsOf, InSector
  <2> DEFINE f == [s \in Stocks |-> Return(board, s, 1)]
             A == InSector(Stocks, x)
  <2>2. \A s \in A : f[s] = Missing
    BY <1>1, <2>1, ReturnIs
  <2>3. Average(f, A) = Missing
    <3> HIDE DEF f, A
    <3> QED
      BY <2>2 DEF Average
  <2> QED
    BY <2>3, SectorsAverage
<1> QED
  BY <1>5, <1>6, <1>7

LEMMA SignalsAre ==
  ASSUME NEW S, NEW s, NEW news, NEW day, NEW up
  PROVE  LET given == Signals(board, S, s, news, [day |-> day, bullish |-> up, confidence |-> 40])
         IN  DOMAIN given = 1..4 /\ \A i \in DOMAIN given : given[i].confidence \in Int
<1> DEFINE statistics == [day |-> day, bullish |-> up, confidence |-> 40]
           given == Signals(board, S, s, news, statistics)
<1>1. TechnicalView(board, s).confidence \in Int
  BY DEF TechnicalView, Signal
<1>2. NewsView(news).confidence \in Int
  BY DEF NewsView, Signal
<1>3. SectorView(board, S, s).confidence \in Int
  BY DEF SectorView, Signal
<1>4. HistoricalView(statistics, Len(board[s].closes)).confidence \in Int
  BY DEF HistoricalView, Signal
<1> HIDE DEF statistics
<1>5. /\ given[1] = TechnicalView(board, s) /\ given[2] = NewsView(news)
      /\ given[3] = SectorView(board, S, s)
      /\ given[4] = HistoricalView(statistics, Len(board[s].closes))
      /\ DOMAIN given = 1..4
  BY DEF Signals
<1>6. \A i \in 1..4 : i = 1 \/ i = 2 \/ i = 3 \/ i = 4
  OBVIOUS
<1> HIDE DEF given
<1>7. DOMAIN given = 1..4 /\ \A i \in DOMAIN given : given[i].confidence \in Int
  BY <1>1, <1>2, <1>3, <1>4, <1>5, <1>6
<1> QED
  BY <1>7 DEF given, statistics

LEMMA DriversAreNeutral ==
  ASSUME BoardInv, NEW s \in Stocks, NEW news, NEW statistics
  PROVE  Drivers(board, Stocks, s, news, FALSE, Missing, statistics)
           = Drivers(board, Priced(board, Stocks) \cup {s}, s, news, FALSE, Missing, statistics)
<1> DEFINE known == Priced(board, Stocks)
           T == known \cup {s}
           x == Sector[s]
           listed(S) == {t \in S : Sector[t] # Missing}
<1>1. known \subseteq Stocks /\ T \subseteq Stocks /\ known \subseteq T /\ 1 \in Nat \ {0}
  BY PricedIs
<1>2. Average(Changes(board, Stocks), InSector(Stocks, x)) = Average(Changes(board, T), InSector(T, x))
  <2>1. /\ InSector(Stocks, x) \subseteq Stocks /\ InSector(T, x) \subseteq T
        /\ \A t \in known : t \in InSector(Stocks, x) <=> t \in InSector(T, x)
    BY <1>1 DEF InSector
  <2> HIDE DEF T, x
  <2> QED
    BY <1>1, <2>1, PricedAverages DEF Changes
<1>3. Average(Changes(board, Stocks), listed(Stocks)) = Average(Changes(board, T), listed(T))
  <2>1. /\ listed(Stocks) \subseteq Stocks /\ listed(T) \subseteq T
        /\ \A t \in known : t \in listed(Stocks) <=> t \in listed(T)
    BY <1>1
  <2> HIDE DEF T, listed
  <2> QED
    BY <1>1, <2>1, PricedAverages DEF Changes
<1> HIDE DEF T
<1>4. SectorView(board, Stocks, s) = SectorView(board, T, s)
  BY <1>2 DEF SectorView
<1>5. Drivers(board, Stocks, s, news, FALSE, Missing, statistics)
        = Drivers(board, T, s, news, FALSE, Missing, statistics)
  BY <1>3, <1>4 DEF Drivers
<1> QED
  BY <1>5 DEF T

(* Missing data moves no page and no attribution, for any stocks, sectors, prices and
   windows, whatever was stored of each stock. *)
THEOREM MissingStaysNeutral == BoardInit /\ [][BoardNext]_board => []MissingIsNeutral
<1>1. BoardInv => MissingIsNeutral
  <2> SUFFICES ASSUME BoardInv PROVE MissingIsNeutral
    OBVIOUS
  <2> DEFINE known == Priced(board, Stocks)
             view(S) == <<Breadth(board, S), Gainers(board, S, 2), Losers(board, S, 2)>>
             statistics == [day |-> 2, bullish |-> 60, confidence |-> 40]
  <2>1. view(Stocks) = view(known)
    BY ViewsAreNeutral
  <2>2. ASSUME NEW s \in Stocks, NEW news
        PROVE  LET given == Signals(board, Stocks, s, news, statistics)
                   available == {i \in DOMAIN given : given[i].direction # "unavailable"}
                   place == Ranked(available, [i \in available |-> i], FALSE)
               IN  Conflict(given) = Conflict([k \in DOMAIN place |-> given[place[k]]])
    <3> DEFINE given == Signals(board, Stocks, s, news, statistics)
    <3>1. DOMAIN given = 1..4 /\ \A i \in DOMAIN given : given[i].confidence \in Int
      BY SignalsAre
    <3>2. DOMAIN given \subseteq Int /\ IsFiniteSet(DOMAIN given)
      <4>1. IsFiniteSet(1..4)
        <5>1. 1 \in Int /\ 4 \in Int
          OBVIOUS
        <5> QED
          BY ONLY <5>1, FS_Interval
      <4>2. 1..4 \subseteq Int
        OBVIOUS
      <4> HIDE DEF given
      <4> QED
        BY <3>1, <4>1, <4>2
    <3> HIDE DEF given
    <3>3. LET A == Available(given)
              place == Ranked(A, [i \in A |-> i], FALSE)
          IN  Conflict(given) = Conflict([k \in DOMAIN place |-> given[place[k]]])
      BY <3>1, <3>2, SilenceIsNeutral
    <3> QED
      BY <3>3 DEF Available, given
  <2>3. ASSUME NEW s \in Stocks, NEW news
        PROVE  Drivers(board, Stocks, s, news, FALSE, Missing, statistics)
                 = Drivers(board, known \cup {s}, s, news, FALSE, Missing, statistics)
    BY DriversAreNeutral
  <2>4. /\ \A x \in SectorsOf(known) :
             /\ Sectors(board, Stocks)[x].average = Sectors(board, known)[x].average
             /\ Rotation(board, Stocks)[x].regime = Rotation(board, known)[x].regime
        /\ \A x \in SectorsOf(Stocks) \ SectorsOf(known) :
             Sectors(board, Stocks)[x].average = Missing
    BY SectorPagesAreNeutral
  <2> QED
    BY <2>1, <2>2, <2>3, <2>4 DEF MissingIsNeutral
<1> QED
  BY <1>1, BoardInvInit, BoardInvNext, PTL

(* A page of one mover shows one if there is any. *)
LEMMA FirstOfRanked ==
  ASSUME NEW S, S \subseteq Stocks, NEW key, \A s \in S : key[s] \in Int, NEW reverse \in BOOLEAN
  PROVE  /\ First(Ranked(S, key, reverse), 1) \in Seq(S)
         /\ Len(First(Ranked(S, key, reverse), 1)) = IF Cardinality(S) > 0 THEN 1 ELSE 0
<1> DEFINE q == Ranked(S, key, reverse)
           n == Cardinality(S)
<1>1. Enumerates(q, S)
  <2>1. S \subseteq Int /\ IsFiniteSet(S)
    BY PricedIs, FS_Subset
  <2> QED
    BY ONLY <2>1, RankedIs, \A s \in S : key[s] \in Int, reverse \in BOOLEAN
<1>2. n \in Nat /\ q \in [1..n -> S]
  <2> HIDE DEF q
  <2> QED
    BY <1>1 DEF Enumerates
<1> HIDE DEF q, n
<1>3. q \in Seq(S) /\ Len(q) = n
  BY <1>2
<1> DEFINE k == IF Len(q) < 1 THEN Len(q) ELSE 1
<1>4. k \in 0..n /\ k = IF n > 0 THEN 1 ELSE 0
  BY <1>2, <1>3
<1>5. First(q, 1) = SubSeq(q, 1, k)
  BY DEF First
<1> HIDE DEF k
<1>6. SubSeq(q, 1, k) \in Seq(S) /\ Len(SubSeq(q, 1, k)) = k
  BY <1>2, <1>3, <1>4
<1> QED
  BY <1>4, <1>5, <1>6 DEF q, n

LEMMA MoversCount ==
  ASSUME BoardInv
  PROVE  Len(Gainers(board, Stocks, 1) \o Losers(board, Stocks, 1))
           = Cardinality({d \in {"advancers", "decliners"} : Breadth(board, Stocks)[d] > 0})
<1> DEFINE change == Changes(board, Stocks)
           up == Gainers(board, Stocks, 1)
           down == Losers(board, Stocks, 1)
           a == Cardinality(Rising(Stocks))
           b == Cardinality(Falling(Stocks))
<1>1. Rising(Stocks) \subseteq Stocks /\ Falling(Stocks) \subseteq Stocks
  BY DEF Rising, Falling
<1>2. /\ \A s \in Rising(Stocks) : change[s] \in Int
      /\ \A s \in Falling(Stocks) : change[s] \in Int
  BY ReturnIs, KnownIs DEF Rising, Falling
<1>3. TRUE \in BOOLEAN /\ FALSE \in BOOLEAN
  OBVIOUS
<1>4. a \in Nat /\ b \in Nat
  BY <1>1, PricedIs, FS_Subset, FS_CardinalityType
<1>5. up \in Seq(Rising(Stocks)) /\ Len(up) = IF a > 0 THEN 1 ELSE 0
  <2> HIDE DEF change
  <2> QED
    BY <1>1, <1>2, <1>3, MoversAre, FirstOfRanked DEF change
<1>6. down \in Seq(Falling(Stocks)) /\ Len(down) = IF b > 0 THEN 1 ELSE 0
  BY <1>1, <1>2, <1>3, MoversAre, FirstOfRanked
<1> HIDE DEF up, down
<1>7. Len(up \o down) = (IF a > 0 THEN 1 ELSE 0) + (IF b > 0 THEN 1 ELSE 0)
  <2>1. up \in Seq(Stocks) /\ down \in Seq(Stocks)
    BY <1>1, <1>5, <1>6
  <2>2. Len(up \o down) = Len(up) + Len(down)
    BY <2>1
  <2> QED
    BY <1>5, <1>6, <2>2
<1>8. Breadth(board, Stocks)["advancers"] = a /\ Breadth(board, Stocks)["decliners"] = b
  BY BreadthIs
<1> DEFINE shown == {d \in {"advancers", "decliners"} : Breadth(board, Stocks)[d] > 0}
<1> HIDE DEF a, b
<1>9. shown = (IF a > 0 THEN {"advancers"} ELSE {}) \cup (IF b > 0 THEN {"decliners"} ELSE {})
  BY <1>8
<1>10. Cardinality(shown) = (IF a > 0 THEN 1 ELSE 0) + (IF b > 0 THEN 1 ELSE 0)
  <2>1. /\ Cardinality({"advancers"}) = 1 /\ Cardinality({"decliners"}) = 1
        /\ IsFiniteSet({"advancers"}) /\ Cardinality({}) = 0
    BY FS_Singleton, FS_EmptySet
  <2>2. Cardinality({"advancers"} \cup {"decliners"}) = 2
    BY <2>1, FS_AddElement
  <2>3. /\ {"advancers"} \cup {} = {"advancers"} /\ {} \cup {"decliners"} = {"decliners"}
        /\ {} \cup {} = {}
    OBVIOUS
  <2> HIDE DEF shown
  <2>4. CASE a > 0 /\ b > 0
    BY <1>9, <2>2, <2>4
  <2>5. CASE a > 0 /\ ~ (b > 0)
    BY <1>9, <2>1, <2>3, <2>5
  <2>6. CASE ~ (a > 0) /\ b > 0
    BY <1>9, <2>1, <2>3, <2>6
  <2>7. CASE ~ (a > 0) /\ ~ (b > 0)
    BY <1>9, <2>1, <2>3, <2>7
  <2> QED
    BY <2>4, <2>5, <2>6, <2>7
<1> QED
  BY <1>7, <1>10 DEF up, down

(* Where the table has a trend, every vote of the technical view goes with it. *)
LEMMA ViewFollowsTrend ==
  ASSUME BoardInv, NEW s \in Stocks, NEW d \in {"bullish", "bearish"}, Trend(board, s) = d
  PROVE  TechnicalView(board, s).direction = d
<1> DEFINE c == board[s].closes
           ema == board[s].ema
           hist == board[s].hist
           vote(up) == IF up THEN "bullish" ELSE "bearish"
           votes == (IF c = <<>> \/ ema = Missing THEN {} ELSE {vote(Head(c) >= ema)})
                      \cup (IF hist = Missing THEN {} ELSE {vote(hist >= 0)})
<1>1. c # <<>> /\ ema # Missing /\ hist # Missing
  BY BoardAssumption DEF Trend
<1>2. c \in Seq(Prices) /\ ema \in Int /\ hist \in Int
  BY <1>1 DEF BoardInv
<1>3. Head(c) \in Int
  <2>1. Head(c) \in Prices
    BY <1>1, <1>2
  <2>2. Prices \subseteq Int
    BY BoardAssumption
  <2> QED
    BY <2>1, <2>2
<1>4. IF d = "bullish" THEN Head(c) > ema /\ hist > 0 ELSE Head(c) < ema /\ hist < 0
  BY <1>1, BoardAssumption DEF Trend
<1>5. votes = {d}
  <2> DEFINE h == Head(c)
  <2> HIDE DEF h, c, ema, hist
  <2> QED
    BY <1>1, <1>2, <1>3, <1>4 DEF h
<1>6. TechnicalView(board, s) =
        IF votes = {} THEN Signal("unavailable", 0)
        ELSE IF Cardinality(votes) = 2 THEN Signal("neutral", 50)
        ELSE Signal(CHOOSE v \in votes : TRUE, 72)
  BY DEF TechnicalView
<1> HIDE DEF votes
<1>7. TechnicalView(board, s) = Signal(d, 72)
  BY <1>5, <1>6, FS_Singleton
<1> QED
  BY <1>7 DEF Signal

LEMMA ConsensusFollowsTrend ==
  ASSUME BoardInv, NEW s \in Stocks, NEW d \in {"bullish", "bearish"}, Trend(board, s) = d,
         NEW statistics
  PROVE  Conflict(Signals(board, Stocks, s, Missing, statistics)).consensus \in {"mixed", d}
<1> DEFINE signals == Signals(board, Stocks, s, Missing, statistics)
<1>1. 1 \in DOMAIN signals /\ signals[1] = TechnicalView(board, s)
  BY DEF Signals
<1>2. signals[1].direction = d
  BY <1>1, ViewFollowsTrend
<1> HIDE DEF signals
<1>3. Conflict(signals).consensus \in {"mixed", signals[1].direction}
  BY <1>1, <1>2, ConsensusIs
<1> QED
  BY <1>2, <1>3 DEF signals

(* A bullish stock of the table is above its average and has a positive histogram. *)
LEMMA BullishIsCounted ==
  ASSUME BoardInv
  PROVE  LET bullish == {s \in Stocks : Rows(board, Stocks)[s].trend = "bullish"}
         IN  /\ Cardinality(bullish) <= Technical(board, Stocks).above
             /\ Cardinality(bullish) <= Technical(board, Stocks).positive
<1> DEFINE bullish == {s \in Stocks : Rows(board, Stocks)[s].trend = "bullish"}
           rows == {s \in Stocks : board[s].ema # Missing \/ board[s].hist # Missing}
           above == {s \in rows : board[s].ema # Missing /\ Head(board[s].closes) > board[s].ema}
           positive == {s \in rows : board[s].hist # Missing /\ board[s].hist > 0}
<1>1. /\ Technical(board, Stocks).above = Cardinality(above)
      /\ Technical(board, Stocks).positive = Cardinality(positive)
  BY DEF Technical
<1>2. ASSUME NEW s \in bullish
      PROVE  s \in above /\ s \in positive
  <2>1. s \in Stocks /\ Trend(board, s) = "bullish"
    BY DEF Rows
  <2>2. /\ board[s].ema # Missing /\ board[s].hist # Missing
        /\ Head(board[s].closes) > board[s].ema /\ board[s].hist > 0
    BY <2>1, BoardAssumption DEF Trend
  <2> HIDE DEF bullish
  <2> QED
    BY <2>1, <2>2
<1>3. above \in SUBSET Stocks /\ positive \in SUBSET Stocks
  OBVIOUS
<1>4. bullish \in SUBSET above /\ bullish \in SUBSET positive
  <2> HIDE DEF bullish, above, positive
  <2> QED
    BY <1>2
<1>5. IsFiniteSet(above) /\ IsFiniteSet(positive)
  <2> HIDE DEF above, positive
  <2> QED
    BY <1>3, PricedIs, FS_Subset
<1> HIDE DEF bullish, above, positive
<1>6. Cardinality(bullish) <= Cardinality(above) /\ Cardinality(bullish) <= Cardinality(positive)
  BY <1>4, <1>5, FS_Subset
<1> QED
  BY <1>1, <1>6 DEF bullish

LEMMA RotationIsCounted ==
  ASSUME NEW x \in DOMAIN Rotation(board, Stocks)
  PROVE  Rotation(board, Stocks)[x].count <= Sectors(board, Stocks)[x].count
<1>1. x \in SectorsOf(Stored(Stocks)) /\ x \in SectorsOf(Stocks)
  <2>1. x \in SectorsOf(Stored(Stocks))
    BY RotationIs
  <2> QED
    BY <2>1 DEF SectorsOf, Stored
<1>2. Rotation(board, Stocks)[x].count = Cardinality(InSector(Stored(Stocks), x))
  BY <1>1, RotationIs
<1>3. Sectors(board, Stocks)[x].count = Cardinality(InSector(Stocks, x))
  BY <1>1 DEF Sectors
<1>4. /\ InSector(Stocks, x) \in SUBSET Stocks
      /\ InSector(Stored(Stocks), x) \in SUBSET InSector(Stocks, x)
  BY DEF InSector, Stored
<1> QED
  BY <1>2, <1>3, <1>4, PricedIs, FS_Subset

(* No two market pages contradict each other about a stock, whatever is stored. *)
THEOREM MarketPagesStayAgreed == BoardInit /\ [][BoardNext]_board => []PagesAgree
<1>1. BoardInv => PagesAgree
  <2> SUFFICES ASSUME BoardInv PROVE PagesAgree
    OBVIOUS
  <2> DEFINE page == Workspace(board, Stocks)
             statistics == [day |-> 0, bullish |-> 50, confidence |-> 0]
             opposite == {<<"bullish", "bearish">>, <<"bearish", "bullish">>}
  <2>1. /\ page.stocks = Rows(board, Stocks) /\ page.breadth = Breadth(board, Stocks)
        /\ page.sectors = Sectors(board, Stocks) /\ page.technical = Technical(board, Stocks)
        /\ page.heatmap = Heatmap(board, Stocks) /\ page.rotation = Rotation(board, Stocks)
    BY DEF Workspace
  <2>2. \A s \in Stocks : page.stocks[s].trend = Trend(board, s)
    BY <2>1 DEF Rows
  <2>3. \A s \in DOMAIN page.heatmap : s \in Stocks /\ page.heatmap[s].signal = Trend(board, s)
    BY <2>1 DEF Heatmap
  <2>4. ASSUME NEW s \in Stocks
        PROVE  /\ <<TechnicalView(board, s).direction, Trend(board, s)>> \notin opposite
               /\ <<Conflict(Signals(board, Stocks, s, Missing, statistics)).consensus,
                    Trend(board, s)>> \notin opposite
    <3>1. \A d \in {"bullish", "bearish"} : Trend(board, s) = d =>
            /\ TechnicalView(board, s).direction = d
            /\ Conflict(Signals(board, Stocks, s, Missing, statistics)).consensus \in {"mixed", d}
      <4> HIDE DEF statistics
      <4> QED
        BY ViewFollowsTrend, ConsensusFollowsTrend
    <3> DEFINE trend == Trend(board, s)
               view == TechnicalView(board, s).direction
               told == Conflict(Signals(board, Stocks, s, Missing, statistics)).consensus
    <3>2. \A d \in {"bullish", "bearish"} : trend = d => view = d /\ told \in {"mixed", d}
      BY <3>1
    <3> HIDE DEF trend, view, told
    <3>3. <<view, trend>> \notin opposite /\ <<told, trend>> \notin opposite
      BY <3>2
    <3> QED
      BY <3>3 DEF trend, view, told
  <2>5. page.breadth.total = Cardinality(Known(Changes(board, Stocks)))
    <3>1. Known(Changes(board, Stocks)) = Moved(Stocks)
      BY KnownIs DEF Moved
    <3> QED
      BY <2>1, <3>1, BreadthIs
  <2> HIDE DEF page
  <2>6. /\ \A s \in Stocks :
             /\ <<TechnicalView(board, s).direction, page.stocks[s].trend>> \notin opposite
             /\ <<Conflict(Signals(board, Stocks, s, Missing, statistics)).consensus,
                  page.stocks[s].trend>> \notin opposite
        /\ \A s \in DOMAIN page.heatmap : page.heatmap[s].signal = page.stocks[s].trend
    <3> HIDE DEF statistics, opposite
    <3> QED
      BY <2>2, <2>3, <2>4
  <2>7. /\ Len(Gainers(board, Stocks, 1) \o Losers(board, Stocks, 1))
             = Cardinality({d \in {"advancers", "decliners"} : page.breadth[d] > 0})
        /\ Cardinality({s \in Stocks : page.stocks[s].trend = "bullish"}) <= page.technical.above
        /\ Cardinality({s \in Stocks : page.stocks[s].trend = "bullish"}) <= page.technical.positive
        /\ \A x \in DOMAIN page.rotation : page.rotation[x].count <= page.sectors[x].count
    BY <2>1, MoversCount, BullishIsCounted, RotationIsCounted
  <2> QED
    BY <2>5, <2>6, <2>7 DEF PagesAgree, page
<1> QED
  BY <1>1, BoardInvInit, BoardInvNext, PTL
================================================================================
