------------------------------ MODULE Portfolios ------------------------------
(***************************************************************************)
(* A user's portfolio and the numbers shown for it:                        *)
(* PortfolioService, PortfolioRepository, analytics.py and risk.py         *)
(* (backend/app/portfolio).                                                *)
(*                                                                         *)
(* The service runs on the closes that MarketIngestion stores.  Returns    *)
(* are whole per cents.  Weights are kept as market values over their      *)
(* total, and a variance or covariance as n times a sum of products less a *)
(* product of sums: rounding, roots and annualising scale what is here,    *)
(* and volatility, Sharpe ratio, drawdown and the sensitivity to regimes   *)
(* are functions of the series of portfolio returns.                       *)
(***************************************************************************)
EXTENDS Integers, Sequences, FiniteSets, FiniteSetsExt

CONSTANTS
  Tracked,        \* stocks in the database
  Branch,         \* stock -> sector
  Capitalisation, \* stock -> market capitalisation, or Unknown
  Shocks,         \* stress scenario -> sector -> move in per cent
  Closes,         \* closing prices
  Index,          \* date -> close of the benchmark
  Quantities,     \* quantities that can be held
  MinObservations, Recent,  \* 30, and the 20 sessions of momentum
  LastDate,       \* bound: sessions stored
  MaxEdits,       \* bound: changes to the portfolio
  Unknown         \* None

ASSUME PortfoliosAssumption ==
  /\ IsFiniteSet(Tracked) /\ \A s \in Tracked : Capitalisation[s] \in Nat \cup {Unknown}
  /\ Closes \subseteq Nat \ {0} /\ Quantities \subseteq Nat \ {0}
  /\ MinObservations \in Nat \ {0} /\ Recent \in Nat \ {0}
  /\ LastDate \in Nat /\ MaxEdits \in Nat /\ \A d \in 1..LastDate : Index[d] \in Nat \ {0}

VARIABLES
  holdings,       \* stock -> quantity; 0 without a row
  adding,         \* [stock, quantity] of an add_holding before its insert
  closes,         \* date -> stock -> close, or Unknown
  edits           \* how much of the bound is spent

portfolioVars == <<holdings, adding, closes, edits>>

PortfoliosInit ==
  /\ holdings = [s \in Tracked |-> 0]
  /\ adding = Unknown /\ closes = <<>> /\ edits = 0

StoreCloses ==
  /\ Len(closes) < LastDate
  /\ \E row \in [Tracked -> Closes \cup {Unknown}] : closes' = Append(closes, row)
  /\ UNCHANGED <<holdings, adding, edits>>

Edit == edits < MaxEdits /\ edits' = edits + 1 /\ UNCHANGED closes

(* add_holding: the duplicate check; then the insert, which
   uq_portfolio_item_stock refuses if another request came first. *)
AddHolding(s, q) ==
  /\ Edit /\ adding = Unknown /\ holdings[s] = 0
  /\ adding' = [stock |-> s, quantity |-> q]
  /\ UNCHANGED holdings

InsertHolding ==
  /\ adding # Unknown
  /\ holdings' = IF holdings[adding.stock] # 0 THEN holdings
                 ELSE [holdings EXCEPT ![adding.stock] = adding.quantity]
  /\ adding' = Unknown
  /\ UNCHANGED <<closes, edits>>

(* update_holding; the requests of another tab may also insert *)
UpdateHolding(s, q) ==
  /\ Edit /\ holdings[s] # 0
  /\ holdings' = [holdings EXCEPT ![s] = q]
  /\ UNCHANGED adding

InsertElsewhere(s, q) ==
  /\ Edit /\ adding # Unknown /\ holdings[s] = 0
  /\ holdings' = [holdings EXCEPT ![s] = q]
  /\ UNCHANGED adding

RemoveHolding(s) ==
  /\ Edit /\ holdings[s] # 0
  /\ holdings' = [holdings EXCEPT ![s] = 0]
  /\ UNCHANGED adding

(* delete_portfolio takes its rows along; the foreign key then refuses the
   insert of a request that is still adding to it. *)
DeletePortfolio ==
  /\ Edit /\ \E s \in Tracked : holdings[s] # 0
  /\ holdings' = [s \in Tracked |-> 0] /\ adding' = Unknown

PortfoliosNext ==
  \/ StoreCloses \/ InsertHolding \/ DeletePortfolio
  \/ \E s \in Tracked, q \in Quantities :
       AddHolding(s, q) \/ UpdateHolding(s, q) \/ InsertElsewhere(s, q)
  \/ \E s \in Tracked : RemoveHolding(s)

-----------------------------------------------------------------------------
Summed(f) == MapThenSumSet(LAMBDA x : f[x], DOMAIN f)

Dates(s) == {d \in DOMAIN closes : closes[d][s] # Unknown}

(* the last row of get_price_histories *)
Price(s) == IF Dates(s) = {} THEN Unknown ELSE closes[Max(Dates(s))][s]

(* Mutation: a stock without a row at the newest date is unpriced. *)
BugLatest(s) == IF closes = <<>> THEN Unknown ELSE closes[Len(closes)][s]

(* the first row of get_market_snapshots *)
Latest(s) == IF Dates(s) = {} THEN Unknown ELSE closes[Max(Dates(s))][s]

Held(h) == {s \in DOMAIN h : h[s] > 0}

(* compute_portfolio_analytics: values and weights are withheld until every
   holding is priced *)
Analytics(h) ==
  LET rows == DOMAIN h
      whole == \A s \in rows : Latest(s) # Unknown
      value == [s \in rows |-> h[s] * Latest(s)]
      total == Summed(value)
      previous(s) == LET before == Dates(s) \ {Max(Dates(s))}
                     IN  IF before = {} THEN Unknown ELSE closes[Max(before)][s]
      top == Max({value[s] : s \in rows})
  IN  IF rows = {}
      THEN [complete |-> TRUE, total |-> 0, values |-> <<>>, hhi |-> 0, level |-> "low", daily |-> 0]
      ELSE IF ~whole
      THEN [complete |-> FALSE, total |-> Unknown, values |-> Unknown, hhi |-> Unknown,
            level |-> "unknown", daily |-> Unknown]
      ELSE [complete |-> TRUE, total |-> total, values |-> value,
            hhi |-> Summed([s \in rows |-> value[s] * value[s]]),
            level |-> IF 2 * top >= total THEN "high"
                      ELSE IF 10 * top >= 3 * total THEN "medium" ELSE "low",
            daily |-> IF \E s \in rows : previous(s) = Unknown THEN Unknown
                      ELSE Summed([s \in rows |-> h[s] * (Latest(s) - previous(s))])]

Restricted(h) == [s \in Held(h) |-> h[s]]

-----------------------------------------------------------------------------
(* compute_portfolio_risk *)

(* _returns: over consecutive stored closes, dated by the later *)
ReturnDates(days) == IF days = {} THEN {} ELSE days \ {Min(days)}

Returns(series) ==
  LET days == DOMAIN series
      before == [d \in ReturnDates(days) |-> series[Max({e \in days : e < d})]]
  IN  [d \in ReturnDates(days) |-> ((series[d] - before[d]) * 100) \div before[d]]

StockDates(s) == ReturnDates(Dates(s))
StockReturns(s) == Returns([d \in Dates(s) |-> closes[d][s]])
IndexReturns == Returns([d \in DOMAIN closes |-> Index[d]])

(* n(n - 1) times the sample covariance over the dates *)
Covariance(days, f, g) ==
  LET total(h) == Summed([d \in days |-> h[d]])
  IN  Cardinality(days) * Summed([d \in days |-> f[d] * g[d]]) - total(f) * total(g)

(* Mutation: a contribution is taken over all the dates of its stock. *)
BugMeasured(days, s) == StockDates(s)

(* the dates a holding's contributions are taken over *)
Measured(days, s) == days

(* the change over the last sessions: the product of their returns telescopes *)
Momentum(s) ==
  LET days == StockDates(s)
      recent == {d \in days : Cardinality({e \in days : e >= d}) <= Recent}
      base == closes[Max({e \in Dates(s) : e < Min(recent)})][s]
  IN  IF Cardinality(days) < Recent THEN Unknown ELSE ((Price(s) - base) * 100) \div base

(* a cell of the correlation matrix: the covariance and the two variances it
   is divided by, over the dates the two stocks share *)
Correlation(returns, x, y) ==
  LET f == returns[x]
      g == returns[y]
      days == DOMAIN f \cap DOMAIN g
      spread == <<Covariance(days, f, f), Covariance(days, g, g)>>
  IN  IF Cardinality(days) < MinObservations THEN Unknown
      ELSE IF spread[1] = 0 \/ spread[2] = 0 THEN IF x = y THEN "one" ELSE Unknown
      ELSE <<Covariance(days, f, g), spread>>

BySector(values) ==
  [x \in {Branch[s] : s \in DOMAIN values} |->
     Summed([s \in {t \in DOMAIN values : Branch[t] = x} |-> values[s]])]

(* _benchmark_sector_weights: by market capitalisation, or equal ones as soon
   as that of one constituent is missing *)
BenchmarkSectors ==
  BySector([s \in Tracked |->
              IF \E t \in Tracked : Capitalisation[t] = Unknown THEN 1 ELSE Capitalisation[s]])

(* sector_deviation: the weights apart, times both totals *)
Deviation(sectors) ==
  LET at(weights, x) == IF x \in DOMAIN weights THEN weights[x] ELSE 0
  IN  [x \in DOMAIN sectors \cup DOMAIN BenchmarkSectors |->
         at(sectors, x) * Summed(BenchmarkSectors) - at(BenchmarkSectors, x) * Summed(sectors)]

(* the return of the portfolio on each date, times its total value *)
Combined(values, returns, days) ==
  [d \in days |-> Summed([s \in DOMAIN values |-> values[s] * returns[s][d]])]

(* each holding's share of the mean and of the variance of those returns *)
ReturnContributions(values, returns, days) ==
  [s \in DOMAIN values |-> values[s] * Summed([d \in Measured(days, s) |-> returns[s][d]])]

RiskContributions(values, returns, days) ==
  [s \in DOMAIN values |->
     values[s] * Covariance(days, returns[s], Combined(values, returns, days))]

(* the holdings and the benchmark have these dates in common *)
CommonDates(returns) ==
  IF DOMAIN returns = {} THEN {}
  ELSE {d \in DOMAIN IndexReturns : \A s \in DOMAIN returns : d \in DOMAIN returns[s]}

(* market values: of all the holdings or of none *)
Valued(h) ==
  IF \A s \in DOMAIN h : Price(s) # Unknown THEN [s \in DOMAIN h |-> h[s] * Price(s)] ELSE <<>>

(* Without a price for every holding there are no values, total and weights. *)
Complete(values, returns, days) ==
  /\ Summed(values) > 0
  /\ \A s \in DOMAIN returns : Cardinality(DOMAIN returns[s]) >= MinObservations
  /\ Cardinality(days) >= MinObservations

(* compute_portfolio_risk, of positive quantities; of what is withheld when
   the data is not complete, Unknown *)
Measures(h) ==
  LET rows == DOMAIN h
      values == Valued(h)
      total == Summed(values)
      returns == [s \in rows |-> StockReturns(s)]
      index == IndexReturns
      short == {s \in rows : Cardinality(DOMAIN returns[s]) < MinObservations}
      days == CommonDates(returns)
      complete == Complete(values, returns, days)
      portfolio == Combined(values, returns, days)
      variance == Covariance(days, portfolio, portfolio)
      market == Covariance(days, index, index)
      none == [s \in rows |-> Unknown]
  IN  [complete |-> complete, missing |-> short, values |-> values, total |-> total,
       observations |-> Cardinality(days),
       hhi |-> IF total = 0 THEN Unknown ELSE Summed([s \in rows |-> values[s] * values[s]]),
       variance |-> IF complete THEN variance ELSE Unknown,
       mean |-> IF complete THEN Summed(portfolio) ELSE Unknown,
       beta |-> IF complete /\ market > 0
                THEN <<Covariance(days, portfolio, index), market>>
                ELSE Unknown,
       series |-> IF complete THEN portfolio ELSE Unknown,
       correlation |-> [x, y \in rows |-> Correlation(returns, x, y)],
       return_contribution |->
         IF complete THEN ReturnContributions(values, returns, days) ELSE none,
       risk_contribution |->
         IF complete /\ variance # 0 THEN RiskContributions(values, returns, days) ELSE none,
       momentum |-> IF rows = {} THEN Unknown
                    ELSE IF \E s \in rows : Momentum(s) = Unknown THEN Unknown
                    ELSE Summed([s \in DOMAIN values |-> Momentum(s) * values[s]]),
       sectors |-> BySector(values),
       stress |-> [shock \in DOMAIN Shocks |->
                     Summed([s \in DOMAIN values |-> Shocks[shock][Branch[s]] * values[s]])]]

(* Mutation: what was sold is still a holding. *)
BugRisk(h) == Measures(h)

(* _risk_for_quantities keeps the positive quantities *)
Risk(h) == Measures([s \in Held(h) |-> h[s]])

(* counterfactual: the quantities after the changes, or CounterfactualError *)
Changed(changes) == [s \in Tracked |-> holdings[s] + changes[s]]

Counterfactual(changes) ==
  LET after == Changed(changes)
  IN  IF (\E s \in Tracked : after[s] < 0) \/ Held(after) = {} THEN Unknown
      ELSE Risk([s \in {t \in Tracked : holdings[t] > 0 \/ changes[t] # 0} |-> after[s]])

-----------------------------------------------------------------------------
(* The two pages value one portfolio alike.  The analytics and the risk page
   read the prices by different queries and each decides for itself when to
   withhold; both withhold the total, the weights and the concentration, or
   both show the same. *)
ValuationsAgree ==
  LET a == Analytics(Restricted(holdings))  r == Risk(holdings) IN
  Held(holdings) # {} =>
    /\ a.complete <=> r.values # <<>>
    /\ a.complete => a.total = r.total /\ a.values = r.values /\ a.hhi = r.hhi
    /\ r.complete => a.complete

(* The contributions add up: over whatever dates the holdings and the index
   have in common, the return contributions of the holdings sum to the mean of
   the portfolio and the risk contributions to all of its variance, and what it
   is overweight in some sectors it is underweight in others. *)
ContributionsAddUp ==
  LET r == Risk(holdings) IN
  r.complete =>
    /\ Summed(r.return_contribution) = r.mean
    /\ r.variance # 0 => Summed(r.risk_contribution) = r.variance
    /\ Summed(Deviation(r.sectors)) = 0

(* A scenario shows what the risk page will show if it is carried out: the
   changed portfolio, with what it sold out of it gone, is measured exactly
   like a portfolio that holds it. *)
CounterfactualForetells ==
  \A changes \in [Tracked -> {-1, 1}] :
    LET foretold == Counterfactual(changes) IN
    foretold # Unknown =>
      foretold = Risk(Restricted(Changed(changes)))

(* What the pages of one portfolio show can be laid side by side. *)
PortfolioPagesAgree ==
  /\ ValuationsAgree
  /\ ContributionsAddUp
  /\ CounterfactualForetells
===============================================================================
