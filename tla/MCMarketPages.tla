----------------------------- MODULE MCMarketPages -----------------------------
(* TLC instances of the pages that only read the stored rows: the market pages,
   the portfolio pages and the screener.  They share no variable, so that a
   behaviour is about one of them, its subject. *)
EXTENDS MarketQueries, Portfolios, Discovery, TLC

VARIABLE subject

pages == <<board>>
portfolios == <<holdings, adding, closes, edits>>
screener == <<members, facts, screens>>

Init ==
  /\ subject \in {"pages", "portfolios", "screener"}
  /\ BoardInit /\ PortfoliosInit /\ DiscoveryInit

Next ==
  \/ subject = "pages" /\ BoardNext /\ UNCHANGED <<subject, portfolios, screener>>
  \/ subject = "portfolios" /\ PortfoliosNext /\ UNCHANGED <<subject, pages, screener>>
  \/ subject = "screener" /\ DiscoveryNext /\ UNCHANGED <<subject, pages, portfolios>>

Spec == Init /\ [][Next]_<<subject, pages, portfolios, screener>>

Banks == [s \in Stocks |-> "bank"]

(* ema_20 and the MACD histogram: none yet, only the first, and agreeing or not. *)
Indicators == {<<Missing, Missing>>, <<1, Missing>>, <<1, 1>>, <<2, -1>>, <<2, 0>>, <<1, -1>>}

TwoBranches == [s \in Tracked |-> IF s = 1 THEN "energy" ELSE "bank"]
Capitalisations == [s \in Tracked |-> s]
Scenarios == [crude |-> [energy |-> 5, bank |-> 0], financials |-> [energy |-> 0, bank |-> -7]]
Benchmark == <<10, 20, 10>>

Row(now, before, ema, macd) ==
  [close |-> now, prior |-> before, ema_20 |-> ema, macd |-> macd,
   rsi |-> IF macd = Undefined THEN Undefined ELSE 50 + macd,
   sentiment |-> IF before = Undefined THEN Undefined ELSE macd]

(* rising, falling, rising against its MACD, and newly listed *)
Days == {Row(10, 9, 9, 1), Row(8, 9, 9, -1), Row(10, 9, 9, -1),
         Row(10, Undefined, Undefined, Undefined)}

Homes == [s \in Screened |-> IF s = 1 THEN "bank" ELSE "auto"]

Screens ==
  LET regime == "fits the current regime" IN
  {{regime}, {"nifty 50", regime}, {"nifty 50", regime, "gainers"},
   {"nifty 50", regime, "in the bank sector"}, {"rsi above 50", "debt"},
   {"losers", "gainers", "rsi 40 to 60", "rsi above 50"},
   {"macd negative", "sentiment non-negative", "below ema 20", "nifty next 50", "signals neutral"}}
===============================================================================
