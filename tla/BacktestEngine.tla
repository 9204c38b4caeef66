---------------------------- MODULE BacktestEngine ----------------------------
(***************************************************************************)
(* BacktestEngine.run (backend/app/strategy/engine.py): the replay of a    *)
(* strategy over the daily bars of many stocks.  In every session orders   *)
(* left from earlier closes trade at the open, stops and targets trade     *)
(* during the day, and the close raises the signals of the next sessions.  *)
(*                                                                         *)
(* The order in which the phases run and in which stocks, which are        *)
(* numbers because the code sorts them, compete for slots and cash is the  *)
(* code's.  A rule is the fact that it fires: a close asks either the exit *)
(* or the entry rule of a stock, never both.  Amounts are integers and     *)
(* percentages of them round down.  Marked equity, labels and metrics are  *)
(* left out, for no decision reads them.                                   *)
(***************************************************************************)
EXTENDS Integers, FiniteSets, FiniteSetsExt, Functions

CONSTANTS
  Symbols,         \* stocks
  Bars,            \* what a session may bring a stock
  Executions,      \* ExecutionConfig: positions, stop, take and holding, 0 for None
  Capital, Slippage, Cost,   \* the rest of it: an amount and two percentages
  MaxSessions      \* bound: sessions with bars

ASSUME SymbolsAssumption == Symbols \subseteq Nat /\ IsFiniteSet(Symbols)

(* _validate_bars *)
ASSUME BarsAssumption ==
  /\ Bars \subseteq [open : Nat \ {0}, high : Nat, low : Nat \ {0}, close : Nat \ {0}]
  /\ \A b \in Bars : {b.open, b.close} \subseteq b.low .. b.high

ASSUME ExecutionAssumption ==
  /\ Executions \subseteq [positions : Nat \ {0}, stop : 0..100, take : Nat, holding : Nat]
  /\ Capital \in Nat \ {0} /\ Slippage \in 0..5 /\ Cost \in 0..5

VARIABLES
  execution,       \* definition.execution
  date, phase,     \* the session, and where in its loop body the replay is
  traded, lastBar, \* today's symbols, and the last bar of each stock with its date
  cash, positions, \* the account
  pendingEntries, pendingExits,   \* symbol -> date of the signal
  trades

account == <<cash, positions, trades>>
orders  == <<pendingEntries, pendingExits>>
vars    == <<execution, date, phase, traded, lastBar, account, orders>>

Empty == [x \in {} |-> 0]

Without(f, x) == Restrict(f, DOMAIN f \ {x})

None == 0            \* no exit signal: a stop, a target or the end of the test

-----------------------------------------------------------------------------
(* Prices, fees and levels *)

Part(percent, amount) == (percent * amount) \div 100

Buy(price)  == price + Part(Slippage, price)
Sell(price) == price - Part(Slippage, price)

Fee(notional) == Part(Cost, notional)

(* Entry notional and fee. *)
Paid(p) == p.quantity * p.price + Fee(p.quantity * p.price)

Slots == execution.positions - Cardinality(DOMAIN positions)

BugQuantity(price) ==         \* forgets that the fee is paid from the budget too
  Min({Capital \div execution.positions, cash}) \div price

Quantity(price) ==
  (100 * Min({Capital \div execution.positions, cash})) \div (price * (100 + Cost))

StopLevel(p) == p.price - Part(execution.stop, p.price)
TakeLevel(p) == p.price + Part(execution.take, p.price)

HitsStop(p, price) == execution.stop # None /\ price <= StopLevel(p)
HitsTake(p, price) == execution.take # None /\ price >= TakeLevel(p)

AtRisk(p, bar) == HitsStop(p, bar.low) \/ HitsTake(p, bar.high)

BugRiskFill(p, bar) ==        \* fills at the level even when the open is beyond it
  IF HitsStop(p, bar.low) /\ ~HitsTake(p, bar.open) THEN StopLevel(p) ELSE TakeLevel(p)

(* _risk_exit: a gap fills at the open; inside one bar the stop comes first. *)
RiskFill(p, bar) ==
  IF HitsStop(p, bar.low) /\ ~HitsTake(p, bar.open)
    THEN Min({bar.open, StopLevel(p)})
    ELSE Max({bar.open, TakeLevel(p)})

(* _close_position *)
Close(s, raw, exit, signal) ==
  LET p        == positions[s]
      notional == p.quantity * Sell(raw) IN
  /\ cash' = cash + notional - Fee(notional)
  /\ trades' = trades \cup
       {[symbol |-> s, entrySignal |-> p.signal, entry |-> p.entry,
         exitSignal |-> signal, exit |-> exit, price |-> Sell(raw),
         net |-> notional - Fee(notional) - Paid(p)]}
  /\ positions' = Without(positions, s)

-----------------------------------------------------------------------------
(* The replay *)

BugAfter == [session |-> "entries", entries |-> "risk", risk |-> "signals",
             signals |-> "exits", exits |-> "session"]   \* today's exit at today's open

After == [session |-> "exits", exits |-> "entries", entries |-> "risk",
          risk |-> "signals", signals |-> "session"]

Init ==
  /\ execution \in Executions
  /\ date = 0 /\ phase = "session"
  /\ traded = {} /\ lastBar = Empty
  /\ cash = Capital /\ positions = Empty /\ trades = {}
  /\ pendingEntries = Empty /\ pendingExits = Empty

Session ==
  /\ phase = "session" /\ date < MaxSessions
  /\ phase' = After[phase]
  /\ date' = date + 1
  /\ \E today \in (SUBSET Symbols) \ {{}} : \E bars \in [today -> Bars] :
       /\ traded' = today
       /\ lastBar' = [s \in DOMAIN lastBar \cup today |->
                        IF s \in today THEN [date |-> date', bar |-> bars[s]] ELSE lastBar[s]]
  /\ UNCHANGED <<execution, account, orders>>

ExitsDue   == DOMAIN pendingExits \cap traded
EntriesDue == DOMAIN pendingEntries \cap traded
RisksDue   == {s \in DOMAIN positions \cap traded : AtRisk(positions[s], lastBar[s].bar)}

PhaseEnds ==
  /\ \/ phase = "exits" /\ ExitsDue = {}
     \/ phase = "entries" /\ (EntriesDue = {} \/ Slots <= 0)
     \/ phase = "risk" /\ RisksDue = {}
  /\ phase' = After[phase]
  /\ UNCHANGED <<execution, date, traded, lastBar, account, orders>>

ExitAtOpen(s) ==
  /\ phase = "exits" /\ s \in ExitsDue /\ s = Min(ExitsDue)
  /\ pendingExits' = Without(pendingExits, s)
  /\ IF s \in DOMAIN positions
       THEN Close(s, lastBar[s].bar.open, date, pendingExits[s])
       ELSE UNCHANGED account
  /\ UNCHANGED <<execution, date, phase, traded, lastBar, pendingEntries>>

(* An order leaves the book whether or not it can be filled. *)
EnterAtOpen(s) ==
  /\ phase = "entries" /\ Slots > 0 /\ s \in EntriesDue /\ s = Min(EntriesDue)
  /\ pendingEntries' = Without(pendingEntries, s)
  /\ LET fill     == Buy(lastBar[s].bar.open)
         quantity == Quantity(fill)
         position == [signal |-> pendingEntries[s], entry |-> date, price |-> fill,
                      quantity |-> quantity, held |-> 0] IN
     IF s \in DOMAIN positions \/ date <= pendingEntries[s] \/ quantity = 0
       THEN UNCHANGED account
       ELSE /\ cash' = cash - Paid(position)
            /\ positions' = [r \in DOMAIN positions \cup {s} |->
                               IF r = s THEN position ELSE positions[r]]
            /\ UNCHANGED trades
  /\ UNCHANGED <<execution, date, phase, traded, lastBar, pendingExits>>

RiskExit(s) ==
  /\ phase = "risk" /\ s \in RisksDue /\ s = Min(RisksDue)
  /\ Close(s, RiskFill(positions[s], lastBar[s].bar), date, None)
  /\ pendingExits' = Without(pendingExits, s)
  /\ UNCHANGED <<execution, date, phase, traded, lastBar, pendingEntries>>

BugEntering(fired) == (fired \cap traded) \ DOMAIN pendingEntries   \* also what it holds

(* The stocks whose entry rule is asked, and fires. *)
Entering(fired) == (fired \cap traded) \ (DOMAIN positions \cup DOMAIN pendingEntries)

(* The stocks whose exit rule fires, or that were held long enough. *)
Leaving(fired) ==
  {s \in DOMAIN positions \cap traded :
     \/ s \in fired
     \/ execution.holding # None /\ positions[s].held + 1 >= execution.holding}

(* setdefault: an order keeps the date of its first signal. *)
Signalled(pending, stocks) ==
  [s \in DOMAIN pending \cup stocks |-> IF s \in DOMAIN pending THEN pending[s] ELSE date]

SignalsAtClose ==
  /\ phase = "signals"
  /\ phase' = After[phase]
  /\ \E fired \in SUBSET traded :
       /\ pendingExits' = Signalled(pendingExits, Leaving(fired))
       /\ pendingEntries' = Signalled(pendingEntries, Entering(fired))
  /\ positions' = [s \in DOMAIN positions |->
                     IF s \in traded THEN [positions[s] EXCEPT !.held = @ + 1]
                                     ELSE positions[s]]
  /\ UNCHANGED <<execution, date, traded, lastBar, cash, trades>>

(* The data ends. *)
Finish ==
  /\ phase = "session" /\ date > 0
  /\ phase' = "finish"
  /\ UNCHANGED <<execution, date, traded, lastBar, account, orders>>

CloseOut(s) ==
  /\ phase = "finish" /\ s \in DOMAIN positions /\ s = Min(DOMAIN positions)
  /\ Close(s, lastBar[s].bar.close, lastBar[s].date, None)
  /\ UNCHANGED <<execution, date, phase, traded, lastBar, orders>>

Next ==
  \/ Session \/ PhaseEnds \/ SignalsAtClose \/ Finish
  \/ \E s \in Symbols : ExitAtOpen(s) \/ EnterAtOpen(s) \/ RiskExit(s) \/ CloseOut(s)

Spec == Init /\ [][Next]_vars

-----------------------------------------------------------------------------
(* Properties *)

(* The account balances to the last fee and never lends: what was put in plus
   the net result of every trade is the cash plus what open positions cost. *)
CashConserved ==
  /\ cash >= 0
  /\ cash + MapThenSumSet(LAMBDA s : Paid(positions[s]), DOMAIN positions)
       = Capital + MapThenSumSet(LAMBDA t : t.net, trades)

(* A stock is held, waited for or neither; only what is held waits to be sold;
   no more is held than there are slots.  An order that outlives its position
   would sell the next one. *)
OneOrderPerStock ==
  /\ phase # "finish" => DOMAIN pendingExits \subseteq DOMAIN positions
  /\ DOMAIN pendingEntries \cap DOMAIN positions = {}
  /\ Slots >= 0

(* No look-ahead (docs/backtesting.md:25): nothing trades on its signal bar, the
   signals and fills of a trade follow each other in time, and an exit waits
   over no session of its stock. *)
TradesFollowSignals ==
  /\ \A t \in trades :
       /\ t.entrySignal < t.entry /\ t.entry <= t.exit
       /\ t.exitSignal # None => t.exitSignal \in t.entry .. t.exit - 1
  /\ phase = "session" =>
       \A s \in DOMAIN pendingExits : pendingExits[s] = lastBar[s].date

(* A stock is sold at a price that its bar of that day contains, whatever mixture
   of gaps, stops and targets the day brought. *)
FillsAreQuoted ==
  \A t \in trades :
    lastBar[t.symbol].date = t.exit =>
      t.price \in Sell(lastBar[t.symbol].bar.low) .. Sell(lastBar[t.symbol].bar.high)

(* The ledger of a replay is one a broker could have kept: it balances, and every
   sale is at a price of its day. *)
LedgerIsHonest == CashConserved /\ FillsAreQuoted

(* The orders of a replay are ones that could have been placed: after the signal
   that asked for them, and for what is held or is not. *)
OrdersAreHonest == TradesFollowSignals /\ OneOrderPerStock
=============================================================================
