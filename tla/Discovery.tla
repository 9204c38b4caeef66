------------------------------- MODULE Discovery -------------------------------
(***************************************************************************)
(* The screener: a text is parsed to an AST, the AST is executed over the  *)
(* stored rows, and a screen can be saved and run again later              *)
(* (backend/app/discovery).                                                *)
(*                                                                         *)
(* A text is the set of the phrases the parser's patterns find in it.  A   *)
(* condition is <<field, operator, value, upper_value>>.  Explanations and *)
(* the result hash, a function of the AST and the rows, are left out.      *)
(***************************************************************************)
EXTENDS Integers, FiniteSets

CONSTANTS
  Owners,       \* users
  Screened,     \* stocks
  HomeSector,   \* stock -> sector
  Facts,        \* what the latest session may have left of a stock
  Texts,        \* the texts users write: sets of phrases
  ScreenIds,    \* identifiers of saved screens
  Undefined     \* None

VARIABLES
  members,   \* stock -> the index it is a member of, or Undefined
  facts,     \* stock -> [close, prior, ema_20, macd, rsi, sentiment]
  screens    \* saved_screens: id -> [owner, text, ast], or Undefined

-----------------------------------------------------------------------------
(* parser.py *)

Unsupported == {"debt", "roe", "dividend"}   \* of _UNSUPPORTED

(* At most one of the phrases of one field counts: the first that is found. *)
FirstOf(text, choices) ==
  LET found == {i \in DOMAIN choices : choices[i][1] \in text}
  IN  IF found = {} THEN {}
      ELSE {choices[CHOOSE i \in found : \A j \in found : i <= j][2]}

Conditions(text) ==
  UNION {FirstOf(text, field) : field \in
    {<< <<"in the bank sector", <<"sector", "eq", "bank", 0>> >> >>,
     << <<"rsi 40 to 60", <<"rsi_14", "between", 40, 60>> >>,
        <<"rsi above 50", <<"rsi_14", "gt", 50, 0>> >> >>,
     << <<"above ema 20", <<"price_vs_ema20", "above", 0, 0>> >>,
        <<"below ema 20", <<"price_vs_ema20", "below", 0, 0>> >> >>,
     << <<"macd negative", <<"macd_histogram", "negative", 0, 0>> >> >>,
     << <<"sentiment non-negative", <<"news_sentiment", "non_negative", 0, 0>> >> >>,
     << <<"gainers", <<"price_change_percent", "positive", 0, 0>> >>,
        <<"losers", <<"price_change_percent", "negative", 0, 0>> >> >>,
     << <<"signals bullish", <<"signal_state", "eq", "bullish", 0>> >>,
        <<"signals neutral", <<"signal_state", "eq", "neutral", 0>> >> >>,
     << <<"fits the current regime", <<"regime_fit", "eq", "aligned", 0>> >> >>}}

(* parse_screener_query; Undefined is UnsupportedScreenerQueryError *)
Parse(text) ==
  IF text \cap Unsupported # {} \/ Conditions(text) = {} THEN Undefined
  ELSE [universe |-> IF "nifty next 50" \in text THEN "NIFTYNEXT50"
                     ELSE IF "nifty 50" \in text THEN "NIFTY50" ELSE "NIFTY100",
        conditions |-> Conditions(text)]

Asts == {Parse(text) : text \in Texts} \ {Undefined}

-----------------------------------------------------------------------------
(* service.py: execute *)

(* list_approved_equities *)
Approved(universe) ==
  {s \in Screened : members[s] # Undefined /\ universe \in {"NIFTY100", members[s]}}

(* _signal *)
State(row) ==
  IF Undefined \in {row.close, row.ema_20, row.macd} THEN "unavailable"
  ELSE IF row.close > row.ema_20 /\ row.macd > 0 THEN "bullish"
  ELSE IF row.close < row.ema_20 /\ row.macd < 0 THEN "bearish"
  ELSE "neutral"

(* the state of the market: the majority of all the rows, filtered or not *)
MarketState(stocks) ==
  LET count(d) == Cardinality({s \in stocks : State(facts[s]) = d})
  IN  IF count("bullish") > count("bearish") THEN "bullish"
      ELSE IF count("bearish") > count("bullish") THEN "bearish" ELSE "neutral"

(* the numeric fields of a ScreenerRow *)
Value(s, field) ==
  LET row == facts[s] IN
  CASE field = "rsi_14" -> row.rsi
    [] field = "macd_histogram" -> row.macd
    [] field = "news_sentiment" -> row.sentiment
    [] field = "price_change_percent" ->
         IF Undefined \in {row.close, row.prior} THEN Undefined
         ELSE ((row.close - row.prior) * 100) \div row.prior

(* _numeric *)
Numeric(value, c) ==
  /\ value # Undefined
  /\ CASE c[2] = "gt" -> value > c[3]
       [] c[2] = "positive" -> value > 0
       [] c[2] = "negative" -> value < 0
       [] c[2] = "non_negative" -> value >= 0
       [] c[2] = "between" -> c[3] <= value /\ value <= c[4]

(* _matches, for a row whose regime_fit has been computed *)
Matches(s, c, market) ==
  LET row == facts[s] IN
  CASE c[1] = "sector" -> HomeSector[s] = c[3]
    [] c[1] = "price_vs_ema20" ->
         /\ Undefined \notin {row.close, row.ema_20}
         /\ IF c[2] = "above" THEN row.close > row.ema_20 ELSE row.close < row.ema_20
    [] c[1] = "signal_state" -> State(row) = c[3]
    [] c[1] = "regime_fit" -> State(row) = market
    [] OTHER -> Numeric(Value(s, c[1]), c)

(* Mutation: the regime is that of the rows the other conditions leave. *)
BugExecute(ast) ==
  LET stocks == Approved(ast.universe)
      rest == {c \in ast.conditions : c[1] # "regime_fit"}
      left == {s \in stocks : \A c \in rest : Matches(s, c, "neutral")}
  IN  {s \in left : \A c \in ast.conditions : Matches(s, c, MarketState(left))}

Execute(ast) ==
  LET stocks == Approved(ast.universe)
  IN  {s \in stocks : \A c \in ast.conditions : Matches(s, c, MarketState(stocks))}

-----------------------------------------------------------------------------
Blank == [close |-> Undefined, prior |-> Undefined, ema_20 |-> Undefined,
          macd |-> Undefined, rsi |-> Undefined, sentiment |-> Undefined]

DiscoveryInit ==
  /\ members = [s \in Screened |-> "NIFTY50"]
  /\ facts = [s \in Screened |-> Blank]
  /\ screens = [i \in ScreenIds |-> Undefined]

(* An end-of-day run stores a session; an index changes its constituents. *)
Session(s) ==
  /\ \E row \in Facts : facts' = [facts EXCEPT ![s] = row]
  /\ UNCHANGED <<members, screens>>

Reconstituted(s) ==
  /\ members' = [members EXCEPT ![s] = IF @ = "NIFTY50" THEN "NIFTYNEXT50" ELSE Undefined]
  /\ members[s] # Undefined
  /\ UNCHANGED <<facts, screens>>

(* save: the AST comes back from the browser, where the text may have been
   edited since it was screened; a rejected save changes nothing. *)
Accepted(text, ast) == Parse(text) # Undefined /\ Parse(text) = ast

(* Mutation: whatever AST the browser sends is stored. *)
BugSave(i) ==
  /\ screens[i] = Undefined
  /\ \E u \in Owners, text \in Texts, ast \in Asts :
       screens' = [screens EXCEPT ![i] = [owner |-> u, text |-> text, ast |-> ast]]
  /\ UNCHANGED <<members, facts>>

SaveScreen(i) ==
  /\ screens[i] = Undefined
  /\ \E u \in Owners, text \in Texts, ast \in Asts :
       /\ Accepted(text, ast)
       /\ screens' = [screens EXCEPT ![i] = [owner |-> u, text |-> text, ast |-> ast]]
  /\ UNCHANGED <<members, facts>>

(* repo.get: only the owner's rows are found. *)
Found(u, i) == screens[i] # Undefined /\ screens[i].owner = u

(* run_saved executes what was stored, not the text; it changes nothing. *)
RunSaved(u, i) == IF Found(u, i) THEN Execute(screens[i].ast) ELSE Undefined

DeleteSaved(u, i) ==
  /\ Found(u, i)
  /\ screens' = [screens EXCEPT ![i] = Undefined]
  /\ UNCHANGED <<members, facts>>

DiscoveryNext ==
  \/ \E s \in Screened : Session(s) \/ Reconstituted(s)
  \/ \E i \in ScreenIds : SaveScreen(i)
  \/ \E u \in Owners, i \in ScreenIds : DeleteSaved(u, i)

-----------------------------------------------------------------------------
(* A saved screen answers what its text answers today: whenever it is opened,
   after any number of sessions and index changes, it shows the rows that
   screening its text now would show, and rows only of the owner's universe. *)
SavedAnswersItsText ==
  \A u \in Owners, i \in ScreenIds : Found(u, i) =>
    /\ Parse(screens[i].text) # Undefined
    /\ RunSaved(u, i) = Execute(Parse(screens[i].text))
    /\ \A other \in Owners \ {u} : RunSaved(other, i) = Undefined

(* Narrowing a screen narrows it: a text with more conditions never shows a
   stock that the shorter text hides, whatever the conditions are -- the regime
   is judged on the whole universe, not on what is left -- and a stock is never
   shown for a fact that is missing. *)
NarrowingNarrows ==
  LET shown == [a \in Asts |-> Execute(a)] IN
  /\ \A a, b \in Asts :
       a.universe = b.universe /\ a.conditions \subseteq b.conditions
         => shown[b] \subseteq shown[a]
  /\ \A a \in Asts : \A s \in shown[a] : \A c \in a.conditions :
       CASE c[1] \in {"sector"} -> TRUE
         [] c[1] \in {"signal_state", "regime_fit", "price_vs_ema20"} ->
              Undefined \notin {facts[s].close, facts[s].ema_20}
         [] OTHER -> Value(s, c[1]) # Undefined

(* What a screen shows can be relied on, the first time and whenever it is
   opened again. *)
ScreensAreHonest == NarrowingNarrows /\ SavedAnswersItsText
===============================================================================
