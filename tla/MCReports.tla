------------------------------- MODULE MCReports -------------------------------
(* TLC instances of what stands behind a report, a recommendation or an answer:
   the one transaction of an idempotent request (ReportIdempotency), the narrations
   that share its budget (NarrativeBudget), and the evidence and the chat that are
   about the same data (Research).  They share no variable, so that a behaviour is
   about one of them, its subject. *)
EXTENDS ReportIdempotency, NarrativeBudget, Narratives

VARIABLE subject

AnyUser == CHOOSE u \in Users : TRUE

(* Requests and fallbacks that a behaviour is not about are the same in all. *)
ReportsInit ==
  /\ subject \in {"report", "narration", "research"}
  /\ Init /\ NarrativeInit /\ ResearchInit
  /\ subject # "report" => key = [r \in Requests |-> NoKey] /\ user = [r \in Requests |-> AnyUser]
  /\ subject # "narration" => sound = Narrations

ReportsNext ==
  \/ subject = "report" /\ Next /\ UNCHANGED <<subject, narrativeVars, researchVars>>
  \/ subject = "narration" /\ NarrativeNext /\ UNCHANGED <<subject, vars, researchVars>>
  \/ subject = "research" /\ ResearchNext /\ UNCHANGED <<subject, vars, narrativeVars>>

ReportsSpec ==
  /\ ReportsInit
  /\ [][ReportsNext]_<<subject, vars, narrativeVars, researchVars>>
  /\ Fairness /\ NarrativeFairness

(* What the dashboard knows of a company: nothing yet, a young one's change and
   no averages, and strong and weak ones that differ in every indicator. *)
Facts(c, r, e, x, m, a, s) ==
  [change |-> c, rsi |-> r, ema20 |-> e, ema50 |-> x, macd |-> m, atr |-> a, sentiment |-> s]

Fresh  == Facts(Void, Void, Void, Void, Void, Void, Void)
Young  == Facts(4, Void, Void, Void, Void, Void, 0)
Strong == Facts(3, 72, 6, 5, 1, 2, 40)
Weak   == Facts(-3, 0, -6, -5, -1, 6, -40)

MCBoards == {<<Strong, Young>>, <<Weak, Young>>, <<Void, Fresh>>}
MCField  == <<"bank", Void>>

Question(t, s, m, d, c) ==
  [terms |-> t, signal |-> s, moving |-> m, brief |-> FALSE, doubt |-> d, company |-> c]

MCQuestions == {Question({}, FALSE, FALSE, TRUE, 1), Question({}, TRUE, FALSE, FALSE, Void)}
MCAnalogies == {[probability |-> 80, sample |-> 5], [probability |-> Void, sample |-> 0]}

MCBelongings ==
  {[portfolio |-> "unpriced", watched |-> {1}, headline |-> [predicts |-> FALSE, tags |-> {1}]]}
===============================================================================
