------------------------------- MODULE Research --------------------------------
(***************************************************************************)
(* Recommendations and the chat that cites them: ContextBuilder and        *)
(* recommendation_engine.py (backend/app/intelligence), ChatService        *)
(* (backend/app/chat).  An answer is assembled from slices that are read   *)
(* one statement after another at READ COMMITTED, while end-of-day runs    *)
(* store sessions and publish new statistics of historical analogues.      *)
(*                                                                         *)
(* A question is the terms it contains.  Quantities are whole per cents; a *)
(* score of One is 1.0.  What the language model may write, and when the   *)
(* deterministic text replaces it, is in NarrativeBudget.                  *)
(***************************************************************************)
EXTENDS Integers, Sequences, FiniteSets, FiniteSetsExt, SequencesExt

CONSTANTS
  Companies,     \* active stocks, numbered in the order of their symbols
  Field,         \* company -> its sector, or Void
  Boards,        \* what a session may leave: company -> facts, Void if no price
  Analogies,     \* statistics of the analogues: [probability, sample]; or Void
  Questions,     \* what users ask: [terms, signal, moving, brief, doubt, company]
  Belongings,    \* a user's [portfolio, watched, headline]; news are in it too
  Asks,          \* requests to the chat of one user
  ContextLimit,  \* CONTEXT_HISTORY_LIMIT: rows, two for an exchange
  Void,          \* None
  MaxEvents,     \* bound: sessions stored, statistics published, clearings
  TopPicks       \* settings.top_n_recommendations

ASSUME CompaniesAssumption ==
  IsFiniteSet(Companies) /\ Companies \subseteq Int /\ Void \notin Int

(* What may be known of a quoted company; an average true range is known only
   after more sessions than a change needs. *)
ASSUME BoardsAssumption ==
  \A board \in Boards : \A s \in Companies : board[s] # Void =>
    /\ \A f \in {"change", "rsi", "ema20", "ema50", "macd", "atr", "sentiment"} :
         f \in DOMAIN board[s] /\ board[s][f] \in Int \cup {Void}
    /\ board[s].change = Void => board[s].atr = Void

(* compute_statistics: no share of an empty sample *)
ASSUME AnalogiesAssumption ==
  \A slice \in Analogies : slice # Void =>
    /\ slice.sample \in Nat
    /\ slice.probability \in IF slice.sample = 0 THEN {Void} ELSE 0..100

ASSUME BelongingsAssumption ==
  \A mine \in Belongings : mine.portfolio \in {Void, "empty", "unpriced", "valued"}

VARIABLES
  rows,          \* company -> its latest facts
  analogy,       \* statistics of the committed similarity index
  transcript,    \* chat_history: [ask, role, status], in order of created_at
  stage, draft,  \* where each ask is, and what it has read
  events

-----------------------------------------------------------------------------
(* recommendation_engine.py; a candidate is a row with the sector's average
   change and the probability of the history slice. *)

One == 30000

Clamp(x, low, high) == Max({low, Min({x, high})})
Or0(x) == IF x = Void THEN 0 ELSE x

(* _score: rsi or 50, so an RSI of zero counts as 50; 0.3 technical,
   0.2 momentum and sentiment, 0.15 sector and history, less 0.1 volatility *)
Score(c) ==
  LET unit(x) == Clamp(x, -300, 300)
      rsi == IF c.rsi \in {Void, 0} THEN 0 ELSE unit((c.rsi - 50) * 6)
      macd == IF Or0(c.macd) > 0 THEN 150 ELSE IF Or0(c.macd) < 0 THEN -150 ELSE 0
      past == IF c.probability = Void THEN 0 ELSE unit((c.probability - 50) * 6)
  IN  10 * (rsi + unit(Or0(c.ema20) * 60) + macd) + 20 * unit(Or0(c.change) * 100)
      + 15 * unit(Or0(c.sector) * 100) + 20 * unit(Or0(c.sentiment) * 3) + 15 * past
      - 10 * Clamp(Or0(c.atr) * 60, 0, 300)

Verdict(score) ==
  IF 10 * score >= One THEN "watch" ELSE IF 10 * score <= -One THEN "avoid" ELSE "hold"

(* _confidence: 50 + 40 score + 20 (probability - 0.5), within 5 and 95 *)
Confidence(c) ==
  LET adjustment == IF c.probability = Void THEN 0 ELSE (One \div 5) * (c.probability - 50)
      raw == Clamp(50 * One + 40 * Score(c) + adjustment, 5 * One, 95 * One)
  IN  (raw + One \div 2) \div One

(* Mutation: today's move is no longer named. *)
BugEvidence(c) ==
  {f \in {"rsi", "ema20", "macd", "sector"} : c[f] # Void}
  \cup (IF Or0(c.sentiment) # 0 THEN {"sentiment"} ELSE {})
  \cup (IF c.probability # Void /\ c.sample > 0 THEN {"analogues"} ELSE {})

(* _evidence: a fact is named when it is known *)
Evidence(c) ==
  {f \in {"rsi", "ema20", "macd", "change", "sector"} : c[f] # Void}
  \cup (IF Or0(c.sentiment) # 0 THEN {"sentiment"} ELSE {})
  \cup (IF c.probability # Void /\ c.sample > 0 THEN {"analogues"} ELSE {})

(* _risks *)
Risks(c) ==
  LET some == (IF c.rsi # Void /\ Or0(c.rsi) >= 70 THEN {"overbought"} ELSE {})
              \cup (IF 2 * Or0(c.atr) >= 7 THEN {"volatility"} ELSE {})
              \cup (IF Or0(c.sentiment) < 0 THEN {"negative sentiment"} ELSE {})
              \cup (IF Or0(c.ema50) < 0 THEN {"below trend"} ELSE {})
              \cup (IF c.probability # Void /\ Or0(c.probability) < 50 THEN {"downside"} ELSE {})
  IN  IF some = {} THEN {"market"} ELSE some

(* rank_candidates: by score, then by symbol *)
RankedBefore(cs, a, b) ==
  \/ Score(cs[a]) > Score(cs[b])
  \/ Score(cs[a]) = Score(cs[b]) /\ a < b

Place(cs, a) == Cardinality({b \in DOMAIN cs : RankedBefore(cs, b, a)}) + 1

Judged(cs, verdict) == {a \in DOMAIN cs : Verdict(Score(cs[a])) = verdict}

(* select_watchlist and select_risk_alerts *)
Watchlist(cs) == {a \in Judged(cs, "watch") : Place(cs, a) <= TopPicks}
Picks(cs) == Watchlist(cs) \cup Judged(cs, "avoid")

(* build_candidates, for the history slice that was read before *)
Assemble(slice) ==
  LET quoted == {s \in Companies : rows[s] # Void}
      moved == {s \in quoted : rows[s].change # Void}
      peers(s) == {t \in moved : Field[t] = Field[s]}
      sector(s) == IF Field[s] = Void \/ peers(s) = {} THEN Void
                   ELSE MapThenSumSet(LAMBDA t : rows[t].change, peers(s))
                        \div Cardinality(peers(s))
      known(f) == IF slice = Void THEN Void ELSE slice[f]
      one(s) == [f \in DOMAIN rows[s] \cup {"sector", "probability", "sample"} |->
                   CASE f = "sector" -> sector(s)
                     [] f \in {"probability", "sample"} -> known(f)
                     [] OTHER -> rows[s][f]]
  IN  [s \in quoted |-> one(s)]

-----------------------------------------------------------------------------
(* chat/service.py *)

Everything == {"portfolio", "watchlist", "market", "history", "news", "signals"}

(* Mutation: a question about signals selects the signals alone. *)
BugMentioned(q) ==
  IF q.brief \/ q.doubt THEN Everything
  ELSE q.terms \cup (IF q.signal THEN {"signals"} ELSE {})
       \cup (IF q.moving THEN {"market", "news", "signals"} ELSE {})

Mentioned(q) ==
  IF q.brief \/ q.doubt THEN Everything
  ELSE q.terms \cup (IF q.signal THEN {"market", "history", "news", "signals"} ELSE {})
       \cup (IF q.moving THEN {"market", "news", "signals"} ELSE {})

(* _topics: a question without any term is about what the previous one was. *)
Topics(q, recent) ==
  LET own == Mentioned(q)
      selected == IF own = {} /\ recent # <<>> THEN Mentioned(Last(recent)) ELSE own
  IN  IF selected = {} THEN {"portfolio", "watchlist", "market"} ELSE selected

(* A sentence of evidence: its subject, the figures it names, the confidences it
   states, and whether it reads like a prediction, as a headline may. *)
Says(about, figures) ==
  [about |-> about, figures |-> figures, sure |-> {}, predicts |-> FALSE]

(* What one topic adds to the answer; "available" counts towards confidence. *)
Part(available, evidence, risks) ==
  [available |-> available, evidence |-> evidence, risks |-> risks, cited |-> {}]

PortfolioPart(portfolio) ==
  CASE portfolio = Void       -> Part(0, {Says("no portfolio", {})}, {})
    [] portfolio = "empty"    -> Part(0, {Says("no holdings", {})}, {})
    [] portfolio = "unpriced" -> Part(1, {Says("valuation incomplete", {}), Says("holdings", {})},
                                      {"metrics withheld"})
    [] portfolio = "valued"   -> Part(1, {Says("portfolio", {"value", "return", "health"}),
                                          Says("holdings", {}), Says("weights", {"top weight"})},
                                      {"sector exposure"})

WatchlistPart(watched, changes) ==
  LET moved == {s \in watched : changes[s] # Void}
      leaders == {s \in moved : \A t \in moved : changes[t] <= changes[s]}
  IN  IF watched = {} THEN Part(0, {Says("empty watchlist", {})}, {})
      ELSE Part(1, {Says("watchlist", {"tracked"})}
                   \cup (IF leaders = {} THEN {} ELSE {Says("watchlist leader", {"change"})}), {})

MarketPart(changes) ==
  LET moved == {s \in Companies : changes[s] # Void}
  IN  Part(1, {Says("breadth", {"advancers", "decliners", "unchanged"})}
              \cup (IF moved = {} THEN {} ELSE {Says("top gainer", {"change"}),
                                               Says("top decliner", {"change"})}), {})

HistoryPart(slice) ==
  IF slice = Void THEN Part(0, {Says("no index", {})}, {})
  ELSE Part(1, {IF slice.probability = Void THEN Says("too few outcomes", {})
                ELSE Says("analogues", {"probability", "sample"})}, {"not a forecast"})

NewsPart(headline) ==
  IF headline = Void THEN Part(0, {Says("no news", {})}, {})
  ELSE Part(1, {[Says("headline", {}) EXCEPT !.predicts = headline.predicts]}, {})

Recommendation(cs, a) ==
  [company |-> a, verdict |-> Verdict(Score(cs[a])), confidence |-> Confidence(cs[a]),
   evidence |-> Evidence(cs[a]), risks |-> Risks(cs[a]),
   past |-> [probability |-> cs[a].probability, sample |-> cs[a].sample]]

(* The strongest to watch is the first of the ranking, the strongest to avoid
   the last. *)
SignalsPart(cs) ==
  LET bullish == {a \in Judged(cs, "watch") : Place(cs, a) = 1}
      bearish == {a \in Judged(cs, "avoid") : Place(cs, a) = Cardinality(DOMAIN cs)}
      recs == {Recommendation(cs, a) : a \in bullish \cup bearish}
      line(r) == [Says(r.verdict, r.evidence) EXCEPT !.sure = {r.confidence}]
      none(sign, found) == IF found = {} THEN {Says(sign, {})} ELSE {}
  IN  [Part(IF recs = {} THEN 0 ELSE 1,
            {line(r) : r \in recs} \cup none("none bullish", bullish)
            \cup none("none bearish", bearish),
            UNION {Risks(cs[a]) : a \in bearish}) EXCEPT !.cited = recs]

CompanyPart(cs, a, headline) ==
  LET r == Recommendation(cs, a)
      caused == headline # Void /\ a \in headline.tags
  IN  [Part(1, {Says("close", {"price"} \cup IF cs[a].change = Void THEN {} ELSE {"change"}),
                Says("company", r.evidence)},
            r.risks \cup IF caused THEN {} ELSE {"no news cause"}) EXCEPT !.cited = {r}]

(* What an answer about missing data lists. *)
Unavailable(mine, slice, cs) ==
  (IF mine.portfolio = Void THEN {"portfolio"}
   ELSE IF mine.portfolio # "valued" THEN {"complete valuation"} ELSE {})
  \cup (IF slice = Void THEN {"history"} ELSE {})
  \cup (IF mine.headline = Void THEN {"news"} ELSE {})
  \cup (IF \E a \in DOMAIN cs : \E f \in {"rsi", "ema20", "macd"} : cs[a][f] = Void
        THEN {"indicators"} ELSE {})

Candidate(q, cs) == q.company # Void /\ q.company \in DOMAIN cs

(* _build_draft; that data are of the end of the day is always a risk. *)
Draft(q, recent, mine, changes, slice, cs) ==
  LET topics == Topics(q, recent)
      about == (Everything \cap topics) \cup (IF Candidate(q, cs) THEN {"company"} ELSE {})
      part == [t \in about |->
        CASE t = "portfolio" -> PortfolioPart(mine.portfolio)
          [] t = "watchlist" -> WatchlistPart(mine.watched, changes)
          [] t = "market"    -> MarketPart(changes)
          [] t = "history"   -> HistoryPart(slice)
          [] t = "news"      -> NewsPart(mine.headline)
          [] t = "signals"   -> SignalsPart(cs)
          [] t = "company"   -> CompanyPart(cs, q.company, mine.headline)]
  IN  [topics |-> topics, sources |-> topics \ {"signals"},
       confidence |-> Min({85, 45 + 10 * MapThenSumSet(LAMBDA t : part[t].available, about)}),
       evidence |-> UNION {part[t].evidence : t \in about}
                    \cup (IF q.doubt THEN {Says("unavailable", Unavailable(mine, slice, cs))} ELSE {}),
       risks |-> {"end of day"} \cup UNION {part[t].risks : t \in about},
       cited |-> UNION {part[t].cited : t \in about},
       history |-> IF "history" \in topics THEN slice ELSE Void]

-----------------------------------------------------------------------------
NoDraft ==
  [question |-> Void, recent |-> <<>>, mine |-> Void, slice |-> Void, changes |-> Void,
   answer |-> Void]

ResearchInit ==
  /\ rows = [s \in Companies |-> Void]
  /\ analogy = Void
  /\ transcript = <<>>
  /\ stage = [a \in Asks |-> "idle"]
  /\ draft = [a \in Asks |-> NoDraft]
  /\ events = 0

researchVars == <<rows, analogy, transcript, stage, draft, events>>

(* An end-of-day run stores a session; its last step publishes statistics. *)
StoreSession ==
  /\ events < MaxEvents /\ events' = events + 1
  /\ rows' \in Boards \ {rows}
  /\ UNCHANGED <<analogy, transcript, stage, draft>>

PublishAnalogies ==
  /\ events < MaxEvents /\ events' = events + 1
  /\ analogy' \in Analogies \ {analogy}
  /\ UNCHANGED <<rows, transcript, stage, draft>>

Steps(a, from, to) == stage[a] = from /\ stage' = [stage EXCEPT ![a] = to]

(* The places in the transcript of the rows that others can read: what was
   rolled back or deleted keeps its place and is gone. *)
Visible == {i \in DOMAIN transcript : transcript[i].status = "committed"}

(* list_history: the latest rows *)
ListHistory(limit) == {i \in Visible : Cardinality({j \in Visible : j >= i}) <= limit}

(* ask, up to its first read; what the user owns and the tagged news are taken
   here, as no step of this module changes them *)
Ask(a) ==
  /\ Steps(a, "idle", "history")
  /\ \E q \in Questions, mine \in Belongings :
       LET asked == {i \in ListHistory(ContextLimit) : transcript[i].role = "user"}
           oldest == SetToSortSeq(asked, LAMBDA i, j : i < j)
       IN  draft' = [draft EXCEPT ![a] = [NoDraft EXCEPT
             !.question = q, !.mine = mine,
             !.recent = [k \in DOMAIN oldest |-> draft[transcript[oldest[k]].ask].question]]]
  /\ UNCHANGED <<rows, analogy, transcript, events>>

(* build_history_slice; without an index the slice is None *)
ReadHistorySlice(a) ==
  /\ Steps(a, "history", "market")
  /\ draft' = [draft EXCEPT ![a].slice = analogy]
  /\ UNCHANGED <<rows, analogy, transcript, events>>

(* build_market_slice *)
ReadMarketSlice(a) ==
  /\ Steps(a, "market", "candidates")
  /\ draft' = [draft EXCEPT ![a].changes =
       [s \in Companies |-> IF rows[s] = Void THEN Void ELSE rows[s].change]]
  /\ UNCHANGED <<rows, analogy, transcript, events>>

(* build_candidates, and the draft and its narration, which read no data: of what
   was read, the answer is left *)
Drafted(d, cs) ==
  [NoDraft EXCEPT !.question = d.question,
     !.answer = Draft(d.question, d.recent, d.mine, d.changes, d.slice, cs)]

(* Mutation: the statistics are read again for the candidates. *)
BugReadCandidates(a) ==
  /\ Steps(a, "candidates", "question")
  /\ draft' = [draft EXCEPT ![a] = Drafted(draft[a], Assemble(analogy))]
  /\ UNCHANGED <<rows, analogy, transcript, events>>

ReadCandidates(a) ==
  /\ Steps(a, "candidates", "question")
  /\ draft' = [draft EXCEPT ![a] = Drafted(draft[a], Assemble(draft[a].slice))]
  /\ UNCHANGED <<rows, analogy, transcript, events>>

Message(a, role) == [ask |-> a, role |-> role, status |-> "added"]

(* Mutation: each message is committed as it is added. *)
BugAddQuestion(a) ==
  /\ Steps(a, "question", "answer")
  /\ transcript' = Append(transcript, [Message(a, "user") EXCEPT !.status = "committed"])
  /\ UNCHANGED <<rows, analogy, draft, events>>

(* add_message, twice: created_at is taken at each flush *)
AddQuestion(a) ==
  /\ Steps(a, "question", "answer")
  /\ transcript' = Append(transcript, Message(a, "user"))
  /\ UNCHANGED <<rows, analogy, draft, events>>

AddAnswer(a) ==
  /\ Steps(a, "answer", "commit")
  /\ transcript' = Append(transcript, Message(a, "assistant"))
  /\ UNCHANGED <<rows, analogy, draft, events>>

MessagesOf(a) == {i \in DOMAIN transcript : transcript[i].ask = a}

Marked(places, status) ==
  [i \in DOMAIN transcript |->
     IF i \in places THEN [transcript[i] EXCEPT !.status = status] ELSE transcript[i]]

CommitExchange(a) ==
  /\ Steps(a, "commit", "done")
  /\ transcript' = Marked(MessagesOf(a), "committed")
  /\ draft' = [draft EXCEPT ![a].answer = Void]
  /\ UNCHANGED <<rows, analogy, events>>

(* A statement fails or the server stops: the session rolls back. *)
Abort(a) ==
  /\ stage[a] \notin {"idle", "done", "failed"}
  /\ stage' = [stage EXCEPT ![a] = "failed"]
  /\ transcript' = Marked(MessagesOf(a), "gone")
  /\ draft' = [draft EXCEPT ![a] = NoDraft]
  /\ UNCHANGED <<rows, analogy, events>>

(* clear_history deletes the rows that are committed. *)
ClearHistory ==
  /\ events < MaxEvents /\ events' = events + 1
  /\ Visible # {}
  /\ transcript' = Marked(Visible, "gone")
  /\ UNCHANGED <<rows, analogy, stage, draft>>

ResearchNext ==
  \/ StoreSession \/ PublishAnalogies \/ ClearHistory
  \/ \E a \in Asks :
       \/ Ask(a) \/ ReadHistorySlice(a) \/ ReadMarketSlice(a) \/ ReadCandidates(a)
       \/ AddQuestion(a) \/ AddAnswer(a) \/ CommitExchange(a) \/ Abort(a)

-----------------------------------------------------------------------------
(* The conversation holds whole exchanges: whatever asks overlap, fail or are
   cleared away meanwhile, a visible question has its answer after it and a
   visible answer its question before it. *)
ExchangesAreWhole ==
  \A i \in Visible : \E j \in Visible :
    /\ transcript[j].ask = transcript[i].ask /\ transcript[j].role # transcript[i].role
    /\ transcript[i].role = "user" <=> i < j

(* An answer tells one story: the share of analogues that every recommendation
   it cites gives as evidence is the one its history paragraph shows, although
   an index may be published between the two reads. *)
AnswersTellOneStory ==
  \A a \in Asks : draft[a].answer # Void /\ "history" \in draft[a].answer.topics =>
    \A rec \in draft[a].answer.cited : "analogues" \in rec.evidence =>
      /\ draft[a].answer.history # Void
      /\ rec.past = [f \in {"probability", "sample"} |-> draft[a].answer.history[f]]
===============================================================================
