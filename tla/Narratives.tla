------------------------------ MODULE Narratives -------------------------------
(***************************************************************************)
(* The deterministic texts and the validator that every text must pass:    *)
(* prompt_builder.py, explainability.py and the sections of a report       *)
(* (report_generator.py).  A text that the model wrote and the validator   *)
(* refuses is replaced by the deterministic one, which is validated too:   *)
(* if it is refused the request fails.                                     *)
(*                                                                         *)
(* A text is what the validator can see of it: the figures it names, the   *)
(* confidences it states, the words that anchor it, and whether it reads   *)
(* like a prediction.  A prompt is the facts a text may draw on.           *)
(***************************************************************************)
EXTENDS Research

Text(figures, words) ==
  [figures |-> figures, words |-> words, names |-> {}, sure |-> {}, predicts |-> FALSE]

(* validate_grounded_narrative *)
Grounded(text, facts) ==
  /\ ~text.predicts
  /\ text.figures \subseteq facts.figures
  /\ CASE facts.kind = "recommendation" ->
            /\ facts.symbol \in text.names
            /\ text.sure \subseteq {facts.confidence}
            /\ text.words \cap facts.evidence # {} /\ text.words \cap facts.risks # {}
       [] facts.kind = "market" ->
            {"advancers", "decliners"} \subseteq text.figures
       [] facts.kind = "historical" ->
            /\ "historical" \in text.words
            /\ facts.sample > 0 => "sample" \in text.figures /\ "forecast" \in text.words
       [] facts.kind = "unpriced" -> {"portfolio", "unavailable"} \subseteq text.words
       [] facts.kind = "valued" -> {"portfolio", "risk level"} \subseteq text.words
                                   /\ "health" \in text.figures
       [] facts.kind = "executive" -> text.words \cap facts.anchors # {}
       [] facts.kind = "chat" ->
            /\ text.sure \subseteq {facts.confidence}
            /\ \A part \in {"evidence", "sources", "risks"} :
                 text.words \cap facts[part] # {}

-----------------------------------------------------------------------------
(* prompt_builder.py: what is told of each section, and the facts beside it *)

MarketSection(changes) ==
  LET moved == {s \in Companies : changes[s] # Void}
      falling == {s \in moved : changes[s] < 0}
      ratio == IF falling = {} THEN {} ELSE {"ratio"}
      movers == IF moved = {} THEN {} ELSE {"top gainer", "top decliner"}
  IN  [facts |-> [kind |-> "market", figures |-> {"advancers", "decliners", "unchanged"}
                                                 \cup ratio \cup movers],
       text |-> Text({"advancers", "decliners"} \cup ratio \cup movers, {"market"})]

HistoricalSection(slice) ==
  [facts |-> [kind |-> "historical", sample |-> slice.sample,
              figures |-> {"sample"} \cup IF slice.probability = Void THEN {}
                                         ELSE {"probability", "average"}],
   text |-> IF slice.sample = 0 THEN Text({}, {"historical"})
            ELSE Text({"sample", "probability", "average"}, {"historical", "forecast"})]

PortfolioSection(portfolio) ==
  IF portfolio = "unpriced"
  THEN [facts |-> [kind |-> "unpriced", figures |-> {"cost"}],
        text |-> Text({"cost"}, {"portfolio", "unavailable"})]
  ELSE LET figures == {"value", "health", "diversification", "holdings"}
                      \cup IF portfolio = "valued" THEN {"return"} ELSE {}
       IN [facts |-> [kind |-> "valued", figures |-> figures \cup {"cost"}],
           text |-> Text(figures, {"portfolio", "risk level"})]

Explanation(r) ==
  [facts |-> [kind |-> "recommendation", symbol |-> r.company, confidence |-> r.confidence,
              evidence |-> r.evidence, risks |-> r.risks, figures |-> r.evidence],
   text |-> [Text(r.evidence, r.evidence \cup r.risks)
               EXCEPT !.names = {r.company}, !.sure = {r.confidence}]]

(* executive_summary joins the texts of the sections it follows. *)
ExecutiveSummary(texts) ==
  LET figures == UNION {t.figures : t \in texts}
      words == UNION {t.words : t \in texts}
  IN  [facts |-> [kind |-> "executive", figures |-> figures, anchors |-> words],
       text |-> Text(figures, words)]

(* chat_response: the evidence, the confidence, the sources and the risks *)
ChatResponse(answer) ==
  LET figures == UNION {e.figures : e \in answer.evidence}
      words == {e.about : e \in answer.evidence}
  IN  [facts |-> [kind |-> "chat", figures |-> figures, confidence |-> answer.confidence,
                  evidence |-> words, sources |-> answer.sources, risks |-> answer.risks],
       text |-> [Text(figures, words \cup answer.sources \cup answer.risks) EXCEPT
                   !.sure = {answer.confidence} \cup UNION {e.sure : e \in answer.evidence},
                   !.predicts = \E e \in answer.evidence : e.predicts]]

(* generate_grounded_result on a deterministic text *)
Publishable(section) == Grounded(section.text, section.facts)

-----------------------------------------------------------------------------
(* ReportGenerator.generate over one context, told by the deterministic texts *)
SectionsOf(changes, slice, portfolio) ==
  {MarketSection(changes)}
  \cup (IF slice = Void THEN {} ELSE {HistoricalSection(slice)})
  \cup (IF portfolio = Void THEN {} ELSE {PortfolioSection(portfolio)})

Explained(cs) == {Explanation(Recommendation(cs, a)) : a \in Picks(cs)}

(* The deterministic text is always acceptable for what a report or a list of
   recommendations says, or the whole request fails: every section and every
   pick passes the validator, whatever is known of the market and of the stock,
   and what is to be watched is always surer, and ranked higher, than what is to
   be avoided.  Asks of the chat change none of this, so that the states before
   any are enough. *)
PicksAreExplained ==
  (\A k \in Asks : stage[k] = "idle") =>
  LET cs == Assemble(analogy)
      changes == [s \in Companies |-> IF rows[s] = Void THEN Void ELSE rows[s].change]
  IN  /\ \A portfolio \in {Void, "empty", "unpriced", "valued"} :
           LET told == SectionsOf(changes, analogy, portfolio)
           IN  /\ \A section \in told \cup Explained(cs) : Publishable(section)
               /\ Publishable(ExecutiveSummary({section.text : section \in told}))
      /\ \A s \in Picks(cs) : Evidence(cs[s]) # {} /\ Risks(cs[s]) # {}
      /\ \A up \in Judged(cs, "watch"), down \in Judged(cs, "avoid") :
           Confidence(cs[up]) > Confidence(cs[down]) /\ Place(cs, up) < Place(cs, down)

(* "It is the output when no LLM is configured, and the safety net if the LLM
   fails - so the pipeline always yields valid, grounded prose"
   (prompt_builder.py:6-8), of an answer of the chat about plain news. *)
ChatFallbacksAreGrounded ==
  \A a \in Asks : draft[a].answer # Void => Publishable(ChatResponse(draft[a].answer))
===============================================================================
