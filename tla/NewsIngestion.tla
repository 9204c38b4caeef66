----------------------------- MODULE NewsIngestion -----------------------------
(***************************************************************************)
(* NewsService.ingest and NewsService.aggregate                            *)
(* (backend/app/news/service.py, repository.py), run by the EOD step, the  *)
(* news-only runner and the administration route.  An ingest is two        *)
(* transactions: the articles and their tags are committed first, then     *)
(* sentiment_daily is recomputed from all tagged articles.                 *)
(*                                                                         *)
(* An article is a record of its two unique keys, the URL and the story    *)
(* (the fingerprint of its title and day).  The sentiment row of a stock   *)
(* is the set of articles its average and counts were computed from; one   *)
(* publication day stands for all of them, since rows of different days    *)
(* never meet.  The retag window is long enough for every article here.    *)
(***************************************************************************)
EXTENDS Naturals, Sequences, SequencesExt, FiniteSets

CONSTANTS
  Ingesters,      \* processes that call ingest()
  Articles,       \* what the feeds may offer: records [url, story]
  Tracked,        \* stocks of the universe
  Mentions,       \* the stocks each story's text names
  Environments,   \* which values of serialised are possible
  MaxRuns,        \* bound: ingests started
  MaxCrashes,     \* bound: processes that die, feeds or queries that raise
  MaxChanges      \* bound: changes of the active universe

ASSUME EnvironmentsAssumption == Environments \subseteq BOOLEAN
ASSUME ArticlesAssumption     == IsFiniteSet(Articles)

VARIABLES
  serialised,     \* whether ingests are started one at a time
  articles,       \* committed news_articles
  tags,           \* committed news_article_stocks: <<article, stock>>
  sentiment,      \* sentiment_daily, {} where a stock has no row
  activeNow,      \* the active universe
  at,             \* where each ingester is in ingest()
  fetched,        \* items the feeds returned
  todo,           \* new items not yet inserted, in feed order
  aliasesRead,    \* the active stocks read before tagging
  written,        \* articles of the open transaction
  listed,         \* articles listed for reconciliation
  current,        \* their tags when they were listed
  rows,           \* tagged rows read by aggregate()
  runs, crashes, changes   \* how much of each bound is spent

storedBy    == <<articles, tags, sentiment>>
ingester    == <<at, fetched, todo, aliasesRead, written, listed, current, rows>>
newsBudgets == <<runs, crashes, changes>>
newsVars    == <<serialised, storedBy, activeNow, ingester, newsBudgets>>

Resting  == {"idle", "done", "failed"}
InFlight == {"dedupe", "insert", "commit", "aggregate", "write"}

NewsInit ==
  /\ serialised \in Environments
  /\ articles = {} /\ tags = {}
  /\ sentiment = [s \in Tracked |-> {}]
  /\ activeNow = Tracked
  /\ at = [i \in Ingesters |-> "idle"]
  /\ fetched = [i \in Ingesters |-> {}]
  /\ todo = [i \in Ingesters |-> <<>>]
  /\ aliasesRead = [i \in Ingesters |-> {}]
  /\ written = [i \in Ingesters |-> {}]
  /\ listed = [i \in Ingesters |-> {}]
  /\ current = [i \in Ingesters |-> {}]
  /\ rows = [i \in Ingesters |-> {}]
  /\ runs = 0 /\ crashes = 0 /\ changes = 0

Reaches(i, from, to) == at[i] = from /\ at' = [at EXCEPT ![i] = to]

(* Either unique constraint of news_articles. *)
Clash(a, b) == a.url = b.url \/ a.story = b.story

ClashIn(set, a) == \E b \in set : Clash(a, b)

OtherWritten(i) == UNION {written[j] : j \in Ingesters \ {i}}

(* match_article_entities over the aliases of a set of stocks. *)
Desired(set, stocks) == {tag \in set \X stocks : tag[2] \in Mentions[tag[1].story]}

(* The candidates left of a batch when every item that clashes with an earlier
   one is dropped, for some order of the batch. *)
Collapsed(candidates) ==
  {new \in SUBSET candidates :
     /\ \A a, b \in new : Clash(a, b) => a = b
     /\ \A a \in candidates : ClashIn(new, a)}

FetchFeeds(i) ==
  /\ at[i] \in Resting
  /\ runs < MaxRuns
  /\ serialised => \A j \in Ingesters : at[j] \in Resting
  /\ at' = [at EXCEPT ![i] = "dedupe"]
  /\ \E items \in SUBSET Articles : fetched' = [fetched EXCEPT ![i] = items]
  /\ runs' = runs + 1
  /\ UNCHANGED <<storedBy, activeNow, todo, aliasesRead, written, listed, current, rows, crashes, changes>>

(* existing_article_keys, the collapse of duplicates, scoring, list_active_stocks. *)
Dedupe(i) ==
  /\ Reaches(i, "dedupe", "insert")
  /\ \E new \in Collapsed({a \in fetched[i] : ~ClashIn(articles, a)}) :
       \E order \in SetToSeqs(new) : todo' = [todo EXCEPT ![i] = order]
  /\ aliasesRead' = [aliasesRead EXCEPT ![i] = activeNow]
  /\ UNCHANGED <<storedBy, activeNow, fetched, written, listed, current, rows, newsBudgets>>

(* INSERT ... ON CONFLICT DO NOTHING, one item at a time, with its tags. *)
InsertArticle(i) ==
  /\ at[i] = "insert" /\ todo[i] # <<>>
  /\ ~ClashIn(articles \cup OtherWritten(i), Head(todo[i]))
  /\ written' = [written EXCEPT ![i] = @ \cup {Head(todo[i])}]
  /\ todo' = [todo EXCEPT ![i] = Tail(@)]
  /\ UNCHANGED <<storedBy, activeNow, at, fetched, aliasesRead, listed, current, rows, newsBudgets>>

BugSkipArticle(i) ==         \* yields to a row that may yet be rolled back
  /\ at[i] = "insert" /\ todo[i] # <<>>
  /\ ClashIn(articles \cup OtherWritten(i), Head(todo[i]))
  /\ todo' = [todo EXCEPT ![i] = Tail(@)]
  /\ UNCHANGED <<storedBy, activeNow, at, fetched, aliasesRead, written, listed, current, rows, newsBudgets>>

SkipArticle(i) ==
  /\ at[i] = "insert" /\ todo[i] # <<>>
  /\ ClashIn(articles, Head(todo[i]))
  /\ todo' = [todo EXCEPT ![i] = Tail(@)]
  /\ UNCHANGED <<storedBy, activeNow, at, fetched, aliasesRead, written, listed, current, rows, newsBudgets>>

(* The insert waits for the transaction that wrote a clashing row. *)
BlockedBy(i, j) ==
  /\ at[i] = "insert" /\ todo[i] # <<>>
  /\ ClashIn(written[j], Head(todo[i]))

Rollback(i) ==
  /\ at' = [at EXCEPT ![i] = "failed"]
  /\ todo' = [todo EXCEPT ![i] = <<>>]
  /\ written' = [written EXCEPT ![i] = {}]
  /\ listed' = [listed EXCEPT ![i] = {}]
  /\ current' = [current EXCEPT ![i] = {}]
  /\ rows' = [rows EXCEPT ![i] = {}]
  /\ UNCHANGED <<storedBy, activeNow, fetched, aliasesRead, runs, changes>>

BugDeadlockVictim(i) == FALSE      \* each waits for the other for ever

(* Two ingests that insert the same stories in opposite orders: PostgreSQL
   aborts one of them. *)
DeadlockVictim(i) ==
  /\ \E j \in Ingesters \ {i} : BlockedBy(i, j) /\ BlockedBy(j, i)
  /\ Rollback(i)
  /\ UNCHANGED crashes

(* list_articles_since: the articles and their current associations. *)
ListArticles(i) ==
  /\ todo[i] = <<>>
  /\ Reaches(i, "insert", "commit")
  /\ listed' = [listed EXCEPT ![i] = articles \cup written[i]]
  /\ current' = [current EXCEPT ![i] = tags \cup Desired(written[i], aliasesRead[i])]
  /\ UNCHANGED <<storedBy, activeNow, fetched, todo, aliasesRead, written, rows, newsBudgets>>

BugReconciled(i) ==          \* adds associations, never removes one
  tags \cup Desired(listed[i], aliasesRead[i])

(* reconcile_tags for every listed article: what it had and should not have is
   deleted, what it should have is upserted. *)
Reconciled(i) ==
  LET desired == Desired(listed[i], aliasesRead[i])
  IN  (tags \ (current[i] \ desired)) \cup desired

CommitNews(i) ==
  /\ Reaches(i, "commit", "aggregate")
  /\ articles' = articles \cup written[i]
  /\ tags' = Reconciled(i)
  /\ written' = [written EXCEPT ![i] = {}]
  /\ UNCHANGED <<sentiment, activeNow, fetched, todo, aliasesRead, listed, current, rows, newsBudgets>>

ReadTagged(i) ==
  /\ Reaches(i, "aggregate", "write")
  /\ rows' = [rows EXCEPT ![i] = tags]
  /\ UNCHANGED <<storedBy, activeNow, fetched, todo, aliasesRead, written, listed, current, newsBudgets>>

(* The sentiment rows of a set of tagged rows: one for each stock that has any. *)
Aggregated(tagged) == [s \in Tracked |-> {a \in Articles : <<a, s>> \in tagged}]

(* Rows of stocks without tagged articles are deleted, the others upserted. *)
WriteSentiment(i) ==
  /\ Reaches(i, "write", "done")
  /\ sentiment' = Aggregated(rows[i])
  /\ listed' = [listed EXCEPT ![i] = {}]
  /\ current' = [current EXCEPT ![i] = {}]
  /\ rows' = [rows EXCEPT ![i] = {}]
  /\ UNCHANGED <<articles, tags, activeNow, fetched, todo, aliasesRead, written, newsBudgets>>

(* The process dies or a statement raises: the open transaction is rolled back. *)
Crash(i) ==
  /\ at[i] \in InFlight
  /\ crashes < MaxCrashes
  /\ crashes' = crashes + 1
  /\ Rollback(i)

(* A universe synchronisation activates and deactivates stocks. *)
ChangeUniverse ==
  /\ changes < MaxChanges
  /\ changes' = changes + 1
  /\ \E stocks \in SUBSET Tracked : activeNow' = stocks
  /\ UNCHANGED <<storedBy, ingester, runs, crashes>>

Ingest(i) ==
  \/ Dedupe(i) \/ InsertArticle(i) \/ SkipArticle(i) \/ ListArticles(i)
  \/ CommitNews(i) \/ ReadTagged(i) \/ WriteSentiment(i)

Step ==
  \/ \E i \in Ingesters : FetchFeeds(i) \/ Ingest(i) \/ DeadlockVictim(i) \/ Crash(i)
  \/ ChangeUniverse

(* One workflow's concurrency group serialises its runs; the administration
   route and a runner started by hand are outside it. *)
NewsNext == Step /\ UNCHANGED serialised

(* An ingest that can go on does; PostgreSQL's deadlock detector runs. *)
NewsFairness ==
  \A i \in Ingesters :
    /\ WF_newsVars(Ingest(i) /\ UNCHANGED serialised)
    /\ WF_newsVars(DeadlockVictim(i) /\ UNCHANGED serialised)

NewsSpec == NewsInit /\ [][NewsNext]_newsVars /\ NewsFairness

-----------------------------------------------------------------------------
(* When an ingest completes, everything its feeds returned is stored or a copy of
   an item of theirs that is, also where it gave way to another ingest that might
   have been rolled back.  As long as ingests do not overlap, all of it is stored,
   the tags of all articles are as the universe it read demands and every
   sentiment row is exactly the aggregate of those tags, whatever failed before
   it.  (An item that was dropped for a copy which then yields to an article of an
   overlapping ingest need not clash with that article: it waits for the next
   fetch.) *)
CompletedIngestIsExact ==
  [][\A i \in Ingesters : at[i] = "write" /\ at'[i] = "done" =>
       /\ \A a \in fetched[i] : \E b \in fetched[i] : Clash(a, b) /\ ClashIn(articles', b)
       /\ serialised => /\ \A a \in fetched[i] : ClashIn(articles', a)
                        /\ tags' = Desired(articles', aliasesRead[i])
                        /\ sentiment' = Aggregated(tags')]_newsVars

(* Every ingest ends, also when two of them block each other. *)
EveryIngestEnds ==
  \A i \in Ingesters : at[i] = "dedupe" ~> at[i] \in Resting

=============================================================================
