----------------------------- MODULE HistoryIndex -----------------------------
(***************************************************************************)
(* The historical similarity index: HistoryService.build_index and         *)
(* query_similar (backend/app/history/service.py) over the committed       *)
(* corpus in PostgreSQL, and HistoryArtifactCache (artifacts.py), the      *)
(* directory of index generations every process of the host shares.        *)
(*                                                                         *)
(* A session is a date; its feature vector is the date with the revision   *)
(* of the prices it was computed from.  A corpus maps the dates it holds   *)
(* to their row id and revision.  Which neighbours are nearest is left     *)
(* open: a search returns any of the right number of sessions.             *)
(***************************************************************************)
EXTENDS Naturals, FiniteSets, FiniteSetsExt

CONSTANTS
  Processes,      \* the EOD job, the admin rebuild, requests for analogues
  MinSessions,    \* MIN_SESSIONS_TO_BUILD
  K,              \* settings.history_top_k
  MaxSessions,    \* bound: dates the market data reaches
  MaxRevisions,   \* bound: corrections of a stored price
  MaxJobs,        \* bound: builds and queries started
  MaxMishaps      \* bound: files damaged, steps that raise, processes that die

ASSUME SizesAssumption == MinSessions \in Nat \ {0} /\ K \in Nat \ {0}

VARIABLES
  market,         \* stored prices: date -> revision
  corpus,         \* committed sessions, embeddings and index state
  nextId,         \* sequence of historical_sessions.id
  committed,      \* history: every corpus that was ever committed
  generation,     \* DATA_DIR/faiss/generations: key -> what the directory holds
  dirs,           \* other directories there: <<kind, owner>>
  orphans,        \* directories left by processes that died
  flock,          \* lock files held: <<key, process>>
  pc, work,       \* where each process is, and its local variables
  revisions, jobs, mishaps    \* how much of each bound is spent

database == <<corpus, nextId, committed>>
disk     == <<generation, dirs, orphans, flock>>
process  == <<pc, work>>
budgets  == <<revisions, jobs, mishaps>>
vars     == <<market, database, disk, process, budgets>>

Empty == [d \in {} |-> 0]

NoWork == [job |-> "none", read |-> Empty, corpus |-> Empty, index |-> Empty,
           answer |-> {}]

Init ==
  /\ market = [d \in 1..MinSessions |-> 0]
  /\ corpus = Empty /\ nextId = 1 /\ committed = {}
  /\ generation = Empty /\ dirs = {} /\ orphans = {} /\ flock = {}
  /\ pc = [p \in Processes |-> "idle"]
  /\ work = [p \in Processes |-> NoWork]
  /\ revisions = 0 /\ jobs = 0 /\ mishaps = 0

Goto(p, from, to) == pc[p] = from /\ pc' = [pc EXCEPT ![p] = to]

End(p) ==
  /\ pc' = [pc EXCEPT ![p] = "idle"]
  /\ work' = [work EXCEPT ![p] = NoWork]

Set(p, field, value) == work' = [work EXCEPT ![p] = [@ EXCEPT ![field] = value]]

Dates(c) == DOMAIN c

(* A row as the digest sees it: its id and its vector. *)
Rows(c) == {<<c[d].id, <<d, c[d].rev>>>> : d \in Dates(c)}

(* corpus_hash: SHA-256 over ids and vectors in id order, free of collisions. *)
Key(c) == Rows(c)

KeyOf(p) == Key(work[p].corpus)

(* HistoryArtifactCache.load succeeds: manifest, checksums and shape agree. *)
Loads(key) == key \in DOMAIN generation /\ generation[key].intact

-----------------------------------------------------------------------------
(* The market data the corpus is computed from, and the disk. *)

NewSession ==
  /\ Cardinality(DOMAIN market) < MaxSessions
  /\ market' = [d \in 1..Cardinality(DOMAIN market) + 1 |->
                  IF d \in DOMAIN market THEN market[d] ELSE 0]
  /\ UNCHANGED <<database, disk, process, budgets>>

Revise ==
  /\ revisions < MaxRevisions
  /\ revisions' = revisions + 1
  /\ \E d \in DOMAIN market : market' = [market EXCEPT ![d] = @ + 1]
  /\ UNCHANGED <<database, disk, process, jobs, mishaps>>

(* A generation is damaged at rest: not between a reader's checksum and its
   parse of the same files. *)
Damage(key) ==
  /\ mishaps < MaxMishaps
  /\ generation[key].intact
  /\ ~ \E p \in Processes : pc[p] = "verified" /\ KeyOf(p) = key
  /\ mishaps' = mishaps + 1
  /\ generation' = [generation EXCEPT ![key].intact = FALSE]
  /\ UNCHANGED <<market, database, dirs, orphans, flock, process, revisions, jobs>>

-----------------------------------------------------------------------------
(* build_index *)

Engineer(p) ==
  /\ jobs < MaxJobs
  /\ Cardinality(DOMAIN market) >= MinSessions
  /\ Goto(p, "idle", "engineered")
  /\ work' = [work EXCEPT ![p] = [NoWork EXCEPT !.job = "build", !.read = market]]
  /\ jobs' = jobs + 1
  /\ UNCHANGED <<market, database, disk, revisions, mishaps>>

(* What the transaction leaves: an upsert keeps the id of a date it finds,
   every other date is deleted. *)
Upserted(read) ==
  LET new == {d \in DOMAIN read : d \notin Dates(corpus)} IN
  [d \in DOMAIN read |->
     [id  |-> IF d \in new THEN nextId + Cardinality({e \in new : e < d})
                           ELSE corpus[d].id,
      rev |-> read[d]]]

(* One transaction; another build waits for it at its first upsert. *)
Commit(p) ==
  /\ Goto(p, "engineered", "publish")
  /\ corpus' = Upserted(work[p].read)
  /\ nextId' = nextId + Cardinality(DOMAIN work[p].read \ Dates(corpus))
  /\ committed' = committed \cup {corpus'}
  /\ Set(p, "corpus", corpus')
  /\ UNCHANGED <<market, disk, budgets>>

(* Mutation: the cache is published although the transaction rolled back. *)
BugRollback(p) ==
  /\ mishaps < MaxMishaps
  /\ Goto(p, "engineered", "publish")
  /\ Set(p, "corpus", Upserted(work[p].read))
  /\ mishaps' = mishaps + 1
  /\ UNCHANGED <<market, database, disk, revisions, jobs>>

Rollback(p) ==
  /\ mishaps < MaxMishaps
  /\ pc[p] = "engineered"
  /\ End(p)
  /\ mishaps' = mishaps + 1
  /\ UNCHANGED <<market, database, disk, revisions, jobs>>

-----------------------------------------------------------------------------
(* HistoryArtifactCache.publish *)

LockGeneration(p) ==
  /\ Goto(p, "publish", "locked")
  /\ ~ \E q \in Processes : <<KeyOf(p), q>> \in flock
  /\ flock' = flock \cup {<<KeyOf(p), p>>}
  /\ UNCHANGED <<market, database, generation, dirs, orphans, work, budgets>>

Unlock(p) == flock' = flock \ {<<KeyOf(p), p>>}

(* A build is over; a query goes on with the index it rebuilt in memory. *)
Published(p) ==
  IF work[p].job = "build"
    THEN End(p)
    ELSE pc' = [pc EXCEPT ![p] = "loaded"] /\ UNCHANGED work

(* Mutation: publish replaces whatever it finds, without loading it first. *)
BugNoRecheck(p) ==
  /\ Goto(p, "locked", "staging")
  /\ dirs' = dirs \cup {<<"staging", p>>}
  /\ UNCHANGED <<market, database, generation, orphans, flock, work, budgets>>

(* Mutation: the early return leaves the generation locked. *)
BugReturnLocked(p) ==
  /\ pc[p] = "locked"
  /\ IF Loads(KeyOf(p))
       THEN Published(p) /\ UNCHANGED dirs
       ELSE /\ Goto(p, "locked", "staging")
            /\ dirs' = dirs \cup {<<"staging", p>>}
            /\ UNCHANGED work
  /\ UNCHANGED <<market, database, generation, orphans, flock, budgets>>

(* The load under the lock: nothing to do when another process published. *)
Recheck(p) ==
  /\ pc[p] = "locked"
  /\ IF Loads(KeyOf(p))
       THEN Published(p) /\ Unlock(p) /\ UNCHANGED dirs
       ELSE /\ Goto(p, "locked", "staging")
            /\ dirs' = dirs \cup {<<"staging", p>>}
            /\ UNCHANGED <<flock, work>>
  /\ UNCHANGED <<market, database, generation, orphans, budgets>>

Without(key) == [k \in DOMAIN generation \ {key} |-> generation[k]]

Displace(p) ==
  /\ Goto(p, "staging", "staged")
  /\ IF KeyOf(p) \in DOMAIN generation
       THEN /\ generation' = Without(KeyOf(p))
            /\ dirs' = dirs \cup {<<"invalid", p>>}
       ELSE UNCHANGED <<generation, dirs>>
  /\ UNCHANGED <<market, database, orphans, flock, work, budgets>>

Install(p) ==
  /\ Goto(p, "staged", "cleaning")
  /\ generation' = [k \in DOMAIN generation \cup {KeyOf(p)} |->
                      IF k = KeyOf(p)
                        THEN [holds |-> work[p].corpus, intact |-> TRUE]
                        ELSE generation[k]]
  /\ dirs' = dirs \ {<<"staging", p>>}
  /\ UNCHANGED <<market, database, orphans, flock, work, budgets>>

(* A write, a rename or an fsync raises: the caller logs it and goes on. *)
PublishRaises(p) ==
  /\ mishaps < MaxMishaps
  /\ pc[p] \in {"staging", "staged"}
  /\ pc' = [pc EXCEPT ![p] = "cleaning"]
  /\ mishaps' = mishaps + 1
  /\ UNCHANGED <<market, database, disk, work, revisions, jobs>>

OwnDirs(p) == {x \in dirs : x[2] = p}

(* Mutation: the displaced generation is only removed after a success. *)
BugCleanUp(p) ==
  /\ pc[p] = "cleaning"
  /\ Published(p)
  /\ dirs' = IF <<"staging", p>> \in dirs THEN dirs \ {<<"staging", p>>}
                                          ELSE dirs \ OwnDirs(p)
  /\ Unlock(p)
  /\ UNCHANGED <<market, database, generation, orphans, budgets>>

CleanUp(p) ==
  /\ pc[p] = "cleaning"
  /\ Published(p)
  /\ dirs' = dirs \ OwnDirs(p)
  /\ Unlock(p)
  /\ UNCHANGED <<market, database, generation, orphans, budgets>>

-----------------------------------------------------------------------------
(* query_similar *)

(* get_index_snapshot is one statement; without an index the query ends. *)
Snapshot(p) ==
  /\ jobs < MaxJobs
  /\ jobs' = jobs + 1
  /\ IF Dates(corpus) = {}
       THEN UNCHANGED process
       ELSE /\ Goto(p, "idle", "snapshot")
            /\ work' = [work EXCEPT ![p] =
                          [NoWork EXCEPT !.job = "query", !.corpus = corpus]]
  /\ UNCHANGED <<market, database, disk, revisions, mishaps>>

(* load, up to the checksums; when it raises the index is rebuilt in memory
   from the snapshot and the generation repaired. *)
Verify(p) ==
  /\ pc[p] = "snapshot"
  /\ IF Loads(KeyOf(p))
       THEN Goto(p, "snapshot", "verified") /\ UNCHANGED work
       ELSE Goto(p, "snapshot", "publish") /\ Set(p, "index", work[p].corpus)
  /\ UNCHANGED <<market, database, disk, budgets>>

(* load, the parse: the directory may be gone since. *)
Open(p) ==
  /\ IF Loads(KeyOf(p))
       THEN /\ Goto(p, "verified", "loaded")
            /\ Set(p, "index", generation[KeyOf(p)].holds)
       ELSE Goto(p, "verified", "publish") /\ Set(p, "index", work[p].corpus)
  /\ UNCHANGED <<market, database, disk, budgets>>

(* _search: the k nearest of the index, the queried session left out. *)
Neighbours(index, d) ==
  LET others == {c \in Rows(index) : c[2][1] # d}
  IN  kSubset(Min({K, Cardinality(others)}), others)

(* Mutation: the analogues are refreshed from the database. *)
BugAnalogues(snapshot, neighbours) ==
  {now \in Rows(corpus) : \E n \in neighbours : n[1] = now[1]}

(* get_sessions_by_ids: rows deleted since the snapshot are skipped, the others
   keep the values this session already loaded. *)
Analogues(snapshot, neighbours) ==
  {r \in Rows(snapshot) :
     \E n \in neighbours : n[1] = r[1] /\ \E now \in Rows(corpus) : now[1] = r[1]}

Answer(p) ==
  /\ pc[p] = "loaded"
  /\ \E d \in 1..MaxSessions :
       IF d \in Dates(work[p].corpus)
         THEN \E near \in Neighbours(work[p].index, d) :
                /\ Goto(p, "loaded", "answered")
                /\ Set(p, "answer", Analogues(work[p].corpus, near))
         ELSE End(p)
  /\ UNCHANGED <<market, database, disk, budgets>>

Respond(p) ==
  /\ pc[p] = "answered"
  /\ End(p)
  /\ UNCHANGED <<market, database, disk, budgets>>

-----------------------------------------------------------------------------
(* The process dies: the kernel frees its lock, its directories stay. *)
Crash(p) ==
  /\ mishaps < MaxMishaps
  /\ pc[p] # "idle"
  /\ mishaps' = mishaps + 1
  /\ End(p)
  /\ flock' = {l \in flock : l[2] # p}
  /\ dirs' = dirs \ OwnDirs(p)
  /\ orphans' = orphans \cup OwnDirs(p)
  /\ UNCHANGED <<market, database, generation, revisions, jobs>>

Build(p)   == Engineer(p) \/ Commit(p) \/ Rollback(p)
Publish(p) == LockGeneration(p) \/ Recheck(p) \/ Displace(p) \/ Install(p)
                \/ PublishRaises(p) \/ CleanUp(p)
Query(p)   == Snapshot(p) \/ Verify(p) \/ Open(p) \/ Answer(p) \/ Respond(p)

Next ==
  \/ NewSession \/ Revise
  \/ \E key \in DOMAIN generation : Damage(key)
  \/ \E p \in Processes : Build(p) \/ Publish(p) \/ Query(p) \/ Crash(p)

(* A process that runs goes on; nothing makes it start, fail or die. *)
Progress(p) ==
  Commit(p) \/ LockGeneration(p) \/ Recheck(p) \/ Displace(p) \/ Install(p)
    \/ CleanUp(p) \/ Verify(p) \/ Open(p) \/ Answer(p) \/ Respond(p)

Fairness == \A p \in Processes : WF_vars(Progress(p))

Spec == Init /\ [][Next]_vars /\ Fairness

-----------------------------------------------------------------------------
(* "Database commit precedes cache publication, so a publication failure cannot
   expose an uncommitted corpus" (docs/historical-similarity.md:81): whatever a
   generation directory holds is a corpus some build committed, and it stands
   under the key of that corpus. *)
OnlyCommittedIsCached ==
  \A key \in DOMAIN generation :
    generation[key].holds \in committed /\ Key(generation[key].holds) = key

(* An answer comes from one corpus: it was searched in the index of the corpus
   the query read, and every analogue has the vector it has in that corpus,
   whatever was rebuilt, damaged, displaced or deleted while the query ran. *)
AnswersFromOneCorpus ==
  \A p \in Processes :
    /\ pc[p] \in {"loaded", "answered"} => work[p].index = work[p].corpus
    /\ work[p].answer \subseteq Rows(work[p].corpus)

(* publish only removes a generation that does not load: an intact one that
   readers may be opening stays until it is damaged. *)
IntactGenerationStays ==
  [][\A key \in DOMAIN generation :
       generation[key].intact =>
         key \in DOMAIN generation' /\ generation'[key].holds = generation[key].holds]_vars

(* Processes publishing the same corpus take turns from the recheck to the
   clean-up, and one that is not publishing, because it finished or because a
   step raised, leaves no lock and no directory. *)
PublicationsTakeTurns ==
  LET inside(p) == pc[p] \in {"locked", "staging", "staged", "cleaning"} IN
  /\ \A p, q \in Processes : inside(p) /\ inside(q) /\ KeyOf(p) = KeyOf(q) => p = q
  /\ \A p \in Processes : ~ inside(p) =>
       OwnDirs(p) = {} /\ \A l \in flock : l[2] # p

(* What the cache may hold, and who may change it: the two hold together, as a
   publication that did not take its turn would leave a directory of nobody's. *)
CacheIsSound == OnlyCommittedIsCached /\ PublicationsTakeTurns

(* A process waits for the lock of a generation no longer than its holders
   live: every build and every query ends. *)
EveryJobEnds == \A p \in Processes : pc[p] # "idle" ~> pc[p] = "idle"
=============================================================================
