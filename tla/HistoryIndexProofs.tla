-------------------------- MODULE HistoryIndexProofs --------------------------
(***************************************************************************)
(* Proofs about HistoryIndex, for any processes, dates and mishaps: the    *)
(* cache holds committed corpora only and is changed by one process at a   *)
(* time, and an answer comes from the corpus its query read.  And about    *)
(* Analogues, for any stocks and stored rows: history is never rewritten,  *)
(* and what is said of the analogues is about them.                        *)
(***************************************************************************)
EXTENDS HistoryIndex, Analogues, SumTheorems

Publishing == {"publish", "locked", "staging", "staged", "cleaning"}
Querying   == {"snapshot", "verified", "loaded", "answered"}
Program    == {"idle", "engineered"} \cup Publishing \cup Querying

Inside(p) == pc[p] \in {"locked", "staging", "staged", "cleaning"}

(* A corpus has an id and a revision for each of its dates, and a process its
   local variables. *)
IsCorpus(c) == c = [d \in DOMAIN c |-> [id |-> c[d].id, rev |-> c[d].rev]]

IsWork(w) ==
  w = [job |-> w.job, read |-> w.read, corpus |-> w.corpus, index |-> w.index, answer |-> w.answer]

TypeInv ==
  /\ pc \in [Processes -> Program]
  /\ work = [p \in Processes |-> work[p]]
  /\ \A p \in Processes : IsWork(work[p])
  /\ generation = [key \in DOMAIN generation |->
                     [holds |-> generation[key].holds, intact |-> generation[key].intact]]
  /\ \A l \in flock : l = <<l[1], l[2]>> /\ l[2] \in Processes
  /\ \A x \in dirs : x = <<x[1], x[2]>> /\ x[2] \in Processes

(* Only committed corpora are published, searched and answered from. *)
CorporaAreCommitted ==
  /\ corpus \in committed \cup {Empty}
  /\ \A c \in committed : IsCorpus(c)

ReadsCommitted(p) == pc[p] \in Publishing \cup Querying => work[p].corpus \in committed

(* A query that rebuilt its index in memory has the corpus it read, also while
   it repairs the generation. *)
IndexIsOfTheCorpus(p) ==
  /\ pc[p] = "engineered" => work[p].job = "build"
  /\ pc[p] \in Publishing /\ work[p].job # "build" => work[p].index = work[p].corpus
  /\ pc[p] \in {"loaded", "answered"} => work[p].index = work[p].corpus

AnswersAnalogues(p) ==
  IF pc[p] = "answered" THEN work[p].answer \subseteq Rows(work[p].corpus) ELSE work[p].answer = {}

OwnWork(p) == ReadsCommitted(p) /\ IndexIsOfTheCorpus(p) /\ AnswersAnalogues(p)

WorkIsSound == \A p \in Processes : OwnWork(p)

(* The lock file of a generation has one holder, inside publish; the
   directories next to the generation are the holder's. *)
LocksAreHeldInside ==
  /\ \A p \in Processes : Inside(p) => <<KeyOf(p), p>> \in flock
  /\ \A l \in flock : Inside(l[2]) /\ l[1] = KeyOf(l[2])
  /\ \A l, m \in flock : l[1] = m[1] => l[2] = m[2]
  /\ \A x \in dirs : pc[x[2]] \in {"staging", "staged", "cleaning"}

(* What the recheck under the lock established holds until the installation:
   nobody else installs this generation. *)
NothingToLose ==
  \A p \in Processes :
    /\ pc[p] = "staging" => ~ Loads(KeyOf(p))
    /\ pc[p] = "staged" => KeyOf(p) \notin DOMAIN generation

IInv ==
  /\ TypeInv /\ CorporaAreCommitted /\ WorkIsSound /\ OnlyCommittedIsCached
  /\ LocksAreHeldInside /\ NothingToLose
-----------------------------------------------------------------------------
(* A generation key determines the corpus: the rows name each date with the id
   and the revision the corpus has for it. *)
LEMMA KeyDeterminesCorpus ==
  ASSUME NEW a, NEW b, IsCorpus(a), IsCorpus(b), Key(a) = Key(b)
  PROVE  a = b
<1>1. ASSUME NEW x, NEW y, Key(x) \subseteq Key(y), NEW d \in DOMAIN x
      PROVE  d \in DOMAIN y /\ x[d].id = y[d].id /\ x[d].rev = y[d].rev
  <2>1. <<x[d].id, <<d, x[d].rev>>>> \in Rows(y)
    BY <1>1 DEF Key, Rows, Dates
  <2>2. PICK e \in DOMAIN y : <<x[d].id, <<d, x[d].rev>>>> = <<y[e].id, <<e, y[e].rev>>>>
    BY <2>1 DEF Rows, Dates
  <2> QED
    BY <2>2
<1>2. DOMAIN a = DOMAIN b /\ \A d \in DOMAIN a : a[d].id = b[d].id /\ a[d].rev = b[d].rev
  BY <1>1
<1> QED
  BY <1>2 DEF IsCorpus

LEMMA UpsertedIsCorpus == ASSUME NEW read PROVE IsCorpus(Upserted(read)) /\ IsCorpus(Empty)
BY DEF IsCorpus, Upserted, Empty

(* What the helpers of the actions do to the process they are about. *)
Others(p) == \A q \in Processes \ {p} : pc'[q] = pc[q] /\ work'[q] = work[q]

WorkType == work = [p \in Processes |-> work[p]] /\ \A p \in Processes : IsWork(work[p])

LEMMA GotoStep ==
  ASSUME TypeInv, NEW p \in Processes, NEW from, NEW to \in Program, Goto(p, from, to)
  PROVE  /\ pc[p] = from /\ pc' \in [Processes -> Program] /\ pc'[p] = to
         /\ \A q \in Processes \ {p} : pc'[q] = pc[q]
BY DEF TypeInv, Goto

LEMMA WorkStep ==
  ASSUME TypeInv, NEW p \in Processes, NEW w, IsWork(w), work' = [work EXCEPT ![p] = w]
  PROVE  WorkType' /\ work'[p] = w /\ \A q \in Processes \ {p} : work'[q] = work[q]
BY DEF TypeInv, WorkType

LEMMA FieldUpdate ==
  ASSUME NEW w, IsWork(w), NEW v
  PROVE  /\ [w EXCEPT !["corpus"] = v] = [w EXCEPT !.corpus = v]
         /\ [w EXCEPT !["index"] = v] = [w EXCEPT !.index = v]
         /\ [w EXCEPT !["answer"] = v] = [w EXCEPT !.answer = v]
<1>1. [w EXCEPT !["corpus"] = v] = [w EXCEPT !.corpus = v]
  BY DEF IsWork
<1>2. [w EXCEPT !["index"] = v] = [w EXCEPT !.index = v]
  BY DEF IsWork
<1>3. [w EXCEPT !["answer"] = v] = [w EXCEPT !.answer = v]
  BY DEF IsWork
<1> QED
  BY <1>1, <1>2, <1>3

LEMMA SetCorpusStep ==
  ASSUME TypeInv, NEW p \in Processes, NEW v, Set(p, "corpus", v)
  PROVE  /\ WorkType' /\ \A q \in Processes \ {p} : work'[q] = work[q]
         /\ work'[p].corpus = v /\ work'[p].job = work[p].job
         /\ work'[p].index = work[p].index /\ work'[p].answer = work[p].answer
<1> DEFINE w == work[p]
           u == [w EXCEPT !.corpus = v]
<1>1. IsWork(w)
  BY DEF TypeInv
<1>2. IsWork(u) /\ u.corpus = v /\ u.job = w.job /\ u.index = w.index /\ u.answer = w.answer
  BY <1>1 DEF IsWork
<1>3. work' = [work EXCEPT ![p] = u]
  BY <1>1, FieldUpdate DEF Set
<1> HIDE DEF u
<1> QED
  BY <1>2, <1>3, WorkStep

LEMMA SetIndexStep ==
  ASSUME TypeInv, NEW p \in Processes, NEW v, Set(p, "index", v)
  PROVE  /\ WorkType' /\ \A q \in Processes \ {p} : work'[q] = work[q]
         /\ work'[p].index = v /\ work'[p].job = work[p].job
         /\ work'[p].corpus = work[p].corpus /\ work'[p].answer = work[p].answer
<1> DEFINE w == work[p]
           u == [w EXCEPT !.index = v]
<1>1. IsWork(w)
  BY DEF TypeInv
<1>2. IsWork(u) /\ u.index = v /\ u.job = w.job /\ u.corpus = w.corpus /\ u.answer = w.answer
  BY <1>1 DEF IsWork
<1>3. work' = [work EXCEPT ![p] = u]
  BY <1>1, FieldUpdate DEF Set
<1> HIDE DEF u
<1> QED
  BY <1>2, <1>3, WorkStep

LEMMA SetAnswerStep ==
  ASSUME TypeInv, NEW p \in Processes, NEW v, Set(p, "answer", v)
  PROVE  /\ WorkType' /\ \A q \in Processes \ {p} : work'[q] = work[q]
         /\ work'[p].answer = v /\ work'[p].job = work[p].job
         /\ work'[p].corpus = work[p].corpus /\ work'[p].index = work[p].index
<1> DEFINE w == work[p]
           u == [w EXCEPT !.answer = v]
<1>1. IsWork(w)
  BY DEF TypeInv
<1>2. IsWork(u) /\ u.answer = v /\ u.job = w.job /\ u.corpus = w.corpus /\ u.index = w.index
  BY <1>1 DEF IsWork
<1>3. work' = [work EXCEPT ![p] = u]
  BY <1>1, FieldUpdate DEF Set
<1> HIDE DEF u
<1> QED
  BY <1>2, <1>3, WorkStep

LEMMA EndStep ==
  ASSUME TypeInv, NEW p \in Processes, End(p)
  PROVE  /\ pc' \in [Processes -> Program] /\ WorkType' /\ Others(p)
         /\ pc'[p] = "idle" /\ work'[p].answer = {}
<1>1. IsWork(NoWork) /\ NoWork.answer = {}
  BY DEF IsWork, NoWork
<1>2. WorkType' /\ work'[p] = NoWork /\ \A q \in Processes \ {p} : work'[q] = work[q]
  BY <1>1, WorkStep DEF End
<1> QED
  BY <1>1, <1>2 DEF End, TypeInv, Others, Program

LEMMA PublishedStep ==
  ASSUME TypeInv, NEW p \in Processes, Published(p)
  PROVE  /\ pc' \in [Processes -> Program] /\ WorkType' /\ Others(p)
         /\ \/ pc'[p] = "idle" /\ work'[p].answer = {}
            \/ pc'[p] = "loaded" /\ work'[p] = work[p] /\ work[p].job # "build"
<1>1. CASE work[p].job = "build"
  BY <1>1, EndStep DEF Published
<1>2. CASE work[p].job # "build"
  BY <1>2 DEF Published, TypeInv, WorkType, Others, Program, Querying
<1> QED
  BY <1>1, <1>2
-----------------------------------------------------------------------------
LEMMA InvInit == Init => IInv
<1> SUFFICES ASSUME Init PROVE IInv
  OBVIOUS
<1>1. TypeInv
  BY DEF Init, TypeInv, Program, IsWork, NoWork, Empty
<1> QED
  BY <1>1 DEF Init, IInv, CorporaAreCommitted, WorkIsSound, OwnWork, ReadsCommitted,
              IndexIsOfTheCorpus, AnswersAnalogues, OnlyCommittedIsCached, LocksAreHeldInside,
              NothingToLose, Inside, Publishing, Querying, NoWork, Empty

(* A step outside publish leaves the disk alone. *)
LEMMA OutsideStep ==
  ASSUME IInv, NEW p \in Processes, UNCHANGED disk,
         pc' \in [Processes -> Program], WorkType', Others(p), ~ Inside(p), ~ Inside(p)', OwnWork(p)',
         CorporaAreCommitted', committed \subseteq committed'
  PROVE  IInv'
<1> USE DEF IInv, disk
<1>1. TypeInv'
  BY DEF TypeInv, WorkType
<1>2. WorkIsSound'
  BY DEF WorkIsSound, OwnWork, ReadsCommitted, IndexIsOfTheCorpus, AnswersAnalogues, Others, Rows, Dates
<1>3. OnlyCommittedIsCached'
  BY DEF OnlyCommittedIsCached
<1>4. \A l \in flock : l[2] # p /\ l[2] \in Processes
  BY DEF LocksAreHeldInside, TypeInv
<1>5. \A x \in dirs : x[2] # p /\ x[2] \in Processes
  BY DEF LocksAreHeldInside, TypeInv, Inside
<1>6. LocksAreHeldInside'
  BY <1>4, <1>5 DEF LocksAreHeldInside, Inside, Others, KeyOf
<1>7. NothingToLose'
  BY DEF NothingToLose, Inside, Others, KeyOf, Loads
<1> QED
  BY <1>1, <1>2, <1>3, <1>6, <1>7

LEMMA NewJob ==
  /\ \A v : LET w == [NoWork EXCEPT !.job = "build", !.read = v]
            IN  IsWork(w) /\ w.job = "build" /\ w.answer = {}
  /\ \A v : LET w == [NoWork EXCEPT !.job = "query", !.corpus = v]
            IN  IsWork(w) /\ w.corpus = v /\ w.answer = {}
<1>1. IsWork(NoWork) /\ NoWork.answer = {}
  BY DEF IsWork, NoWork
<1>2. ASSUME NEW n, IsWork(n), n.answer = {}, NEW v
      PROVE  LET w == [n EXCEPT !.job = "build", !.read = v]
             IN  IsWork(w) /\ w.job = "build" /\ w.answer = {}
  <2> DEFINE u == [n EXCEPT !.job = "build"]
             w == [u EXCEPT !.read = v]
  <2>1. IsWork(u) /\ u.job = "build" /\ u.answer = {}
    BY <1>2 DEF IsWork
  <2> HIDE DEF u
  <2>2. IsWork(w) /\ w.job = "build" /\ w.answer = {}
    BY <2>1 DEF IsWork
  <2>3. [n EXCEPT !.job = "build", !.read = v] = w
    BY <1>2 DEF IsWork, u
  <2> QED
    BY <2>2, <2>3
<1>3. ASSUME NEW n, IsWork(n), n.answer = {}, NEW v
      PROVE  LET w == [n EXCEPT !.job = "query", !.corpus = v]
             IN  IsWork(w) /\ w.corpus = v /\ w.answer = {}
  <2> DEFINE u == [n EXCEPT !.job = "query"]
             w == [u EXCEPT !.corpus = v]
  <2>1. IsWork(u) /\ u.answer = {}
    BY <1>3 DEF IsWork
  <2> HIDE DEF u
  <2>2. IsWork(w) /\ w.corpus = v /\ w.answer = {}
    BY <2>1 DEF IsWork
  <2>3. [n EXCEPT !.job = "query", !.corpus = v] = w
    BY <1>3 DEF IsWork, u
  <2> QED
    BY <2>2, <2>3
<1> QED
  BY <1>1, <1>2, <1>3

LEMMA EngineerStep == ASSUME IInv, NEW p \in Processes, Engineer(p) PROVE IInv'
<1> DEFINE w == [NoWork EXCEPT !.job = "build", !.read = market]
<1>1. IsWork(w) /\ w.job = "build" /\ w.answer = {}
  BY NewJob
<1>2. WorkType' /\ work'[p] = w /\ \A q \in Processes \ {p} : work'[q] = work[q]
  BY <1>1, WorkStep DEF Engineer, IInv
<1>3. /\ pc[p] = "idle" /\ pc' \in [Processes -> Program] /\ pc'[p] = "engineered"
      /\ \A q \in Processes \ {p} : pc'[q] = pc[q]
  BY GotoStep DEF Engineer, IInv, Program
<1> HIDE DEF w
<1>4. OwnWork(p)'
  BY <1>1, <1>2, <1>3 DEF OwnWork, ReadsCommitted, IndexIsOfTheCorpus, AnswersAnalogues,
                          Publishing, Querying
<1>5. UNCHANGED disk /\ CorporaAreCommitted' /\ committed' = committed
  BY DEF Engineer, database, IInv, CorporaAreCommitted
<1> QED
  BY <1>2, <1>3, <1>4, <1>5, OutsideStep DEF Others, Inside

LEMMA CommitStep == ASSUME IInv, NEW p \in Processes, Commit(p) PROVE IInv'
<1>1. /\ pc[p] = "engineered" /\ pc' \in [Processes -> Program] /\ pc'[p] = "publish"
      /\ \A q \in Processes \ {p} : pc'[q] = pc[q]
  BY GotoStep DEF Commit, IInv, Program, Publishing
<1>2. /\ WorkType' /\ \A q \in Processes \ {p} : work'[q] = work[q]
      /\ work'[p].corpus = corpus' /\ work'[p].job = work[p].job
      /\ work'[p].index = work[p].index /\ work'[p].answer = work[p].answer
  BY SetCorpusStep DEF Commit, IInv
<1>3. UNCHANGED disk /\ committed' = committed \cup {corpus'} /\ IsCorpus(corpus')
  BY UpsertedIsCorpus DEF Commit
<1>4. CorporaAreCommitted'
  BY <1>3 DEF CorporaAreCommitted, IInv
<1>5. work[p].job = "build" /\ work[p].answer = {}
  BY <1>1 DEF IInv, WorkIsSound, OwnWork, IndexIsOfTheCorpus, AnswersAnalogues
<1>6. OwnWork(p)'
  BY <1>1, <1>2, <1>3, <1>5 DEF OwnWork, ReadsCommitted, IndexIsOfTheCorpus, AnswersAnalogues,
                                Publishing, Querying
<1> QED
  BY <1>1, <1>2, <1>3, <1>4, <1>6, OutsideStep DEF Others, Inside

LEMMA SnapshotStep == ASSUME IInv, NEW p \in Processes, Snapshot(p) PROVE IInv' \/ UNCHANGED vars \/ UNCHANGED <<database, disk, process>>
<1>1. SUFFICES ASSUME ~ UNCHANGED process PROVE IInv'
  BY DEF Snapshot
<1> DEFINE w == [NoWork EXCEPT !.job = "query", !.corpus = corpus]
<1>2. Dates(corpus) # {} /\ Goto(p, "idle", "snapshot") /\ work' = [work EXCEPT ![p] = w]
  BY <1>1 DEF Snapshot
<1>3. IsWork(w) /\ w.corpus = corpus /\ w.answer = {}
  BY NewJob
<1>4. WorkType' /\ work'[p] = w /\ \A q \in Processes \ {p} : work'[q] = work[q]
  BY <1>2, <1>3, WorkStep DEF IInv
<1>5. /\ pc[p] = "idle" /\ pc' \in [Processes -> Program] /\ pc'[p] = "snapshot"
      /\ \A q \in Processes \ {p} : pc'[q] = pc[q]
  BY <1>2, GotoStep DEF IInv, Program, Querying
<1>6. corpus \in committed
  BY <1>2 DEF IInv, CorporaAreCommitted, Empty, Dates
<1>7. UNCHANGED disk /\ CorporaAreCommitted' /\ committed' = committed
  BY DEF Snapshot, database, IInv, CorporaAreCommitted
<1> HIDE DEF w
<1>8. OwnWork(p)'
  BY <1>3, <1>4, <1>5, <1>6, <1>7 DEF OwnWork, ReadsCommitted, IndexIsOfTheCorpus, AnswersAnalogues,
                                      Publishing, Querying
<1> QED
  BY <1>4, <1>5, <1>7, <1>8, OutsideStep DEF Others, Inside

(* What a generation that loads holds is what the query read. *)
LEMMA LoadedIsRead ==
  ASSUME IInv, NEW p \in Processes, work[p].corpus \in committed, KeyOf(p) \in DOMAIN generation
  PROVE  generation[KeyOf(p)].holds = work[p].corpus
BY KeyDeterminesCorpus DEF IInv, OnlyCommittedIsCached, CorporaAreCommitted, KeyOf

LEMMA QueryStep ==
  ASSUME IInv, NEW p \in Processes, Verify(p) \/ Open(p) \/ Answer(p) \/ Respond(p) \/ Rollback(p)
  PROVE  IInv'
<1> USE DEF Publishing, Querying
<1>1. UNCHANGED disk /\ CorporaAreCommitted' /\ committed' = committed
  BY DEF Verify, Open, Answer, Respond, Rollback, database, IInv, CorporaAreCommitted
<1>2. OwnWork(p)
  BY DEF IInv, WorkIsSound
<1>3. CASE Verify(p)
  <2>1. pc[p] = "snapshot" /\ work[p].corpus \in committed /\ work[p].answer = {}
    BY <1>2, <1>3 DEF Verify, OwnWork, ReadsCommitted, AnswersAnalogues
  <2>2. CASE Goto(p, "snapshot", "verified") /\ UNCHANGED work
    <3>1. /\ pc' \in [Processes -> Program] /\ pc'[p] = "verified"
          /\ \A q \in Processes \ {p} : pc'[q] = pc[q]
      BY <2>2, GotoStep DEF IInv, Program
    <3>2. OwnWork(p)'
      BY <1>1, <2>1, <2>2, <3>1 DEF OwnWork, ReadsCommitted, IndexIsOfTheCorpus, AnswersAnalogues
    <3> QED
      BY <1>1, <2>1, <2>2, <3>1, <3>2, OutsideStep DEF Others, Inside, WorkType, IInv, TypeInv
  <2>3. CASE Goto(p, "snapshot", "publish") /\ Set(p, "index", work[p].corpus)
    <3>1. /\ pc' \in [Processes -> Program] /\ pc'[p] = "publish"
          /\ \A q \in Processes \ {p} : pc'[q] = pc[q]
      BY <2>3, GotoStep DEF IInv, Program
    <3>2. /\ WorkType' /\ \A q \in Processes \ {p} : work'[q] = work[q]
          /\ work'[p].index = work[p].corpus /\ work'[p].job = work[p].job
          /\ work'[p].corpus = work[p].corpus /\ work'[p].answer = work[p].answer
      BY <2>3, SetIndexStep DEF IInv
    <3>3. OwnWork(p)'
      BY <1>1, <2>1, <3>1, <3>2 DEF OwnWork, ReadsCommitted, IndexIsOfTheCorpus, AnswersAnalogues
    <3> QED
      BY <1>1, <2>1, <3>1, <3>2, <3>3, OutsideStep DEF Others, Inside
  <2> QED
    BY <1>3, <2>2, <2>3 DEF Verify
<1>4. CASE Open(p)
  <2>1. pc[p] = "verified" /\ work[p].corpus \in committed /\ work[p].answer = {}
    BY <1>2, <1>4 DEF Open, Goto, OwnWork, ReadsCommitted, AnswersAnalogues
  <2>2. PICK to \in {"loaded", "publish"} : Goto(p, "verified", to) /\ Set(p, "index", work[p].corpus)
    BY <1>4, <2>1, LoadedIsRead DEF Open, Loads
  <2>3. /\ pc' \in [Processes -> Program] /\ pc'[p] = to
        /\ \A q \in Processes \ {p} : pc'[q] = pc[q]
    BY <2>2, GotoStep DEF IInv, Program
  <2>4. /\ WorkType' /\ \A q \in Processes \ {p} : work'[q] = work[q]
        /\ work'[p].index = work[p].corpus /\ work'[p].job = work[p].job
        /\ work'[p].corpus = work[p].corpus /\ work'[p].answer = work[p].answer
    BY <2>2, SetIndexStep DEF IInv
  <2>5. OwnWork(p)'
    BY <1>1, <2>1, <2>2, <2>3, <2>4 DEF OwnWork, ReadsCommitted, IndexIsOfTheCorpus, AnswersAnalogues
  <2> QED
    BY <1>1, <2>1, <2>2, <2>3, <2>4, <2>5, OutsideStep DEF Others, Inside
<1>5. CASE Answer(p) /\ ~ End(p)
  <2>1. pc[p] = "loaded" /\ work[p].corpus \in committed /\ work[p].index = work[p].corpus
    BY <1>2, <1>5 DEF Answer, OwnWork, ReadsCommitted, IndexIsOfTheCorpus
  <2>2. PICK near : Goto(p, "loaded", "answered") /\ Set(p, "answer", Analogues(work[p].corpus, near))
    BY <1>5 DEF Answer
  <2>3. /\ pc' \in [Processes -> Program] /\ pc'[p] = "answered"
        /\ \A q \in Processes \ {p} : pc'[q] = pc[q]
    BY <2>2, GotoStep DEF IInv, Program
  <2>4. /\ WorkType' /\ \A q \in Processes \ {p} : work'[q] = work[q]
        /\ work'[p].answer = Analogues(work[p].corpus, near) /\ work'[p].job = work[p].job
        /\ work'[p].corpus = work[p].corpus /\ work'[p].index = work[p].index
    BY <2>2, SetAnswerStep DEF IInv
  <2>5. Analogues(work[p].corpus, near) \subseteq Rows(work[p].corpus)
    BY DEF Analogues
  <2>6. OwnWork(p)'
    BY <1>1, <2>1, <2>3, <2>4, <2>5 DEF OwnWork, ReadsCommitted, IndexIsOfTheCorpus,
                                        AnswersAnalogues, Rows, Dates
  <2> QED
    BY <1>1, <2>1, <2>3, <2>4, <2>6, OutsideStep DEF Others, Inside
<1>6. CASE (Answer(p) \/ Respond(p) \/ Rollback(p)) /\ End(p)
  <2>1. pc[p] \in {"loaded", "answered", "engineered"}
    BY <1>6 DEF Answer, Respond, Rollback
  <2>2. /\ pc' \in [Processes -> Program] /\ WorkType' /\ Others(p)
        /\ pc'[p] = "idle" /\ work'[p].answer = {}
    BY <1>6, EndStep DEF IInv
  <2>3. OwnWork(p)'
    BY <2>2 DEF OwnWork, ReadsCommitted, IndexIsOfTheCorpus, AnswersAnalogues
  <2> QED
    BY <1>1, <2>1, <2>2, <2>3, OutsideStep DEF Inside
<1> QED
  BY <1>3, <1>4, <1>5, <1>6 DEF Respond, Rollback
-----------------------------------------------------------------------------
(* publish: a process that holds the lock of its generation is alone there. *)
LEMMA HolderIsAlone ==
  ASSUME IInv, NEW p \in Processes, NEW q \in Processes, Inside(p), Inside(q), KeyOf(p) = KeyOf(q)
  PROVE  p = q
<1>1. <<KeyOf(p), p>> \in flock /\ <<KeyOf(q), q>> \in flock
  BY DEF IInv, LocksAreHeldInside
<1> QED
  BY <1>1 DEF IInv, LocksAreHeldInside

(* A step inside publish moves one program counter; the local variables and
   the database stay. *)
LEMMA InsideFrame ==
  ASSUME IInv, NEW p \in Processes, NEW from \in Publishing, NEW to \in Publishing, Goto(p, from, to),
         UNCHANGED <<database, work>>
  PROVE  /\ pc' \in [Processes -> Program] /\ WorkType' /\ pc[p] = from /\ pc'[p] = to
         /\ \A q \in Processes \ {p} : pc'[q] = pc[q]
         /\ CorporaAreCommitted' /\ WorkIsSound' /\ \A q \in Processes : KeyOf(q)' = KeyOf(q)
         /\ work[p].corpus \in committed /\ committed' = committed
<1>1. /\ pc[p] = from /\ pc' \in [Processes -> Program] /\ pc'[p] = to
      /\ \A q \in Processes \ {p} : pc'[q] = pc[q]
  BY GotoStep DEF IInv, Program
<1>2. corpus' = corpus /\ committed' = committed /\ work' = work
  BY DEF database
<1>3. OwnWork(p)
  BY DEF IInv, WorkIsSound
<1>4. OwnWork(p)'
  BY <1>1, <1>2, <1>3 DEF OwnWork, ReadsCommitted, IndexIsOfTheCorpus, AnswersAnalogues,
                          Publishing, Querying
<1>5. WorkIsSound'
  BY <1>1, <1>2, <1>4 DEF IInv, WorkIsSound, OwnWork, ReadsCommitted, IndexIsOfTheCorpus,
                          AnswersAnalogues, Rows, Dates
<1> QED
  BY <1>1, <1>2, <1>3, <1>5 DEF IInv, TypeInv, WorkType, CorporaAreCommitted, KeyOf, Key, Rows, Dates,
                                OwnWork, ReadsCommitted

LEMMA LockGenerationStep == ASSUME IInv, NEW p \in Processes, LockGeneration(p) PROVE IInv'
<1>1. /\ pc' \in [Processes -> Program] /\ WorkType' /\ pc[p] = "publish" /\ pc'[p] = "locked"
      /\ \A q \in Processes \ {p} : pc'[q] = pc[q]
      /\ CorporaAreCommitted' /\ WorkIsSound' /\ \A q \in Processes : KeyOf(q)' = KeyOf(q)
      /\ committed' = committed
  BY InsideFrame DEF LockGeneration, Publishing
<1>2. /\ flock' = flock \cup {<<KeyOf(p), p>>} /\ UNCHANGED <<generation, dirs>>
      /\ \A q \in Processes : <<KeyOf(p), q>> \notin flock
  BY DEF LockGeneration
<1>3. TypeInv'
  BY <1>1, <1>2 DEF IInv, TypeInv, WorkType
<1>4. OnlyCommittedIsCached'
  BY <1>1, <1>2 DEF IInv, OnlyCommittedIsCached
<1>5. \A l \in flock : l[1] # KeyOf(p) /\ l[2] # p /\ l[2] \in Processes
  BY <1>1, <1>2 DEF IInv, TypeInv, LocksAreHeldInside, Inside
<1>6. \A x \in dirs : x[2] \in Processes /\ x[2] # p /\ pc[x[2]] \in {"staging", "staged", "cleaning"}
  BY <1>1 DEF IInv, TypeInv, LocksAreHeldInside
<1>7. LocksAreHeldInside'
  <2>1. \A q \in Processes : Inside(q)' <=> Inside(q) \/ q = p
    BY <1>1 DEF Inside
  <2>2. \A q \in Processes : Inside(q)' => <<KeyOf(q)', q>> \in flock'
    BY <1>1, <1>2, <2>1 DEF IInv, LocksAreHeldInside
  <2>3. \A l \in flock' : Inside(l[2])' /\ l[1] = KeyOf(l[2])'
    BY <1>1, <1>2, <1>5, <2>1 DEF IInv, LocksAreHeldInside
  <2>4. \A l, m \in flock' : l[1] = m[1] => l[2] = m[2]
    BY <1>2, <1>5 DEF IInv, LocksAreHeldInside
  <2>5. \A x \in dirs' : pc'[x[2]] \in {"staging", "staged", "cleaning"}
    BY <1>1, <1>2, <1>6
  <2> QED
    BY <2>2, <2>3, <2>4, <2>5 DEF LocksAreHeldInside
<1>8. NothingToLose'
  BY <1>1, <1>2 DEF IInv, NothingToLose, Loads
<1> QED
  BY <1>1, <1>3, <1>4, <1>7, <1>8 DEF IInv

(* The lock is kept: who is inside and under which key does not change. *)
LEMMA HeldStep ==
  ASSUME IInv, NEW p \in Processes, NEW from \in {"locked", "staging", "staged", "cleaning"},
         NEW to \in {"staging", "staged", "cleaning"}, Goto(p, from, to),
         UNCHANGED <<database, work, flock>>, \A x \in dirs' \ dirs : x = <<x[1], p>>
  PROVE  /\ pc' \in [Processes -> Program] /\ WorkType' /\ pc[p] = from /\ pc'[p] = to
         /\ \A q \in Processes \ {p} : pc'[q] = pc[q]
         /\ CorporaAreCommitted' /\ WorkIsSound' /\ LocksAreHeldInside'
         /\ \A q \in Processes : KeyOf(q)' = KeyOf(q)
         /\ work[p].corpus \in committed /\ committed' = committed
         /\ \A x \in dirs' : x = <<x[1], x[2]>> /\ x[2] \in Processes
<1>1. from \in Publishing /\ to \in Publishing
  BY DEF Publishing
<1>2. /\ pc' \in [Processes -> Program] /\ WorkType' /\ pc[p] = from /\ pc'[p] = to
      /\ \A q \in Processes \ {p} : pc'[q] = pc[q]
      /\ CorporaAreCommitted' /\ WorkIsSound' /\ \A q \in Processes : KeyOf(q)' = KeyOf(q)
      /\ work[p].corpus \in committed /\ committed' = committed
  BY <1>1, InsideFrame
<1>3. \A q \in Processes : Inside(q)' <=> Inside(q)
  BY <1>2 DEF Inside
<1>4. \A x \in dirs' : x = <<x[1], x[2]>> /\ x[2] \in Processes
  BY DEF IInv, TypeInv
<1>5. \A x \in dirs' : pc'[x[2]] \in {"staging", "staged", "cleaning"}
  BY <1>2, <1>4 DEF IInv, LocksAreHeldInside
<1>6. \A l \in flock : l[2] \in Processes
  BY DEF IInv, TypeInv
<1>7. LocksAreHeldInside'
  BY <1>2, <1>3, <1>5, <1>6 DEF IInv, LocksAreHeldInside
<1> QED
  BY <1>2, <1>4, <1>7

(* The lock is given up, with every directory of the process. *)
LEMMA ReleaseStep ==
  ASSUME IInv, NEW p \in Processes, UNCHANGED <<database, generation>>,
         pc' \in [Processes -> Program], WorkType', Others(p), pc'[p] \in {"idle", "loaded"}, OwnWork(p)',
         flock' = {l \in flock : l[2] # p}, dirs' = dirs \ OwnDirs(p)
  PROVE  IInv'
<1>1. corpus' = corpus /\ committed' = committed
  BY DEF database
<1>2. TypeInv'
  BY DEF IInv, TypeInv, WorkType
<1>3. CorporaAreCommitted' /\ OnlyCommittedIsCached'
  BY <1>1 DEF IInv, CorporaAreCommitted, OnlyCommittedIsCached
<1>4. WorkIsSound'
  BY <1>1 DEF IInv, WorkIsSound, OwnWork, ReadsCommitted, IndexIsOfTheCorpus, AnswersAnalogues,
              Others, Rows, Dates
<1>5. \A q \in Processes \ {p} : (Inside(q)' <=> Inside(q)) /\ KeyOf(q)' = KeyOf(q)
  BY DEF Others, Inside, KeyOf, Key, Rows, Dates
<1>6. ~ Inside(p)'
  BY DEF Inside
<1>7. \A q \in Processes : Inside(q)' => <<KeyOf(q)', q>> \in flock'
  BY <1>5, <1>6 DEF IInv, LocksAreHeldInside
<1>8. \A l \in flock' : l \in flock /\ l[2] \in Processes \ {p}
  BY DEF IInv, TypeInv
<1>9. \A x \in dirs' : x \in dirs /\ x[2] \in Processes \ {p}
  BY DEF IInv, TypeInv, OwnDirs
<1>10. LocksAreHeldInside'
  BY <1>5, <1>7, <1>8, <1>9 DEF IInv, LocksAreHeldInside, Others
<1>11. NothingToLose'
  BY <1>5 DEF IInv, NothingToLose, Loads, Others
<1> QED
  BY <1>2, <1>3, <1>4, <1>10, <1>11 DEF IInv

LEMMA UnlockStep ==
  ASSUME IInv, NEW p \in Processes, Inside(p), Unlock(p)
  PROVE  flock' = {l \in flock : l[2] # p}
<1>1. \A l \in flock : l = <<l[1], l[2]>> /\ l[1] = KeyOf(l[2])
  BY DEF IInv, TypeInv, LocksAreHeldInside
<1> QED
  BY <1>1 DEF Unlock

LEMMA PublishedWork ==
  ASSUME IInv, NEW p \in Processes, Inside(p), Published(p), UNCHANGED database
  PROVE  /\ pc' \in [Processes -> Program] /\ WorkType' /\ Others(p)
         /\ pc'[p] \in {"idle", "loaded"} /\ OwnWork(p)'
<1>1. /\ pc' \in [Processes -> Program] /\ WorkType' /\ Others(p)
      /\ \/ pc'[p] = "idle" /\ work'[p].answer = {}
         \/ pc'[p] = "loaded" /\ work'[p] = work[p] /\ work[p].job # "build"
  BY PublishedStep DEF IInv
<1>2. OwnWork(p) /\ pc[p] \in Publishing /\ pc[p] # "answered"
  BY DEF IInv, WorkIsSound, Inside, Publishing
<1>3. OwnWork(p)'
  BY <1>1, <1>2 DEF OwnWork, ReadsCommitted, IndexIsOfTheCorpus, AnswersAnalogues,
                    Publishing, Querying, database
<1> QED
  BY <1>1, <1>3
-----------------------------------------------------------------------------
LEMMA RecheckStep == ASSUME IInv, NEW p \in Processes, Recheck(p) PROVE IInv'
<1>1. pc[p] = "locked" /\ Inside(p)
  BY DEF Recheck, Inside
<1>2. CASE Loads(KeyOf(p)) /\ Published(p) /\ Unlock(p) /\ UNCHANGED dirs
  <2>1. OwnDirs(p) = {}
    BY <1>1 DEF IInv, LocksAreHeldInside, OwnDirs
  <2>2. dirs' = dirs \ OwnDirs(p)
    BY <1>2, <2>1
  <2>3. UNCHANGED <<database, generation>>
    BY DEF Recheck
  <2> QED
    BY <1>1, <1>2, <2>2, <2>3, PublishedWork, UnlockStep, ReleaseStep
<1>3. CASE /\ ~ Loads(KeyOf(p)) /\ Goto(p, "locked", "staging")
           /\ dirs' = dirs \cup {<<"staging", p>>} /\ UNCHANGED <<flock, work>>
  <2>1. UNCHANGED <<database, generation>>
    BY DEF Recheck
  <2>2. \A x \in dirs' \ dirs : x = <<x[1], p>>
    BY <1>3
  <2>3. /\ pc' \in [Processes -> Program] /\ WorkType' /\ pc[p] = "locked" /\ pc'[p] = "staging"
        /\ \A q \in Processes \ {p} : pc'[q] = pc[q]
        /\ CorporaAreCommitted' /\ WorkIsSound' /\ LocksAreHeldInside'
        /\ \A q \in Processes : KeyOf(q)' = KeyOf(q)
        /\ committed' = committed
        /\ \A x \in dirs' : x = <<x[1], x[2]>> /\ x[2] \in Processes
    BY <1>3, <2>1, <2>2, HeldStep
  <2>4. TypeInv'
    BY <1>3, <2>1, <2>3 DEF IInv, TypeInv, WorkType
  <2>5. OnlyCommittedIsCached'
    BY <2>1, <2>3 DEF IInv, OnlyCommittedIsCached
  <2>6. NothingToLose'
    BY <1>3, <2>1, <2>3 DEF IInv, NothingToLose, Loads
  <2> QED
    BY <2>3, <2>4, <2>5, <2>6 DEF IInv
<1> QED
  BY <1>2, <1>3 DEF Recheck

LEMMA DisplaceStep == ASSUME IInv, NEW p \in Processes, Displace(p) PROVE IInv'
<1>1. /\ Goto(p, "staging", "staged") /\ UNCHANGED <<database, work, flock>>
      /\ \A x \in dirs' \ dirs : x = <<x[1], p>>
  BY DEF Displace, database
<1>2. /\ pc' \in [Processes -> Program] /\ WorkType' /\ pc[p] = "staging" /\ pc'[p] = "staged"
      /\ \A q \in Processes \ {p} : pc'[q] = pc[q]
      /\ CorporaAreCommitted' /\ WorkIsSound' /\ LocksAreHeldInside'
      /\ \A q \in Processes : KeyOf(q)' = KeyOf(q)
      /\ committed' = committed
      /\ \A x \in dirs' : x = <<x[1], x[2]>> /\ x[2] \in Processes
  BY <1>1, HeldStep
<1>3. /\ DOMAIN generation' = DOMAIN generation \ {KeyOf(p)}
      /\ \A key \in DOMAIN generation' : generation'[key] = generation[key]
      /\ generation' = [key \in DOMAIN generation' |-> generation'[key]]
  <2>1. CASE KeyOf(p) \in DOMAIN generation
    BY <2>1 DEF Displace, Without
  <2>2. CASE KeyOf(p) \notin DOMAIN generation
    BY <2>2 DEF Displace, IInv, TypeInv
  <2> QED
    BY <2>1, <2>2
<1>4. \A key \in DOMAIN generation : 
        generation[key] = [holds |-> generation[key].holds, intact |-> generation[key].intact]
  BY DEF IInv, TypeInv
<1>5. generation' = [key \in DOMAIN generation' |->
                       [holds |-> generation'[key].holds, intact |-> generation'[key].intact]]
  BY <1>3, <1>4
<1>6. TypeInv'
  BY <1>1, <1>2, <1>5 DEF IInv, TypeInv, WorkType
<1>7. OnlyCommittedIsCached'
  BY <1>2, <1>3 DEF IInv, OnlyCommittedIsCached
<1>8. NothingToLose'
  BY <1>2, <1>3 DEF IInv, NothingToLose, Loads
<1> QED
  BY <1>2, <1>6, <1>7, <1>8 DEF IInv

LEMMA InstallStep == ASSUME IInv, NEW p \in Processes, Install(p) PROVE IInv'
<1>1. /\ Goto(p, "staged", "cleaning") /\ UNCHANGED <<database, work, flock>>
      /\ \A x \in dirs' \ dirs : x = <<x[1], p>>
  BY DEF Install, database
<1>2. /\ pc' \in [Processes -> Program] /\ WorkType' /\ pc[p] = "staged" /\ pc'[p] = "cleaning"
      /\ \A q \in Processes \ {p} : pc'[q] = pc[q]
      /\ CorporaAreCommitted' /\ WorkIsSound' /\ LocksAreHeldInside'
      /\ \A q \in Processes : KeyOf(q)' = KeyOf(q)
      /\ work[p].corpus \in committed /\ committed' = committed
      /\ \A x \in dirs' : x = <<x[1], x[2]>> /\ x[2] \in Processes
  BY <1>1, HeldStep
<1>3. /\ DOMAIN generation' = DOMAIN generation \cup {KeyOf(p)}
      /\ generation'[KeyOf(p)] = [holds |-> work[p].corpus, intact |-> TRUE]
      /\ \A key \in DOMAIN generation \ {KeyOf(p)} : generation'[key] = generation[key]
      /\ generation' = [key \in DOMAIN generation' |-> generation'[key]]
  BY DEF Install
<1>4. \A key \in DOMAIN generation : 
        generation[key] = [holds |-> generation[key].holds, intact |-> generation[key].intact]
  BY DEF IInv, TypeInv
<1>5. \A key \in DOMAIN generation' :
        generation'[key] = [holds |-> generation'[key].holds, intact |-> generation'[key].intact]
  BY <1>3, <1>4
<1>6. TypeInv'
  <2>1. generation' = [key \in DOMAIN generation' |->
                         [holds |-> generation'[key].holds, intact |-> generation'[key].intact]]
    BY <1>3, <1>5
  <2> QED
    BY <1>1, <1>2, <2>1 DEF IInv, TypeInv, WorkType
<1>7. OnlyCommittedIsCached'
  <2> SUFFICES ASSUME NEW key \in DOMAIN generation'
               PROVE  generation'[key].holds \in committed /\ Key(generation'[key].holds) = key
    BY <1>2 DEF OnlyCommittedIsCached, Key, Rows, Dates
  <2>1. CASE key = KeyOf(p)
    BY <1>2, <1>3, <2>1 DEF KeyOf
  <2>2. CASE key # KeyOf(p)
    BY <1>3, <2>2 DEF IInv, OnlyCommittedIsCached
  <2> QED
    BY <2>1, <2>2
<1>8. \A q \in Processes \ {p} : pc[q] \in {"staging", "staged"} => KeyOf(q) # KeyOf(p)
  BY <1>2, HolderIsAlone DEF Inside
<1>9. NothingToLose'
  BY <1>2, <1>3, <1>8 DEF IInv, NothingToLose, Loads
<1> QED
  BY <1>2, <1>6, <1>7, <1>9 DEF IInv

LEMMA PublishRaisesStep == ASSUME IInv, NEW p \in Processes, PublishRaises(p) PROVE IInv'
<1>1. /\ UNCHANGED <<database, work, flock>> /\ UNCHANGED <<generation, dirs>>
      /\ pc[p] \in {"staging", "staged"} /\ Goto(p, pc[p], "cleaning")
      /\ \A x \in dirs' \ dirs : x = <<x[1], p>>
  BY DEF PublishRaises, database, disk, Goto
<1>2. /\ pc' \in [Processes -> Program] /\ WorkType' /\ pc'[p] = "cleaning"
      /\ \A q \in Processes \ {p} : pc'[q] = pc[q]
      /\ CorporaAreCommitted' /\ WorkIsSound' /\ LocksAreHeldInside'
      /\ \A q \in Processes : KeyOf(q)' = KeyOf(q)
      /\ committed' = committed
  BY <1>1, HeldStep
<1>3. TypeInv'
  BY <1>1, <1>2 DEF IInv, TypeInv, WorkType
<1>4. OnlyCommittedIsCached' /\ NothingToLose'
  BY <1>1, <1>2 DEF IInv, OnlyCommittedIsCached, NothingToLose, Loads
<1> QED
  BY <1>2, <1>3, <1>4 DEF IInv

LEMMA CleanUpStep == ASSUME IInv, NEW p \in Processes, CleanUp(p) PROVE IInv'
<1>1. Inside(p) /\ Published(p) /\ Unlock(p) /\ dirs' = dirs \ OwnDirs(p)
      /\ UNCHANGED <<database, generation>>
  BY DEF CleanUp, Inside
<1> QED
  BY <1>1, PublishedWork, UnlockStep, ReleaseStep

LEMMA CrashStep == ASSUME IInv, NEW p \in Processes, Crash(p) PROVE IInv'
<1>1. End(p) /\ flock' = {l \in flock : l[2] # p} /\ dirs' = dirs \ OwnDirs(p)
      /\ UNCHANGED <<database, generation>>
  BY DEF Crash
<1>2. /\ pc' \in [Processes -> Program] /\ WorkType' /\ Others(p)
      /\ pc'[p] = "idle" /\ work'[p].answer = {}
  BY <1>1, EndStep DEF IInv
<1>3. OwnWork(p)'
  BY <1>2 DEF OwnWork, ReadsCommitted, IndexIsOfTheCorpus, AnswersAnalogues, Publishing, Querying
<1> QED
  BY <1>1, <1>2, <1>3, ReleaseStep

LEMMA DamageStep == ASSUME IInv, NEW key \in DOMAIN generation, Damage(key) PROVE IInv'
<1>1. UNCHANGED <<database, dirs, flock, process>>
  BY DEF Damage
<1> DEFINE damaged(b) == [generation[key] EXCEPT !.intact = b]
<1>2. /\ DOMAIN generation' = DOMAIN generation
      /\ generation'[key] = [holds |-> generation[key].holds, intact |-> FALSE]
      /\ \A k \in DOMAIN generation \ {key} : generation'[k] = generation[k]
      /\ generation' = [k \in DOMAIN generation |-> generation'[k]]
  <2>1. \A k \in DOMAIN generation :
          generation[k] = [holds |-> generation[k].holds, intact |-> generation[k].intact]
    BY DEF IInv, TypeInv
  <2>2. \A b : damaged(b) = [holds |-> generation[key].holds, intact |-> b]
    BY <2>1
  <2>3. generation' = [generation EXCEPT ![key] = damaged(FALSE)]
        /\ generation = [k \in DOMAIN generation |-> generation[k]]
    BY DEF Damage, IInv, TypeInv
  <2> HIDE DEF damaged
  <2> QED
    BY <2>2, <2>3
<1>3. TypeInv'
  <2>1. \A k \in DOMAIN generation :
          generation[k] = [holds |-> generation[k].holds, intact |-> generation[k].intact]
    BY DEF IInv, TypeInv
  <2>2. \A k \in DOMAIN generation' :
          generation'[k] = [holds |-> generation'[k].holds, intact |-> generation'[k].intact]
    BY <1>2, <2>1
  <2>3. generation' = [k \in DOMAIN generation' |->
                         [holds |-> generation'[k].holds, intact |-> generation'[k].intact]]
    BY <1>2, <2>2
  <2> QED
    BY <1>1, <2>3 DEF IInv, TypeInv, process
<1>4. CorporaAreCommitted' /\ WorkIsSound' /\ OnlyCommittedIsCached'
  BY <1>1, <1>2 DEF IInv, CorporaAreCommitted, WorkIsSound, OwnWork, ReadsCommitted, IndexIsOfTheCorpus,
                    AnswersAnalogues, OnlyCommittedIsCached, process, database, Rows, Dates
<1>5. LocksAreHeldInside'
  BY <1>1 DEF IInv, LocksAreHeldInside, Inside, KeyOf, Key, Rows, Dates, process
<1>6. NothingToLose'
  BY <1>1, <1>2 DEF IInv, NothingToLose, Loads, KeyOf, Key, Rows, Dates, process
<1> QED
  BY <1>3, <1>4, <1>5, <1>6 DEF IInv

(* Steps that leave the database, the directories and the processes alone. *)
LEMMA StutterStep == ASSUME IInv, UNCHANGED <<database, disk, process>> PROVE IInv'
<1>1. UNCHANGED <<corpus, committed, generation, dirs, flock, pc, work>>
  BY DEF database, disk, process
<1> QED
  BY <1>1 DEF IInv, TypeInv, CorporaAreCommitted, WorkIsSound, OwnWork, ReadsCommitted,
              IndexIsOfTheCorpus, AnswersAnalogues, OnlyCommittedIsCached, LocksAreHeldInside,
              NothingToLose, Inside, Loads, KeyOf, Key, Rows, Dates

LEMMA InvStep == IInv /\ [Next]_vars => IInv'
<1> SUFFICES ASSUME IInv, [Next]_vars PROVE IInv'
  OBVIOUS
<1>1. CASE UNCHANGED vars \/ NewSession \/ Revise
  BY <1>1, StutterStep DEF vars, NewSession, Revise
<1>2. ASSUME NEW key \in DOMAIN generation, Damage(key) PROVE IInv'
  BY <1>2, DamageStep
<1>3. ASSUME NEW p \in Processes, Build(p) PROVE IInv'
  BY <1>3, EngineerStep, CommitStep, QueryStep DEF Build
<1>4. ASSUME NEW p \in Processes, Publish(p) PROVE IInv'
  BY <1>4, LockGenerationStep, RecheckStep, DisplaceStep, InstallStep, PublishRaisesStep, CleanUpStep
     DEF Publish
<1>5. ASSUME NEW p \in Processes, Query(p) PROVE IInv'
  BY <1>5, SnapshotStep, StutterStep, QueryStep DEF Query, vars
<1>6. ASSUME NEW p \in Processes, Crash(p) PROVE IInv'
  BY <1>6, CrashStep
<1> QED
  BY <1>1, <1>2, <1>3, <1>4, <1>5, <1>6 DEF Next

LEMMA Invariant == Spec => []IInv
BY InvInit, InvStep, PTL DEF Spec
-----------------------------------------------------------------------------
(* The artifact cache is sound for any processes that build, query, damage,
   crash and repair at once: a generation directory holds a committed corpus
   under the key of that corpus, publications of one corpus take turns, and a
   process outside publish holds no lock and owns no directory. *)
THEOREM CacheStaysSound == Spec => []CacheIsSound
<1>1. ASSUME IInv PROVE PublicationsTakeTurns
  <2> USE <1>1
  <2>1. ASSUME NEW p \in Processes, NEW q \in Processes, Inside(p), Inside(q), KeyOf(p) = KeyOf(q)
        PROVE  p = q
    BY <2>1, HolderIsAlone
  <2>2. ASSUME NEW p \in Processes, ~ Inside(p)
        PROVE  OwnDirs(p) = {} /\ \A l \in flock : l[2] # p
    BY <2>2 DEF IInv, LocksAreHeldInside, OwnDirs, Inside
  <2> QED
    BY <2>1, <2>2 DEF PublicationsTakeTurns, Inside
<1>2. IInv => CacheIsSound
  BY <1>1 DEF CacheIsSound, IInv
<1> QED
  BY <1>2, Invariant, PTL

(* Every answer of query_similar comes from one corpus, the one the query read
   in its snapshot: the index it searched is of that corpus and the analogues
   carry its vectors. *)
THEOREM AnswersComeFromOneCorpus == Spec => []AnswersFromOneCorpus
<1>1. IInv => AnswersFromOneCorpus
  <2> SUFFICES ASSUME IInv, NEW p \in Processes
               PROVE  /\ pc[p] \in {"loaded", "answered"} => work[p].index = work[p].corpus
                      /\ work[p].answer \subseteq Rows(work[p].corpus)
    BY DEF AnswersFromOneCorpus
  <2>1. OwnWork(p)
    BY DEF IInv, WorkIsSound
  <2> QED
    BY <2>1 DEF OwnWork, IndexIsOfTheCorpus, AnswersAnalogues
<1> QED
  BY <1>1, Invariant, PTL

(* publish never takes an intact generation away from its readers: only a
   generation that failed to load under the lock is displaced, and nobody else
   can have repaired it since. *)
THEOREM IntactGenerationsStay == Spec => IntactGenerationStays
<1> DEFINE Stays == \A key \in DOMAIN generation :
                      generation[key].intact =>
                        key \in DOMAIN generation' /\ generation'[key].holds = generation[key].holds
<1>1. ASSUME IInv, [Next]_vars PROVE Stays
  <2> USE <1>1
  <2>1. CASE UNCHANGED generation
    BY <2>1
  <2>2. ASSUME NEW key \in DOMAIN generation, Damage(key) PROVE Stays
    <3>1. generation' = [generation EXCEPT ![key] = [generation[key] EXCEPT !.intact = FALSE]]
      BY <2>2 DEF Damage
    <3>2. \A b : [generation[key] EXCEPT !.intact = b].holds = generation[key].holds
      BY DEF IInv, TypeInv
    <3> QED
      BY <3>1, <3>2 DEF IInv, TypeInv
  <2>3. ASSUME NEW p \in Processes, Displace(p) PROVE Stays
    <3>1. pc[p] = "staging" /\ ~ Loads(KeyOf(p))
      BY <2>3 DEF Displace, Goto, IInv, NothingToLose
    <3>2. CASE KeyOf(p) \in DOMAIN generation
      BY <2>3, <3>1, <3>2 DEF Displace, Without, Loads
    <3>3. CASE KeyOf(p) \notin DOMAIN generation
      BY <2>3, <3>3 DEF Displace
    <3> QED
      BY <3>2, <3>3
  <2>4. ASSUME NEW p \in Processes, Install(p) PROVE Stays
    BY <2>4 DEF Install, Goto, IInv, NothingToLose
  <2>5. ASSUME NEW p \in Processes, Build(p) \/ Query(p) \/ Crash(p) PROVE UNCHANGED generation
    BY <2>5 DEF Build, Query, Crash, Engineer, Commit, Rollback, Snapshot, Verify, Open, Answer, Respond,
                disk
  <2>6. ASSUME NEW p \in Processes, LockGeneration(p) \/ Recheck(p) \/ PublishRaises(p) \/ CleanUp(p)
        PROVE UNCHANGED generation
    BY <2>6 DEF LockGeneration, Recheck, PublishRaises, CleanUp, disk
  <2>7. CASE UNCHANGED vars \/ NewSession \/ Revise
    BY <2>7, <2>1 DEF vars, NewSession, Revise, disk
  <2> QED
    BY <2>1, <2>2, <2>3, <2>4, <2>5, <2>6, <2>7 DEF Next, Publish
<1>2. IInv /\ [Next]_vars => [Stays]_vars
  BY <1>1
<1> QED
  BY <1>2, Invariant, PTL DEF Spec, IntactGenerationStays

-----------------------------------------------------------------------------
(* Places in an order: R orders S strictly and totally; the place of a member
   counts the members before it. *)

Orders(R, S) ==
  /\ \A a, b \in S : <<a, b>> \in R => ~ (<<b, a>> \in R)
  /\ \A a, b \in S : a = b \/ <<a, b>> \in R \/ <<b, a>> \in R
  /\ \A a, b, c \in S : <<a, b>> \in R /\ <<b, c>> \in R => <<a, c>> \in R

Ahead(R, S, a) == {b \in S : <<b, a>> \in R}

(* Each of 0, 1, ... up to the last is the place of exactly one member. *)
PlacesOf(R, S) == [a \in S |-> Cardinality(Ahead(R, S, a))]

Numbers(p, S) ==
  LET D == {i \in Nat : i < Cardinality(S)}
  IN  /\ p \in [S -> D]
      /\ \A a, b \in S : p[a] = p[b] => a = b
      /\ \A i \in D : \E a \in S : p[a] = i

LEMMA InOrder ==
  ASSUME NEW S, IsFiniteSet(S), NEW R, Orders(R, S), NEW a \in S, NEW b \in S, <<a, b>> \in R
  PROVE  Cardinality(Ahead(R, S, a)) < Cardinality(Ahead(R, S, b))
<1> DEFINE A == Ahead(R, S, a)
           B == Ahead(R, S, b)
<1>1. IsFiniteSet(B) /\ A \subseteq B /\ A # B
  <2>1. B \subseteq S
    BY DEF Ahead
  <2>2. \A c \in A : c \in B
    BY DEF Ahead, Orders
  <2>3. a \in B /\ a \notin A
    BY DEF Ahead, Orders
  <2> HIDE DEF A, B
  <2> QED
    BY <2>1, <2>2, <2>3, FS_Subset
<1> HIDE DEF A, B
<1>2. IsFiniteSet(A) /\ Cardinality(A) <= Cardinality(B) /\ Cardinality(A) # Cardinality(B)
  BY <1>1, FS_Subset
<1>3. Cardinality(A) \in Nat /\ Cardinality(B) \in Nat
  BY <1>1, <1>2, FS_CardinalityType
<1> DEFINE x == Cardinality(A)
           y == Cardinality(B)
<1>4. x \in Nat /\ y \in Nat /\ x <= y /\ x # y
  BY <1>2, <1>3
<1> HIDE DEF x, y
<1>5. x < y
  BY <1>4
<1> QED
  BY <1>5 DEF x, y, A, B

LEMMA InitialSegment ==
  ASSUME NEW n \in Nat
  PROVE  LET D == {i \in Nat : i < n} IN IsFiniteSet(D) /\ Cardinality(D) = n
<1> DEFINE D == {i \in Nat : i < n}
<1>1. D = 0..(n - 1)
  OBVIOUS
<1>2. 0 \in Int /\ n - 1 \in Int
  OBVIOUS
<1>3. IsFiniteSet(0..(n - 1)) /\ Cardinality(0..(n - 1)) = IF 0 > n - 1 THEN 0 ELSE (n - 1) - 0 + 1
  BY ONLY <1>2, FS_Interval
<1>4. (IF 0 > n - 1 THEN 0 ELSE (n - 1) - 0 + 1) = n
  OBVIOUS
<1> HIDE DEF D
<1> QED
  BY <1>1, <1>3, <1>4 DEF D

LEMMA OrderNumbers ==
  ASSUME NEW S, IsFiniteSet(S), NEW R, Orders(R, S)
  PROVE  Numbers(PlacesOf(R, S), S)
<1> DEFINE p == PlacesOf(R, S)
           n == Cardinality(S)
           D == {i \in Nat : i < n}
<1>1. n \in Nat /\ IsFiniteSet(D) /\ Cardinality(D) = n
  <2>1. n \in Nat
    BY FS_CardinalityType
  <2> HIDE DEF n
  <2> QED
    BY <2>1, InitialSegment
<1>2. ASSUME NEW a \in S PROVE Cardinality(Ahead(R, S, a)) \in D
  <2> DEFINE A == Ahead(R, S, a)
  <2>1. A \subseteq S /\ a \notin A
    BY DEF Ahead, Orders
  <2> HIDE DEF A
  <2>2. /\ IsFiniteSet(A) /\ Cardinality(A) <= Cardinality(S)
        /\ (Cardinality(S) = Cardinality(A) => S = A)
    BY <2>1, FS_Subset
  <2>3. Cardinality(A) \in Nat
    BY <2>2, FS_CardinalityType
  <2>4. Cardinality(A) # n
    BY <2>1, <2>2
  <2> DEFINE k == Cardinality(A)
  <2>5. k \in Nat /\ k <= n /\ k # n
    BY <2>2, <2>3, <2>4
  <2> HIDE DEF k, n
  <2>6. k \in D
    BY <1>1, <2>5
  <2> QED
    BY <2>6 DEF k, A
<1>3. p \in [S -> D]
  <2> HIDE DEF D
  <2> QED
    BY <1>2 DEF PlacesOf
<1>4. ASSUME NEW a \in S, NEW b \in S, p[a] = p[b] PROVE a = b
  <2>1. p[a] = Cardinality(Ahead(R, S, a)) /\ p[b] = Cardinality(Ahead(R, S, b))
    BY DEF PlacesOf
  <2>2. p[a] \in Nat
    BY <1>3
  <2> DEFINE x == Cardinality(Ahead(R, S, a))
             y == Cardinality(Ahead(R, S, b))
  <2>4. (<<a, b>> \in R => x < y) /\ (<<b, a>> \in R => y < x)
    BY InOrder
  <2>5. x = y /\ x \in Nat
    BY <1>4, <2>1, <2>2
  <2> HIDE DEF x, y
  <2>3. ~ (<<a, b>> \in R) /\ ~ (<<b, a>> \in R)
    BY <2>4, <2>5
  <2> QED
    BY <2>3 DEF Orders
<1> HIDE DEF p, D
<1>5. p \in Injection(S, D)
  BY <1>3, <1>4 DEF Injection, IsInjective
<1>6. p \in Surjection(S, D)
  <2>1. Cardinality(S) = Cardinality(D)
    BY <1>1
  <2> QED
    BY <1>1, <1>5, <2>1, FS_Injection
<1> QED
  BY <1>3, <1>4, <1>6 DEF Numbers, Surjection, p, D, n

(* The first k of an order are k, or all of them. *)
LEMMA FirstOnes ==
  ASSUME NEW S, IsFiniteSet(S), NEW R, Orders(R, S), NEW k \in Nat
  PROVE  LET first == {a \in S : Cardinality(Ahead(R, S, a)) < k}
         IN  /\ IsFiniteSet(first)
             /\ Cardinality(first) = IF k <= Cardinality(S) THEN k ELSE Cardinality(S)
<1> DEFINE p == PlacesOf(R, S)
           first == {a \in S : Cardinality(Ahead(R, S, a)) < k}
           n == Cardinality(S)
           D == {i \in Nat : i < n}
           E == {i \in Nat : i < k}
           F == IF k <= n THEN E ELSE D
<1>1. n \in Nat
  BY FS_CardinalityType
<1>2. IsFiniteSet(first)
  BY FS_Subset
<1>3. Numbers(p, S)
  BY OrderNumbers
<1>4. \A a \in S : p[a] = Cardinality(Ahead(R, S, a))
  BY DEF PlacesOf
<1> HIDE DEF p
<1>5. first = {a \in S : p[a] < k}
  BY <1>4
<1>6. p \in [S -> D] /\ (\A a, b \in S : p[a] = p[b] => a = b) /\ \A i \in D : \E a \in S : p[a] = i
  BY <1>3 DEF Numbers
<1> HIDE DEF first, n
<1>7. F = {i \in D : i < k}
  BY <1>1
<1> DEFINE q == [a \in first |-> p[a]]
<1>8. q \in [first -> F]
  <2>1. \A a \in first : p[a] \in D /\ p[a] < k
    BY <1>5, <1>6
  <2> HIDE DEF D, F
  <2> QED
    BY <1>7, <2>1
<1>9. \A a, b \in first : q[a] = q[b] => a = b
  BY <1>5, <1>6
<1>10. \A i \in F : \E a \in first : q[a] = i
  <2> HIDE DEF D, F
  <2> QED
    BY <1>5, <1>6, <1>7
<1> HIDE DEF q, F
<1>11. q \in Injection(first, F) /\ q \in Surjection(first, F)
  BY <1>8, <1>9, <1>10 DEF Injection, IsInjective, Surjection
<1>12. ExistsBijection(first, F)
  BY <1>11 DEF ExistsBijection, Bijection
<1>13. Cardinality(F) = Cardinality(first)
  BY <1>2, <1>12, FS_Bijection
<1>14. Cardinality(D) = n /\ Cardinality(E) = k
  BY <1>1, InitialSegment
<1>15. Cardinality(first) = IF k <= n THEN k ELSE n
  <2> HIDE DEF D, E
  <2>1. CASE k <= n
    BY <1>13, <1>14, <2>1 DEF F
  <2>2. CASE ~ (k <= n)
    BY <1>13, <1>14, <2>2 DEF F
  <2> QED
    BY <2>1, <2>2
<1> QED
  BY <1>2, <1>15 DEF first, n

(* Places of integers *)
Placed(S) ==
  /\ \A d \in S : Place(S, d) \in 1..Cardinality(S)
  /\ \A d, e \in S : d < e => Place(S, d) < Place(S, e)
  /\ \A i \in 1..Cardinality(S) : \E d \in S : Place(S, d) = i

LEMMA PlaceIs ==
  ASSUME NEW S, S \subseteq Int, IsFiniteSet(S)
  PROVE  Placed(S)
<1> DEFINE R == {x \in S \X S : x[1] < x[2]}
           n == Cardinality(S)
           c(d) == Cardinality(Ahead(R, S, d))
<1>1. Orders(R, S)
  <2>1. \A a, b \in S : <<a, b>> \in R <=> a < b
    OBVIOUS
  <2>2. \A a \in S : a \in Int
    OBVIOUS
  <2> HIDE DEF R
  <2>3. \A a, b \in S : <<a, b>> \in R => ~ (<<b, a>> \in R)
    BY <2>1, <2>2
  <2>4. ASSUME NEW a \in S, NEW b \in S PROVE a = b \/ <<a, b>> \in R \/ <<b, a>> \in R
    <3>1. a \in Int /\ b \in Int
      BY <2>2
    <3>2. a = b \/ a < b \/ b < a
      BY ONLY <3>1
    <3> QED
      BY <2>1, <3>2
  <2>5. \A a, b, d \in S : <<a, b>> \in R /\ <<b, d>> \in R => <<a, d>> \in R
    BY <2>1, <2>2
  <2> QED
    BY <2>3, <2>4, <2>5 DEF Orders
<1>2. ASSUME NEW d \in S
      PROVE  c(d) \in Nat /\ Place(S, d) = c(d) + 1
  <2> DEFINE A == Ahead(R, S, d)
             B == {e \in S : e <= d}
  <2>1. A = {e \in S : e < d}
    BY DEF Ahead
  <2>2. B = A \cup {d} /\ d \notin A
    <3>1. \A e \in S : (e <= d <=> e < d \/ e = d) /\ ~ (d < d)
      OBVIOUS
    <3> QED
      BY <2>1, <3>1
  <2>3. IsFiniteSet(A)
    BY <2>1, FS_Subset
  <2>4. Cardinality(A) \in Nat
    BY <2>3, FS_CardinalityType
  <2> HIDE DEF A, B
  <2>5. Cardinality(B) = Cardinality(A) + 1
    BY <2>2, <2>3, FS_AddElement
  <2> QED
    BY <2>4, <2>5 DEF A, B, Place
<1>3. Numbers(PlacesOf(R, S), S)
  BY <1>1, OrderNumbers
<1> DEFINE D == {i \in Nat : i < n}
           p == PlacesOf(R, S)
<1>4. \A d \in S : p[d] = c(d)
  BY DEF PlacesOf
<1>5. p \in [S -> D] /\ \A i \in D : \E a \in S : p[a] = i
  BY <1>3 DEF Numbers
<1>6. n \in Nat
  BY FS_CardinalityType
<1>7. ASSUME NEW d \in S, NEW e \in S, d < e PROVE c(d) < c(e)
  <2>1. <<d, e>> \in R
    BY <1>7
  <2> HIDE DEF R
  <2> QED
    BY <1>1, <2>1, InOrder
<1> HIDE DEF R, n, c, p
<1>8. \A d \in S : Place(S, d) \in 1..n
  <2> SUFFICES ASSUME NEW d \in S PROVE Place(S, d) \in 1..n
    OBVIOUS
  <2>1. c(d) \in Nat /\ c(d) < n
    BY <1>4, <1>5
  <2> QED
    BY <1>2, <1>6, <2>1
<1>9. \A d, e \in S : d < e => Place(S, d) < Place(S, e)
  BY <1>2, <1>7
<1>10. \A i \in 1..n : \E d \in S : Place(S, d) = i
  <2> SUFFICES ASSUME NEW i \in 1..n PROVE \E d \in S : Place(S, d) = i
    OBVIOUS
  <2>1. i - 1 \in D /\ (i - 1) + 1 = i
    BY <1>6
  <2>2. PICK d \in S : p[d] = i - 1
    BY <1>5, <2>1
  <2> QED
    BY <1>2, <1>4, <2>1, <2>2
<1> QED
  BY <1>8, <1>9, <1>10 DEF Placed, n

(* Later members do not change the place of earlier ones. *)
LEMMA PlaceStays ==
  ASSUME NEW S, NEW T, NEW d, {e \in S : e <= d} = {e \in T : e <= d}
  PROVE  Place(S, d) = Place(T, d)
BY DEF Place

(* The place after that of d is that of the next member. *)
LEMMA NextPlace ==
  ASSUME NEW S, S \subseteq Int, IsFiniteSet(S), NEW d \in S, NEW e \in S, d < e,
         \A x \in S : d < x => e <= x
  PROVE  Place(S, e) = Place(S, d) + 1
<1> DEFINE A == {x \in S : x <= d}
           B == {x \in S : x <= e}
<1>1. B = A \cup {e} /\ e \notin A
  <2>1. \A x \in S : (x <= e <=> x <= d \/ x = e) /\ ~ (e <= d)
    OBVIOUS
  <2> QED
    BY <2>1
<1>2. IsFiniteSet(A)
  BY FS_Subset
<1> HIDE DEF A, B
<1>3. Cardinality(B) = Cardinality(A) + 1
  BY <1>1, <1>2, FS_AddElement
<1> QED
  BY <1>3 DEF A, B, Place

-----------------------------------------------------------------------------
(* Analogues: what is stored *)

Span == [from : Nat, to : Nat \cup {NoRow}]

Recorded(m) == m \in [Constituents -> Span \cup {NoRow}]

MemoryInv == days \in Seq(DayRows) /\ Recorded(spans)

LEMMA SpanIsThere == \A x \in Span : x # NoRow
BY AnaloguesAssumption DEF Span

LEMMA MemoryInit == AnaloguesInit => MemoryInv
BY DEF AnaloguesInit, MemoryInv, Recorded

LEMMA MemoryStep == MemoryInv /\ [AnaloguesNext]_memoryVars => MemoryInv'
<1> SUFFICES ASSUME MemoryInv, [AnaloguesNext]_memoryVars PROVE MemoryInv'
  OBVIOUS
<1>1. Len(days) \in Nat
  BY DEF MemoryInv
<1>2. CASE StoreDay
  <2>1. PICK row \in DayRows : days' = Append(days, row)
    BY <1>2 DEF StoreDay
  <2>2. days' \in Seq(DayRows)
    BY <2>1 DEF MemoryInv
  <2> QED
    BY <1>2, <2>2 DEF StoreDay, MemoryInv, Recorded
<1>3. ASSUME NEW s \in Constituents, Join(s) PROVE MemoryInv'
  <2> DEFINE new == [from |-> Len(days) + 1, to |-> NoRow]
  <2>1. new \in Span
    BY <1>1 DEF Span
  <2>2. spans' = [spans EXCEPT ![s] = new] /\ days' = days
    BY <1>3 DEF Join
  <2> HIDE DEF new
  <2> QED
    BY <2>1, <2>2 DEF MemoryInv, Recorded
<1>4. ASSUME NEW s \in Constituents, Leave(s) PROVE MemoryInv'
  <2> DEFINE n == Len(days) + 1
  <2>1. spans[s] # NoRow /\ spans' = [spans EXCEPT ![s].to = n] /\ days' = days
    BY <1>4 DEF Leave
  <2>2. n \in Nat
    BY <1>1
  <2> HIDE DEF n
  <2>3. spans[s] \in Span
    BY <2>1 DEF MemoryInv, Recorded
  <2> DEFINE new == [spans[s] EXCEPT !.to = n]
  <2>4. new \in Span
    BY <2>2, <2>3 DEF Span
  <2>5. spans' = [spans EXCEPT ![s] = new]
    BY <2>1
  <2> HIDE DEF new
  <2> QED
    BY <2>1, <2>4, <2>5 DEF MemoryInv, Recorded
<1>5. CASE UNCHANGED memoryVars
  BY <1>5 DEF MemoryInv, Recorded, memoryVars
<1> QED
  BY <1>2, <1>3, <1>4, <1>5 DEF AnaloguesNext

(* The memberships known on a day. *)
LEMMA EffectiveIs ==
  ASSUME NEW m, Recorded(m), NEW d \in Nat
  PROVE  Effective(m, d) <=> \E s \in Constituents : m[s] # NoRow /\ m[s].from <= d
<1> DEFINE held == {s \in Constituents : m[s] # NoRow}
           since == KnownFrom(m)
           f == [s \in held |-> m[s].from]
<1>1. \A s \in held : m[s].from \in Nat
  BY DEF Recorded, Span
<1>2. since = {m[s].from : s \in held}
  BY DEF KnownFrom
<1>3. IsFiniteSet(held)
  BY AnaloguesAssumption, FS_Subset
<1>4. f \in Surjection(held, since)
  <2> HIDE DEF held, since
  <2> QED
    BY <1>2 DEF Surjection
<1>5. IsFiniteSet(since) /\ since \subseteq Int
  <2>1. since \subseteq Int
    BY <1>1, <1>2
  <2> HIDE DEF held, since, f
  <2> QED
    BY <1>3, <1>4, <2>1, FS_Surjection
<1> HIDE DEF since
<1>6. CASE since = {}
  <2>1. held = {}
    BY <1>2, <1>6
  <2> QED
    BY <1>6, <2>1 DEF Effective, since
<1>7. CASE since # {}
  <2>1. Min(since) \in since /\ \A y \in since : Min(since) <= y
    BY <1>5, <1>7, Smallest
  <2> DEFINE k == Min(since)
  <2>2. k \in Int /\ k \in since /\ \A y \in since : k <= y /\ y \in Int
    BY <1>5, <2>1
  <2>3. Effective(m, d) <=> d >= k
    BY <1>7 DEF Effective, since
  <2> HIDE DEF k
  <2>4. d >= k <=> \E y \in since : y <= d
    BY <2>2
  <2>5. (\E y \in since : y <= d) <=> \E s \in held : m[s].from <= d
    BY <1>2
  <2> QED
    BY <2>3, <2>4, <2>5
<1> QED
  BY <1>6, <1>7

-----------------------------------------------------------------------------
(* Analogues: a build of an earlier day *)

LEMMA PastIsRecorded ==
  ASSUME MemoryInv, NEW n \in Nat
  PROVE  Recorded(SpansAsOf(n))
<1> DEFINE past(s) ==
             IF spans[s] = NoRow THEN NoRow
             ELSE IF spans[s].from > n + 1 THEN NoRow
             ELSE [spans[s] EXCEPT !.to = IF @ = NoRow THEN NoRow ELSE IF @ > n + 1 THEN NoRow ELSE @]
<1>1. ASSUME NEW s \in Constituents PROVE past(s) \in Span \cup {NoRow}
  <2>1. CASE spans[s] = NoRow
    BY <2>1
  <2>2. CASE spans[s] # NoRow
    <3>1. spans[s] \in Span
      BY <2>2 DEF MemoryInv, Recorded
    <3> QED
      BY <2>2, <3>1 DEF Span
  <2> QED
    BY <2>1, <2>2
<1>2. SpansAsOf(n) = [s \in Constituents |-> past(s)]
  BY DEF SpansAsOf
<1> HIDE DEF past
<1> QED
  BY <1>1, <1>2 DEF Recorded

(* What was recorded by day n says the same of the days up to n. *)
LEMMA PastSaysTheSame ==
  ASSUME MemoryInv, NEW n \in Nat, NEW d \in 1..n, NEW s \in Constituents
  PROVE  LET past == SpansAsOf(n)
             known(m) == m[s] # NoRow /\ m[s].from <= d
         IN  /\ known(past) <=> known(spans)
             /\ known(past) => ((past[s].to # NoRow => d < past[s].to)
                                  <=> (spans[s].to # NoRow => d < spans[s].to))
<1> DEFINE past == SpansAsOf(n)
<1>1. d \in Nat /\ d <= n
  OBVIOUS
<1>2. CASE spans[s] = NoRow
  <2>1. past[s] = NoRow
    BY <1>2 DEF SpansAsOf
  <2> QED
    BY <1>2, <2>1
<1>3. CASE spans[s] # NoRow
  <2>1. spans[s] \in Span
    BY <1>3 DEF MemoryInv, Recorded
  <2> DEFINE a == spans[s].from
             b == spans[s].to
  <2>2. a \in Nat /\ b \in Nat \cup {NoRow}
    BY <2>1 DEF Span
  <2>3. CASE a > n + 1
    <3>1. past[s] = NoRow
      BY <1>3, <2>3 DEF SpansAsOf
    <3> HIDE DEF a
    <3>2. ~ (a <= d)
      BY <1>1, <2>2, <2>3
    <3> QED
      BY <3>1, <3>2 DEF a
  <2>4. CASE ~ (a > n + 1)
    <3> DEFINE new == IF b = NoRow THEN NoRow ELSE IF b > n + 1 THEN NoRow ELSE b
    <3>1. past[s] = [spans[s] EXCEPT !.to = new]
      BY <1>3, <2>4 DEF SpansAsOf
    <3>2. new \in Nat \cup {NoRow}
      BY <2>2
    <3> HIDE DEF new
    <3>3. past[s].from = a /\ past[s].to = new /\ past[s] \in Span
      BY <2>1, <3>1, <3>2 DEF Span
    <3> HIDE DEF past
    <3>4. past[s] # NoRow
      BY <3>3, SpanIsThere
    <3> HIDE DEF a, b
    <3>5. (new # NoRow => d < new) <=> (b # NoRow => d < b)
      BY <1>1, <2>2, AnaloguesAssumption DEF new
    <3> QED
      BY <1>3, <3>3, <3>4, <3>5 DEF a, b, past
  <2> QED
    BY <2>3, <2>4
<1> QED
  BY <1>2, <1>3

LEMMA ExpectedStays ==
  ASSUME MemoryInv, NEW n \in Nat, NEW d \in 1..n
  PROVE  /\ Expected(SpansAsOf(n), d) = Expected(spans, d)
         /\ Effective(SpansAsOf(n), d) <=> Effective(spans, d)
<1> DEFINE past == SpansAsOf(n)
           In(m, s) == m[s] # NoRow /\ m[s].from <= d
           Till(m, s) == m[s].to # NoRow => d < m[s].to
           E(m) == {s \in Constituents : m[s] # NoRow /\ m[s].from <= d
                                         /\ (m[s].to # NoRow => d < m[s].to)}
<1>1. \A s \in Constituents :
        /\ In(past, s) <=> In(spans, s)
        /\ In(past, s) => (Till(past, s) <=> Till(spans, s))
  BY PastSaysTheSame
<1>2. Recorded(past) /\ Recorded(spans) /\ d \in Nat
  BY PastIsRecorded DEF MemoryInv
<1> HIDE DEF past
<1>3. Effective(past, d) <=> \E s \in Constituents : In(past, s)
  BY <1>2, EffectiveIs
<1>4. Effective(spans, d) <=> \E s \in Constituents : In(spans, s)
  BY <1>2, EffectiveIs
<1>5. E(past) = E(spans)
  <2>1. \A m : E(m) = {s \in Constituents : In(m, s) /\ Till(m, s)}
    OBVIOUS
  <2> HIDE DEF E, In, Till
  <2> QED
    BY <1>1, <2>1
<1>6. \A m : Expected(m, d) = IF Effective(m, d) THEN E(m) ELSE Constituents
  BY DEF Expected
<1> HIDE DEF E, In
<1>7. Effective(past, d) <=> Effective(spans, d)
  BY <1>1, <1>3, <1>4
<1> QED
  BY <1>5, <1>6, <1>7 DEF past

(* A day's session, as a build numbers it among the candidates C *)
Session(m, C, d) ==
  [day |-> d, index |-> Place(C, d), features |-> Features(m, d),
   membership |-> IF Effective(m, d) THEN "effective" ELSE "proxy"]

LEMMA SessionsStay ==
  ASSUME MemoryInv, NEW n \in Nat, NEW d \in 1..n
  PROVE  /\ Rejection(SpansAsOf(n), d) = Rejection(spans, d)
         /\ Features(SpansAsOf(n), d) = Features(spans, d)
<1> DEFINE past == SpansAsOf(n)
           reject(expected) ==
             LET usable == {s \in expected : Usable(s, d)}
             IN  CASE expected = {} -> "no_expected_constituents"
                   [] Cardinality(usable) < MinUsable -> "insufficient_constituents"
                   [] Cardinality(usable) * 100 < MinCoverage * Cardinality(expected)
                        -> "insufficient_coverage"
                   [] Cardinality(Sectored(usable)) * 100 < MinSegments * Cardinality(usable)
                        -> "insufficient_sector_coverage"
                   [] d \notin macroDays -> "missing_macro_context"
                   [] OTHER -> "none"
           features(expected) ==
             LET usable == {s \in expected : Usable(s, d)}
                 raw == [s \in usable |-> RawReturn(s, d)]
                 capped == [s \in usable |-> Clip(raw[s], ReturnCap)]
                 share(S) == (Cardinality(S) * 100) \div Cardinality(usable)
                 means == {MeanOf(capped, {s \in usable : Segment[s] = x}) :
                             x \in {Segment[s] : s \in Sectored(usable)}}
             IN  <<MeanOf(capped, usable),
                   share({s \in usable : raw[s] > 0}), share({s \in usable : raw[s] < 0}),
                   share({s \in usable : Elevated(s, d)}), Max(means) - Min(means)>>
<1>1. Expected(past, d) = Expected(spans, d)
  BY ExpectedStays
<1>2. \A m : Rejection(m, d) = reject(Expected(m, d))
  BY DEF Rejection
<1>3. \A m : Features(m, d) = features(Expected(m, d))
  BY DEF Features
<1> HIDE DEF past, reject, features
<1> QED
  BY <1>1, <1>2, <1>3 DEF past

LEMMA DaysAreFinite ==
  ASSUME NEW n \in Nat, NEW m
  PROVE  /\ Accepted(m, n) \subseteq Candidates(n) /\ Candidates(n) \subseteq 1..n
         /\ Candidates(n) \subseteq Int /\ Accepted(m, n) \subseteq Int
         /\ IsFiniteSet(Candidates(n)) /\ IsFiniteSet(Accepted(m, n))
<1>1. Accepted(m, n) \subseteq Candidates(n)
  BY DEF Accepted
<1>2. Candidates(n) \subseteq 1..n
  BY DEF Candidates
<1>3. IsFiniteSet(1..n)
  BY FS_Interval
<1>4. IsFiniteSet(Candidates(n))
  BY <1>2, <1>3, FS_Subset
<1>5. IsFiniteSet(Accepted(m, n))
  BY <1>1, <1>4, FS_Subset
<1>6. \A d \in 1..n : d \in Int
  OBVIOUS
<1>7. Candidates(n) \subseteq Int /\ Accepted(m, n) \subseteq Int
  BY ONLY <1>1, <1>2, <1>6
<1> QED
  BY <1>1, <1>2, <1>4, <1>5, <1>7

(* A build has one session for each accepted day, at its place. *)
BuiltOf(q, A, C, m) ==
  /\ Cardinality(A) \in Nat /\ DOMAIN q = 1..Cardinality(A) /\ Len(q) = Cardinality(A)
  /\ \A d \in A : Place(A, d) \in DOMAIN q /\ q[Place(A, d)] = Session(m, C, d)
  /\ \A i \in DOMAIN q : \E d \in A : Place(A, d) = i

LEMMA EngineeredIs ==
  ASSUME NEW n \in Nat, NEW m
  PROVE  BuiltOf(Engineered(m, n), Accepted(m, n), Candidates(n), m)
<1> DEFINE A == Accepted(m, n)
           C == Candidates(n)
           k == Cardinality(A)
           q == [i \in 1..k |-> Session(m, C, CHOOSE d \in A : Place(A, d) = i)]
<1>1. Engineered(m, n) = q
  BY DEF Engineered, Session
<1>2. A \subseteq Int /\ IsFiniteSet(A)
  BY DaysAreFinite
<1>3. k \in Nat
  BY <1>2, FS_CardinalityType
<1> HIDE DEF A, C
<1>4. Placed(A)
  BY <1>2, PlaceIs
<1> HIDE DEF k
<1>5. DOMAIN q = 1..k /\ Len(q) = k
  BY <1>3
<1>6. ASSUME NEW d \in A
      PROVE  Place(A, d) \in 1..k /\ q[Place(A, d)] = Session(m, C, d)
  <2>1. Place(A, d) \in 1..k
    BY <1>4 DEF Placed, k
  <2> DEFINE e == CHOOSE e \in A : Place(A, e) = Place(A, d)
  <2>2. e \in A /\ Place(A, e) = Place(A, d)
    OBVIOUS
  <2> HIDE DEF e
  <2>3. d \in Int /\ e \in Int
    BY <1>2, <2>2
  <2> DEFINE x == Place(A, d)
             y == Place(A, e)
  <2>4. (d < e => x < y) /\ (e < d => y < x)
    BY <1>4, <2>2 DEF Placed
  <2>5. x = y /\ x \in Int
    BY <1>3, <2>1, <2>2
  <2> HIDE DEF x, y
  <2>6. e = d
    BY <2>3, <2>4, <2>5
  <2> QED
    BY <2>1, <2>6 DEF e
<1>7. \A i \in 1..k : \E d \in A : Place(A, d) = i
  BY <1>4 DEF Placed, k
<1> HIDE DEF q
<1> QED
  BY <1>1, <1>3, <1>5, <1>6, <1>7 DEF BuiltOf, k, A, C

(* What was built on day n is the beginning of what is built today. *)
Continues(after, before) ==
  /\ Len(before) \in Nat /\ Len(after) \in Nat
  /\ DOMAIN before = 1..Len(before) /\ DOMAIN after = 1..Len(after) /\ Len(before) <= Len(after)
  /\ \A i \in 1..Len(before) : before[i] = after[i]

LEMMA BuildsContinue ==
  ASSUME MemoryInv, NEW n \in 0..Len(days)
  PROVE  Continues(Sessions, Engineered(SpansAsOf(n), n))
<1> DEFINE L == Len(days)
           past == SpansAsOf(n)
           A == Accepted(past, n)
           B == Accepted(spans, L)
           C == Candidates(n)
           D == Candidates(L)
           before == Engineered(past, n)
           after == Engineered(spans, L)
<1>1. n \in Nat /\ L \in Nat /\ n <= L
  BY DEF MemoryInv
<1>2. C = {d \in D : d <= n}
  <2>1. \A d : d \in 1..n <=> d \in 1..L /\ d <= n
    BY <1>1
  <2> HIDE DEF L
  <2> QED
    BY <2>1 DEF Candidates
<1>3. \A d \in 1..n : Rejection(past, d) = Rejection(spans, d) /\ Features(past, d) = Features(spans, d)
                      /\ (Effective(past, d) <=> Effective(spans, d))
  BY <1>1, SessionsStay, ExpectedStays
<1>4. C \subseteq 1..n
  BY <1>1, DaysAreFinite
<1>5. A = {d \in B : d <= n}
  <2> HIDE DEF L, C, D, past
  <2> QED
    BY <1>2, <1>3, <1>4 DEF Accepted, C, D
<1>6. BuiltOf(before, A, C, past) /\ BuiltOf(after, B, D, spans)
  BY <1>1, EngineeredIs
<1>7. A \subseteq C /\ B \subseteq Int /\ D \subseteq Int /\ IsFiniteSet(B)
  BY <1>1, DaysAreFinite
<1> HIDE DEF A, B, C, D, L, before, after
<1>8. ASSUME NEW d \in A
      PROVE  /\ d \in B /\ Place(A, d) = Place(B, d)
             /\ Session(past, C, d) = Session(spans, D, d)
  <2>1. d \in 1..n /\ d \in Int /\ d <= n /\ d \in B
    BY <1>1, <1>4, <1>5, <1>7
  <2>2. {e \in A : e <= d} = {e \in B : e <= d}
    <3>1. ASSUME NEW e \in B, e <= d PROVE e <= n
      <4>1. e \in Int
        BY <1>7
      <4> QED
        BY <1>1, <2>1, <3>1, <4>1
    <3> QED
      BY <1>5, <3>1
  <2>3. {e \in C : e <= d} = {e \in D : e <= d}
    <3>1. ASSUME NEW e \in D, e <= d PROVE e <= n
      <4>1. e \in Int
        BY <1>7
      <4> QED
        BY <1>1, <2>1, <3>1, <4>1
    <3> QED
      BY <1>2, <3>1
  <2>4. Place(A, d) = Place(B, d) /\ Place(C, d) = Place(D, d)
    BY <2>2, <2>3, PlaceStays
  <2>5. Features(past, d) = Features(spans, d) /\ (Effective(past, d) <=> Effective(spans, d))
    BY <1>3, <2>1
  <2> QED
    BY <2>1, <2>4, <2>5 DEF Session
<1>9. ASSUME NEW i \in DOMAIN before
      PROVE  i \in DOMAIN after /\ before[i] = after[i]
  <2>1. PICK d \in A : Place(A, d) = i
    BY <1>6 DEF BuiltOf
  <2>2. before[i] = Session(past, C, d)
    BY <1>6, <2>1 DEF BuiltOf
  <2>3. i \in DOMAIN after /\ after[i] = Session(spans, D, d)
    BY <1>6, <1>8, <2>1 DEF BuiltOf
  <2> QED
    BY <1>8, <2>2, <2>3
<1>10. /\ Len(before) \in Nat /\ DOMAIN before = 1..Len(before)
       /\ Len(after) \in Nat /\ DOMAIN after = 1..Len(after)
  BY <1>6 DEF BuiltOf
<1>11. Len(before) <= Len(after)
  <2> DEFINE j == Len(before)
             k == Len(after)
  <2>1. j \in Nat /\ k \in Nat /\ \A i \in 1..j : i \in 1..k
    BY <1>9, <1>10
  <2> HIDE DEF j, k
  <2>2. j <= k
    BY <2>1
  <2> QED
    BY <2>2 DEF j, k
<1> QED
  BY <1>9, <1>10, <1>11 DEF Continues, Sessions, before, after, past, L

LEMMA ConsecutiveStays ==
  ASSUME NEW before, NEW after, Continues(after, before), NEW i \in DOMAIN before, NEW n \in Nat,
         Consecutive(before, i, n)
  PROVE  Consecutive(after, i, n) /\ before[i + n] = after[i + n]
<1> DEFINE k == Len(before)
           l == Len(after)
<1>1. k \in Nat /\ l \in Nat /\ k <= l /\ i \in 1..k /\ i + n <= k
  BY DEF Continues, Consecutive
<1> HIDE DEF k, l
<1>2. i + n \in 1..k /\ i + n <= l
  BY <1>1
<1>3. before[i] = after[i] /\ before[i + n] = after[i + n]
  BY <1>1, <1>2 DEF Continues, k
<1> QED
  BY <1>2, <1>3 DEF Consecutive, l

LEMMA OutcomesStay ==
  ASSUME NEW before, NEW after, Continues(after, before), NEW i \in DOMAIN before
  PROVE  /\ NextReturn(before, i) \in {NoRow, NextReturn(after, i)}
         /\ HorizonOutcome(before, i) \in {NoRow, HorizonOutcome(after, i)}
<1>1. NextReturn(before, i) \in {NoRow, NextReturn(after, i)}
  <2>1. CASE Consecutive(before, i, 1)
    <3>1. Consecutive(after, i, 1) /\ before[i + 1] = after[i + 1]
      BY <2>1, ConsecutiveStays
    <3> QED
      BY <2>1, <3>1 DEF NextReturn
  <2>2. CASE ~ Consecutive(before, i, 1)
    BY <2>2 DEF NextReturn
  <2> QED
    BY <2>1, <2>2
<1>2. HorizonOutcome(before, i) \in {NoRow, HorizonOutcome(after, i)}
  <2>1. CASE \A n \in 1..Horizon : Consecutive(before, i, n)
    <3>1. \A n \in 1..Horizon : Consecutive(after, i, n) /\ before[i + n] = after[i + n]
      <4>1. \A n \in 1..Horizon : n \in Nat
        BY AnaloguesAssumption
      <4> QED
        BY <2>1, <4>1, ConsecutiveStays
    <3>2. Wealth(before, i) = Wealth(after, i)
      <4> DEFINE P(q, f) == f = [n \in 0..Horizon |->
                                  IF n = 0 THEN 100
                                  ELSE (f[n - 1] * (100 + q[i + n].features[1])) \div 100]
      <4>1. \A n \in 0..Horizon : n # 0 => n \in 1..Horizon
        BY AnaloguesAssumption
      <4>2. \A f : P(before, f) <=> P(after, f)
        BY <3>1, <4>1
      <4>3. Wealth(before, i) = CHOOSE f : P(before, f)
        BY DEF Wealth
      <4>4. Wealth(after, i) = CHOOSE f : P(after, f)
        BY DEF Wealth
      <4> HIDE DEF P
      <4>5. (CHOOSE f : P(before, f)) = (CHOOSE f : P(after, f))
        BY <4>2
      <4> QED
        BY <4>3, <4>4, <4>5
    <3> DEFINE out(w) == [return |-> w[Horizon] - 100,
                          drawdown |-> Min({w[p[2]] - w[p[1]] :
                                            p \in {q \in (0..Horizon) \X (0..Horizon) : q[1] <= q[2]}}),
                          upside |-> Max({w[n] - 100 : n \in 0..Horizon})]
    <3>3. HorizonOutcome(before, i) = out(Wealth(before, i))
      BY <2>1 DEF HorizonOutcome
    <3>4. HorizonOutcome(after, i) = out(Wealth(after, i))
      BY <3>1 DEF HorizonOutcome
    <3> HIDE DEF out
    <3> QED
      BY <3>2, <3>3, <3>4
  <2>2. CASE ~ (\A n \in 1..Horizon : Consecutive(before, i, n))
    BY <2>2 DEF HorizonOutcome
  <2> QED
    BY <2>1, <2>2
<1> QED
  BY <1>1, <1>2

LEMMA HistoryIs == MemoryInv => HistoryIsPointInTime
<1> SUFFICES ASSUME MemoryInv, NEW n \in 0..Len(days), NEW i \in DOMAIN Engineered(SpansAsOf(n), n)
             PROVE  LET before == Engineered(SpansAsOf(n), n)
                        after == Sessions
                    IN  /\ i \in DOMAIN after
                        /\ before[i] = after[i]
                        /\ NextReturn(before, i) \in {NoRow, NextReturn(after, i)}
                        /\ HorizonOutcome(before, i) \in {NoRow, HorizonOutcome(after, i)}
  BY DEF HistoryIsPointInTime
<1> DEFINE before == Engineered(SpansAsOf(n), n)
           after == Sessions
<1>1. Continues(after, before)
  BY BuildsContinue
<1> HIDE DEF before, after
<1>2. i \in DOMAIN before
  BY DEF before
<1>3. i \in DOMAIN after /\ before[i] = after[i]
  BY <1>1, <1>2 DEF Continues
<1>4. /\ NextReturn(before, i) \in {NoRow, NextReturn(after, i)}
      /\ HorizonOutcome(before, i) \in {NoRow, HorizonOutcome(after, i)}
  BY <1>1, <1>2, OutcomesStay
<1> QED
  BY <1>3, <1>4 DEF before, after

-----------------------------------------------------------------------------
(* Analogues: outcomes *)

LEMMA OutcomeIsTomorrows ==
  ASSUME MemoryInv, NEW i \in DOMAIN Sessions
  PROVE  LET later == {d \in Sessions[i].day + 1..Len(days) :
                         \E s \in Constituents : days[d][s] # NoRow}
         IN  NextReturn(Sessions, i) =
               IF later = {} \/ Rejection(spans, Min(later)) # "none" THEN NoRow
               ELSE Features(spans, Min(later))[1]
<1> DEFINE L == Len(days)
           B == Accepted(spans, L)
           D == Candidates(L)
           q == Sessions
           later == {d \in Sessions[i].day + 1..L : \E s \in Constituents : days[d][s] # NoRow}
<1>1. L \in Nat
  BY DEF MemoryInv
<1>2. BuiltOf(q, B, D, spans)
  BY <1>1, EngineeredIs DEF Sessions
<1>3. B \subseteq D /\ D \subseteq 1..L /\ B \subseteq Int /\ D \subseteq Int
      /\ IsFiniteSet(B) /\ IsFiniteSet(D)
  BY <1>1, DaysAreFinite
<1>4. Placed(B) /\ Placed(D)
  BY <1>3, PlaceIs
<1>5. \A d \in B : Rejection(spans, d) = "none"
  BY DEF Accepted
<1>6. \A d \in D : d \in B <=> Rejection(spans, d) = "none"
  BY DEF Accepted
<1>7. PICK d \in B : Place(B, d) = i
  BY <1>2 DEF BuiltOf
<1>8. q[i] = Session(spans, D, d)
  BY <1>2, <1>7 DEF BuiltOf
<1>9. q[i].day = d /\ q[i].index = Place(D, d)
  BY <1>8 DEF Session
<1>10. later = {e \in D : d < e}
  <2>1. d \in 1..L
    BY <1>3
  <2>2. \A e : e \in d + 1..L <=> e \in 1..L /\ d < e
    <3> HIDE DEF L
    <3> QED
      BY <1>1, <2>1
  <2> HIDE DEF L, q, B
  <2> QED
    BY <1>9, <2>2 DEF Candidates, q
<1> DEFINE places(e) == Place(B, e)
           numbers(e) == Place(D, e)
<1>11. \A e \in D : numbers(e) \in 1..Cardinality(D)
  BY <1>4 DEF Placed
<1>12. Cardinality(D) \in Nat /\ Cardinality(B) \in Nat
  BY <1>3, FS_CardinalityType
<1>13. \A e \in D : numbers(e) \in Int
  <2> DEFINE k == Cardinality(D)
  <2>1. k \in Nat /\ \A e \in D : numbers(e) \in 1..k
    BY <1>11, <1>12
  <2> HIDE DEF k, numbers, D
  <2> QED
    BY <2>1
<1>14. \A e \in B : places(e) \in 1..Len(q) /\ q[places(e)] = Session(spans, D, e)
  BY <1>2 DEF BuiltOf
<1>15. Len(q) \in Nat /\ DOMAIN q = 1..Len(q)
  BY <1>2 DEF BuiltOf
<1>16. i \in Int /\ i \in 1..Len(q)
  BY <1>15
<1>17. ASSUME i + 1 <= Len(q)
       PROVE  \E e \in B : /\ d < e /\ e \in later /\ q[i + 1] = Session(spans, D, e)
                           /\ q[i + 1].index = numbers(e)
  <2>1. i + 1 \in DOMAIN q
    BY <1>15, <1>16, <1>17
  <2>2. PICK e \in B : Place(B, e) = i + 1
    BY <1>2, <2>1 DEF BuiltOf
  <2>3. q[i + 1] = Session(spans, D, e)
    BY <1>2, <2>2 DEF BuiltOf
  <2>4. d \in Int /\ e \in Int
    BY <1>3
  <2>5. (e < d => i + 1 < i) /\ (e = d => i + 1 = i)
    BY <1>4, <1>7, <2>2 DEF Placed
  <2>6. d < e
    BY <1>16, <2>4, <2>5
  <2>7. e \in later
    BY <1>3, <1>10, <2>6
  <2> QED
    BY <2>3, <2>6, <2>7 DEF Session
<1> HIDE DEF L, B, D, q, later, places, numbers
<1>20. CASE later = {}
  <2>1. ~ (i + 1 <= Len(q))
    BY <1>17, <1>20
  <2> QED
    BY <1>20, <2>1 DEF NextReturn, Consecutive, q, later, L
<1>21. CASE later # {}
  <2> DEFINE m == Min(later)
  <2>1. later \subseteq Int /\ IsFiniteSet(later)
    <3>1. later \subseteq D
      BY <1>10
    <3> QED
      BY <1>3, <3>1, FS_Subset
  <2>2. m \in later /\ \A y \in later : m <= y
    BY <1>21, <2>1, Smallest
  <2> HIDE DEF m
  <2>3. m \in D /\ d \in D /\ d < m /\ (\A x \in D : d < x => m <= x)
    BY <1>3, <1>10, <2>2
  <2>4. Place(D, m) = Place(D, d) + 1
    BY <1>3, <2>3, NextPlace
  <2>5. CASE m \in B
    <3>1. \A x \in B : d < x => m <= x
      BY <1>3, <2>3
    <3>2. Place(B, m) = i + 1
      BY <1>3, <1>7, <2>3, <2>5, <3>1, NextPlace
    <3>3. i + 1 \in 1..Len(q) /\ q[i + 1] = Session(spans, D, m)
      BY <1>14, <2>5, <3>2 DEF places
    <3>4. i + 1 <= Len(q)
      BY <1>15, <1>16, <3>3
    <3>5. q[i + 1].index = q[i].index + 1 /\ q[i + 1].features = Features(spans, m)
      BY <1>9, <2>4, <3>3 DEF Session
    <3>6. NextReturn(q, i) = Features(spans, m)[1]
      BY <3>4, <3>5 DEF NextReturn, Consecutive
    <3>7. Rejection(spans, m) = "none"
      BY <1>5, <2>5
    <3> QED
      BY <1>21, <3>6, <3>7 DEF m, q, later, L
  <2>6. CASE m \notin B
    <3>1. ~ Consecutive(q, i, 1)
      <4>1. SUFFICES ASSUME i + 1 <= Len(q) PROVE q[i + 1].index # q[i].index + 1
        BY DEF Consecutive
      <4>2. PICK e \in B : e \in later /\ q[i + 1].index = numbers(e)
        BY <1>17, <4>1
      <4>3. m \in Int /\ e \in Int /\ m <= e /\ m # e /\ e \in D
        BY <1>3, <2>1, <2>2, <2>6, <4>2
      <4>4. m < e
        BY <4>3
      <4>5. numbers(m) < numbers(e)
        BY <1>4, <2>3, <4>3, <4>4 DEF Placed, numbers
      <4>6. numbers(m) = q[i].index + 1
        BY <1>9, <2>4 DEF numbers
      <4> DEFINE x == numbers(m)
                 y == numbers(e)
      <4>7. x \in Int /\ y \in Int /\ x < y
        BY <1>13, <2>3, <4>3, <4>5
      <4> HIDE DEF x, y
      <4>8. x # y
        BY <4>7
      <4> QED
        BY <4>2, <4>6, <4>8 DEF x, y
    <3>2. NextReturn(q, i) = NoRow
      BY <3>1 DEF NextReturn
    <3>3. Rejection(spans, m) # "none"
      BY <1>6, <2>3, <2>6
    <3> QED
      BY <1>21, <3>2, <3>3 DEF m, q, later, L
  <2> QED
    BY <2>5, <2>6
<1> QED
  BY <1>20, <1>21

LEMMA OutcomesAre == MemoryInv => OutcomesAreTomorrows
BY OutcomeIsTomorrows DEF OutcomesAreTomorrows

-----------------------------------------------------------------------------
(* Analogues: numbers *)

LEMMA TotalIs == ASSUME NEW f, NEW S PROVE Total(f, S) = Sum(f, S)
BY DEF Total, MapThenSumSet, MapThenFoldSet, Sum, Sums, Chosen

(* A sum lies between as many times the least and the greatest of its terms. *)
LEMMA SumBetween ==
  ASSUME NEW S, IsFiniteSet(S), NEW f, NEW lo \in Int, NEW hi \in Int,
         \A x \in S : f[x] \in Int /\ lo <= f[x] /\ f[x] <= hi
  PROVE  Cardinality(S) * lo <= Sum(f, S) /\ Sum(f, S) <= Cardinality(S) * hi
<1> DEFINE between(s) == Cardinality(s) * lo <= Sum(f, s) /\ Sum(f, s) <= Cardinality(s) * hi
           F == {s \in SUBSET S : ~ between(s)}
<1>1. SUFFICES ASSUME F # {} PROVE FALSE
  OBVIOUS
<1>2. PICK s \in F : \A r \in F : r \subseteq s => r = s
  <2>1. F \in SUBSET SUBSET S
    OBVIOUS
  <2> HIDE DEF F
  <2> QED
    BY <1>1, <2>1, LeastSet
<1>3. IsFiniteSet(s) /\ s \in SUBSET S
  BY FS_Subset
<1>4. CASE s = {}
  <2>1. Sum(f, s) = 0 /\ Cardinality(s) = 0
    BY <1>4, SumOfNothing, FS_EmptySet
  <2>2. 0 * lo = 0 /\ 0 * hi = 0
    OBVIOUS
  <2>3. between(s)
    BY <2>1, <2>2
  <2> QED
    BY <2>3
<1>5. CASE s # {}
  <2> DEFINE c == Chosen(s)
             t == s \ {c}
  <2>1. c \in s
    BY <1>5, ChosenIsIn
  <2> HIDE DEF c
  <2>2. t \in SUBSET S /\ t # s /\ t \subseteq s /\ IsFiniteSet(t)
    BY <1>3, <2>1, FS_Subset
  <2>3. between(t)
    <3> HIDE DEF between, t
    <3> QED
      BY <1>2, <2>2
  <2>4. Cardinality(s) = Cardinality(t) + 1 /\ Cardinality(t) \in Nat
    <3>1. Cardinality(t) = Cardinality(s) - 1
      BY <1>3, <2>1, FS_RemoveElement
    <3>2. Cardinality(s) \in Nat /\ Cardinality(t) \in Nat
      BY <1>3, <2>2, FS_CardinalityType
    <3> QED
      BY <3>1, <3>2
  <2>5. Sum(f, s) = f[c] + Sum(f, t)
    BY <1>3, <1>5, SumStep DEF c
  <2>6. Sum(f, t) \in Int
    BY <2>2, SumType
  <2> DEFINE n == Cardinality(t)
             a == Sum(f, t)
             x == f[c]
  <2>7. n \in Nat /\ a \in Int /\ x \in Int /\ lo <= x /\ x <= hi /\ n * lo <= a /\ a <= n * hi
    BY <1>3, <2>1, <2>3, <2>4, <2>6
  <2>8. Cardinality(s) = n + 1 /\ Sum(f, s) = x + a
    BY <2>4, <2>5
  <2> HIDE DEF n, a, x
  <2>9. (n + 1) * lo = n * lo + lo /\ (n + 1) * hi = n * hi + hi
    BY <2>7
  <2>10. n * lo \in Int /\ n * hi \in Int
    BY <2>7
  <2>11. (n + 1) * lo <= x + a /\ x + a <= (n + 1) * hi
    BY <2>7, <2>9, <2>10
  <2>12. between(s)
    BY <2>8, <2>11
  <2> QED
    BY <2>12
<1> QED
  BY <1>4, <1>5

LEMMA QuotientBetween ==
  ASSUME NEW a \in Int, NEW n \in Nat \ {0}, NEW lo \in Int, NEW hi \in Int,
         n * lo <= a, a <= n * hi
  PROVE  a \div n \in Int /\ lo <= a \div n /\ a \div n <= hi
<1> DEFINE q == a \div n
           r == a % n
<1>1. q \in Int /\ r \in Int /\ 0 <= r /\ r < n /\ a = n * q + r
  OBVIOUS
<1> HIDE DEF q, r
<1>2. lo <= q
  <2>1. SUFFICES ASSUME q + 1 <= lo PROVE FALSE
    BY <1>1
  <2>2. n * (q + 1) <= n * lo
    BY <1>1, <2>1
  <2>3. n * (q + 1) = n * q + n
    BY <1>1
  <2> QED
    BY <1>1, <2>2, <2>3
<1>3. q <= hi
  <2>1. SUFFICES ASSUME hi + 1 <= q PROVE FALSE
    BY <1>1
  <2>2. n * (hi + 1) <= n * q
    BY <1>1, <2>1
  <2>3. n * (hi + 1) = n * hi + n
    BY <1>1
  <2> QED
    BY <1>1, <2>2, <2>3
<1> QED
  BY <1>1, <1>2, <1>3 DEF q

LEMMA MeanBetween ==
  ASSUME NEW S, IsFiniteSet(S), S # {}, NEW f, NEW lo \in Int, NEW hi \in Int,
         \A x \in S : f[x] \in Int /\ lo <= f[x] /\ f[x] <= hi
  PROVE  MeanOf(f, S) \in Int /\ lo <= MeanOf(f, S) /\ MeanOf(f, S) <= hi
<1> DEFINE n == Cardinality(S)
           a == Sum(f, S)
<1>1. n \in Nat /\ n # 0
  BY FS_CardinalityType, FS_EmptySet
<1>2. a \in Int
  BY SumType
<1>3. n * lo <= a /\ a <= n * hi
  BY SumBetween
<1>4. MeanOf(f, S) = a \div n
  BY TotalIs DEF MeanOf
<1> HIDE DEF n, a
<1>5. a \div n \in Int /\ lo <= a \div n /\ a \div n <= hi
  BY <1>1, <1>2, <1>3, QuotientBetween
<1> QED
  BY <1>4, <1>5

LEMMA MeanIsInt ==
  ASSUME NEW S, IsFiniteSet(S), S # {}, NEW f, \A x \in S : f[x] \in Int
  PROVE  MeanOf(f, S) \in Int
<1>1. Cardinality(S) \in Nat /\ Cardinality(S) # 0
  BY FS_CardinalityType, FS_EmptySet
<1>2. Sum(f, S) \in Int
  BY SumType
<1>3. MeanOf(f, S) = Sum(f, S) \div Cardinality(S)
  BY TotalIs DEF MeanOf
<1> QED
  BY <1>1, <1>2, <1>3

LEMMA ClipIsInt ==
  ASSUME NEW x \in Int, NEW limit \in Int
  PROVE  Clip(x, limit) \in Int
<1> DEFINE y == Min({limit, x})
           z == -limit
<1>1. y \in {limit, x}
  BY Pair
<1>2. z \in Int
  OBVIOUS
<1> HIDE DEF y, z
<1>3. y \in Int
  BY <1>1
<1>4. Max({z, y}) \in {z, y}
  BY <1>2, <1>3, Pair
<1>5. Max({z, y}) \in Int
  BY <1>2, <1>3, <1>4
<1> QED
  BY <1>5 DEF Clip, y, z

LEMMA ValuesAreFinite ==
  ASSUME NEW D, IsFiniteSet(D), NEW f, \A k \in D : f[k] \in Int
  PROVE  LET V == {f[k] : k \in D}
         IN  IsFiniteSet(V) /\ V \subseteq Int /\ (V = {} <=> D = {})
<1> DEFINE V == {f[k] : k \in D}
           g == [k \in D |-> f[k]]
<1>1. g \in Surjection(D, V)
  BY DEF Surjection
<1>2. V \subseteq Int /\ (V = {} <=> D = {})
  OBVIOUS
<1> HIDE DEF V, g
<1>3. IsFiniteSet(V)
  BY <1>1, FS_Surjection
<1> QED
  BY <1>2, <1>3 DEF V

(* The i-th smallest value exists. *)
LEMMA RankedIs ==
  ASSUME NEW f, IsFiniteSet(DOMAIN f), \A k \in DOMAIN f : f[k] \in Int,
         NEW i \in 1..Cardinality(DOMAIN f)
  PROVE  /\ Ranked(f, i) \in Int
         /\ Cardinality({k \in DOMAIN f : f[k] < Ranked(f, i)}) < i
         /\ Cardinality({k \in DOMAIN f : f[k] <= Ranked(f, i)}) >= i
<1> DEFINE D == DOMAIN f
           V == {f[k] : k \in D}
           below(x) == {k \in D : f[k] < x}
           upto(x) == {k \in D : f[k] <= x}
           F == {x \in V : Cardinality(upto(x)) >= i}
<1>1. IsFiniteSet(D) /\ Cardinality(D) \in Nat /\ i \in Nat /\ 1 <= i /\ i <= Cardinality(D)
  <2> DEFINE n == Cardinality(D)
  <2>1. n \in Nat /\ i \in 1..n
    BY FS_CardinalityType
  <2> HIDE DEF n
  <2>2. i \in Nat /\ 1 <= i /\ i <= n
    BY <2>1
  <2> QED
    BY <2>1, <2>2 DEF n
<1>2. D # {}
  BY <1>1, FS_EmptySet
<1>3. IsFiniteSet(V) /\ V \subseteq Int /\ V # {}
  BY <1>1, <1>2, ValuesAreFinite
<1>4. \A x : /\ IsFiniteSet(below(x)) /\ Cardinality(below(x)) \in Nat
             /\ IsFiniteSet(upto(x)) /\ Cardinality(upto(x)) \in Nat
  <2> SUFFICES ASSUME NEW x
               PROVE  /\ IsFiniteSet(below(x)) /\ Cardinality(below(x)) \in Nat
                      /\ IsFiniteSet(upto(x)) /\ Cardinality(upto(x)) \in Nat
    OBVIOUS
  <2>1. below(x) \in SUBSET D /\ upto(x) \in SUBSET D
    OBVIOUS
  <2> HIDE DEF below, upto, D
  <2> QED
    BY <1>1, <2>1, FS_Subset, FS_CardinalityType
<1>5. F # {}
  <2> DEFINE m == Max(V)
  <2>1. m \in V /\ \A y \in V : y <= m
    BY <1>3, Largest
  <2> HIDE DEF m
  <2>2. upto(m) = D
    BY <2>1
  <2> QED
    BY <1>1, <2>1, <2>2
<1>6. F \subseteq Int /\ IsFiniteSet(F)
  BY <1>3, FS_Subset
<1> DEFINE x == Min(F)
<1>7. x \in F /\ \A y \in F : x <= y
  <2> HIDE DEF F
  <2> QED
    BY <1>5, <1>6, Smallest
<1> HIDE DEF x
<1>8. x \in V /\ x \in Int /\ Cardinality(upto(x)) >= i
  BY <1>3, <1>7
<1>9. Cardinality(below(x)) < i
  <2> SUFFICES ASSUME ~ (Cardinality(below(x)) < i) PROVE FALSE
    OBVIOUS
  <2> DEFINE U == below(x)
             W == {f[k] : k \in U}
             y == Max(W)
  <2>0. IsFiniteSet(U) /\ U \subseteq D
    BY <1>4
  <2>1. U # {}
    <3>1. Cardinality(U) # 0
      BY <1>1, <1>4
    <3> QED
      BY <3>1, FS_EmptySet
  <2>2. IsFiniteSet(W) /\ W \subseteq Int /\ W # {}
    <3>1. \A k \in U : f[k] \in Int
      OBVIOUS
    <3> HIDE DEF U
    <3> QED
      BY <2>0, <2>1, <3>1, ValuesAreFinite
  <2>3. y \in W /\ \A z \in W : z <= y
    <3> HIDE DEF W
    <3> QED
      BY <2>2, Largest
  <2> HIDE DEF y
  <2>4. y \in V /\ y \in Int /\ y < x /\ U \subseteq upto(y)
    BY <2>2, <2>3
  <2>5. Cardinality(U) <= Cardinality(upto(y))
    <3> HIDE DEF U, upto
    <3> QED
      BY <1>4, <2>4, FS_Subset
  <2>6. Cardinality(upto(y)) >= i
    <3> DEFINE a == Cardinality(U)
               b == Cardinality(upto(y))
    <3>1. a \in Nat /\ b \in Nat /\ a <= b /\ ~ (a < i) /\ i \in Nat
      BY <1>1, <1>4, <2>5
    <3> HIDE DEF a, b
    <3>2. b >= i
      BY <3>1
    <3> QED
      BY <3>2 DEF b
  <2>7. y \in F
    BY <2>4, <2>6
  <2>8. x <= y
    BY <1>7, <2>7
  <2> QED
    BY <1>8, <2>4, <2>8
<1> DEFINE z == Ranked(f, i)
<1>10. z \in V /\ Cardinality(below(z)) < i /\ Cardinality(upto(z)) >= i
  <2>1. \E v \in V : Cardinality(below(v)) < i /\ Cardinality(upto(v)) >= i
    BY <1>8, <1>9
  <2>2. z = CHOOSE v \in V : Cardinality(below(v)) < i /\ Cardinality(upto(v)) >= i
    BY DEF Ranked
  <2> HIDE DEF z, V, below, upto
  <2> QED
    BY <2>1, <2>2
<1> HIDE DEF z
<1>11. z \in Int
  BY <1>3, <1>10
<1> QED
  BY <1>10, <1>11 DEF z

LEMMA RankedUp ==
  ASSUME NEW f, IsFiniteSet(DOMAIN f), \A k \in DOMAIN f : f[k] \in Int,
         NEW i \in 1..Cardinality(DOMAIN f), NEW j \in 1..Cardinality(DOMAIN f), i <= j
  PROVE  Ranked(f, i) <= Ranked(f, j)
<1> DEFINE D == DOMAIN f
           x == Ranked(f, i)
           y == Ranked(f, j)
           B == {k \in D : f[k] < x}
           C == {k \in D : f[k] <= y}
<1>1. x \in Int /\ Cardinality(B) < i
  BY RankedIs
<1>2. y \in Int /\ Cardinality(C) >= j
  BY RankedIs
<1>3. IsFiniteSet(B) /\ IsFiniteSet(C)
  BY FS_Subset
<1> HIDE DEF x, y
<1>4. SUFFICES ASSUME y < x PROVE FALSE
  BY <1>1, <1>2 DEF x, y
<1>5. C \subseteq B
  <2>1. \A k \in D : f[k] <= y => f[k] < x
    BY <1>1, <1>2, <1>4
  <2> QED
    BY <2>1
<1> HIDE DEF B, C
<1>6. Cardinality(C) <= Cardinality(B) /\ Cardinality(C) \in Nat /\ Cardinality(B) \in Nat
  BY <1>3, <1>5, FS_Subset, FS_CardinalityType
<1>7. i \in Int /\ j \in Int
  <2>1. Cardinality(D) \in Nat
    BY FS_CardinalityType
  <2> QED
    BY <2>1
<1> QED
  BY <1>1, <1>2, <1>6, <1>7

(* Between two neighbouring values, a quartile grows with its position. *)
LEMMA QuartilesUp ==
  ASSUME NEW f, IsFiniteSet(DOMAIN f), DOMAIN f # {}, \A k \in DOMAIN f : f[k] \in Int
  PROVE  /\ Quartile(f, 1) \in Int /\ Quartile(f, 2) \in Int /\ Quartile(f, 3) \in Int
         /\ Quartile(f, 1) <= Quartile(f, 3)
<1> DEFINE n == Cardinality(DOMAIN f)
           at(q) == q * (n - 1)
           low(q) == at(q) \div 4 + 1
           high(q) == Min({low(q) + 1, n})
           rest(q) == at(q) % 4
           a(i) == Ranked(f, i)
<1>1. n \in Nat /\ n >= 1
  BY FS_CardinalityType, FS_EmptySet
<1>2. \A i \in 1..n : a(i) \in Int
  BY RankedIs
<1>3. \A i, j \in 1..n : i <= j => a(i) <= a(j)
  BY RankedUp
<1>4. \A q : Quartile(f, q) = a(low(q)) * (4 - rest(q)) + a(high(q)) * rest(q)
  BY DEF Quartile
<1> HIDE DEF n, a
<1>5. ASSUME NEW q \in {1, 2, 3}
      PROVE  /\ low(q) \in 1..n /\ rest(q) \in 0..3
             /\ at(q) = 4 * (low(q) - 1) + rest(q) /\ at(q) \in Nat
  <2>1. CASE q = 1
    BY <1>1, <2>1
  <2>2. CASE q = 2
    BY <1>1, <2>2
  <2>3. CASE q = 3
    BY <1>1, <2>3
  <2> QED
    BY <2>1, <2>2, <2>3
<1>6. at(1) <= at(3)
  BY <1>1
<1> HIDE DEF at, low, rest
<1>7. ASSUME NEW q \in {1, 2, 3}
      PROVE  high(q) \in 1..n /\ high(q) <= low(q) + 1 /\ low(q) <= high(q)
  <2> DEFINE l == low(q) + 1
  <2>1. l \in Int /\ n \in Int /\ l > low(q) /\ n >= low(q) /\ low(q) >= 1
    BY <1>1, <1>5
  <2> HIDE DEF l
  <2>2. Min({l, n}) \in {l, n} /\ Min({l, n}) <= l /\ Min({l, n}) <= n
    BY <2>1, Pair
  <2>3. Min({l, n}) \in 1..n /\ low(q) <= Min({l, n})
    BY <1>1, <1>5, <2>1, <2>2
  <2> QED
    BY <2>2, <2>3 DEF l
<1> HIDE DEF high
<1>8. \A q \in {1, 2, 3} : Quartile(f, q) \in Int
  <2> SUFFICES ASSUME NEW q \in {1, 2, 3} PROVE Quartile(f, q) \in Int
    OBVIOUS
  <2>1. a(low(q)) \in Int /\ a(high(q)) \in Int /\ rest(q) \in Int
    BY <1>2, <1>5, <1>7
  <2> QED
    BY <1>4, <2>1
<1> DEFINE l1 == low(1)
           l3 == low(3)
           h1 == high(1)
           h3 == high(3)
           r1 == rest(1)
           r3 == rest(3)
           x1 == a(l1)
           y1 == a(h1)
           x3 == a(l3)
           y3 == a(h3)
<1>9. /\ l1 \in 1..n /\ l3 \in 1..n /\ h1 \in 1..n /\ h3 \in 1..n /\ r1 \in 0..3 /\ r3 \in 0..3
      /\ 4 * (l1 - 1) + r1 <= 4 * (l3 - 1) + r3
      /\ h1 <= l1 + 1 /\ l1 <= h1 /\ l3 <= h3
  BY <1>5, <1>6, <1>7
<1>10. x1 \in Int /\ y1 \in Int /\ x3 \in Int /\ y3 \in Int /\ x1 <= y1 /\ x3 <= y3
  BY <1>2, <1>3, <1>9
<1>11. Quartile(f, 1) = x1 * (4 - r1) + y1 * r1 /\ Quartile(f, 3) = x3 * (4 - r3) + y3 * r3
  BY <1>4
<1>12. (l1 < l3 /\ y1 <= x3) \/ (l1 = l3 /\ r1 <= r3 /\ x1 = x3 /\ y1 = y3)
  <2>1. l1 < l3 \/ (l1 = l3 /\ r1 <= r3)
    <3> HIDE DEF l1, l3, r1, r3, h1, h3
    <3> QED
      BY <1>1, <1>9
  <2>2. CASE l1 < l3
    <3>1. h1 <= l3
      <4> HIDE DEF l1, l3, r1, r3, h1, h3
      <4> QED
        BY <1>1, <1>9, <2>2
    <3> QED
      BY <1>3, <1>9, <2>2, <3>1
  <2>3. CASE l1 = l3 /\ r1 <= r3
    <3>1. h1 = h3
      BY <2>3 DEF high
    <3> QED
      BY <2>3, <3>1
  <2> QED
    BY <2>1, <2>2, <2>3
<1> HIDE DEF l1, l3, h1, h3, r1, r3, x1, x3, y1, y3
<1>13. x1 * (4 - r1) + y1 * r1 <= x3 * (4 - r3) + y3 * r3
  <2>0. r1 \in {0, 1, 2, 3} /\ r3 \in {0, 1, 2, 3}
    BY <1>9
  <2>1. CASE l1 < l3 /\ y1 <= x3
    <3>1. x1 * (4 - r1) + y1 * r1 <= 4 * y1
      <4>1. \A r \in {0, 1, 2, 3} : x1 * (4 - r) + y1 * r <= 4 * y1
        BY ONLY <1>10
      <4> QED
        BY <2>0, <4>1
    <3>2. 4 * x3 <= x3 * (4 - r3) + y3 * r3
      <4>1. \A r \in {0, 1, 2, 3} : 4 * x3 <= x3 * (4 - r) + y3 * r
        BY ONLY <1>10
      <4> QED
        BY <2>0, <4>1
    <3> DEFINE u == x1 * (4 - r1) + y1 * r1
               v == x3 * (4 - r3) + y3 * r3
    <3>3. u \in Int /\ v \in Int
      BY <1>9, <1>10
    <3> HIDE DEF u, v
    <3> QED
      BY <1>10, <2>1, <3>1, <3>2, <3>3 DEF u, v
  <2>2. CASE l1 = l3 /\ r1 <= r3 /\ x1 = x3 /\ y1 = y3
    <3>1. \A r, s \in {0, 1, 2, 3} : r <= s => x1 * (4 - r) + y1 * r <= x1 * (4 - s) + y1 * s
      BY ONLY <1>10
    <3> QED
      BY <2>0, <2>2, <3>1
  <2> QED
    BY <1>12, <2>1, <2>2
<1> QED
  BY <1>8, <1>11, <1>13

LEMMA NormalizedIsInt ==
  ASSUME NEW f, IsFiniteSet(DOMAIN f), DOMAIN f # {}, \A k \in DOMAIN f : f[k] \in Int, NEW v \in Int
  PROVE  Normalized(f, v) \in Int
<1> DEFINE a == Quartile(f, 1)
           b == Quartile(f, 2)
           c == Quartile(f, 3)
<1>1. a \in Int /\ b \in Int /\ c \in Int /\ a <= c
  BY QuartilesUp
<1>2. Normalized(f, v) = IF c - a = 0 THEN 0 ELSE Clip(((4 * v - b) * 10) \div (c - a), 80)
  BY DEF Normalized
<1> HIDE DEF a, b, c
<1> DEFINE x == ((4 * v - b) * 10) \div (c - a)
<1>3. c - a # 0 => x \in Int
  <2>1. c - a # 0 => c - a \in Nat \ {0}
    BY <1>1
  <2>2. (4 * v - b) * 10 \in Int
    BY <1>1
  <2> QED
    BY <2>1, <2>2
<1> HIDE DEF x
<1>4. 80 \in Int
  OBVIOUS
<1>5. c - a # 0 => Clip(x, 80) \in Int
  BY <1>3, <1>4, ClipIsInt
<1> QED
  BY <1>2, <1>5 DEF x

-----------------------------------------------------------------------------
(* Analogues: the features of an accepted day are numbers *)

LEMMA RowsAreThere ==
  ASSUME MemoryInv, NEW d \in 1..Len(days), NEW s \in Constituents, days[d][s] # NoRow
  PROVE  days[d][s].close \in Nat /\ days[d][s].volume \in Nat
<1>1. days[d] \in DayRows
  BY DEF MemoryInv
<1>2. days[d] \in [Constituents -> [close : Nat, volume : Nat] \cup {NoRow}]
  BY <1>1, AnaloguesAssumption
<1>3. days[d][s] \in [close : Nat, volume : Nat]
  BY <1>2
<1> QED
  BY <1>3

LEMMA ReturnIsInt ==
  ASSUME MemoryInv, NEW d \in 1..Len(days), NEW s \in Constituents, Usable(s, d)
  PROVE  RawReturn(s, d) \in Int
<1> DEFINE P == PriorDays(s, d)
           L == Len(days)
           x == Max(P)
<1>1. L \in Nat /\ d \in 1..L
  BY DEF MemoryInv
<1>2. P \subseteq 1..(d - 1) /\ \A i \in P : days[i][s] # NoRow
  BY DEF PriorDays, RowDays
<1>3. \A i \in 1..(d - 1) : i \in 1..L /\ i \in Int
  <2> HIDE DEF L
  <2> QED
    BY <1>1
<1>4. P \subseteq Int
  BY <1>2, <1>3
<1>5. IsFiniteSet(P)
  <2>1. d - 1 \in Int /\ 1 \in Int
    BY <1>1
  <2>2. IsFiniteSet(1..(d - 1))
    BY ONLY <2>1, FS_Interval
  <2> QED
    BY <1>2, <2>2, FS_Subset
<1>6. P # {}
  <2>1. Cardinality(P) >= Window
    BY DEF Usable
  <2>2. P = {} => Cardinality(P) = 0
    BY FS_EmptySet
  <2> HIDE DEF P
  <2>3. Window \in Nat \ {0}
    BY AnaloguesAssumption
  <2> QED
    BY ONLY <2>1, <2>2, <2>3
<1> HIDE DEF P
<1>7. x \in P
  BY <1>4, <1>5, <1>6, Largest
<1>8. RawReturn(s, d) = (days[d][s].close * 100) \div days[x][s].close - 100
  BY DEF RawReturn, P
<1> HIDE DEF x
<1>9. days[d][s].close \in Nat
  BY RowsAreThere DEF Usable
<1>10. days[x][s].close \in Nat \ {0}
  <2>1. x \in 1..Len(days) /\ days[x][s] # NoRow
    BY <1>2, <1>3, <1>7
  <2>2. days[x][s].close \in Nat
    BY <2>1, RowsAreThere
  <2>3. days[x][s].close > 0
    BY DEF Usable, HasReturn, P, x
  <2> QED
    BY <2>2, <2>3
<1> DEFINE a == days[d][s].close
           b == days[x][s].close
<1>11. a \in Nat /\ b \in Nat \ {0}
  BY <1>9, <1>10
<1> HIDE DEF a, b
<1>12. (a * 100) \div b - 100 \in Int
  BY <1>11
<1> QED
  BY <1>8, <1>12 DEF a, b

(* The difference of the greatest and the least is a number. *)
LEMMA SpreadIsInt ==
  ASSUME NEW D, IsFiniteSet(D), D # {}, NEW f, \A k \in D : f[k] \in Int
  PROVE  Max({f[k] : k \in D}) - Min({f[k] : k \in D}) \in Int
<1> DEFINE V == {f[k] : k \in D}
           a == Max(V)
           b == Min(V)
<1>1. IsFiniteSet(V) /\ V \subseteq Int /\ V # {}
  BY ValuesAreFinite
<1> HIDE DEF V
<1>2. a \in V /\ b \in V
  BY <1>1, Largest, Smallest
<1>3. a \in Int /\ b \in Int
  BY <1>1, <1>2
<1> HIDE DEF a, b
<1>4. a - b \in Int
  BY <1>3
<1> QED
  BY <1>4 DEF a, b, V

LEMMA FeaturesAreInts ==
  ASSUME MemoryInv, NEW d \in 1..Len(days), Rejection(spans, d) = "none"
  PROVE  \A f \in Kinds : Features(spans, d)[f] \in Int
<1> DEFINE expected == Expected(spans, d)
           usable == {s \in expected : Usable(s, d)}
           raw == [s \in usable |-> RawReturn(s, d)]
           capped == [s \in usable |-> Clip(raw[s], ReturnCap)]
           share(S) == (Cardinality(S) * 100) \div Cardinality(usable)
           of(x) == {s \in usable : Segment[s] = x}
           segments == {Segment[s] : s \in Sectored(usable)}
           mean == [x \in segments |-> MeanOf(capped, of(x))]
           means == {MeanOf(capped, of(x)) : x \in segments}
           up == {s \in usable : raw[s] > 0}
           down == {s \in usable : raw[s] < 0}
           high == {s \in usable : Elevated(s, d)}
<1>1. expected \subseteq Constituents
  BY DEF Expected
<1>2. IsFiniteSet(usable) /\ usable \subseteq Constituents
  BY <1>1, AnaloguesAssumption, FS_Subset
<1>3. /\ ~ (Cardinality(usable) < MinUsable)
      /\ ~ (Cardinality(Sectored(usable)) * 100 < MinSegments * Cardinality(usable))
  BY DEF Rejection
<1>4. Sectored(usable) \subseteq usable /\ IsFiniteSet(Sectored(usable))
  <2>1. Sectored(usable) \subseteq usable
    BY DEF Sectored
  <2> HIDE DEF usable
  <2> QED
    BY <1>2, <2>1, FS_Subset
<1>5. /\ Cardinality(usable) \in Nat \ {0} /\ usable # {}
      /\ Sectored(usable) # {}
  <2> DEFINE n == Cardinality(usable)
             k == Cardinality(Sectored(usable))
  <2>1. n \in Nat /\ k \in Nat
    BY <1>2, <1>4, FS_CardinalityType
  <2>2. (usable = {} => n = 0) /\ (Sectored(usable) = {} => k = 0)
    BY FS_EmptySet
  <2>3. ~ (n < MinUsable) /\ ~ (k * 100 < MinSegments * n)
    BY <1>3
  <2>4. MinUsable \in Nat \ {0} /\ MinSegments \in Nat \ {0}
    BY AnaloguesAssumption
  <2> HIDE DEF n, k, usable
  <2>5. n \in Nat \ {0}
    BY ONLY <2>1, <2>3, <2>4
  <2>6. k # 0
    <3>1. MinSegments * n > 0
      BY ONLY <2>4, <2>5
    <3> QED
      BY ONLY <2>1, <2>3, <2>4, <2>5, <3>1
  <2> QED
    BY <2>2, <2>5, <2>6 DEF n
<1>6. \A s \in usable : raw[s] \in Int
  <2> SUFFICES ASSUME NEW s \in usable PROVE raw[s] \in Int
    OBVIOUS
  <2>1. s \in Constituents /\ Usable(s, d)
    BY <1>2
  <2>2. RawReturn(s, d) \in Int
    BY <2>1, ReturnIsInt
  <2> QED
    BY <2>2
<1>7. \A s \in usable : capped[s] \in Int
  <2> HIDE DEF usable, raw
  <2>1. ReturnCap \in Int
    BY AnaloguesAssumption
  <2> QED
    BY <1>6, <2>1, ClipIsInt
<1>8. Features(spans, d) = <<MeanOf(capped, usable), share(up), share(down), share(high), Max(means) - Min(means)>>
  BY DEF Features
<1> HIDE DEF raw, capped, expected
<1>9. MeanOf(capped, usable) \in Int
  <2> HIDE DEF usable
  <2> QED
    BY <1>2, <1>5, <1>7, MeanIsInt
<1>10. \A S \in SUBSET usable : share(S) \in Int
  <2> SUFFICES ASSUME NEW S \in SUBSET usable PROVE share(S) \in Int
    OBVIOUS
  <2> DEFINE a == Cardinality(S)
             b == Cardinality(usable)
  <2>1. a \in Nat /\ b \in Nat \ {0}
    <3> HIDE DEF usable
    <3> QED
      BY <1>2, <1>5, FS_Subset, FS_CardinalityType
  <2> HIDE DEF a, b
  <2>2. (a * 100) \div b \in Int
    BY <2>1
  <2> QED
    BY <2>2 DEF a, b
<1>11. share(up) \in Int /\ share(down) \in Int /\ share(high) \in Int
  <2>1. up \in SUBSET usable /\ down \in SUBSET usable /\ high \in SUBSET usable
    OBVIOUS
  <2> HIDE DEF up, down, high, share, usable
  <2> QED
    BY <1>10, <2>1
<1>12. IsFiniteSet(segments) /\ segments # {}
  <2> DEFINE g == [s \in Sectored(usable) |-> Segment[s]]
  <2>1. g \in Surjection(Sectored(usable), segments)
    <3> HIDE DEF usable
    <3> QED
      BY DEF Surjection
  <2> HIDE DEF g, usable
  <2>2. IsFiniteSet(segments)
    <3> HIDE DEF segments
    <3> QED
      BY <1>4, <2>1, FS_Surjection
  <2> QED
    BY <1>5, <2>2
<1>13. \A x \in segments : mean[x] \in Int
  <2> SUFFICES ASSUME NEW x \in segments PROVE mean[x] \in Int
    OBVIOUS
  <2>1. PICK s \in Sectored(usable) : Segment[s] = x
    OBVIOUS
  <2>2. of(x) # {} /\ of(x) \subseteq usable
    <3>1. s \in usable
      BY <1>4
    <3> HIDE DEF usable
    <3> QED
      BY <2>1, <3>1
  <2>3. IsFiniteSet(of(x))
    <3> HIDE DEF usable, of
    <3> QED
      BY <1>2, <2>2, FS_Subset
  <2>4. \A y \in of(x) : capped[y] \in Int
    BY <1>7
  <2> HIDE DEF of
  <2>5. MeanOf(capped, of(x)) \in Int
    BY <2>2, <2>3, <2>4, MeanIsInt
  <2> HIDE DEF segments
  <2> QED
    BY <2>5
<1>14. means = {mean[x] : x \in segments}
  <2> HIDE DEF segments, of
  <2> QED
    OBVIOUS
<1>15. Max(means) - Min(means) \in Int
  <2> HIDE DEF segments, mean, means
  <2> QED
    BY <1>12, <1>13, <1>14, SpreadIsInt
<1> HIDE DEF share, means, up, down, high, usable
<1> DEFINE a == MeanOf(capped, usable)
           b == share(up)
           c == share(down)
           e == share(high)
           g == Max(means) - Min(means)
<1>16. a \in Int /\ b \in Int /\ c \in Int /\ e \in Int /\ g \in Int
  BY <1>9, <1>11, <1>15
<1>17. Features(spans, d) = <<a, b, c, e, g>>
  BY <1>8
<1> HIDE DEF a, b, c, e, g
<1>18. \A f \in 1..5 : <<a, b, c, e, g>>[f] \in Int
  BY <1>16
<1> QED
  BY <1>17, <1>18 DEF Kinds

-----------------------------------------------------------------------------
(* Analogues: the neighbours of a session *)

Numeric(q) ==
  /\ Len(q) \in Nat /\ DOMAIN q = 1..Len(q)
  /\ \A i \in DOMAIN q : \A f \in Kinds : q[i].features[f] \in Int

LEMMA SessionsAreNumeric ==
  ASSUME MemoryInv
  PROVE  Numeric(Sessions)
<1> DEFINE L == Len(days)
           B == Accepted(spans, L)
           C == Candidates(L)
           q == Sessions
<1>1. L \in Nat
  BY DEF MemoryInv
<1>2. BuiltOf(q, B, C, spans)
  BY <1>1, EngineeredIs DEF Sessions
<1>3. \A d \in B : d \in 1..L /\ Rejection(spans, d) = "none"
  <2>1. B \subseteq C /\ C \subseteq 1..L
    BY <1>1, DaysAreFinite
  <2>2. \A d \in B : Rejection(spans, d) = "none"
    BY DEF Accepted
  <2> QED
    BY <2>1, <2>2
<1> HIDE DEF B, C, q
<1>4. ASSUME NEW i \in DOMAIN q PROVE \A f \in Kinds : q[i].features[f] \in Int
  <2>1. PICK d \in B : Place(B, d) = i
    BY <1>2 DEF BuiltOf
  <2>2. q[i] = Session(spans, C, d)
    BY <1>2, <2>1 DEF BuiltOf
  <2>3. q[i].features = Features(spans, d)
    BY <2>2 DEF Session
  <2>4. \A f \in Kinds : Features(spans, d)[f] \in Int
    BY <1>3, FeaturesAreInts
  <2> QED
    BY <2>3, <2>4
<1> QED
  BY <1>2, <1>4 DEF BuiltOf, Numeric, q

LEMMA KindsAreFinite == IsFiniteSet(Kinds)
<1>1. 1 \in Int /\ 5 \in Int
  OBVIOUS
<1>2. IsFiniteSet(1..5)
  BY ONLY <1>1, FS_Interval
<1> QED
  BY <1>2 DEF Kinds

(* vectors of numbers, one for each of D *)
Vectors(space, D) ==
  /\ IsFiniteSet(D) /\ DOMAIN space = D
  /\ \A i \in D : DOMAIN space[i] = Kinds /\ \A f \in Kinds : space[i][f] \in Int

LEMMA SpaceIs ==
  ASSUME NEW q, Numeric(q)
  PROVE  Vectors(Space(q), DOMAIN q)
<1> DEFINE D == DOMAIN q
           column(f) == [j \in D |-> q[j].features[f]]
           columns == [f \in Kinds |-> column(f)]
           at(i) == [f \in Kinds |-> Normalized(columns[f], q[i].features[f])]
           n == Len(q)
<1>1. IsFiniteSet(D)
  <2>1. n \in Nat /\ 1 \in Int
    BY DEF Numeric
  <2> HIDE DEF n
  <2>2. IsFiniteSet(1..n)
    BY ONLY <2>1, FS_Interval
  <2> QED
    BY <2>2 DEF Numeric, n
<1>2. \A i \in D : \A f \in Kinds : q[i].features[f] \in Int
  BY DEF Numeric
<1>3. Space(q) = [i \in D |-> at(i)]
  BY DEF Space
<1> HIDE DEF D
<1>4. ASSUME NEW i \in D, NEW f \in Kinds PROVE at(i)[f] \in Int
  <2> DEFINE c == column(f)
             v == q[i].features[f]
  <2>1. DOMAIN c = D /\ \A k \in DOMAIN c : c[k] \in Int
    BY <1>2
  <2>2. v \in Int /\ D # {}
    BY <1>2
  <2>3. at(i)[f] = Normalized(c, v)
    OBVIOUS
  <2> HIDE DEF c, v
  <2> QED
    BY <1>1, <2>1, <2>2, <2>3, NormalizedIsInt
<1>5. \A i \in D : DOMAIN at(i) = Kinds
  OBVIOUS
<1> HIDE DEF at
<1> QED
  BY <1>1, <1>3, <1>4, <1>5 DEF Vectors, D

LEMMA DistanceIs ==
  ASSUME NEW space, NEW D, Vectors(space, D), NEW i \in D, NEW j \in D
  PROVE  Distance(space[i], space[j]) \in Int
<1> DEFINE u == space[i]
           v == space[j]
           g == [f \in DOMAIN u |-> (u[f] - v[f]) * (u[f] - v[f])]
<1>1. DOMAIN u = Kinds /\ \A f \in Kinds : u[f] \in Int /\ v[f] \in Int
  BY DEF Vectors
<1>2. Distance(u, v) = Total(g, DOMAIN u)
  BY DEF Distance
<1> HIDE DEF u, v
<1>3. \A f \in Kinds : g[f] \in Int
  <2> SUFFICES ASSUME NEW f \in Kinds PROVE g[f] \in Int
    OBVIOUS
  <2>1. g[f] = (u[f] - v[f]) * (u[f] - v[f])
    BY <1>1
  <2> DEFINE x == u[f]
             y == v[f]
  <2>2. x \in Int /\ y \in Int
    BY <1>1
  <2> HIDE DEF x, y
  <2>3. (x - y) * (x - y) \in Int
    BY <2>2
  <2> QED
    BY <2>1, <2>3 DEF x, y
<1> HIDE DEF g
<1>4. Total(g, Kinds) = Sum(g, Kinds)
  BY TotalIs
<1>5. Sum(g, Kinds) \in Int
  BY <1>3, KindsAreFinite, SumType
<1> QED
  BY <1>1, <1>2, <1>4, <1>5 DEF u, v

(* the order of nearness to i *)
Nearer(space, i, D) == {x \in D \X D : Closer(space, i, x[1], x[2])}

Nearness(R, space, i, D) ==
  /\ \A S \in SUBSET D : Orders(R, S)
  /\ \A S \in SUBSET D, a \in D : Ahead(R, S, a) = {b \in S : Closer(space, i, b, a)}

LEMMA NearerIs ==
  ASSUME NEW space, NEW D, Vectors(space, D), \A a \in D : a \in Int, NEW i \in D
  PROVE  Nearness(Nearer(space, i, D), space, i, D)
<1> DEFINE R == Nearer(space, i, D)
           far == [a \in D |-> Distance(space[i], space[a])]
<1>1. \A a, b \in D : <<a, b>> \in R <=> Closer(space, i, a, b)
  BY DEF Nearer
<1>2. \A a \in D : far[a] \in Int /\ a \in Int
  BY DistanceIs
<1>3. \A a, b \in D : Closer(space, i, a, b) <=> far[a] < far[b] \/ (far[a] = far[b] /\ a < b)
  BY DEF Closer
<1> HIDE DEF R, far
<1>4. ASSUME NEW S \in SUBSET D PROVE Orders(R, S)
  <2>0. \A a \in S : a \in D
    OBVIOUS
  <2>1. \A a, b \in S : <<a, b>> \in R <=> far[a] < far[b] \/ (far[a] = far[b] /\ a < b)
    BY <1>1, <1>3
  <2>2. \A a \in S : far[a] \in Int /\ a \in Int
    BY <1>2
  <2>3. \A a, b \in S : <<a, b>> \in R => ~ (<<b, a>> \in R)
    BY ONLY <2>1, <2>2
  <2>4. ASSUME NEW a \in S, NEW b \in S PROVE a = b \/ <<a, b>> \in R \/ <<b, a>> \in R
    <3> DEFINE x == far[a]
               y == far[b]
    <3>1. a \in Int /\ b \in Int /\ x \in Int /\ y \in Int
      BY <2>2
    <3> HIDE DEF x, y
    <3>2. a = b \/ x < y \/ (x = y /\ a < b) \/ y < x \/ (y = x /\ b < a)
      BY ONLY <3>1
    <3> QED
      BY <2>1, <3>2 DEF x, y
  <2>5. ASSUME NEW a \in S, NEW b \in S, NEW c \in S, <<a, b>> \in R, <<b, c>> \in R
        PROVE  <<a, c>> \in R
    <3> DEFINE x == far[a]
               y == far[b]
               z == far[c]
    <3>1. a \in Int /\ b \in Int /\ c \in Int /\ x \in Int /\ y \in Int /\ z \in Int
      BY <2>2
    <3>2. (x < y \/ (x = y /\ a < b)) /\ (y < z \/ (y = z /\ b < c))
      BY <2>1, <2>5
    <3> HIDE DEF x, y, z
    <3>3. x < z \/ (x = z /\ a < c)
      BY ONLY <3>1, <3>2
    <3> QED
      BY <2>1, <3>3 DEF x, z
  <2> QED
    BY <2>3, <2>4, <2>5 DEF Orders
<1>5. \A S \in SUBSET D, a \in D : Ahead(R, S, a) = {b \in S : Closer(space, i, b, a)}
  BY <1>1 DEF Ahead
<1> QED
  BY <1>4, <1>5 DEF R, Nearness

(* The neighbours of a session: never itself, and as many others as there are, up to k. *)
LEMMA SimilarIs ==
  ASSUME NEW space, NEW n \in Nat, Vectors(space, 1..n), NEW i \in 1..n
  PROVE  LET shown == Similar(space, i)
         IN  /\ i \notin shown /\ shown \subseteq 1..n /\ IsFiniteSet(shown)
             /\ Cardinality(shown) = Min({TopK, n - 1})
<1> DEFINE D == 1..n
           R == Nearer(space, i, D)
           k == TopK + 1
           near == Nearest(space, i, k)
           found == near \ {i}
           shown == Similar(space, i)
<1>1. IsFiniteSet(D) /\ Cardinality(D) = n
  <2>1. 1 \in Int /\ n \in Int
    OBVIOUS
  <2>2. IsFiniteSet(1..n) /\ Cardinality(1..n) = IF 1 > n THEN 0 ELSE n - 1 + 1
    BY ONLY <2>1, FS_Interval
  <2>3. (IF 1 > n THEN 0 ELSE n - 1 + 1) = n
    OBVIOUS
  <2> QED
    BY <2>2, <2>3
<1>2. (\A a \in D : a \in Int) /\ D \in SUBSET D /\ n >= 1 /\ TopK \in Nat /\ k \in Nat
  BY AnaloguesAssumption
<1>3. DOMAIN space = D /\ Vectors(space, D)
  BY DEF Vectors
<1>4. i \in D
  OBVIOUS
<1> HIDE DEF D
<1> HIDE DEF shown
<1>5. /\ \A S \in SUBSET D : Orders(R, S)
      /\ \A S \in SUBSET D, a \in D : Ahead(R, S, a) = {b \in S : Closer(space, i, b, a)}
  <2>1. Nearness(R, space, i, D)
    BY <1>2, <1>3, <1>4, NearerIs
  <2> QED
    BY <2>1 DEF Nearness
<1> HIDE DEF R
<1>6. near = {a \in D : Cardinality(Ahead(R, D, a)) < k}
  BY <1>2, <1>3, <1>5 DEF Nearest
<1>7. IsFiniteSet(near) /\ Cardinality(near) = IF k <= n THEN k ELSE n
  <2>1. Orders(R, D)
    BY <1>2, <1>5
  <2>2. k \in Nat
    BY <1>2
  <2> DEFINE first == {a \in D : Cardinality(Ahead(R, D, a)) < k}
  <2> HIDE DEF near, k
  <2>3. IsFiniteSet(D)
    BY <1>1
  <2>4. IsFiniteSet(first) /\ Cardinality(first) = IF k <= Cardinality(D) THEN k ELSE Cardinality(D)
    BY ONLY <2>1, <2>2, <2>3, FirstOnes
  <2> HIDE DEF first
  <2>5. near = first
    BY <1>6 DEF first
  <2> QED
    BY <1>1, <2>4, <2>5
<1>8. found \in SUBSET D /\ i \notin found
  BY <1>6
<1>9. shown = {a \in found : Cardinality(Ahead(R, found, a)) < TopK}
  <2>1. shown = {a \in found : Cardinality({b \in found : Closer(space, i, b, a)}) < TopK}
    BY DEF Similar, shown
  <2> HIDE DEF found, shown
  <2> QED
    BY <1>5, <1>8, <2>1
<1> DEFINE c == Cardinality(found)
<1>10. IsFiniteSet(found) /\ (i \in near => c = Cardinality(near) - 1)
                          /\ (i \notin near => c = Cardinality(near))
  <2>1. i \notin near => found = near
    OBVIOUS
  <2> HIDE DEF near
  <2> QED
    BY <1>7, <2>1, FS_RemoveElement
<1>11. c \in Nat
  <2> HIDE DEF found
  <2> QED
    BY <1>10, FS_CardinalityType
<1>12. ~ (k <= n) => i \in near
  <2>1. ~ (k <= n) => Cardinality(near) = Cardinality(D)
    BY <1>1, <1>7
  <2>2. near \subseteq D
    BY <1>6
  <2>3. ~ (k <= n) => near = D
    <3> HIDE DEF near, k
    <3> QED
      BY <1>1, <2>1, <2>2, FS_Subset
  <2> QED
    BY <1>4, <2>3
<1> HIDE DEF found, near
<1>13. IsFiniteSet(shown) /\ Cardinality(shown) = IF TopK <= c THEN TopK ELSE c
  <2>1. Orders(R, found)
    BY <1>5, <1>8
  <2> QED
    BY <1>2, <1>9, <1>10, <2>1, FirstOnes
<1>14. (IF TopK <= c THEN TopK ELSE c) = IF TopK <= n - 1 THEN TopK ELSE n - 1
  <2> DEFINE e == Cardinality(near)
  <2>1. (e = IF k <= n THEN k ELSE n) /\ (c = e \/ c = e - 1) /\ (~ (k <= n) => c = e - 1)
    BY <1>7, <1>10, <1>12
  <2> DEFINE t == TopK
  <2>2. t \in Nat /\ k = t + 1
    BY <1>2
  <2> HIDE DEF e, c, t, k
  <2>3. (IF t <= c THEN t ELSE c) = IF t <= n - 1 THEN t ELSE n - 1
    BY ONLY <1>2, <1>11, <2>1, <2>2, n \in Nat
  <2> QED
    BY <2>3 DEF t
<1>15. Min({TopK, n - 1}) = IF TopK <= n - 1 THEN TopK ELSE n - 1
  <2> DEFINE t == TopK
             m == n - 1
  <2>1. t \in Int /\ m \in Int
    BY <1>2
  <2> HIDE DEF t, m
  <2>2. Min({t, m}) \in {t, m} /\ Min({t, m}) <= t /\ Min({t, m}) <= m
    BY <2>1, Pair
  <2>3. Min({t, m}) = IF t <= m THEN t ELSE m
    BY <2>1, <2>2
  <2> QED
    BY <2>3 DEF t, m
<1>16. i \notin shown /\ shown \subseteq D
  BY <1>8, <1>9
<1> QED
  BY <1>13, <1>14, <1>15, <1>16 DEF D, shown

-----------------------------------------------------------------------------
(* Analogues: the statistics of what is shown *)

LEMMA NextReturnIs ==
  ASSUME NEW q, Numeric(q), NEW j \in DOMAIN q, NextReturn(q, j) # NoRow
  PROVE  NextReturn(q, j) \in Int
<1> DEFINE n == Len(q)
<1>1. Consecutive(q, j, 1) /\ NextReturn(q, j) = q[j + 1].features[1]
  BY DEF NextReturn
<1>2. n \in Nat /\ j \in 1..n /\ j + 1 <= n
  BY <1>1 DEF Numeric, Consecutive
<1> HIDE DEF n
<1>3. j + 1 \in 1..n
  BY <1>2
<1>4. j + 1 \in DOMAIN q
  BY <1>3 DEF Numeric, n
<1>5. 1 \in Kinds
  BY DEF Kinds
<1>6. q[j + 1].features[1] \in Int
  BY <1>4, <1>5 DEF Numeric
<1> QED
  BY <1>1, <1>6

Counted(q, shown) ==
  LET s == Statistics(q, shown)
  IN  /\ s.sample = s.bullish + s.bearish + s.neutral
      /\ s.sample = Cardinality({j \in shown : NextReturn(q, j) # NoRow})
      /\ s.sample > 0 => s.worst <= s.average /\ s.average <= s.best
      /\ s.neutral >= 0

LEMMA StatisticsIs ==
  ASSUME NEW q, Numeric(q), NEW shown, IsFiniteSet(shown), shown \subseteq DOMAIN q
  PROVE  Counted(q, shown)
<1> DEFINE outcome == [j \in shown |-> NextReturn(q, j)]
           known == {j \in shown : outcome[j] # NoRow}
           up == {j \in known : outcome[j] > 0}
           down == {j \in known : outcome[j] < 0}
           V == {outcome[j] : j \in known}
           s == Statistics(q, shown)
           a == Cardinality(known)
           b == Cardinality(up)
           c == Cardinality(down)
           m == MeanOf(outcome, known)
<1>1. known = {j \in shown : NextReturn(q, j) # NoRow}
  OBVIOUS
<1>2. \A j \in known : outcome[j] \in Int
  <2> SUFFICES ASSUME NEW j \in known PROVE outcome[j] \in Int
    OBVIOUS
  <2>1. j \in DOMAIN q /\ NextReturn(q, j) # NoRow /\ outcome[j] = NextReturn(q, j)
    OBVIOUS
  <2> HIDE DEF outcome, known
  <2> QED
    BY <2>1, NextReturnIs
<1>3. IsFiniteSet(known)
  <2>1. known \subseteq shown
    OBVIOUS
  <2> HIDE DEF known
  <2> QED
    BY <2>1, FS_Subset
<1>4. CASE known = {}
  <2>1. s = [sample |-> 0, bullish |-> 0, bearish |-> 0, neutral |-> 0,
             average |-> NoRow, best |-> NoRow, worst |-> NoRow]
    BY <1>4 DEF Statistics
  <2>2. Cardinality({j \in shown : NextReturn(q, j) # NoRow}) = 0
    BY <1>1, <1>4, FS_EmptySet
  <2> HIDE DEF s
  <2>3. /\ s.sample = s.bullish + s.bearish + s.neutral /\ s.sample = 0
        /\ ~ (s.sample > 0) /\ s.neutral >= 0
    BY <2>1
  <2> QED
    BY <2>2, <2>3 DEF Counted, s
<1>5. CASE known # {}
  <2>1. s = [sample |-> a, bullish |-> b, bearish |-> c, neutral |-> a - b - c,
             average |-> m, best |-> Max(V), worst |-> Min(V)]
    BY <1>5 DEF Statistics
  <2>2. up \subseteq known /\ down \subseteq known /\ up \cap down = {}
    <3>1. \A j \in known : ~ (outcome[j] > 0 /\ outcome[j] < 0)
      BY <1>2
    <3> HIDE DEF known, outcome
    <3> QED
      BY <3>1
  <2> HIDE DEF outcome, known, s
  <2>3. a \in Nat /\ b \in Nat /\ c \in Nat /\ b + c <= a
    <3> HIDE DEF up, down
    <3>1. IsFiniteSet(up) /\ IsFiniteSet(down) /\ IsFiniteSet(up \cup down)
      BY <1>3, <2>2, FS_Subset, FS_Union
    <3>2. up \cap down = {} /\ Cardinality(up \cap down) = 0
      BY <2>2, FS_EmptySet
    <3>3. a \in Nat /\ b \in Nat /\ c \in Nat
      BY <1>3, <3>1, FS_CardinalityType
    <3> DEFINE e == Cardinality(up \cup down)
               z == Cardinality(up \cap down)
    <3>4. e = b + c - z /\ z = 0
      BY <3>1, <3>2, FS_Union
    <3>5. e <= a
      <4>1. up \cup down \subseteq known
        BY <2>2
      <4> QED
        BY <1>3, <4>1, FS_Subset
    <3> HIDE DEF a, b, c, e, z
    <3>6. b + c <= a
      BY <3>3, <3>4, <3>5
    <3> QED
      BY <3>3, <3>6
  <2>4. IsFiniteSet(V) /\ V # {} /\ \A x \in V : x \in Int
    <3>1. IsFiniteSet(V) /\ V \subseteq Int /\ V # {}
      BY <1>2, <1>3, <1>5, ValuesAreFinite
    <3> HIDE DEF V
    <3> QED
      BY <3>1
  <2> DEFINE lo == Min(V)
             hi == Max(V)
  <2>5. lo \in V /\ hi \in V /\ \A x \in V : lo <= x /\ x <= hi
    <3>1. V \subseteq Int
      BY <2>4
    <3> HIDE DEF V
    <3> QED
      BY <2>4, <3>1, Largest, Smallest
  <2> HIDE DEF lo, hi
  <2>6. lo \in Int /\ hi \in Int
    <3> HIDE DEF V
    <3> QED
      BY <2>4, <2>5
  <2>7. \A j \in known : outcome[j] \in Int /\ lo <= outcome[j] /\ outcome[j] <= hi
    BY <1>2, <2>5
  <2>8. m \in Int /\ lo <= m /\ m <= hi
    BY <1>3, <1>5, <2>6, <2>7, MeanBetween
  <2> HIDE DEF m, a, b, c, V
  <2>9. a = b + c + (a - b - c) /\ a - b - c >= 0
    BY <2>3
  <2>10. s.sample = a /\ s.bullish = b /\ s.bearish = c /\ s.neutral = a - b - c
         /\ s.average = m /\ s.best = hi /\ s.worst = lo
    BY <2>1 DEF lo, hi
  <2>11. s.sample = Cardinality({j \in shown : NextReturn(q, j) # NoRow})
    BY <1>1, <2>10 DEF a
  <2> QED
    BY <2>8, <2>9, <2>10, <2>11 DEF Counted, s
<1> QED
  BY <1>4, <1>5

LEMMA StatisticsAre == MemoryInv => StatisticsAreOfTheShown
<1> SUFFICES ASSUME MemoryInv PROVE StatisticsAreOfTheShown
  OBVIOUS
<1> DEFINE q == Sessions
           space == Space(q)
           n == Len(q)
<1>1. Numeric(q)
  BY SessionsAreNumeric
<1>2. Vectors(space, DOMAIN q) /\ n \in Nat /\ DOMAIN q = 1..n
  BY <1>1, SpaceIs DEF Numeric
<1> HIDE DEF space, q
<1>3. ASSUME NEW i \in DOMAIN q
      PROVE  LET shown == Similar(space, i)
             IN  /\ i \notin shown
                 /\ Cardinality(shown) = Min({TopK, n - 1})
                 /\ Counted(q, shown)
  <2> DEFINE shown == Similar(space, i)
  <2> HIDE DEF n
  <2>1. /\ i \notin shown /\ shown \subseteq DOMAIN q /\ IsFiniteSet(shown)
        /\ Cardinality(shown) = Min({TopK, n - 1})
    <3>1. Vectors(space, 1..n) /\ i \in 1..n
      BY <1>2
    <3>2. /\ i \notin shown /\ shown \subseteq 1..n /\ IsFiniteSet(shown)
          /\ Cardinality(shown) = Min({TopK, n - 1})
      BY <1>2, <3>1, SimilarIs
    <3> HIDE DEF shown
    <3> QED
      BY <1>2, <3>2
  <2> HIDE DEF shown
  <2>2. Counted(q, shown)
    BY <1>1, <2>1, StatisticsIs
  <2> QED
    BY <2>1, <2>2 DEF shown
<1> QED
  BY <1>3 DEF StatisticsAreOfTheShown, Counted, space, q

(* At any time, a build of the market memory contains every session that a build of
   an earlier day made, with the features it had then and, where it was known, the
   outcome: nothing later leaks into what an earlier date looked like. *)
THEOREM HistoryStaysPointInTime ==
  AnaloguesInit /\ [][AnaloguesNext]_memoryVars => []HistoryIsPointInTime
BY MemoryInit, MemoryStep, HistoryIs, PTL

(* What the market memory says of its analogues is always of the sessions it shows
   and of the trading day after each: a session is never its own analogue, as many
   are shown as there are up to the limit, and the statistics count each once. *)
THEOREM AnaloguesStayHonest ==
  AnaloguesInit /\ [][AnaloguesNext]_memoryVars => []AnaloguesAreHonest
<1>1. MemoryInv => AnaloguesAreHonest
  BY OutcomesAre, StatisticsAre DEF AnaloguesAreHonest
<1> QED
  BY MemoryInit, MemoryStep, <1>1, PTL
=============================================================================
