---------------------------- MODULE UniverseProofs ----------------------------
(***************************************************************************)
(* Proofs about UniverseSync, for any indices, stocks, published lists and *)
(* overlap of syncs: the membership history is in order, a stock leaves an *)
(* index only on the word of the source, and syncs that take turns keep    *)
(* the active stocks in step with the memberships.                         *)
(***************************************************************************)
EXTENDS UniverseSync, NewsIngestion, FiniteSetTheorems, TLAPS

Snapshots   == [date : Nat, list : SUBSET Stocks]
Memberships == [index : Indices, stock : Stocks, from : Nat, to : Nat]

SyncState == [snapshot : Snapshots, held : SUBSET Stocks, seen : SUBSET Stocks,
              added : SUBSET Stocks, todo : SUBSET Stocks, locked : SUBSET Stocks,
              unheld : SUBSET Stocks]

Program == {"idle", "diff", "upsert", "check"}

TypeInv ==
  /\ scenario \in Scenarios /\ today \in Nat \ {0}
  /\ members \subseteq Memberships /\ aliases \subseteq Replaced
  /\ stored \in [Indices -> SUBSET Snapshots] /\ latest \in [Indices -> Snapshots]
  /\ pc \in [Indices -> Program] /\ sync \in [Indices -> SyncState]

(* No membership of an index is dated after the newest snapshot of the index,
   and a running sync works with a snapshot of that very date. *)
DatesAreOrdered(i) ==
  /\ latest[i].date <= today
  /\ \A snapshot \in stored[i] : 1 <= snapshot.date /\ snapshot.date <= latest[i].date
  /\ \A m \in members : m.index = i => m.from <= latest[i].date /\ m.to <= latest[i].date
  /\ latest[i] # None => latest[i] \in stored[i]
  /\ pc[i] # "idle" => sync[i].snapshot \in stored[i] /\ Date(i) = latest[i].date

(* What a sync has read is still so when it commits: nobody else writes the
   memberships of its index. *)
DiffIsCurrent(i) ==
  /\ pc[i] \in {"upsert", "check"} =>
       /\ sync[i].held = OpenIn(i)
       /\ sync[i].added \subseteq Candidates(List(i)) \ sync[i].held
  /\ pc[i] = "check" => sync[i].unheld \subseteq Removed(i) /\ sync[i].todo \subseteq Removed(i)
  /\ pc[i] # "check" => sync[i].unheld = {}

(* As long as syncs take turns, what a sync has seen of the other indices is
   current as well. *)
SeesOthers(i) ==
  /\ pc[i] \in {"upsert", "check"} => sync[i].seen = sync[i].held \cap active
  /\ pc[i] = "check" =>
       sync[i].unheld = {s \in Removed(i) \ sync[i].todo : ~ HeldElsewhere(i, s)}

Alone(i) == \A j \in Indices : pc[j] # "idle" => j = i

TurnsAreTaken ==
  scenario.serialised =>
    /\ active = Held \ aliases
    /\ \A i \in Indices : SeesOthers(i) /\ (pc[i] # "idle" => Alone(i))

IInv ==
  /\ TypeInv /\ HistoryIsOrdered /\ TurnsAreTaken
  /\ \A i \in Indices : DatesAreOrdered(i) /\ DiffIsCurrent(i)
-----------------------------------------------------------------------------
LEMMA ResolvedIsCurrent ==
  ASSUME NEW list \in SUBSET Stocks
  PROVE  Candidates(list) \subseteq Stocks \ Replaced
BY ReplacementAssumption DEF Candidates, Resolve

LEMMA InvInit == Init => IInv
<1> SUFFICES ASSUME Init PROVE IInv
  OBVIOUS
<1>1. PICK old \in [Indices -> Adopted] :
        LET first(i) == [date |-> 1, list |-> old[i]] IN
        /\ members = UNION {{Membership(i, s, 1, Open) : s \in old[i]} : i \in Indices}
        /\ active = UNION {old[i] : i \in Indices}
        /\ stored = [i \in Indices |-> IF old[i] = {} THEN {} ELSE {first(i)}]
        /\ latest = [i \in Indices |-> IF old[i] = {} THEN None ELSE first(i)]
  BY DEF Init
<1>2. \A i \in Indices : old[i] \subseteq Stocks
  BY ListsAssumption
<1>3. \A m \in members : \E i \in Indices : \E s \in old[i] :
        m = [index |-> i, stock |-> s, from |-> 1, to |-> 0]
  BY <1>1 DEF Membership, Open
<1>4. members \subseteq Memberships
  BY <1>2, <1>3 DEF Memberships
<1>5. \A i \in Indices : [date |-> 1, list |-> old[i]] \in Snapshots /\ None \in Snapshots
  BY <1>2 DEF Snapshots, None
<1>6. stored \in [Indices -> SUBSET Snapshots] /\ latest \in [Indices -> Snapshots]
  BY <1>1, <1>5
<1>7. NoSync \in SyncState
  BY <1>5 DEF NoSync, SyncState, None, Snapshots
<1>8. TypeInv
  BY <1>4, <1>6, <1>7 DEF Init, TypeInv, Program
<1>9. \A i \in Indices : OpenIn(i) = old[i]
  <2> SUFFICES ASSUME NEW i \in Indices PROVE OpenIn(i) = old[i]
    OBVIOUS
  <2>1. \A s \in old[i] : [index |-> i, stock |-> s, from |-> 1, to |-> 0] \in members
    BY <1>1 DEF Membership, Open
  <2>2. \A m \in members : m.index = i => m.stock \in old[i]
    BY <1>3
  <2>3. OpenIn(i) \subseteq old[i]
    BY <2>2 DEF OpenIn
  <2>4. ASSUME NEW s \in old[i] PROVE s \in OpenIn(i)
    <3> DEFINE m == [index |-> i, stock |-> s, from |-> 1, to |-> 0]
    <3>1. m \in members /\ m.index = i /\ m.to = 0 /\ m.stock = s
      BY <2>1
    <3> HIDE DEF m
    <3> QED
      BY <3>1 DEF OpenIn, Open
  <2> QED
    BY <2>3, <2>4
<1>10. active = Held
  BY <1>1, <1>9 DEF Held
<1>11. HistoryIsOrdered
  BY <1>3 DEF HistoryIsOrdered, Open
<1>12. ASSUME NEW i \in Indices PROVE DatesAreOrdered(i)
  <2>1. \A m \in members : m.index = i => m.from = 1 /\ m.to = 0 /\ old[i] # {}
    BY <1>3
  <2>2. CASE old[i] = {}
    <3>1. latest[i] = None /\ stored[i] = {}
      BY <1>1, <2>2
    <3> QED
      BY <2>1, <2>2, <3>1 DEF DatesAreOrdered, None, Init
  <2>3. CASE old[i] # {}
    <3>1. latest[i] = [date |-> 1, list |-> old[i]] /\ stored[i] = {latest[i]}
      BY <1>1, <2>3
    <3> QED
      BY <2>1, <3>1 DEF DatesAreOrdered, Init
  <2> QED
    BY <2>2, <2>3
<1> QED
  BY <1>8, <1>10, <1>11, <1>12 DEF Init, IInv, TurnsAreTaken, SeesOthers, Alone, DiffIsCurrent, NoSync
-----------------------------------------------------------------------------
(* What the helpers of the actions do to the sync they are about. *)
Others(i) == \A j \in Indices \ {i} : pc'[j] = pc[j] /\ sync'[j] = sync[j]

LEMMA GotoStep ==
  ASSUME TypeInv, NEW i \in Indices, NEW from, NEW to \in Program, Goto(i, from, to)
  PROVE  /\ pc[i] = from /\ pc' \in [Indices -> Program] /\ pc'[i] = to
         /\ \A j \in Indices \ {i} : pc'[j] = pc[j]
BY DEF TypeInv, Goto

LEMMA SyncStep ==
  ASSUME TypeInv, NEW i \in Indices, NEW r \in SyncState, sync' = [sync EXCEPT ![i] = r]
  PROVE  /\ sync' \in [Indices -> SyncState] /\ sync'[i] = r
         /\ \A j \in Indices \ {i} : sync'[j] = sync[j]
BY DEF TypeInv

LEMMA EndStep ==
  ASSUME TypeInv, NEW i \in Indices, End(i)
  PROVE  /\ pc' \in [Indices -> Program] /\ sync' \in [Indices -> SyncState]
         /\ pc'[i] = "idle" /\ sync'[i].unheld = {} /\ Others(i)
<1>1. NoSync \in SyncState
  BY DEF NoSync, SyncState, None, Snapshots
<1>2. NoSync.unheld = {}
  BY DEF NoSync
<1> QED
  BY <1>1, <1>2, SyncStep DEF End, TypeInv, Program, Others

(* A step that writes no table: what the other syncs know stays true. *)
LEMMA LocalStep ==
  ASSUME IInv, NEW i \in Indices, UNCHANGED <<scenario, today, tables>>,
         stored' \in [Indices -> SUBSET Snapshots], latest' \in [Indices -> Snapshots],
         \A j \in Indices \ {i} : stored'[j] = stored[j] /\ latest'[j] = latest[j],
         pc' \in [Indices -> Program], sync' \in [Indices -> SyncState], Others(i),
         DatesAreOrdered(i)', DiffIsCurrent(i)',
         scenario.serialised => SeesOthers(i)' /\ (pc'[i] # "idle" => Alone(i))
  PROVE  IInv'
<1>1. TypeInv'
  BY DEF IInv, TypeInv, tables
<1>2. HistoryIsOrdered'
  BY DEF IInv, HistoryIsOrdered, Apart, tables
<1>3. \A j \in Indices \ {i} : OpenIn(j)' = OpenIn(j) /\ Removed(j)' = Removed(j)
                               /\ List(j)' = List(j) /\ Date(j)' = Date(j)
  BY DEF OpenIn, Removed, List, Date, tables, Others
<1>4. \A j \in Indices : OpenIn(j)' = OpenIn(j)
  BY DEF OpenIn, tables
<1>5. \A j \in Indices \ {i} : DatesAreOrdered(j)'
  BY <1>3 DEF IInv, DatesAreOrdered, tables, Others
<1>6. \A j \in Indices \ {i} : DiffIsCurrent(j)'
  BY <1>3 DEF IInv, DiffIsCurrent, Others
<1>7. ASSUME scenario.serialised, NEW j \in Indices \ {i}
      PROVE  SeesOthers(j)' /\ (pc'[j] # "idle" => Alone(j)')
  <2>1. SeesOthers(j) /\ (pc[j] # "idle" => Alone(j))
    BY <1>7 DEF IInv, TurnsAreTaken
  <2>2. \A s : HeldElsewhere(j, s)' = HeldElsewhere(j, s)
    BY <1>4 DEF HeldElsewhere
  <2>3. SeesOthers(j)'
    BY <1>3, <2>1, <2>2 DEF SeesOthers, Others, tables
  <2>4. pc'[j] # "idle" => Alone(j)'
    BY <1>7, <2>1 DEF Alone, Others
  <2> QED
    BY <2>3, <2>4
<1>8. scenario.serialised => active' = Held' \ aliases'
  BY <1>4 DEF IInv, TurnsAreTaken, Held, tables
<1>9. scenario.serialised => SeesOthers(i)' /\ (pc'[i] # "idle" => Alone(i)')
  BY DEF Alone, Others
<1>10. TurnsAreTaken'
  BY <1>7, <1>8, <1>9 DEF TurnsAreTaken
<1> QED
  BY <1>1, <1>2, <1>5, <1>6, <1>10 DEF IInv

LEMMA EndedStep ==
  ASSUME IInv, NEW i \in Indices, End(i), UNCHANGED <<scenario, today, tables, cached>>
  PROVE  IInv'
<1>1. /\ pc' \in [Indices -> Program] /\ sync' \in [Indices -> SyncState]
      /\ pc'[i] = "idle" /\ sync'[i].unheld = {} /\ Others(i)
  BY EndStep DEF IInv
<1>2. DatesAreOrdered(i)'
  BY <1>1 DEF IInv, DatesAreOrdered, cached, tables
<1>3. DiffIsCurrent(i)' /\ SeesOthers(i)'
  BY <1>1 DEF DiffIsCurrent, SeesOthers
<1> QED
  BY <1>1, <1>2, <1>3, LocalStep DEF IInv, TypeInv, cached

(* A sync starts with a snapshot of the newest date its index has. *)
LEMMA StartedStep ==
  ASSUME IInv, NEW i \in Indices, Start(i), NEW snapshot \in Snapshots, Set(i, "snapshot", snapshot),
         UNCHANGED <<scenario, today, tables>>,
         stored' \in [Indices -> SUBSET Snapshots], latest' \in [Indices -> Snapshots],
         \A j \in Indices \ {i} : stored'[j] = stored[j] /\ latest'[j] = latest[j],
         latest'[i].date <= today, latest'[i].date >= latest[i].date, latest'[i] \in stored'[i],
         snapshot \in stored'[i], snapshot.date = latest'[i].date,
         \A s \in stored'[i] : 1 <= s.date /\ s.date <= latest'[i].date
  PROVE  IInv'
<1>1. /\ pc[i] = "idle" /\ pc' \in [Indices -> Program] /\ pc'[i] = "diff"
      /\ \A j \in Indices \ {i} : pc'[j] = pc[j]
  BY GotoStep DEF Start, IInv, Program
<1> DEFINE r == [sync[i] EXCEPT !.snapshot = snapshot]
<1>2. r \in SyncState /\ r.snapshot = snapshot /\ r.unheld = sync[i].unheld
  BY DEF IInv, TypeInv, SyncState
<1>3. sync' = [sync EXCEPT ![i] = r]
  <2>1. sync[i] \in SyncState
    BY DEF IInv, TypeInv
  <2>2. [sync[i] EXCEPT !["snapshot"] = snapshot] = r
    BY <2>1 DEF SyncState
  <2> QED
    BY <2>2 DEF Set
<1>4. /\ sync' \in [Indices -> SyncState] /\ sync'[i] = r
      /\ \A j \in Indices \ {i} : sync'[j] = sync[j]
  BY <1>2, <1>3, SyncStep DEF IInv
<1> HIDE DEF r
<1>5. \A m \in members : m.index = i => m.from <= latest'[i].date /\ m.to <= latest'[i].date
  <2>1. \A m \in members : m.from \in Nat /\ m.to \in Nat
    BY DEF IInv, TypeInv, Memberships
  <2>2. latest[i].date \in Nat /\ latest'[i].date \in Nat
    BY DEF IInv, TypeInv, Snapshots
  <2> QED
    BY <2>1, <2>2 DEF IInv, DatesAreOrdered
<1>6. DatesAreOrdered(i)'
  BY <1>1, <1>2, <1>4, <1>5 DEF DatesAreOrdered, Date, tables
<1>7. DiffIsCurrent(i)' /\ SeesOthers(i)'
  BY <1>1, <1>2, <1>4 DEF IInv, DiffIsCurrent, SeesOthers
<1>8. scenario.serialised => Alone(i)
  BY <1>1 DEF Start, Alone
<1> QED
  BY <1>1, <1>4, <1>6, <1>7, <1>8, LocalStep DEF Others

LEMMA FetchStep == ASSUME IInv, NEW i \in Indices, Fetch(i) PROVE IInv'
<1>1. PICK list \in Lists :
        LET snapshot == [date |-> today, list |-> list] IN
        /\ Set(i, "snapshot", snapshot)
        /\ stored' = [stored EXCEPT ![i] = @ \cup {snapshot}]
        /\ latest' = [latest EXCEPT ![i] = IF snapshot \in stored[i] THEN @ ELSE snapshot]
  BY DEF Fetch
<1> DEFINE snapshot == [date |-> today, list |-> list]
<1>2. Start(i) /\ UNCHANGED <<scenario, today, tables>>
  BY DEF Fetch
<1>3. snapshot \in Snapshots /\ snapshot.date = today /\ today \in Nat \ {0}
  BY <1>1, ListsAssumption DEF Snapshots, IInv, TypeInv
<1>4. /\ stored \in [Indices -> SUBSET Snapshots] /\ latest \in [Indices -> Snapshots]
      /\ latest[i].date \in Nat /\ latest[i].date <= today
      /\ \A s \in stored[i] : s.date \in Nat /\ 1 <= s.date /\ s.date <= latest[i].date
  BY DEF IInv, TypeInv, DatesAreOrdered, Snapshots
<1>5. /\ Set(i, "snapshot", snapshot)
      /\ stored' = [stored EXCEPT ![i] = stored[i] \cup {snapshot}]
      /\ latest' = [latest EXCEPT ![i] = IF snapshot \in stored[i] THEN latest[i] ELSE snapshot]
  BY <1>1
<1> HIDE DEF snapshot
<1>6. /\ stored' \in [Indices -> SUBSET Snapshots] /\ latest' \in [Indices -> Snapshots]
      /\ stored'[i] = stored[i] \cup {snapshot}
      /\ latest'[i] = IF snapshot \in stored[i] THEN latest[i] ELSE snapshot
      /\ \A j \in Indices \ {i} : stored'[j] = stored[j] /\ latest'[j] = latest[j]
  BY <1>3, <1>4, <1>5
<1>7. latest'[i].date = today
  BY <1>3, <1>4, <1>6
<1>8. latest'[i] \in stored'[i]
  <2>1. CASE snapshot \in stored[i]
    <3>1. latest[i] # None
      BY <1>3, <1>4, <2>1 DEF None
    <3> QED
      BY <1>6, <2>1, <3>1 DEF IInv, DatesAreOrdered
  <2> QED
    BY <1>6, <2>1
<1>9. \A s \in stored'[i] : 1 <= s.date /\ s.date <= latest'[i].date
  BY <1>3, <1>4, <1>6, <1>7
<1> QED
  BY <1>2, <1>3, <1>4, <1>5, <1>6, <1>7, <1>8, <1>9, StartedStep

LEMMA FallBackStep == ASSUME IInv, NEW i \in Indices, FallBack(i) PROVE IInv'
<1>1. /\ latest[i] # None /\ Start(i) /\ Set(i, "snapshot", latest[i])
      /\ UNCHANGED <<scenario, today, tables>> /\ UNCHANGED <<stored, latest>>
  BY DEF FallBack, cached
<1>2. /\ stored \in [Indices -> SUBSET Snapshots] /\ latest \in [Indices -> Snapshots]
      /\ latest[i] \in Snapshots /\ latest[i].date \in Nat
  BY DEF IInv, TypeInv, Snapshots
<1>3. /\ latest[i].date <= today /\ latest[i] \in stored[i]
      /\ \A s \in stored[i] : 1 <= s.date /\ s.date <= latest[i].date
  BY <1>1 DEF IInv, DatesAreOrdered
<1> QED
  BY <1>1, <1>2, <1>3, StartedStep
-----------------------------------------------------------------------------
(* Between its start and its commit a sync only writes its own variables. *)
LEMMA WorkingStep ==
  ASSUME IInv, NEW i \in Indices, pc[i] # "idle", NEW r \in SyncState, r.snapshot = sync[i].snapshot,
         sync' = [sync EXCEPT ![i] = r], NEW to \in Program, pc' \in [Indices -> Program], pc'[i] = to,
         \A j \in Indices \ {i} : pc'[j] = pc[j],
         UNCHANGED <<scenario, today, tables, cached>>, DiffIsCurrent(i)',
         scenario.serialised => SeesOthers(i)'
  PROVE  IInv'
<1>1. /\ sync' \in [Indices -> SyncState] /\ sync'[i] = r
      /\ \A j \in Indices \ {i} : sync'[j] = sync[j]
  BY SyncStep DEF IInv
<1>2. DatesAreOrdered(i)'
  BY <1>1 DEF IInv, DatesAreOrdered, Date, cached, tables
<1>3. scenario.serialised => Alone(i)
  BY DEF IInv, TurnsAreTaken
<1> QED
  BY <1>1, <1>2, <1>3, LocalStep DEF IInv, TypeInv, cached, Others

LEMMA DiffStep == ASSUME IInv, NEW i \in Indices, Diff(i) PROVE IInv'
<1> DEFINE held == OpenIn(i)
           candidates == Candidates(List(i))
           r(healthy) == [sync[i] EXCEPT !.held = held, !.seen = held \cap active, !.added = healthy,
                                         !.todo = (candidates \cap held) \cup healthy]
<1>1. PICK healthy \in SUBSET (candidates \ held) : sync' = [sync EXCEPT ![i] = r(healthy)]
  BY DEF Diff
<1>2. /\ pc[i] = "diff" /\ pc' \in [Indices -> Program] /\ pc'[i] = "upsert"
      /\ \A j \in Indices \ {i} : pc'[j] = pc[j]
  BY GotoStep DEF Diff, IInv, Program
<1>3. held \subseteq Stocks /\ candidates \subseteq Stocks /\ sync[i] \in SyncState
  <2>1. sync[i] \in SyncState /\ List(i) \in SUBSET Stocks
    BY DEF IInv, TypeInv, SyncState, Snapshots, List
  <2>2. held \subseteq Stocks
    BY DEF IInv, TypeInv, OpenIn, Memberships
  <2> QED
    BY <2>1, <2>2, ResolvedIsCurrent
<1>4. UNCHANGED <<scenario, today, tables, cached>>
  BY DEF Diff
<1>5. OpenIn(i)' = held /\ active' = active
  BY <1>4 DEF OpenIn, tables
<1> HIDE DEF held, candidates
<1>6. /\ r(healthy) \in SyncState /\ r(healthy).snapshot = sync[i].snapshot /\ r(healthy).held = held
      /\ r(healthy).seen = held \cap active /\ r(healthy).added = healthy
      /\ r(healthy).unheld = sync[i].unheld
  BY <1>1, <1>3 DEF SyncState
<1> HIDE DEF r
<1>7. sync'[i] = r(healthy)
  BY <1>1, <1>6, SyncStep DEF IInv
<1>8. Candidates(List(i))' = candidates
  BY <1>6, <1>7 DEF candidates, List, Candidates, Resolve
<1>9. DiffIsCurrent(i)'
  BY <1>1, <1>2, <1>5, <1>6, <1>7, <1>8 DEF DiffIsCurrent, IInv
<1>10. SeesOthers(i)'
  BY <1>2, <1>5, <1>6, <1>7 DEF SeesOthers
<1> QED
  BY <1>1, <1>2, <1>4, <1>6, <1>9, <1>10, WorkingStep DEF Program

(* A step of the sync that keeps what it has read. *)
LEMMA KeptStep ==
  ASSUME IInv, NEW i \in Indices, pc[i] \in {"upsert", "check"}, NEW r \in SyncState,
         r.snapshot = sync[i].snapshot, r.held = sync[i].held, r.seen = sync[i].seen,
         r.added = sync[i].added, sync' = [sync EXCEPT ![i] = r],
         NEW to \in {"upsert", "check"}, pc' \in [Indices -> Program], pc'[i] = to,
         \A j \in Indices \ {i} : pc'[j] = pc[j],
         UNCHANGED <<scenario, today, tables, cached>>,
         to # "check" => r.unheld = {},
         to = "check" => /\ r.unheld \subseteq Removed(i) /\ r.todo \subseteq Removed(i)
                         /\ scenario.serialised =>
                              r.unheld = {s \in Removed(i) \ r.todo : ~ HeldElsewhere(i, s)}
  PROVE  IInv'
<1>1. sync'[i] = r
  BY SyncStep DEF IInv
<1>2. /\ OpenIn(i)' = OpenIn(i) /\ Candidates(List(i))' = Candidates(List(i)) /\ Removed(i)' = Removed(i)
      /\ \A s : HeldElsewhere(i, s)' = HeldElsewhere(i, s)
      /\ active' = active
  BY <1>1 DEF OpenIn, Candidates, Resolve, List, Removed, HeldElsewhere, tables
<1>3. DiffIsCurrent(i)'
  BY <1>1, <1>2 DEF IInv, DiffIsCurrent
<1>4. scenario.serialised => SeesOthers(i)
  BY DEF IInv, TurnsAreTaken
<1>5. scenario.serialised => SeesOthers(i)'
  BY <1>1, <1>2, <1>4 DEF SeesOthers
<1>6. to \in Program
  BY DEF Program
<1> QED
  BY <1>3, <1>5, <1>6, WorkingStep

LEMMA UpsertStep == ASSUME IInv, NEW i \in Indices, Upsert(i) PROVE IInv'
<1> DEFINE r(s) == [sync[i] EXCEPT !.todo = sync[i].todo \ {s}, !.locked = sync[i].locked \cup {s}]
<1>1. PICK s \in sync[i].todo : sync' = [sync EXCEPT ![i] = r(s)]
  BY DEF Upsert
<1>2. sync[i] \in SyncState /\ s \in Stocks
  BY <1>1 DEF IInv, TypeInv, SyncState
<1>3. /\ r(s) \in SyncState /\ r(s).snapshot = sync[i].snapshot /\ r(s).held = sync[i].held
      /\ r(s).seen = sync[i].seen /\ r(s).added = sync[i].added /\ r(s).unheld = sync[i].unheld
  BY <1>2 DEF SyncState
<1>4. /\ pc[i] = "upsert" /\ pc' = pc /\ pc \in [Indices -> Program]
      /\ UNCHANGED <<scenario, today, tables, cached>>
  BY DEF Upsert, IInv, TypeInv
<1>5. sync[i].unheld = {}
  BY <1>4 DEF IInv, DiffIsCurrent
<1> HIDE DEF r
<1> QED
  BY <1>1, <1>3, <1>4, <1>5, KeptStep

LEMMA FlushStep == ASSUME IInv, NEW i \in Indices, Flush(i) PROVE IInv'
<1> DEFINE r == [sync[i] EXCEPT !.todo = Removed(i), !.locked = sync[i].locked \cup Retired(i)]
<1>1. sync' = [sync EXCEPT ![i] = r] /\ UNCHANGED <<scenario, today, tables, cached>>
  BY DEF Flush
<1>2. /\ pc[i] = "upsert" /\ pc' \in [Indices -> Program] /\ pc'[i] = "check"
      /\ \A j \in Indices \ {i} : pc'[j] = pc[j]
  BY GotoStep DEF Flush, IInv, Program
<1>3. sync[i] \in SyncState /\ Removed(i) \subseteq Stocks /\ Retired(i) \subseteq Stocks
  BY DEF IInv, TypeInv, SyncState, Snapshots, Removed, Retired, List
<1>4. /\ r \in SyncState /\ r.snapshot = sync[i].snapshot /\ r.held = sync[i].held
      /\ r.seen = sync[i].seen /\ r.added = sync[i].added
      /\ r.todo = Removed(i) /\ r.unheld = sync[i].unheld
  BY <1>3 DEF SyncState
<1>5. sync[i].unheld = {}
  BY <1>2 DEF IInv, DiffIsCurrent
<1> HIDE DEF r
<1> QED
  BY <1>1, <1>2, <1>4, <1>5, KeptStep

LEMMA CheckOtherStep == ASSUME IInv, NEW i \in Indices, CheckOther(i) PROVE IInv'
<1> DEFINE unheld(s) == sync[i].unheld \cup (IF HeldElsewhere(i, s) THEN {} ELSE {s})
           r(s) == [sync[i] EXCEPT !.todo = sync[i].todo \ {s}, !.unheld = unheld(s)]
<1>1. PICK s \in sync[i].todo : sync' = [sync EXCEPT ![i] = r(s)]
  BY DEF CheckOther
<1>2. sync[i] \in SyncState /\ s \in Stocks /\ unheld(s) \in SUBSET Stocks
  BY <1>1 DEF IInv, TypeInv, SyncState
<1>3. /\ pc[i] = "check" /\ pc' = pc /\ pc \in [Indices -> Program]
      /\ UNCHANGED <<scenario, today, tables, cached>>
  BY DEF CheckOther, IInv, TypeInv
<1>4. sync[i].unheld \subseteq Removed(i) /\ sync[i].todo \subseteq Removed(i)
  BY <1>3 DEF IInv, DiffIsCurrent
<1>5. scenario.serialised =>
        sync[i].unheld = {x \in Removed(i) \ sync[i].todo : ~ HeldElsewhere(i, x)}
  BY <1>3 DEF IInv, TurnsAreTaken, SeesOthers
<1>6. unheld(s) \subseteq Removed(i) /\ sync[i].todo \ {s} \subseteq Removed(i)
  BY <1>1, <1>4
<1>7. scenario.serialised =>
        unheld(s) = {x \in Removed(i) \ (sync[i].todo \ {s}) : ~ HeldElsewhere(i, x)}
  BY <1>1, <1>4, <1>5
<1> HIDE DEF unheld
<1>8. /\ r(s) \in SyncState /\ r(s).snapshot = sync[i].snapshot /\ r(s).held = sync[i].held
      /\ r(s).seen = sync[i].seen /\ r(s).added = sync[i].added
      /\ r(s).todo = sync[i].todo \ {s} /\ r(s).unheld = unheld(s)
  BY <1>2 DEF SyncState
<1> HIDE DEF r
<1> QED
  BY <1>1, <1>3, <1>6, <1>7, <1>8, KeptStep

LEMMA DeactivateStep == ASSUME IInv, NEW i \in Indices, Deactivate(i) PROVE IInv'
<1> DEFINE locked(s) == sync[i].locked \cup {s}
           r(s) == [sync[i] EXCEPT !.locked = locked(s)]
<1>1. PICK s \in Deactivated(i) : Set(i, "locked", locked(s))
  BY DEF Deactivate
<1>2. sync[i] \in SyncState /\ s \in Stocks /\ locked(s) \in SUBSET Stocks
  BY <1>1 DEF IInv, TypeInv, SyncState, Deactivated
<1>3. /\ pc[i] = "check" /\ pc' = pc /\ pc \in [Indices -> Program]
      /\ UNCHANGED <<scenario, today, tables, cached>>
  BY DEF Deactivate, IInv, TypeInv
<1>4. sync[i].unheld \subseteq Removed(i) /\ sync[i].todo \subseteq Removed(i)
  BY <1>3 DEF IInv, DiffIsCurrent
<1>5. scenario.serialised =>
        sync[i].unheld = {x \in Removed(i) \ sync[i].todo : ~ HeldElsewhere(i, x)}
  BY <1>3 DEF IInv, TurnsAreTaken, SeesOthers
<1> HIDE DEF locked
<1>6. /\ r(s) \in SyncState /\ r(s).snapshot = sync[i].snapshot /\ r(s).held = sync[i].held
      /\ r(s).seen = sync[i].seen /\ r(s).added = sync[i].added
      /\ r(s).todo = sync[i].todo /\ r(s).unheld = sync[i].unheld
  BY <1>2 DEF SyncState
<1>7. [sync[i] EXCEPT !["locked"] = locked(s)] = r(s)
  BY <1>2 DEF SyncState
<1>8. sync' = [sync EXCEPT ![i] = r(s)]
  BY <1>1, <1>7 DEF Set
<1> HIDE DEF r
<1> QED
  BY <1>3, <1>4, <1>5, <1>6, <1>8, KeptStep
-----------------------------------------------------------------------------
(* The memberships a commit leaves: those of before, the removed ones closed,
   and the new ones. *)
Kept(i, m, n) ==
  /\ n.index = m.index /\ n.stock = m.stock /\ n.from = m.from
  /\ IF m.index = i /\ m.stock \in Removed(i) /\ m.to = Open
     THEN n.to = Date(i)
     ELSE n = m

IsNew(i, n) == \E s \in sync[i].added : n = [index |-> i, stock |-> s, from |-> Date(i), to |-> 0]

LEMMA AppliedIs ==
  ASSUME IInv, NEW i \in Indices, pc[i] # "idle"
  PROVE  /\ Applied(i) \subseteq Memberships
         /\ \A n \in Applied(i) : IsNew(i, n) \/ \E m \in members : Kept(i, m, n)
         /\ \A s \in sync[i].added : [index |-> i, stock |-> s, from |-> Date(i), to |-> 0] \in Applied(i)
         /\ \A m \in members :
              /\ ~ (m.index = i /\ m.stock \in Removed(i) /\ m.to = Open)
              /\ ~ (m.index = i /\ m.stock \in sync[i].added /\ m.from = Date(i))
              => m \in Applied(i)
<1> DEFINE close(m) == IF m.index = i /\ m.stock \in Removed(i) /\ m.to = Open
                       THEN [m EXCEPT !.to = Date(i)] ELSE m
           resumed(m) == m.index = i /\ m.stock \in sync[i].added /\ m.from = Date(i)
           new == {Membership(i, s, Date(i), Open) : s \in sync[i].added}
<1>1. Applied(i) = {m \in {close(n) : n \in members} : ~ resumed(m)} \cup new
  BY DEF Applied
<1>2. sync[i] \in SyncState /\ Date(i) \in Nat
  BY DEF IInv, TypeInv, SyncState, Snapshots, Date
<1>3. \A n \in new : IsNew(i, n) /\ n \in Memberships
  BY <1>2 DEF IsNew, Membership, Open, Memberships, SyncState
<1>4. ASSUME NEW m \in members PROVE close(m) \in Memberships /\ Kept(i, m, close(m))
  BY <1>2 DEF IInv, TypeInv, Memberships, Kept
<1>5. \A s \in sync[i].added : [index |-> i, stock |-> s, from |-> Date(i), to |-> 0] \in new
  BY DEF Membership, Open
<1>6. \A m \in members : ~ (m.index = i /\ m.stock \in Removed(i) /\ m.to = Open) => close(m) = m
  OBVIOUS
<1> HIDE DEF close, new
<1>7. \A n \in Applied(i) : n \in new \/ \E m \in members : n = close(m)
  BY <1>1
<1>8. new \subseteq Applied(i)
  BY <1>1
<1>9. \A m \in members : ~ resumed(close(m)) => close(m) \in Applied(i)
  BY <1>1
<1>10. \A n \in Applied(i) : n \in Memberships /\ (IsNew(i, n) \/ \E m \in members : Kept(i, m, n))
  BY <1>3, <1>4, <1>7
<1> QED
  BY <1>5, <1>6, <1>8, <1>9, <1>10

(* The facts about a sync that is about to commit. *)
LEMMA BeforeCommit ==
  ASSUME IInv, NEW i \in Indices, pc[i] = "check"
  PROVE  /\ sync[i].snapshot \in stored[i] /\ Date(i) = latest[i].date
         /\ Date(i) \in Nat \ {0} /\ sync[i].held = OpenIn(i)
         /\ sync[i].added \subseteq Candidates(List(i)) \ sync[i].held
         /\ sync[i].unheld \subseteq Removed(i)
         /\ \A m \in members : m.index = i => m.from <= Date(i) /\ m.to <= Date(i)
         /\ \A m \in members : m.from \in Nat /\ m.to \in Nat
<1>1. /\ sync[i].snapshot \in stored[i] /\ Date(i) = latest[i].date /\ 1 <= Date(i)
      /\ \A m \in members : m.index = i => m.from <= Date(i) /\ m.to <= Date(i)
  BY DEF IInv, DatesAreOrdered, Date
<1>2. Date(i) \in Nat
  BY <1>1 DEF IInv, TypeInv, Snapshots
<1>3. \A m \in members : m.from \in Nat /\ m.to \in Nat
  BY DEF IInv, TypeInv, Memberships
<1> QED
  BY <1>1, <1>2, <1>3 DEF IInv, DiffIsCurrent

LEMMA OpenAfterCommit ==
  ASSUME IInv, NEW i \in Indices, pc[i] = "check", members' = Applied(i)
  PROVE  /\ OpenIn(i)' = (OpenIn(i) \ Removed(i)) \cup sync[i].added
         /\ \A j \in Indices \ {i} : OpenIn(j)' = OpenIn(j)
<1>1. /\ Date(i) \in Nat \ {0} /\ sync[i].held = OpenIn(i)
      /\ sync[i].added \cap sync[i].held = {}
  BY BeforeCommit
<1>2. \A n \in members' : IsNew(i, n) \/ \E m \in members : Kept(i, m, n)
  BY AppliedIs
<1>3. ASSUME NEW s \in OpenIn(i)' PROVE s \in (OpenIn(i) \ Removed(i)) \cup sync[i].added
  <2>1. PICK n \in members' : n.index = i /\ n.to = Open /\ n.stock = s
    BY <1>3 DEF OpenIn
  <2>2. CASE IsNew(i, n)
    BY <2>1, <2>2 DEF IsNew
  <2>3. CASE \E m \in members : Kept(i, m, n)
    <3>1. PICK m \in members : Kept(i, m, n)
      BY <2>3
    <3>2. m.index = i /\ m.stock = s /\ m.to = Open /\ s \notin Removed(i)
      BY <1>1, <2>1, <3>1 DEF Kept, Open
    <3> QED
      BY <3>2 DEF OpenIn
  <2> QED
    BY <1>2, <2>1, <2>2, <2>3
<1>4. ASSUME NEW s \in sync[i].added PROVE s \in OpenIn(i)'
  <2> DEFINE n == [index |-> i, stock |-> s, from |-> Date(i), to |-> 0]
  <2>1. n \in members' /\ n.index = i /\ n.to = 0 /\ n.stock = s
    BY AppliedIs
  <2> HIDE DEF n
  <2> QED
    BY <2>1 DEF OpenIn, Open
<1>5. ASSUME NEW s \in OpenIn(i) \ Removed(i) PROVE s \in OpenIn(i)'
  <2>1. PICK m \in members : m.index = i /\ m.to = Open /\ m.stock = s
    BY <1>5 DEF OpenIn
  <2>2. m \in members'
    BY <1>1, <1>5, <2>1, AppliedIs
  <2> QED
    BY <2>1, <2>2 DEF OpenIn
<1>6. ASSUME NEW j \in Indices \ {i} PROVE OpenIn(j)' = OpenIn(j)
  <2>1. ASSUME NEW s \in OpenIn(j)' PROVE s \in OpenIn(j)
    <3>1. PICK n \in members' : n.index = j /\ n.to = Open /\ n.stock = s
      BY <2>1 DEF OpenIn
    <3>2. PICK m \in members : Kept(i, m, n)
      BY <1>2, <1>6, <3>1 DEF IsNew
    <3>3. n = m
      BY <1>6, <3>1, <3>2 DEF Kept
    <3> QED
      BY <3>1, <3>3 DEF OpenIn
  <2>2. ASSUME NEW s \in OpenIn(j) PROVE s \in OpenIn(j)'
    <3>1. PICK m \in members : m.index = j /\ m.to = Open /\ m.stock = s
      BY <2>2 DEF OpenIn
    <3>2. m \in members'
      BY <1>6, <3>1, AppliedIs
    <3> QED
      BY <3>1, <3>2 DEF OpenIn
  <2> QED
    BY <2>1, <2>2
<1>7. OpenIn(i)' = (OpenIn(i) \ Removed(i)) \cup sync[i].added
  BY <1>3, <1>4, <1>5
<1> QED
  BY <1>6, <1>7

(* A new membership follows every membership its stock had in the index, for
   none of them is open; a closed one still ends before the next begins. *)
LEMMA OrderAfterCommit ==
  ASSUME IInv, NEW i \in Indices, pc[i] = "check", members' = Applied(i)
  PROVE  HistoryIsOrdered'
<1>1. /\ Date(i) \in Nat \ {0} /\ sync[i].held = OpenIn(i)
      /\ sync[i].added \cap sync[i].held = {}
      /\ \A m \in members : m.index = i => m.from <= Date(i) /\ m.to <= Date(i)
      /\ \A m \in members : m.from \in Nat /\ m.to \in Nat
  BY BeforeCommit
<1>2. \A n \in members' : IsNew(i, n) \/ \E m \in members : Kept(i, m, n)
  BY AppliedIs
<1>3. ASSUME NEW n \in members', n.to # Open PROVE n.from <= n.to
  <2>1. PICK m \in members : Kept(i, m, n)
    BY <1>2, <1>3 DEF IsNew, Open
  <2>2. CASE m.index = i /\ m.stock \in Removed(i) /\ m.to = Open
    BY <1>1, <2>1, <2>2 DEF Kept
  <2>3. CASE ~ (m.index = i /\ m.stock \in Removed(i) /\ m.to = Open)
    BY <1>3, <2>1, <2>3 DEF Kept, IInv, HistoryIsOrdered
  <2> QED
    BY <2>2, <2>3
<1>4. ASSUME NEW k \in members', NEW n \in members', IsNew(i, k), ~ IsNew(i, n),
             k.index = n.index, k.stock = n.stock
      PROVE  Apart(n, k)
  <2>1. PICK m \in members : Kept(i, m, n)
    BY <1>2, <1>4
  <2>2. k.index = i /\ k.stock \in sync[i].added /\ k.from = Date(i)
    BY <1>4 DEF IsNew
  <2>3. m.index = i /\ m.stock \notin OpenIn(i)
    BY <1>1, <1>4, <2>1, <2>2 DEF Kept
  <2>4. m.to # Open
    BY <2>3 DEF OpenIn
  <2>5. n = m
    BY <2>1, <2>4 DEF Kept
  <2> QED
    BY <1>1, <2>2, <2>3, <2>4, <2>5 DEF Apart
<1>5. ASSUME NEW k \in members', NEW n \in members', IsNew(i, k), IsNew(i, n), k.stock = n.stock
      PROVE  k = n
  BY <1>5 DEF IsNew
<1>6. ASSUME NEW k \in members', NEW n \in members', k # n, ~ IsNew(i, k), ~ IsNew(i, n),
             k.index = n.index, k.stock = n.stock
      PROVE  Apart(k, n) \/ Apart(n, k)
  <2>1. PICK l \in members : Kept(i, l, k)
    BY <1>2, <1>6
  <2>2. PICK m \in members : Kept(i, m, n)
    BY <1>2, <1>6
  <2>3. k \in Memberships /\ n \in Memberships
    BY AppliedIs
  <2>4. l # m
    BY <1>6, <2>1, <2>2, <2>3 DEF Kept, Memberships
  <2>5. l.index = m.index /\ l.stock = m.stock
    BY <1>6, <2>1, <2>2 DEF Kept
  <2>6. Apart(l, m) \/ Apart(m, l)
    BY <2>4, <2>5 DEF IInv, HistoryIsOrdered
  <2>7. /\ Apart(l, m) => k.to = l.to /\ n.from = m.from
        /\ Apart(m, l) => n.to = m.to /\ k.from = l.from
    BY <2>1, <2>2 DEF Apart, Kept
  <2> QED
    BY <2>6, <2>7 DEF Apart
<1> QED
  BY <1>3, <1>4, <1>5, <1>6 DEF HistoryIsOrdered, Apart
-----------------------------------------------------------------------------
(* Syncs that take turns commit what is still true: the removed stocks no other
   index holds are deactivated, and every other stock of an index is active. *)
LEMMA ActiveAfterCommit ==
  ASSUME IInv, NEW i \in Indices, Commit(i), scenario.serialised
  PROVE  active' = Held' \ aliases'
<1>1. /\ pc[i] = "check" /\ sync[i].todo = {} /\ members' = Applied(i)
      /\ active' = (active \cup Unchanged(i) \cup sync[i].added) \ (Retired(i) \cup Deactivated(i))
      /\ aliases' = aliases \cup Retired(i)
  BY DEF Commit
<1>2. /\ sync[i].held = OpenIn(i) /\ sync[i].added \subseteq Candidates(List(i)) \ sync[i].held
      /\ sync[i].unheld \subseteq Removed(i)
  BY <1>1, BeforeCommit
<1>3. /\ active = Held \ aliases /\ sync[i].seen = sync[i].held \cap active
      /\ sync[i].unheld = {s \in Removed(i) : ~ HeldElsewhere(i, s)}
  BY <1>1 DEF IInv, TurnsAreTaken, SeesOthers
<1>4. /\ OpenIn(i)' = Unchanged(i) \cup sync[i].added
      /\ \A j \in Indices \ {i} : OpenIn(j)' = OpenIn(j)
  BY <1>1, <1>2, OpenAfterCommit DEF Unchanged, Removed
<1>5. Candidates(List(i)) \cap Replaced = {}
  <2>1. List(i) \in SUBSET Stocks
    BY DEF IInv, TypeInv, SyncState, Snapshots, List
  <2> QED
    BY <2>1, ResolvedIsCurrent
<1>6. aliases' \subseteq Replaced
  BY <1>1 DEF IInv, TypeInv, Retired
<1>7. ASSUME NEW s \in active' PROVE s \in Held' \ aliases'
  <2>1. CASE s \in Unchanged(i) \cup sync[i].added
    <3>1. s \in Candidates(List(i)) /\ s \in OpenIn(i)'
      BY <1>2, <1>4, <2>1 DEF Unchanged
    <3> QED
      BY <1>5, <1>6, <3>1 DEF Held
  <2>2. CASE s \in active /\ s \notin Unchanged(i) \cup sync[i].added
    <3>1. s \notin aliases' /\ s \in Held /\ s \notin Deactivated(i)
      BY <1>1, <1>3, <1>7, <2>2
    <3>2. PICK j \in Indices : s \in OpenIn(j)
      BY <3>1 DEF Held
    <3>3. ASSUME j = i PROVE HeldElsewhere(i, s)
      <4>1. s \in sync[i].held /\ s \in Removed(i)
        BY <1>2, <2>2, <3>2, <3>3 DEF Unchanged, Removed
      <4>2. s \notin sync[i].unheld
        BY <1>3, <2>2, <3>1, <4>1 DEF Deactivated
      <4> QED
        BY <1>3, <4>1, <4>2
    <3>4. \E k \in Indices \ {i} : s \in OpenIn(k)
      BY <3>2, <3>3 DEF HeldElsewhere
    <3> QED
      BY <1>4, <3>1, <3>4 DEF Held
  <2> QED
    BY <1>1, <1>7, <2>1, <2>2
<1>8. ASSUME NEW s \in Held' \ aliases' PROVE s \in active'
  <2>1. PICK j \in Indices : s \in OpenIn(j)'
    BY <1>8 DEF Held
  <2>2. s \notin Retired(i) /\ s \notin aliases
    BY <1>1, <1>8
  <2>3. CASE j = i
    <3>1. s \in Unchanged(i) \cup sync[i].added /\ s \in Candidates(List(i))
      BY <1>2, <1>4, <2>1, <2>3 DEF Unchanged
    <3>2. s \notin Deactivated(i)
      BY <1>2, <3>1 DEF Deactivated, Removed
    <3> QED
      BY <1>1, <2>2, <3>1, <3>2
  <2>4. CASE j # i
    <3>1. s \in OpenIn(j)
      BY <1>4, <2>1, <2>4
    <3>2. s \in active /\ HeldElsewhere(i, s)
      BY <1>3, <2>2, <2>4, <3>1 DEF Held, HeldElsewhere
    <3>3. s \notin Deactivated(i)
      BY <1>3, <3>2 DEF Deactivated
    <3> QED
      BY <1>1, <2>2, <3>2, <3>3
  <2> QED
    BY <2>3, <2>4
<1> QED
  BY <1>7, <1>8

LEMMA CommitStep == ASSUME IInv, NEW i \in Indices, Commit(i) PROVE IInv'
<1>1. /\ pc[i] = "check" /\ members' = Applied(i) /\ aliases' = aliases \cup Retired(i)
      /\ UNCHANGED <<scenario, today, stored, latest>>
  BY DEF Commit, cached
<1>2. /\ pc' \in [Indices -> Program] /\ sync' \in [Indices -> SyncState]
      /\ pc'[i] = "idle" /\ sync'[i].unheld = {} /\ Others(i)
  BY EndStep DEF IInv, Commit
<1>3. TypeInv'
  <2>1. members' \subseteq Memberships
    BY <1>1, AppliedIs
  <2>2. aliases' \subseteq Replaced
    BY <1>1 DEF IInv, TypeInv, Retired
  <2> QED
    BY <1>1, <1>2, <2>1, <2>2 DEF IInv, TypeInv
<1>4. HistoryIsOrdered'
  BY <1>1, OrderAfterCommit
<1>5. ASSUME NEW j \in Indices PROVE DatesAreOrdered(j)'
  <2>1. /\ Date(i) = latest[i].date /\ Date(i) \in Nat \ {0}
        /\ \A m \in members : m.index = i => m.from <= Date(i) /\ m.to <= Date(i)
    BY <1>1, BeforeCommit
  <2>2. ASSUME NEW n \in members', n.index = j PROVE n.from <= latest[j].date /\ n.to <= latest[j].date
    <3>1. CASE IsNew(i, n)
      BY <2>1, <2>2, <3>1 DEF IsNew
    <3>2. CASE \E m \in members : Kept(i, m, n)
      <4>1. PICK m \in members : Kept(i, m, n)
        BY <3>2
      <4>2. m.from <= latest[j].date /\ m.to <= latest[j].date /\ latest[j].date \in Nat
        BY <2>2, <4>1 DEF Kept, IInv, DatesAreOrdered, TypeInv, Snapshots
      <4> QED
        BY <2>1, <2>2, <4>1, <4>2 DEF Kept
    <3> QED
      BY <1>1, <3>1, <3>2, AppliedIs
  <2>3. pc'[j] # "idle" => sync'[j].snapshot \in stored[j] /\ Date(j)' = latest[j].date
    BY <1>2 DEF Others, IInv, DatesAreOrdered, Date
  <2> QED
    BY <1>1, <2>2, <2>3 DEF IInv, DatesAreOrdered
<1>6. ASSUME NEW j \in Indices PROVE DiffIsCurrent(j)'
  <2>1. CASE j = i
    BY <1>2, <2>1 DEF DiffIsCurrent
  <2>2. CASE j # i
    <3>1. /\ OpenIn(j)' = OpenIn(j) /\ Removed(j)' = Removed(j) /\ Candidates(List(j))' = Candidates(List(j))
          /\ sync'[j] = sync[j] /\ pc'[j] = pc[j]
      BY <1>1, <1>2, <2>2, OpenAfterCommit DEF Others, Removed, Candidates, Resolve, List
    <3> QED
      BY <3>1 DEF IInv, DiffIsCurrent
  <2> QED
    BY <2>1, <2>2
<1>7. TurnsAreTaken'
  <2> SUFFICES ASSUME scenario.serialised PROVE TurnsAreTaken'
    BY <1>1 DEF TurnsAreTaken
  <2>1. \A j \in Indices : pc'[j] = "idle"
    BY <1>1, <1>2 DEF IInv, TurnsAreTaken, Alone, Others
  <2>2. \A j \in Indices : SeesOthers(j)'
    BY <2>1 DEF SeesOthers
  <2>3. active' = Held' \ aliases'
    BY ActiveAfterCommit
  <2> QED
    BY <2>1, <2>2, <2>3 DEF TurnsAreTaken
<1> QED
  BY <1>3, <1>4, <1>5, <1>6, <1>7 DEF IInv

(* Neither a new day nor a stuttering step writes what the invariant is about. *)
LEMMA IdleStep ==
  ASSUME IInv, UNCHANGED <<scenario, tables, cached, process>>, today' \in {today, today + 1}
  PROVE  IInv'
<1>1. /\ UNCHANGED <<scenario, members, active, aliases, stored, latest, pc, sync>>
      /\ today \in Nat \ {0}
  BY DEF tables, cached, process, IInv, TypeInv
<1>2. today' \in Nat \ {0} /\ today <= today'
  BY <1>1
<1>3. TypeInv'
  BY <1>1, <1>2 DEF IInv, TypeInv
<1>4. \A i \in Indices : /\ OpenIn(i)' = OpenIn(i) /\ Removed(i)' = Removed(i) /\ List(i)' = List(i)
                         /\ Date(i)' = Date(i)
  BY <1>1 DEF OpenIn, Removed, List, Date
<1>5. Held' = Held /\ \A i, s : HeldElsewhere(i, s)' = HeldElsewhere(i, s)
  BY <1>4 DEF Held, HeldElsewhere
<1>6. HistoryIsOrdered'
  BY <1>1 DEF IInv, HistoryIsOrdered, Apart
<1>7. TurnsAreTaken'
  BY <1>1, <1>4, <1>5 DEF IInv, TurnsAreTaken, SeesOthers, Alone
<1>8. ASSUME NEW i \in Indices PROVE DatesAreOrdered(i)' /\ DiffIsCurrent(i)'
  <2>1. latest[i].date \in Nat
    BY DEF IInv, TypeInv, Snapshots
  <2>2. latest[i].date <= today'
    BY <1>1, <1>2, <2>1 DEF IInv, DatesAreOrdered
  <2> QED
    BY <1>1, <1>4, <2>2 DEF IInv, DatesAreOrdered, DiffIsCurrent
<1> QED
  BY <1>3, <1>6, <1>7, <1>8 DEF IInv

LEMMA InvStep == IInv /\ [Next]_vars => IInv'
<1> SUFFICES ASSUME IInv, [Next]_vars PROVE IInv'
  OBVIOUS
<1>1. ASSUME NEW i \in Indices, Fetch(i) \/ FallBack(i) PROVE IInv'
  BY <1>1, FetchStep, FallBackStep
<1>2. ASSUME NEW i \in Indices, Progress(i) PROVE IInv'
  <2>1. ASSUME DeadlockAbort(i) PROVE IInv'
    BY <2>1, EndedStep DEF DeadlockAbort
  <2> QED
    BY <1>2, <2>1, DiffStep, UpsertStep, FlushStep, CheckOtherStep, DeactivateStep, CommitStep DEF Progress
<1>3. ASSUME NEW i \in Indices, Fail(i) PROVE IInv'
  BY <1>3, EndedStep DEF Fail
<1>4. CASE NextDay
  BY <1>4, IdleStep DEF NextDay
<1>5. CASE UNCHANGED vars
  BY <1>5, IdleStep DEF vars
<1> QED
  BY <1>1, <1>2, <1>3, <1>4, <1>5 DEF Next

LEMMA InvHolds == Spec => []IInv
BY InvInit, InvStep, PTL DEF Spec
-----------------------------------------------------------------------------
(* universe_sync.py and universe_repository.py keep the membership history of
   every index in order, whatever is published, fails or overlaps, and syncs
   that take turns keep is_active in step with it. *)
THEOREM MembershipsStayConsistent == Spec => []MembershipsAreConsistent
<1>1. IInv => MembershipsAreConsistent
  BY DEF IInv, TurnsAreTaken, MembershipsAreConsistent
<1> QED
  BY <1>1, InvHolds, PTL

(* Only the commit of an index closes memberships of that index, and the list
   it applies carries the date of the last answer of the source. *)
THEOREM EvictionsStaySourced == Spec => EvictionsAreSourced
<1> DEFINE Sourced == \A i \in Indices : \A s \in OpenIn(i) \ OpenIn(i)' :
                        \E snapshot \in stored[i] :
                          /\ snapshot.date = latest[i].date
                          /\ s \notin Candidates(snapshot.list)
<1>1. ASSUME IInv, Next PROVE Sourced
  <2>1. ASSUME members' = members PROVE Sourced
    <3>1. \A i \in Indices : OpenIn(i)' = OpenIn(i)
      BY <2>1 DEF OpenIn
    <3> QED
      BY <3>1
  <2>2. ASSUME NEW j \in Indices, Commit(j) PROVE Sourced
    <3> SUFFICES ASSUME NEW i \in Indices, NEW s \in OpenIn(i) \ OpenIn(i)'
                 PROVE  \E snapshot \in stored[i] : /\ snapshot.date = latest[i].date
                                                    /\ s \notin Candidates(snapshot.list)
      OBVIOUS
    <3>1. pc[j] = "check" /\ members' = Applied(j)
      BY <2>2 DEF Commit
    <3>2. i = j /\ s \in Removed(j)
      BY <1>1, <3>1, OpenAfterCommit
    <3>3. /\ sync[i].snapshot \in stored[i] /\ sync[i].snapshot.date = latest[i].date
          /\ s \notin Candidates(sync[i].snapshot.list)
      BY <1>1, <3>1, <3>2, BeforeCommit DEF Removed, List, Date
    <3> QED
      BY <3>3
  <2>3. ASSUME NEW i \in Indices, Fetch(i) \/ FallBack(i) \/ Fail(i) PROVE members' = members
    BY <2>3 DEF Fetch, FallBack, Fail, tables
  <2>4. ASSUME NEW i \in Indices, Progress(i) PROVE Commit(i) \/ members' = members
    BY <2>4 DEF Progress, Diff, Upsert, Flush, CheckOther, Deactivate, DeadlockAbort, tables
  <2>5. NextDay => members' = members
    BY DEF NextDay, tables
  <2> QED
    BY <1>1, <2>1, <2>2, <2>3, <2>4, <2>5 DEF Next
<1>2. IInv /\ [Next]_vars => [Sourced]_vars
  BY <1>1
<1> QED
  BY <1>2, InvHolds, PTL DEF Spec, EvictionsAreSourced
-----------------------------------------------------------------------------
(* The news about the universe: what an ingest is still to store, it keeps, and
   one that runs alone finds the tags as it read them. *)

NewsTypeInv ==
  /\ serialised \in BOOLEAN /\ articles \subseteq Articles
  /\ tags \subseteq Articles \X Tracked /\ activeNow \subseteq Tracked
  /\ at \in [Ingesters -> Resting \cup InFlight]
  /\ fetched \in [Ingesters -> SUBSET Articles]
  /\ todo \in [Ingesters -> Seq(Articles)]
  /\ aliasesRead \in [Ingesters -> SUBSET Tracked]
  /\ written \in [Ingesters -> SUBSET Articles]
  /\ listed \in [Ingesters -> SUBSET Articles]
  /\ current \in [Ingesters -> SUBSET (Articles \X Tracked)]
  /\ rows \in [Ingesters -> SUBSET (Articles \X Tracked)]

InHand(i, b) == ClashIn(articles \cup written[i], b) \/ b \in Range(todo[i])

NothingIsLost(i) ==
  /\ at[i] \notin {"insert", "commit"} => written[i] = {}
  /\ at[i] \in {"commit", "aggregate", "write"} => todo[i] = <<>>
  /\ at[i] \in {"insert", "commit", "aggregate", "write"} =>
       \A a \in fetched[i] : \E b \in fetched[i] : Clash(a, b) /\ InHand(i, b)

RunsAlone(i) ==
  /\ at[i] \notin Resting => \A j \in Ingesters : at[j] \notin Resting => j = i
  /\ at[i] = "insert" => \A b \in Range(todo[i]) : ~ClashIn(articles, b)
  /\ at[i] \in {"insert", "commit", "aggregate", "write"} =>
       \A a \in fetched[i] : ClashIn(articles \cup written[i] \cup Range(todo[i]), a)
  /\ at[i] = "commit" => tags \subseteq current[i] /\ listed[i] = articles \cup written[i]
  /\ at[i] \in {"aggregate", "write"} => tags = Desired(articles, aliasesRead[i])
  /\ at[i] = "write" => rows[i] = tags

NewsInv ==
  /\ NewsTypeInv
  /\ \A i \in Ingesters : NothingIsLost(i) /\ (serialised => RunsAlone(i))

LEMMA TailRange ==
  ASSUME NEW s \in Seq(Articles), s # <<>>
  PROVE  /\ Head(s) \in Articles /\ Tail(s) \in Seq(Articles)
         /\ Range(s) = {Head(s)} \cup Range(Tail(s))
<1>1. /\ Head(s) \in Articles /\ Head(s) = s[1] /\ Tail(s) \in Seq(Articles)
      /\ Len(s) \in Nat /\ Len(s) >= 1 /\ Len(Tail(s)) = Len(s) - 1
      /\ DOMAIN s = 1..Len(s) /\ DOMAIN Tail(s) = 1..(Len(s) - 1)
      /\ \A k \in 1..(Len(s) - 1) : Tail(s)[k] = s[k + 1]
  OBVIOUS
<1>2. ASSUME NEW k \in 1..Len(s) PROVE s[k] \in {Head(s)} \cup Range(Tail(s))
  <2>1. CASE k = 1
    BY <1>1, <2>1
  <2>2. CASE k # 1
    <3>1. k - 1 \in 1..(Len(s) - 1) /\ (k - 1) + 1 = k
      BY <1>1, <2>2
    <3>2. s[k] = Tail(s)[k - 1] /\ k - 1 \in DOMAIN Tail(s)
      BY <1>1, <3>1
    <3> QED
      BY <3>2 DEF Range
  <2> QED
    BY <2>1, <2>2
<1>3. ASSUME NEW k \in 1..(Len(s) - 1) PROVE Tail(s)[k] \in Range(s)
  <2>1. k + 1 \in 1..Len(s)
    BY <1>1
  <2> QED
    BY <1>1, <2>1 DEF Range
<1>4. Head(s) \in Range(s)
  BY <1>1 DEF Range
<1> QED
  BY <1>1, <1>2, <1>3, <1>4 DEF Range

(* An order of a finite set leaves nothing out. *)
LEMMA OrderOfAll ==
  ASSUME NEW new \in SUBSET Articles, NEW order \in SetToSeqs(new)
  PROVE  order \in Seq(Articles) /\ Range(order) = new
<1> DEFINE n == Cardinality(new)
           D == 1..n
<1>1. IsFiniteSet(new) /\ n \in Nat
  BY ArticlesAssumption, FS_Subset, FS_CardinalityType
<1>2. order \in [D -> new] /\ \A k, l \in D : k # l => order[k] # order[l]
  BY DEF SetToSeqs
<1>3. order \in Injection(D, new)
  BY <1>2 DEF Injection, IsInjective
<1>4. Cardinality(D) = n
  BY <1>1, FS_Interval
<1>5. order \in Surjection(D, new)
  BY <1>1, <1>3, <1>4, FS_Injection
<1>6. \A b \in new : \E k \in D : order[k] = b
  BY <1>5 DEF Surjection
<1>7. Range(order) = new
  BY <1>2, <1>6 DEF Range
<1>8. order \in Seq(Articles)
  <2>1. order \in [1..n -> Articles]
    BY <1>2
  <2> HIDE DEF n
  <2> QED
    BY <1>1, <2>1
<1> QED
  BY <1>7, <1>8

LEMMA TagsOfArticles ==
  ASSUME NEW set \in SUBSET Articles, NEW stocks \in SUBSET Tracked
  PROVE  Desired(set, stocks) \subseteq Articles \X Tracked
BY DEF Desired

LEMMA NewsInvInit == NewsInit => NewsInv
<1> SUFFICES ASSUME NewsInit PROVE NewsInv
  OBVIOUS
<1>1. NewsTypeInv
  BY EnvironmentsAssumption DEF NewsInit, NewsTypeInv, Resting
<1>2. ASSUME NEW i \in Ingesters PROVE NothingIsLost(i) /\ RunsAlone(i)
  BY DEF NewsInit, NothingIsLost, RunsAlone, Resting
<1> QED
  BY <1>1, <1>2 DEF NewsInv

(* One ingester moves; articles are only added. *)
LEMMA NewsStep ==
  ASSUME NewsInv, NEW i \in Ingesters, NewsTypeInv', serialised' = serialised,
         articles \subseteq articles',
         \A j \in Ingesters \ {i} :
           /\ at'[j] = at[j] /\ fetched'[j] = fetched[j]
           /\ todo'[j] = todo[j] /\ written'[j] = written[j],
         serialised => \A j \in Ingesters \ {i} : at[j] \in Resting,
         NothingIsLost(i)', serialised => RunsAlone(i)'
  PROVE  NewsInv'
<1>1. ASSUME NEW j \in Ingesters, j # i PROVE NothingIsLost(j)'
  <2>1. NothingIsLost(j)
    BY DEF NewsInv
  <2>2. /\ at'[j] = at[j] /\ fetched'[j] = fetched[j]
        /\ todo'[j] = todo[j] /\ written'[j] = written[j]
    BY <1>1
  <2>3. \A b : InHand(j, b) => InHand(j, b)'
    BY <2>2 DEF InHand, ClashIn
  <2> QED
    BY <2>1, <2>2, <2>3 DEF NothingIsLost
<1>2. ASSUME serialised, NEW j \in Ingesters, j # i PROVE RunsAlone(j)'
  <2>1. at'[j] \in Resting
    BY <1>2
  <2> QED
    BY <2>1 DEF RunsAlone, Resting
<1> QED
  BY <1>1, <1>2 DEF NewsInv

LEMMA AloneWhenSerialised ==
  ASSUME NewsInv, NEW i \in Ingesters, at[i] \notin Resting, serialised
  PROVE  \A j \in Ingesters \ {i} : at[j] \in Resting
BY DEF NewsInv, RunsAlone
-----------------------------------------------------------------------------
LEMMA FetchFeedsStep ==
  ASSUME NewsInv, NEW i \in Ingesters, FetchFeeds(i), serialised' = serialised PROVE NewsInv'
<1>1. PICK items \in SUBSET Articles : fetched' = [fetched EXCEPT ![i] = items]
  BY DEF FetchFeeds
<1>2. /\ at[i] \in Resting /\ at' = [at EXCEPT ![i] = "dedupe"]
      /\ serialised => \A j \in Ingesters : at[j] \in Resting
      /\ UNCHANGED <<articles, tags, sentiment, activeNow, todo, aliasesRead, written, listed,
                     current, rows>>
  BY DEF FetchFeeds, storedBy
<1>3. NewsTypeInv'
  BY <1>1, <1>2 DEF NewsInv, NewsTypeInv, InFlight
<1>4. at'[i] = "dedupe" /\ \A j \in Ingesters \ {i} : at'[j] = at[j] /\ fetched'[j] = fetched[j]
  BY <1>1, <1>2 DEF NewsInv, NewsTypeInv
<1>5. NothingIsLost(i)'
  <2>1. at[i] \notin {"insert", "commit"}
    BY <1>2 DEF Resting
  <2> QED
    BY <1>2, <1>4, <2>1 DEF NewsInv, NothingIsLost
<1>6. serialised => RunsAlone(i)'
  BY <1>2, <1>4 DEF RunsAlone
<1> QED
  BY <1>2, <1>3, <1>4, <1>5, <1>6, NewsStep

LEMMA DedupeStep ==
  ASSUME NewsInv, NEW i \in Ingesters, Dedupe(i), serialised' = serialised PROVE NewsInv'
<1> DEFINE candidates == {a \in fetched[i] : ~ClashIn(articles, a)}
<1>1. PICK new \in Collapsed(candidates) :
        \E order \in SetToSeqs(new) : todo' = [todo EXCEPT ![i] = order]
  BY DEF Dedupe
<1>2. PICK order \in SetToSeqs(new) : todo' = [todo EXCEPT ![i] = order]
  BY <1>1
<1>3. /\ at[i] = "dedupe" /\ at' = [at EXCEPT ![i] = "insert"]
      /\ aliasesRead' = [aliasesRead EXCEPT ![i] = activeNow]
      /\ UNCHANGED <<articles, tags, sentiment, activeNow, fetched, written, listed, current, rows>>
  BY DEF Dedupe, Reaches, storedBy
<1>4. /\ new \subseteq candidates /\ new \subseteq Articles /\ new \subseteq fetched[i]
      /\ \A a \in candidates : ClashIn(new, a)
  BY <1>1 DEF Collapsed, NewsInv, NewsTypeInv
<1>5. order \in Seq(Articles) /\ Range(order) = new
  BY <1>4, <1>2, OrderOfAll
<1>6. NewsTypeInv'
  BY <1>2, <1>3, <1>5 DEF NewsInv, NewsTypeInv, InFlight
<1>7. /\ at'[i] = "insert" /\ todo'[i] = order /\ written'[i] = {}
      /\ \A j \in Ingesters \ {i} : at'[j] = at[j] /\ todo'[j] = todo[j]
  BY <1>2, <1>3 DEF NewsInv, NewsTypeInv, NothingIsLost
<1>8. ASSUME NEW a \in fetched[i]
      PROVE  \E b \in fetched[i] : Clash(a, b) /\ (ClashIn(articles, b) \/ b \in new)
  <2>1. CASE ClashIn(articles, a)
    BY <2>1 DEF Clash
  <2>2. CASE a \in candidates
    BY <1>4, <2>2 DEF ClashIn, Clash
  <2> QED
    BY <2>1, <2>2
<1>9. NothingIsLost(i)'
  BY <1>3, <1>5, <1>7, <1>8 DEF NothingIsLost, InHand
<1>10. ASSUME serialised PROVE RunsAlone(i)'
  <2>1. \A j \in Ingesters \ {i} : at[j] \in Resting
    BY <1>3, <1>10, AloneWhenSerialised DEF Resting
  <2>2. \A b \in new : ~ClashIn(articles, b)
    BY <1>4
  <2>3. \A a \in fetched[i] : ClashIn(articles \cup new, a)
    BY <1>4 DEF ClashIn
  <2> QED
    BY <1>3, <1>5, <1>7, <2>1, <2>2, <2>3 DEF RunsAlone
<1>11. serialised => \A j \in Ingesters \ {i} : at[j] \in Resting
  BY <1>3, AloneWhenSerialised DEF Resting
<1> QED
  BY <1>3, <1>6, <1>7, <1>9, <1>10, <1>11, NewsStep

(* The head of the work to do is written or stored by somebody else. *)
LEMMA InsertArticleStep ==
  ASSUME NewsInv, NEW i \in Ingesters, InsertArticle(i), serialised' = serialised PROVE NewsInv'
<1>1. /\ at[i] = "insert" /\ todo[i] # <<>>
      /\ written' = [written EXCEPT ![i] = @ \cup {Head(todo[i])}]
      /\ todo' = [todo EXCEPT ![i] = Tail(@)]
      /\ UNCHANGED <<articles, tags, sentiment, activeNow, at, fetched, aliasesRead, listed,
                     current, rows>>
  BY DEF InsertArticle, storedBy
<1>2. /\ Head(todo[i]) \in Articles /\ Tail(todo[i]) \in Seq(Articles)
      /\ Range(todo[i]) = {Head(todo[i])} \cup Range(Tail(todo[i]))
  BY <1>1, TailRange DEF NewsInv, NewsTypeInv
<1>3. NewsTypeInv'
  BY <1>1, <1>2 DEF NewsInv, NewsTypeInv
<1>4. /\ todo'[i] = Tail(todo[i]) /\ written'[i] = written[i] \cup {Head(todo[i])}
      /\ \A j \in Ingesters \ {i} : todo'[j] = todo[j] /\ written'[j] = written[j]
  BY <1>1 DEF NewsInv, NewsTypeInv
<1>5. \A b : InHand(i, b) => InHand(i, b)'
  BY <1>1, <1>2, <1>4 DEF InHand, ClashIn, Clash
<1>6. NothingIsLost(i)'
  BY <1>1, <1>5 DEF NewsInv, NothingIsLost
<1>7. ASSUME serialised PROVE RunsAlone(i)'
  <2>1. articles \cup written'[i] \cup Range(todo'[i]) = articles \cup written[i] \cup Range(todo[i])
    BY <1>2, <1>4
  <2>2. RunsAlone(i)
    BY <1>7 DEF NewsInv
  <2> QED
    BY <1>1, <1>2, <1>4, <2>1, <2>2 DEF RunsAlone
<1>8. serialised => \A j \in Ingesters \ {i} : at[j] \in Resting
  BY <1>1, AloneWhenSerialised DEF Resting
<1> QED
  BY <1>1, <1>3, <1>4, <1>6, <1>7, <1>8, NewsStep

LEMMA SkipArticleStep ==
  ASSUME NewsInv, NEW i \in Ingesters, SkipArticle(i), serialised' = serialised PROVE NewsInv'
<1>1. /\ at[i] = "insert" /\ todo[i] # <<>> /\ ClashIn(articles, Head(todo[i]))
      /\ todo' = [todo EXCEPT ![i] = Tail(@)]
      /\ UNCHANGED <<articles, tags, sentiment, activeNow, at, fetched, aliasesRead, written,
                     listed, current, rows>>
  BY DEF SkipArticle, storedBy
<1>2. /\ Head(todo[i]) \in Articles /\ Tail(todo[i]) \in Seq(Articles)
      /\ Range(todo[i]) = {Head(todo[i])} \cup Range(Tail(todo[i]))
  BY <1>1, TailRange DEF NewsInv, NewsTypeInv
<1>3. NewsTypeInv'
  BY <1>1, <1>2 DEF NewsInv, NewsTypeInv
<1>4. todo'[i] = Tail(todo[i]) /\ \A j \in Ingesters \ {i} : todo'[j] = todo[j]
  BY <1>1 DEF NewsInv, NewsTypeInv
<1>5. \A b : InHand(i, b) => InHand(i, b)'
  BY <1>1, <1>2, <1>4 DEF InHand, ClashIn
<1>6. NothingIsLost(i)'
  BY <1>1, <1>5 DEF NewsInv, NothingIsLost
<1>7. ~ serialised
  BY <1>1, <1>2 DEF NewsInv, RunsAlone
<1> QED
  BY <1>1, <1>3, <1>4, <1>6, <1>7, NewsStep

LEMMA ListArticlesStep ==
  ASSUME NewsInv, NEW i \in Ingesters, ListArticles(i), serialised' = serialised PROVE NewsInv'
<1>1. /\ todo[i] = <<>> /\ at[i] = "insert" /\ at' = [at EXCEPT ![i] = "commit"]
      /\ listed' = [listed EXCEPT ![i] = articles \cup written[i]]
      /\ current' = [current EXCEPT ![i] = tags \cup Desired(written[i], aliasesRead[i])]
      /\ UNCHANGED <<articles, tags, sentiment, activeNow, fetched, todo, aliasesRead, written, rows>>
  BY DEF ListArticles, Reaches, storedBy
<1>2. Desired(written[i], aliasesRead[i]) \subseteq Articles \X Tracked
  BY TagsOfArticles DEF NewsInv, NewsTypeInv
<1>3. NewsTypeInv'
  BY <1>1, <1>2 DEF NewsInv, NewsTypeInv, InFlight
<1>4. at'[i] = "commit" /\ \A j \in Ingesters \ {i} : at'[j] = at[j]
  BY <1>1 DEF NewsInv, NewsTypeInv
<1>5. \A b : InHand(i, b) => InHand(i, b)'
  BY <1>1 DEF InHand, ClashIn
<1>6. NothingIsLost(i)'
  BY <1>1, <1>4, <1>5 DEF NewsInv, NothingIsLost
<1>7. serialised => \A j \in Ingesters \ {i} : at[j] \in Resting
  BY <1>1, AloneWhenSerialised DEF Resting
<1>8. ASSUME serialised PROVE RunsAlone(i)'
  <2>1. tags' \subseteq current'[i] /\ listed'[i] = articles' \cup written'[i]
    BY <1>1 DEF NewsInv, NewsTypeInv
  <2>2. RunsAlone(i)
    BY <1>8 DEF NewsInv
  <2> QED
    BY <1>1, <1>4, <1>7, <1>8, <2>1, <2>2 DEF RunsAlone
<1> QED
  BY <1>1, <1>3, <1>4, <1>6, <1>7, <1>8, NewsStep

(* Alone, what was listed is what there is. *)
LEMMA ReconciledIsDesired ==
  ASSUME NewsInv, NEW i \in Ingesters, at[i] = "commit", serialised
  PROVE  Reconciled(i) = Desired(articles \cup written[i], aliasesRead[i])
<1>1. tags \subseteq current[i] /\ listed[i] = articles \cup written[i]
  BY DEF NewsInv, RunsAlone
<1> QED
  BY <1>1 DEF Reconciled

LEMMA CommitNewsStep ==
  ASSUME NewsInv, NEW i \in Ingesters, CommitNews(i), serialised' = serialised PROVE NewsInv'
<1>1. /\ at[i] = "commit" /\ at' = [at EXCEPT ![i] = "aggregate"]
      /\ articles' = articles \cup written[i] /\ tags' = Reconciled(i)
      /\ written' = [written EXCEPT ![i] = {}]
      /\ UNCHANGED <<sentiment, activeNow, fetched, todo, aliasesRead, listed, current, rows>>
  BY DEF CommitNews, Reaches
<1>2. NewsTypeInv'
  <2>1. Reconciled(i) \subseteq Articles \X Tracked
    BY TagsOfArticles DEF Reconciled, NewsInv, NewsTypeInv
  <2> QED
    BY <1>1, <2>1 DEF NewsInv, NewsTypeInv, InFlight
<1>3. /\ at'[i] = "aggregate" /\ written'[i] = {}
      /\ \A j \in Ingesters \ {i} : at'[j] = at[j] /\ written'[j] = written[j]
  BY <1>1 DEF NewsInv, NewsTypeInv
<1>4. articles' \cup written'[i] = articles \cup written[i]
  BY <1>1, <1>3
<1>5. \A b : InHand(i, b) => InHand(i, b)'
  BY <1>1, <1>4 DEF InHand, ClashIn
<1>6. NothingIsLost(i)'
  BY <1>1, <1>3, <1>5 DEF NewsInv, NothingIsLost
<1>7. serialised => \A j \in Ingesters \ {i} : at[j] \in Resting
  BY <1>1, AloneWhenSerialised DEF Resting
<1>8. ASSUME serialised PROVE RunsAlone(i)'
  <2>1. tags' = Desired(articles', aliasesRead'[i])
    BY <1>1, <1>8, ReconciledIsDesired
  <2>2. RunsAlone(i)
    BY <1>8 DEF NewsInv
  <2> QED
    BY <1>1, <1>3, <1>4, <1>7, <1>8, <2>1, <2>2 DEF RunsAlone
<1> QED
  BY <1>1, <1>2, <1>3, <1>6, <1>7, <1>8, NewsStep

LEMMA ReadTaggedStep ==
  ASSUME NewsInv, NEW i \in Ingesters, ReadTagged(i), serialised' = serialised PROVE NewsInv'
<1>1. /\ at[i] = "aggregate" /\ at' = [at EXCEPT ![i] = "write"]
      /\ rows' = [rows EXCEPT ![i] = tags]
      /\ UNCHANGED <<articles, tags, sentiment, activeNow, fetched, todo, aliasesRead, written,
                     listed, current>>
  BY DEF ReadTagged, Reaches, storedBy
<1>2. NewsTypeInv'
  BY <1>1 DEF NewsInv, NewsTypeInv, InFlight
<1>3. at'[i] = "write" /\ rows'[i] = tags /\ \A j \in Ingesters \ {i} : at'[j] = at[j]
  BY <1>1 DEF NewsInv, NewsTypeInv
<1>4. \A b : InHand(i, b) => InHand(i, b)'
  BY <1>1 DEF InHand, ClashIn
<1>5. NothingIsLost(i)'
  BY <1>1, <1>3, <1>4 DEF NewsInv, NothingIsLost
<1>6. serialised => \A j \in Ingesters \ {i} : at[j] \in Resting
  BY <1>1, AloneWhenSerialised DEF Resting
<1>7. ASSUME serialised PROVE RunsAlone(i)'
  <2>1. RunsAlone(i)
    BY <1>7 DEF NewsInv
  <2> QED
    BY <1>1, <1>3, <1>6, <1>7, <2>1 DEF RunsAlone
<1> QED
  BY <1>1, <1>2, <1>3, <1>5, <1>6, <1>7, NewsStep

LEMMA WriteSentimentStep ==
  ASSUME NewsInv, NEW i \in Ingesters, WriteSentiment(i), serialised' = serialised PROVE NewsInv'
<1>1. /\ at[i] = "write" /\ at' = [at EXCEPT ![i] = "done"]
      /\ listed' = [listed EXCEPT ![i] = {}] /\ current' = [current EXCEPT ![i] = {}]
      /\ rows' = [rows EXCEPT ![i] = {}]
      /\ UNCHANGED <<articles, tags, activeNow, fetched, todo, aliasesRead, written>>
  BY DEF WriteSentiment, Reaches
<1>2. NewsTypeInv'
  BY <1>1 DEF NewsInv, NewsTypeInv, Resting
<1>3. at'[i] = "done" /\ \A j \in Ingesters \ {i} : at'[j] = at[j]
  BY <1>1 DEF NewsInv, NewsTypeInv
<1>4. NothingIsLost(i)' /\ RunsAlone(i)'
  BY <1>1, <1>3 DEF NewsInv, NothingIsLost, RunsAlone, Resting
<1>5. serialised => \A j \in Ingesters \ {i} : at[j] \in Resting
  BY <1>1, AloneWhenSerialised DEF Resting
<1> QED
  BY <1>1, <1>2, <1>3, <1>4, <1>5, NewsStep

LEMMA RollbackStep ==
  ASSUME NewsInv, NEW i \in Ingesters, at[i] \in InFlight, Rollback(i), serialised' = serialised
  PROVE  NewsInv'
<1>1. /\ at' = [at EXCEPT ![i] = "failed"] /\ todo' = [todo EXCEPT ![i] = <<>>]
      /\ written' = [written EXCEPT ![i] = {}] /\ listed' = [listed EXCEPT ![i] = {}]
      /\ current' = [current EXCEPT ![i] = {}] /\ rows' = [rows EXCEPT ![i] = {}]
      /\ UNCHANGED <<articles, tags, activeNow, fetched, aliasesRead>>
  BY DEF Rollback, storedBy
<1>2. NewsTypeInv'
  BY <1>1 DEF NewsInv, NewsTypeInv, Resting
<1>3. /\ at'[i] = "failed" /\ written'[i] = {}
      /\ \A j \in Ingesters \ {i} :
           at'[j] = at[j] /\ todo'[j] = todo[j] /\ written'[j] = written[j]
  BY <1>1 DEF NewsInv, NewsTypeInv
<1>4. NothingIsLost(i)' /\ RunsAlone(i)'
  BY <1>3 DEF NothingIsLost, RunsAlone, Resting
<1>5. serialised => \A j \in Ingesters \ {i} : at[j] \in Resting
  BY AloneWhenSerialised DEF Resting, InFlight
<1> QED
  BY <1>1, <1>2, <1>3, <1>4, <1>5, NewsStep
-----------------------------------------------------------------------------
LEMMA NewsInvStep == NewsInv /\ [NewsNext]_newsVars => NewsInv'
<1> SUFFICES ASSUME NewsInv, [NewsNext]_newsVars PROVE NewsInv'
  OBVIOUS
<1>1. ASSUME UNCHANGED <<serialised, storedBy, ingester>>, activeNow' \subseteq Tracked
      PROVE  NewsInv'
  BY <1>1 DEF storedBy, ingester, NewsInv, NewsTypeInv, NothingIsLost, RunsAlone, InHand, ClashIn
<1>2. CASE UNCHANGED newsVars
  BY <1>1, <1>2 DEF newsVars, NewsInv, NewsTypeInv
<1>3. ASSUME NewsNext, ChangeUniverse PROVE NewsInv'
  BY <1>1, <1>3 DEF NewsNext, ChangeUniverse
<1>4. ASSUME NewsNext, NEW i \in Ingesters, FetchFeeds(i) \/ Ingest(i) PROVE NewsInv'
  BY <1>4, FetchFeedsStep, DedupeStep, InsertArticleStep, SkipArticleStep, ListArticlesStep,
     CommitNewsStep, ReadTaggedStep, WriteSentimentStep DEF NewsNext, Ingest
<1>5. ASSUME NewsNext, NEW i \in Ingesters, DeadlockVictim(i) \/ Crash(i) PROVE NewsInv'
  <2>1. Rollback(i) /\ at[i] \in InFlight
    BY <1>5 DEF DeadlockVictim, Crash, BlockedBy, InFlight
  <2> QED
    BY <1>5, <2>1, RollbackStep DEF NewsNext
<1> QED
  BY <1>2, <1>3, <1>4, <1>5 DEF NewsNext, Step

(* An ingest that completes has stored what its feeds returned or a copy of it,
   whatever other ingests insert, commit or roll back meanwhile; one that ran
   alone leaves exact tags and exact sentiment rows, whatever failed before it
   (NewsService.ingest and aggregate). *)
THEOREM CompletedIngestsStayExact == NewsSpec => CompletedIngestIsExact
<1> DEFINE Exact(i) ==
             /\ \A a \in fetched[i] : \E b \in fetched[i] : Clash(a, b) /\ ClashIn(articles', b)
             /\ serialised => /\ \A a \in fetched[i] : ClashIn(articles', a)
                              /\ tags' = Desired(articles', aliasesRead[i])
                              /\ sentiment' = Aggregated(tags')
<1>1. ASSUME NewsInv, NEW i \in Ingesters, WriteSentiment(i) PROVE Exact(i)
  <2>1. /\ at[i] = "write" /\ articles' = articles /\ tags' = tags
        /\ sentiment' = Aggregated(rows[i])
    BY <1>1 DEF WriteSentiment, Reaches
  <2>2. written[i] = {} /\ todo[i] = <<>> /\ Range(todo[i]) = {}
    BY <1>1, <2>1 DEF NewsInv, NothingIsLost, Range
  <2>3. \A a \in fetched[i] : \E b \in fetched[i] : Clash(a, b) /\ ClashIn(articles, b)
    BY <1>1, <2>1, <2>2 DEF NewsInv, NothingIsLost, InHand
  <2>4. ASSUME serialised
        PROVE  /\ \A a \in fetched[i] : ClashIn(articles, a)
               /\ tags = Desired(articles, aliasesRead[i]) /\ rows[i] = tags
    <3>1. RunsAlone(i) /\ articles \cup written[i] \cup Range(todo[i]) = articles
      BY <1>1, <2>2, <2>4 DEF NewsInv
    <3> QED
      BY <2>1, <3>1 DEF RunsAlone
  <2>5. sentiment' = Aggregated(rows[i]) /\ (serialised => rows[i] = tags')
    BY <2>1, <2>4
  <2> QED
    BY <2>1, <2>3, <2>4, <2>5
<1>2. ASSUME NewsInv, NewsNext, NEW i \in Ingesters, at[i] = "write", at'[i] = "done"
      PROVE  WriteSentiment(i)
  <2>1. ~ ChangeUniverse
    BY <1>2 DEF ChangeUniverse, ingester
  <2>2. PICK j \in Ingesters : FetchFeeds(j) \/ Ingest(j) \/ DeadlockVictim(j) \/ Crash(j)
    BY <1>2, <2>1 DEF NewsNext, Step
  <2>3. j = i
    BY <1>2, <2>2 DEF FetchFeeds, Ingest, Dedupe, InsertArticle, SkipArticle, ListArticles,
       CommitNews, ReadTagged, WriteSentiment, DeadlockVictim, Crash, Rollback, Reaches,
       NewsInv, NewsTypeInv
  <2>4. ~ FetchFeeds(i) /\ ~ DeadlockVictim(i)
    BY <1>2 DEF FetchFeeds, Resting, DeadlockVictim, BlockedBy
  <2>5. ~ Crash(i)
    BY <1>2 DEF Crash, Rollback, NewsInv, NewsTypeInv
  <2> QED
    BY <1>2, <2>2, <2>3, <2>4, <2>5 DEF Ingest, Dedupe, InsertArticle, SkipArticle, ListArticles,
       CommitNews, ReadTagged, Reaches
<1>3. NewsInv /\ [NewsNext]_newsVars =>
        [\A i \in Ingesters : at[i] = "write" /\ at'[i] = "done" => Exact(i)]_newsVars
  BY <1>1, <1>2
<1> QED
  BY <1>3, NewsInvInit, NewsInvStep, PTL DEF NewsSpec, CompletedIngestIsExact
=============================================================================
