----------------------------- MODULE UniverseSync -----------------------------
(***************************************************************************)
(* UniverseSyncService.sync (backend/app/market/universe_sync.py,          *)
(* universe_repository.py): the official constituents of an index become   *)
(* effective-dated memberships [from, to) and decide which stocks are      *)
(* active.  One advisory lock per index makes the syncs of an index take   *)
(* turns; the syncs of different indices share the stocks and meet only in *)
(* PostgreSQL, at READ COMMITTED.                                          *)
(*                                                                         *)
(* A stock stands for its canonical symbol, a replaced symbol for the      *)
(* retired stock it once named.  Stocks are numbers because the code       *)
(* updates them in sorted order.  Audit rows, dry runs and preflights      *)
(* change nothing that a sync reads and are left out.                      *)
(***************************************************************************)
EXTENDS Integers

CONSTANTS
  Indices,        \* index codes
  Stocks,         \* symbols, current and replaced
  Replacement,    \* resolver overrides: replaced symbol -> canonical symbol
  Lists,          \* what the source may publish
  Adopted,        \* what an index may hold at first
  Scenarios,      \* whether syncs overlap, with bounds: syncs started, and
                  \* mishaps: syncs that raise, processes that die
  MaxDays         \* bound: calendar days

Replaced == DOMAIN Replacement

ASSUME StocksAssumption == Stocks \subseteq Nat \ {0}

ASSUME ReplacementAssumption ==
  Replacement \in [Replaced -> Stocks \ Replaced] /\ Replaced \subseteq Stocks

ASSUME ListsAssumption == Lists \cup Adopted \subseteq SUBSET Stocks

ASSUME ScenariosAssumption ==
  Scenarios \subseteq [serialised : BOOLEAN, syncs : Nat, mishaps : Nat]

VARIABLES
  scenario,       \* serialised: syncs of different indices run one at a time
  today,          \* the date
  members,        \* committed index_memberships
  active,         \* stocks with is_active
  aliases,        \* retired stocks of stock_symbol_aliases
  stored, latest, \* universe_snapshots of each index, and the last one fetched
  pc, sync,       \* where the sync of each index is, and its local variables
  syncs, mishaps  \* how much of each bound is spent

tables  == <<members, active, aliases>>
cached  == <<stored, latest>>
process == <<pc, sync>>
budgets == <<syncs, mishaps>>
vars    == <<scenario, today, tables, cached, process, budgets>>

Open == 0           \* valid_to IS NULL
None == [date |-> 0, list |-> {}]

NoSync == [snapshot |-> None, held |-> {}, seen |-> {}, added |-> {},
           todo |-> {}, locked |-> {}, unheld |-> {}]

Membership(i, s, from, to) == [index |-> i, stock |-> s, from |-> from, to |-> to]

OpenIn(i) == {m.stock : m \in {n \in members : n.index = i /\ n.to = Open}}

Held == UNION {OpenIn(i) : i \in Indices}

(* A deployment some of whose indices have been synchronised, before the
   resolver knew of any replacement. *)
Init ==
  /\ scenario \in Scenarios
  /\ today = 1
  /\ \E old \in [Indices -> Adopted] :
       LET first(i) == [date |-> 1, list |-> old[i]] IN
       /\ members = UNION {{Membership(i, s, 1, Open) : s \in old[i]} : i \in Indices}
       /\ active = UNION {old[i] : i \in Indices}
       /\ stored = [i \in Indices |-> IF old[i] = {} THEN {} ELSE {first(i)}]
       /\ latest = [i \in Indices |-> IF old[i] = {} THEN None ELSE first(i)]
  /\ aliases = {}
  /\ pc = [i \in Indices |-> "idle"]
  /\ sync = [i \in Indices |-> NoSync]
  /\ syncs = 0 /\ mishaps = 0

Goto(i, from, to) == pc[i] = from /\ pc' = [pc EXCEPT ![i] = to]

Set(i, field, value) == sync' = [sync EXCEPT ![i] = [@ EXCEPT ![field] = value]]

BugEnd(i) ==                  \* the transaction of a failed sync is not rolled back
  /\ pc' = [pc EXCEPT ![i] = "idle"]
  /\ UNCHANGED sync

End(i) ==
  /\ pc' = [pc EXCEPT ![i] = "idle"]
  /\ sync' = [sync EXCEPT ![i] = NoSync]

-----------------------------------------------------------------------------
(* What a sync computes from its local variables *)

Resolve(x) == IF x \in Replaced THEN Replacement[x] ELSE x

Candidates(list) == {Resolve(x) : x \in list}

(* Two constituents that resolve to one symbol make the sync fail. *)
Ambiguous(list) == \E x, y \in list : x # y /\ Resolve(x) = Resolve(y)

List(i) == sync[i].snapshot.list
Date(i) == sync[i].snapshot.date

Unchanged(i) == sync[i].held \cap Candidates(List(i))

BugRemoved(i) == sync[i].held \ sync[i].added   \* keeps only what was validated

Removed(i) == sync[i].held \ Candidates(List(i))

(* _persist_alias: activating a replacement retires the stock it replaces. *)
Retired(i) == {x \in List(i) \cap Replaced : Resolve(x) \in sync[i].added}

(* sorted(unchanged), then sorted(additions) *)
Before(i, s, r) ==
  IF s \in sync[i].held <=> r \in sync[i].held THEN s <= r ELSE s \in sync[i].held

LockedByOther(i) == UNION {sync[j].locked : j \in Indices \ {i}}

-----------------------------------------------------------------------------
(* A sync.  One that gets no usable list ends without a trace and is left out. *)

Start(i) ==
  /\ syncs < scenario.syncs
  /\ scenario.serialised => \A j \in Indices : pc[j] = "idle"
  /\ Goto(i, "idle", "diff")
  /\ syncs' = syncs + 1

(* The provider's list is stored; ON CONFLICT DO NOTHING keeps the first fetch
   of a list within one day.  Only this sync uses the snapshots of its index. *)
Fetch(i) ==
  /\ Start(i)
  /\ \E list \in Lists :
       LET snapshot == [date |-> today, list |-> list] IN
       /\ ~Ambiguous(list)
       /\ Set(i, "snapshot", snapshot)
       /\ stored' = [stored EXCEPT ![i] = @ \cup {snapshot}]
       /\ latest' = [latest EXCEPT ![i] = IF snapshot \in stored[i] THEN @ ELSE snapshot]
  /\ UNCHANGED <<scenario, today, tables, mishaps>>

BugFallBack(i) ==             \* any stored snapshot will do
  /\ Start(i)
  /\ \E snapshot \in stored[i] :
       ~Ambiguous(snapshot.list) /\ Set(i, "snapshot", snapshot)
  /\ UNCHANGED <<scenario, today, tables, cached, mishaps>>

(* The provider fails: the newest stored snapshot is used. *)
FallBack(i) ==
  /\ latest[i] # None
  /\ ~Ambiguous(latest[i].list)
  /\ Start(i)
  /\ Set(i, "snapshot", latest[i])
  /\ UNCHANGED <<scenario, today, tables, cached, mishaps>>

(* The open memberships are read, and new candidates validated for as long as
   the market data provider takes. *)
Diff(i) ==
  LET held       == OpenIn(i)
      candidates == Candidates(List(i)) IN
  /\ Goto(i, "diff", "upsert")
  /\ \E healthy \in SUBSET (candidates \ held) :
       sync' = [sync EXCEPT ![i] =
                  [@ EXCEPT !.held = held, !.seen = held \cap active,
                            !.added = healthy, !.todo = (candidates \cap held) \cup healthy]]
  /\ UNCHANGED <<scenario, today, tables, cached, budgets>>

(* refresh_metadata, activate: an upsert that sets is_active and locks the row. *)
Upsert(i) ==
  /\ pc[i] = "upsert"
  /\ \E s \in sync[i].todo \ LockedByOther(i) :
       /\ \A r \in sync[i].todo : Before(i, s, r)
       /\ sync' = [sync EXCEPT ![i] =
                     [@ EXCEPT !.todo = sync[i].todo \ {s},
                               !.locked = sync[i].locked \cup {s}]]
  /\ UNCHANGED <<scenario, today, tables, cached, pc, budgets>>

(* The flush of deactivate_removed writes memberships and retired stocks. *)
Flush(i) ==
  /\ Goto(i, "upsert", "check")
  /\ sync[i].todo = {}
  /\ Retired(i) \cap LockedByOther(i) = {}
  /\ sync' = [sync EXCEPT ![i] =
                [@ EXCEPT !.todo = Removed(i),
                          !.locked = sync[i].locked \cup Retired(i)]]
  /\ UNCHANGED <<scenario, today, tables, cached, budgets>>

BugHeldElsewhere(i, s) ==     \* closed memberships count
  \E m \in members : m.index # i /\ m.stock = s

(* Does another index hold the stock?  Each stock is asked about on its own,
   and only what is committed is seen. *)
HeldElsewhere(i, s) == \E j \in Indices \ {i} : s \in OpenIn(j)

CheckOther(i) ==
  /\ pc[i] = "check"
  /\ \E s \in sync[i].todo :
       /\ \A r \in sync[i].todo : s <= r
       /\ sync' = [sync EXCEPT ![i] =
                     [@ EXCEPT !.todo = sync[i].todo \ {s},
                               !.unheld = sync[i].unheld \cup
                                            (IF HeldElsewhere(i, s) THEN {} ELSE {s})]]
  /\ UNCHANGED <<scenario, today, tables, cached, pc, budgets>>

(* Only a stock that was read as active is written. *)
Deactivated(i) == sync[i].unheld \cap sync[i].seen

Deactivate(i) ==
  /\ pc[i] = "check"
  /\ sync[i].todo = {}
  /\ \E s \in Deactivated(i) \ (sync[i].locked \cup LockedByOther(i)) :
       /\ \A r \in Deactivated(i) \ sync[i].locked : s <= r
       /\ Set(i, "locked", sync[i].locked \cup {s})
  /\ UNCHANGED <<scenario, today, tables, cached, pc, budgets>>

(* A membership that began on the snapshot's date is reopened. *)
Applied(i) ==
  LET closed == {IF m.index = i /\ m.stock \in Removed(i) /\ m.to = Open
                 THEN [m EXCEPT !.to = Date(i)] ELSE m : m \in members}
      resumed(m) == m.index = i /\ m.stock \in sync[i].added /\ m.from = Date(i) IN
  {m \in closed : ~resumed(m)}
    \cup {Membership(i, s, Date(i), Open) : s \in sync[i].added}

Commit(i) ==
  /\ pc[i] = "check"
  /\ sync[i].todo = {}
  /\ Deactivated(i) \subseteq sync[i].locked
  /\ members' = Applied(i)
  /\ active' = (active \cup Unchanged(i) \cup sync[i].added)
                 \ (Retired(i) \cup Deactivated(i))
  /\ aliases' = aliases \cup Retired(i)
  /\ End(i)
  /\ UNCHANGED <<scenario, today, cached, budgets>>

(* The rows sync i asks for next. *)
Wanted(i) ==
  CASE pc[i] = "upsert" /\ sync[i].todo # {} ->
         {s \in sync[i].todo : \A r \in sync[i].todo : Before(i, s, r)}
    [] pc[i] = "upsert" /\ sync[i].todo = {} -> Retired(i)
    [] pc[i] = "check" /\ sync[i].todo = {} ->
         LET rest == Deactivated(i) \ sync[i].locked IN
         {s \in rest : \A r \in rest : s <= r}
    [] OTHER -> {}

WaitsFor(i, j) == Wanted(i) \cap sync[j].locked # {}

(* PostgreSQL aborts one of two transactions that wait for each other. *)
DeadlockAbort(i) ==
  /\ \E j \in Indices \ {i} : WaitsFor(i, j) /\ WaitsFor(j, i)
  /\ End(i)
  /\ UNCHANGED <<scenario, today, tables, cached, budgets>>

(* An exception rolls the transaction back; a dead process loses its session. *)
Fail(i) ==
  /\ pc[i] # "idle"
  /\ mishaps < scenario.mishaps
  /\ mishaps' = mishaps + 1
  /\ End(i)
  /\ UNCHANGED <<scenario, today, tables, cached, syncs>>

NextDay ==
  /\ today < MaxDays
  /\ today' = today + 1
  /\ UNCHANGED <<scenario, tables, cached, process, budgets>>

Progress(i) ==
  \/ Diff(i) \/ Upsert(i) \/ Flush(i) \/ CheckOther(i)
  \/ Deactivate(i) \/ Commit(i) \/ DeadlockAbort(i)

Next ==
  \/ \E i \in Indices : Fetch(i) \/ FallBack(i) \/ Progress(i) \/ Fail(i)
  \/ NextDay

(* A running sync goes on: every wait is for a call with a timeout or for a
   transaction that itself goes on. *)
Fairness == \A i \in Indices : WF_vars(Progress(i))

Spec == Init /\ [][Next]_vars /\ Fairness

-----------------------------------------------------------------------------
Apart(m, n) == m.to # Open /\ m.to <= n.from

(* The membership history of a stock in an index is a sequence of periods
   [from, to) that do not overlap, of which at most one is open, whatever
   mixture of daily syncs, repeated syncs of one day, fallbacks and failures
   wrote it: every day has one answer to who was a member. *)
HistoryIsOrdered ==
  \A m, n \in members :
    /\ m.to # Open => m.from <= m.to
    /\ m.index = n.index /\ m.stock = n.stock /\ m # n => Apart(m, n) \/ Apart(n, m)

Quiet == \A i \in Indices : pc[i] = "idle"

(* The history is in order, and as long as syncs of different indices do not
   overlap, a stock is active exactly when some index holds it and no replacement
   has retired it, whatever failed on the way. *)
MembershipsAreConsistent ==
  /\ HistoryIsOrdered
  /\ scenario.serialised /\ Quiet => active = Held \ aliases

(* A stock leaves an index only because a list the source published on the
   last day it answered was without it: no outage, failed validation, failed
   sync or sync of another index evicts an approved constituent. *)
EvictionsAreSourced ==
  [][\A i \in Indices : \A s \in OpenIn(i) \ OpenIn(i)' :
       \E snapshot \in stored[i] :
         /\ snapshot.date = latest[i].date
         /\ s \notin Candidates(snapshot.list)]_vars

(* Every sync ends, also when two of them wait for each other's rows. *)
EverySyncEnds == \A i \in Indices : pc[i] # "idle" ~> pc[i] = "idle"

(* docs/dynamic-universe.md: removal sets a stock inactive only when it has no
   other open membership.  Stated for the moments when no sync is running. *)
MembersAreActive == Quiet => Held \ aliases \subseteq active
=============================================================================
