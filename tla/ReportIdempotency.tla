--------------------------- MODULE ReportIdempotency ---------------------------
(***************************************************************************)
(* POST /reports/generate with an optional Idempotency-Key header          *)
(* (backend/app/intelligence/service.py, backend/app/reports/).  A request *)
(* runs in one database transaction: a pre-read by key hash, the report    *)
(* generation, an INSERT ... ON CONFLICT DO NOTHING, a second read when    *)
(* the insert lost, and the commit.                                        *)
(*                                                                         *)
(* PostgreSQL runs at READ COMMITTED: a statement sees what is committed   *)
(* when it starts, and an insert that meets an uncommitted row with the    *)
(* same unique hash waits for that row's transaction to end.  A stored     *)
(* report is identified by the request that wrote it.                      *)
(***************************************************************************)

CONSTANTS
  Requests,    \* HTTP requests, each a task of the API server
  Users,       \* authenticated callers
  Keys,        \* opaque values of the Idempotency-Key header
  NoKey,       \* the header is absent
  None         \* no report

ASSUME NoKeyAssumption == NoKey \notin Keys
ASSUME NoneAssumption  == None \notin Requests

VARIABLES
  pc,          \* where each request is in generate_report
  user, key,   \* the arguments of each request
  inserted,    \* reports written by transactions that have not ended
  reports,     \* committed reports
  answer       \* the report generate_report is about to return

args == <<user, key>>
vars == <<pc, user, key, inserted, reports, answer>>

Active  == {"check", "generate", "insert", "reread", "commit", "reply"}
Ended   == {"answered", "failed", "no_winner", "lost"}
Program == {"idle"} \cup Active \cup Ended

Init ==
  /\ pc = [r \in Requests |-> "idle"]
  /\ user \in [Requests -> Users]
  /\ key \in [Requests -> Keys \cup {NoKey}]
  /\ inserted = {}
  /\ reports = {}
  /\ answer = [r \in Requests |-> None]

Goto(r, from, to) == pc[r] = from /\ pc' = [pc EXCEPT ![r] = to]

BugScope(r) == key[r]            \* the owner is left out of the hashed payload

(* scope_idempotency_key: equal hashes are equal owners and equal keys. *)
Scope(r) == <<user[r], key[r]>>

Keyed(r) == key[r] # NoKey

(* The rows of a set that carry the unique hash of request r. *)
Matching(rows, r) == {e \in rows : Keyed(e) /\ Keyed(r) /\ Scope(e) = Scope(r)}

Receive(r) ==
  /\ Goto(r, "idle", "check")
  /\ UNCHANGED <<args, inserted, reports, answer>>

(* The pre-read is an optimisation: it answers a retry of a finished call. *)
FindExisting(r) ==
  /\ Goto(r, "check", "reply")
  /\ \E e \in Matching(reports, r) : answer' = [answer EXCEPT ![r] = e]
  /\ UNCHANGED <<args, inserted, reports>>

StartGeneration(r) ==
  /\ Goto(r, "check", "generate")
  /\ Matching(reports, r) = {}
  /\ UNCHANGED <<args, inserted, reports, answer>>

Generated(r) ==
  /\ Goto(r, "generate", "insert")
  /\ UNCHANGED <<args, inserted, reports, answer>>

(* validate_report, a narrator or a query raises: get_db rolls back. *)
GenerationFails(r) ==
  /\ Goto(r, "generate", "failed")
  /\ UNCHANGED <<args, inserted, reports, answer>>

BugInsert(r) ==                  \* a plain INSERT guarded by the pre-read alone
  /\ Goto(r, "insert", "commit")
  /\ inserted' = inserted \cup {r}
  /\ answer' = [answer EXCEPT ![r] = r]
  /\ UNCHANGED <<args, reports>>

Insert(r) ==
  /\ Goto(r, "insert", "commit")
  /\ Matching(inserted \cup reports, r) = {}
  /\ inserted' = inserted \cup {r}
  /\ answer' = [answer EXCEPT ![r] = r]
  /\ UNCHANGED <<args, reports>>

BugInsertConflicts(r) ==         \* gives up without waiting for the other transaction
  /\ Goto(r, "insert", "reread")
  /\ Matching(inserted \cup reports, r) # {}
  /\ UNCHANGED <<args, inserted, reports, answer>>

InsertConflicts(r) ==
  /\ Goto(r, "insert", "reread")
  /\ Matching(reports, r) # {}
  /\ UNCHANGED <<args, inserted, reports, answer>>

(* The second read; without a row it raises RuntimeError("Idempotent report
   insert lost without a winner"). *)
ReadWinner(r) ==
  LET winner == Matching(reports, r) IN
  /\ Goto(r, "reread", IF winner = {} THEN "no_winner" ELSE "commit")
  /\ \E e \in IF winner = {} THEN {None} ELSE winner : answer' = [answer EXCEPT ![r] = e]
  /\ UNCHANGED <<args, inserted, reports>>

Commit(r) ==
  /\ Goto(r, "commit", "reply")
  /\ reports' = reports \cup (inserted \cap {r})
  /\ inserted' = inserted \ {r}
  /\ UNCHANGED <<args, answer>>

Reply(r) ==
  /\ Goto(r, "reply", "answered")
  /\ UNCHANGED <<args, inserted, reports, answer>>

BugDisconnect(r) ==              \* the session outlives its handler
  /\ pc[r] \in Active
  /\ pc' = [pc EXCEPT ![r] = "lost"]
  /\ UNCHANGED <<args, inserted, reports, answer>>

(* The API process dies or the task is cancelled: PostgreSQL rolls back. *)
Disconnect(r) ==
  /\ pc[r] \in Active
  /\ pc' = [pc EXCEPT ![r] = "lost"]
  /\ inserted' = inserted \ {r}
  /\ UNCHANGED <<args, reports, answer>>

Handler(r) ==
  \/ FindExisting(r) \/ StartGeneration(r)
  \/ Generated(r) \/ GenerationFails(r)
  \/ Insert(r) \/ InsertConflicts(r) \/ ReadWinner(r)
  \/ Commit(r) \/ Reply(r)

Next == \E r \in Requests : Receive(r) \/ Handler(r) \/ Disconnect(r)

(* A running handler is scheduled; nothing makes a client call or a process die. *)
Fairness == \A r \in Requests : WF_vars(Handler(r))

Spec == Init /\ [][Next]_vars /\ Fairness

-----------------------------------------------------------------------------
(* The types of the variables; an open transaction belongs to a request that
   has inserted and not yet ended. *)
TypeOK ==
  /\ pc \in [Requests -> Program]
  /\ user \in [Requests -> Users]
  /\ key \in [Requests -> Keys \cup {NoKey}]
  /\ inserted \subseteq {r \in Requests : pc[r] = "commit"}
  /\ reports \subseteq {r \in Requests : pc[r] \in {"reply", "answered", "lost"}}
  /\ answer \in [Requests -> Requests \cup {None}]

SameCall(a, b) == user[a] = user[b] /\ key[a] = key[b]

(* However many retries of one call overlap, crash or lose their answer, at
   most one report is stored for an owner and a key. *)
OneReportPerKey ==
  \A a, b \in reports : Keyed(a) /\ SameCall(a, b) => a = b

(* A caller is given a report that is stored and is its own call's: a retry
   gets the original, a call without a key a new report, and two users of the
   same opaque key never each other's. *)
AnswersAreOriginal ==
  \A r \in Requests : pc[r] \in {"reply", "answered"} =>
    /\ answer[r] \in reports
    /\ SameCall(answer[r], r)
    /\ ~Keyed(r) => answer[r] = r

(* The "defensive" error of create_report is unreachable: the row that made
   an insert do nothing is visible to the read that follows it. *)
WinnerIsVisible == \A r \in Requests : pc[r] # "no_winner"

(* Retries of one call converge, whoever of them wins: one report, the same
   answer for all, and never the error of a lost insert without a winner. *)
RetriesConverge ==
  /\ OneReportPerKey
  /\ AnswersAreOriginal
  /\ WinnerIsVisible

(* No request waits for ever: the transaction an insert waits for commits or
   is rolled back. *)
EveryRequestEnds ==
  \A r \in Requests : pc[r] = "check" ~> pc[r] \in Ended
=============================================================================
