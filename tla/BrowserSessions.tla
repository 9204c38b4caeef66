--------------------------- MODULE BrowserSessions ---------------------------
(***************************************************************************)
(* One user's browser and the session endpoints of the backend: the tabs   *)
(* run frontend/lib/api.ts (requests, single-flight refresh) and           *)
(* auth-context.tsx (the session state a tab shows), share one cookie jar  *)
(* and tell each other about logins, logouts and rotations                 *)
(* (auth-events.ts); the backend keeps the sessions rows                   *)
(* (backend/app/auth/service.py, dependencies.py, routes.py).              *)
(*                                                                         *)
(* The access and the refresh cookie are always set and cleared together   *)
(* and carry the same jti, so the jar is one session id, with 0 for none;  *)
(* `fresh' holds the sessions whose access token has not expired.  The     *)
(* CSRF token a tab remembers is the HMAC of a session id: that id here.   *)
(* A request takes its cookies when it is sent and sets cookies when its   *)
(* answer arrives; requests and answers of different tabs overtake each    *)
(* other.                                                                  *)
(***************************************************************************)
EXTENDS Naturals, Sequences, SequencesExt, FiniteSets

CONSTANTS
  Tabs,           \* open documents
  Slots,          \* bound: calls a tab has in flight, hydration included
  MaxSessions,    \* bound: rows of sessions
  Scenarios,      \* bounds: documents that load, things the user does, and
                  \* troubles: access tokens that expire, answers that are lost
  PromptTabs      \* TRUE: tabs settle well within an access token's 30 minutes

ASSUME SlotsAssumption  == "refresh" \notin Slots
ASSUME PromptAssumption == PromptTabs \in BOOLEAN

ASSUME ScenariosAssumption ==
  Scenarios \subseteq [documents : Nat, actions : Nat, troubles : Nat]

VARIABLES
  scenario,       \* the bounds of this behaviour
  sessions,       \* rows of sessions: [live, parent]
  fresh,          \* sessions whose access token is unexpired
  jar,            \* session of the browser's cookies
  csrf,           \* csrfToken of each document
  status, user,   \* AuthProvider: status, and whether it holds a user
  inbox,          \* auth events on their way to each document
  net,            \* per document, the call in each slot and the refresh
  actions, expiries, outages    \* how much of each bound is spent

server  == <<sessions, fresh>>
tab     == <<csrf, status, user>>
budgets == <<scenario, actions, expiries, outages>>
vars    == <<server, jar, tab, inbox, net, budgets>>

Channels == Slots \cup {"refresh"}

None == [path |-> "none", at |-> "idle", latest |-> FALSE, retried |-> FALSE,
         jar |-> 0, csrf |-> 0, reply |-> "none", sid |-> 0]

(* A browser that was restarted, signed out or not: the access token may have
   expired, and no document has loaded. *)
Init ==
  /\ scenario \in Scenarios
  /\ jar \in {0, 1}
  /\ sessions = <<[live |-> jar = 1, parent |-> 0]>>
  /\ fresh \in SUBSET {1}
  /\ csrf = [t \in Tabs |-> 0]
  /\ status = [t \in Tabs |-> "closed"]
  /\ user = [t \in Tabs |-> FALSE]
  /\ inbox = [t \in Tabs |-> <<>>]
  /\ net = [t \in Tabs |-> [c \in Channels |-> None]]
  /\ actions = 0 /\ expiries = 0 /\ outages = 0

Live(sid) == sid # 0 /\ sessions[sid].live

Idle(t, c) == net[t][c].at = "idle"

(* Only protected POSTs carry the X-CSRF-Token header. *)
Posts == {"api", "logout", "rotate"}

Request(path, cookies, token) ==
  [None EXCEPT !.path = path, !.at = "sent", !.jar = cookies,
               !.csrf = IF path \in Posts THEN token ELSE 0]

Put(t, c, fetch) == net' = [net EXCEPT ![t] = [net[t] EXCEPT ![c] = fetch]]

(* A document that has loaded hears the event; a repeat of the event it is still
   to hear, such as the storage copy of a broadcast, adds nothing. *)
Publish(event) ==
  inbox' = [t \in Tabs |->
              IF status[t] = "closed" \/ (inbox[t] # <<>> /\ Last(inbox[t]) = event)
                THEN inbox[t]
                ELSE Append(inbox[t], event)]

-----------------------------------------------------------------------------
(* hydrate: a newer one makes the result of an older one irrelevant. *)

(* Mutation: results are shown whatever was asked for since. *)
BugOutdated(calls) == calls

Outdated(calls) == [c \in Channels |-> [calls[c] EXCEPT !.latest = FALSE]]

(* Slots are interchangeable. *)
HasRoom(t) == \E s \in Slots : Idle(t, s)

FreeSlot(t) == CHOOSE s \in Slots : Idle(t, s)

Hydrate(t, next) ==
  /\ HasRoom(t)
  /\ net' = [net EXCEPT ![t] =
               [Outdated(net[t]) EXCEPT ![FreeSlot(t)] =
                  [Request("session", jar, 0) EXCEPT !.latest = TRUE]]]
  /\ status' = [status EXCEPT ![t] = next]

Mount(t) ==
  /\ status[t] = "closed"
  /\ Cardinality({o \in Tabs : status[o] # "closed"}) < scenario.documents
  /\ Hydrate(t, "checking")
  /\ UNCHANGED <<server, jar, csrf, user, inbox, budgets>>

(* "Try again" on the page of the unavailable state. *)
TryAgain(t) ==
  /\ status[t] = "unavailable"
  /\ Hydrate(t, "refreshing")
  /\ UNCHANGED <<server, jar, csrf, user, inbox, budgets>>

(* An auth event reaches its listener; the tab that published it listens too,
   through another BroadcastChannel object. *)
Listen(t) ==
  /\ inbox[t] # <<>>
  /\ inbox' = [inbox EXCEPT ![t] = Tail(@)]
  /\ IF Head(inbox[t]) = "logout"
       THEN /\ net' = [net EXCEPT ![t] = Outdated(net[t])]
            /\ user' = [user EXCEPT ![t] = FALSE]
            /\ status' = [status EXCEPT ![t] = "unauthenticated"]
       ELSE /\ Hydrate(t, IF Head(inbox[t]) = "session" THEN "refreshing"
                                                        ELSE "checking")
            /\ UNCHANGED user
  /\ UNCHANGED <<server, jar, csrf, budgets>>

-----------------------------------------------------------------------------
(* What the user does: a protected POST, a logout, a login. *)

Act(t, path, allowed) ==
  /\ actions < scenario.actions
  /\ status[t] \in allowed
  /\ HasRoom(t)
  /\ Put(t, FreeSlot(t), Request(path, jar, csrf[t]))
  /\ actions' = actions + 1
  /\ UNCHANGED <<server, jar, tab, inbox, scenario, expiries, outages>>

Call(t)   == Act(t, "api", {"authenticated"})
Logout(t) == Act(t, "logout", {"authenticated"})
Login(t)  == Act(t, "login", {"unauthenticated", "expired"})

-----------------------------------------------------------------------------
(* The backend. *)

(* get_auth_context: the access token is unexpired and its row is live; a POST
   also carries the token derived from the session. *)
Authorised(f) ==
  /\ f.jar \in fresh /\ Live(f.jar)
  /\ f.path \in {"api", "logout"} => f.csrf = f.jar

(* _resolve_refresh_session, and the CSRF comparison of the refresh route. *)
Resolves(f) == Live(f.jar) /\ (f.path = "rotate" => f.csrf = f.jar)

Answered(t, c, reply, sid) ==
  Put(t, c, [net[t][c] EXCEPT !.at = "replied", !.reply = reply, !.sid = sid,
                              !.jar = 0, !.csrf = 0])

Granted(t, c, ok) ==
  Answered(t, c, IF ok THEN "ok" ELSE "denied", IF ok THEN net[t][c].jar ELSE 0)

Open(parent) == Append(sessions, [live |-> TRUE, parent |-> parent])

Served(t, c, paths) == net[t][c].at = "sent" /\ net[t][c].path \in paths

ServeRead(t, c) ==
  /\ Served(t, c, {"session", "api", "probe"})
  /\ Granted(t, c, Authorised(net[t][c]))
  /\ UNCHANGED <<server, jar, tab, inbox, budgets>>

ServeCsrf(t, c) ==
  /\ Served(t, c, {"csrf"})
  /\ Granted(t, c, Resolves(net[t][c]))
  /\ UNCHANGED <<server, jar, tab, inbox, budgets>>

(* logout and refresh first look at the row, then change it. *)
Resolved(t, c, path) == net[t][c].at = "resolved" /\ net[t][c].path = path

Resolve(t, c, path, granted) ==
  /\ Served(t, c, {path})
  /\ IF granted
       THEN Put(t, c, [net[t][c] EXCEPT !.at = "resolved"])
       ELSE Answered(t, c, "denied", 0)
  /\ UNCHANGED <<server, jar, tab, inbox, budgets>>

ResolveLogout(t, c) == Resolve(t, c, "logout", Authorised(net[t][c]))

(* A session that was rotated meanwhile is revoked again. *)
ServeLogout(t, c) ==
  /\ Resolved(t, c, "logout")
  /\ sessions' = [sessions EXCEPT ![net[t][c].jar] = [@ EXCEPT !.live = FALSE]]
  /\ Granted(t, c, TRUE)
  /\ UNCHANGED <<fresh, jar, tab, inbox, budgets>>

ServeLogin(t, c) ==
  /\ Served(t, c, {"login"})
  /\ Len(sessions) < MaxSessions
  /\ sessions' = Open(0)
  /\ fresh' = fresh \cup {Len(sessions')}
  /\ Answered(t, c, "ok", Len(sessions'))
  /\ UNCHANGED <<jar, tab, inbox, budgets>>

(* The refresh route up to the row lock. *)
ResolveRefresh(t, c) == Resolve(t, c, "rotate", Resolves(net[t][c]))

(* Mutation: the row read before the lock is trusted after it. *)
BugRotate(t, c) ==
  LET old == net[t][c].jar IN
  /\ Resolved(t, c, "rotate")
  /\ Len(sessions) < MaxSessions
  /\ sessions' = [Open(old) EXCEPT ![old] = [@ EXCEPT !.live = FALSE]]
  /\ fresh' = fresh \cup {Len(sessions')}
  /\ Answered(t, c, "ok", Len(sessions'))
  /\ UNCHANGED <<jar, tab, inbox, budgets>>

(* AuthService.refresh from the lock to the commit: the row is read again. *)
Rotate(t, c) ==
  LET old == net[t][c].jar IN
  /\ Resolved(t, c, "rotate")
  /\ Len(sessions) < MaxSessions
  /\ IF Live(old)
       THEN /\ sessions' = [Open(old) EXCEPT ![old] = [@ EXCEPT !.live = FALSE]]
            /\ fresh' = fresh \cup {Len(sessions')}
            /\ Answered(t, c, "ok", Len(sessions'))
       ELSE Answered(t, c, "denied", 0) /\ UNCHANGED server
  /\ UNCHANGED <<jar, tab, inbox, budgets>>

Serve(t, c) ==
  ServeRead(t, c) \/ ServeCsrf(t, c) \/ ServeLogin(t, c)
    \/ ResolveLogout(t, c) \/ ServeLogout(t, c)
    \/ ResolveRefresh(t, c) \/ Rotate(t, c)

-----------------------------------------------------------------------------
(* The single-flight refresh of a document. *)

(* performRefresh starts with the CSRF bootstrap when no token is remembered. *)
FirstRefreshFetch(t) ==
  Request(IF csrf[t] = 0 THEN "csrf" ELSE "rotate", jar, csrf[t])

(* A call that failed with 401 for good: only the latest hydration shows it. *)
ShowDenied(t, hydrating) ==
  IF hydrating
    THEN /\ status' = [status EXCEPT ![t] = IF user[t] THEN "expired"
                                                      ELSE "unauthenticated"]
         /\ user' = [user EXCEPT ![t] = FALSE]
    ELSE UNCHANGED <<status, user>>

Waiting(t) == {s \in Slots : net[t][s].at = "waiting"}

(* refreshPromise resolves TRUE: the calls that waited for it are retried. *)
RefreshSucceeds(t, token, cookies) ==
  net' = [net EXCEPT ![t] =
    [c \in Channels |->
       IF c = "refresh" THEN None
       ELSE IF c \in Waiting(t)
         THEN [Request(net[t][c].path, cookies, token) EXCEPT
                 !.retried = TRUE, !.latest = net[t][c].latest]
         ELSE net[t][c]]]

(* It resolves FALSE, and each of them fails with its own 401. *)
RefreshFails(t) ==
  /\ net' = [net EXCEPT ![t] =
       [c \in Channels |->
          IF c = "refresh" \/ c \in Waiting(t) THEN None ELSE net[t][c]]]
  /\ ShowDenied(t, \E s \in Waiting(t) : net[t][s].latest)

RefreshReply(t, path, replies) ==
  /\ net[t]["refresh"].at = "replied"
  /\ net[t]["refresh"].path = path
  /\ net[t]["refresh"].reply \in replies

CsrfReceived(t) ==
  /\ RefreshReply(t, "csrf", {"ok"})
  /\ csrf' = [csrf EXCEPT ![t] = net[t]["refresh"].sid]
  /\ Put(t, "refresh", Request("rotate", jar, csrf'[t]))
  /\ UNCHANGED <<server, jar, status, user, inbox, budgets>>

(* Mutation: a rotation is not published. *)
BugRotated(t) ==
  /\ RefreshReply(t, "rotate", {"ok"})
  /\ jar' = net[t]["refresh"].sid
  /\ csrf' = [csrf EXCEPT ![t] = jar']
  /\ RefreshSucceeds(t, jar', jar')
  /\ UNCHANGED <<server, status, user, inbox, budgets>>

Rotated(t) ==
  /\ RefreshReply(t, "rotate", {"ok"})
  /\ jar' = net[t]["refresh"].sid
  /\ csrf' = [csrf EXCEPT ![t] = jar']
  /\ RefreshSucceeds(t, jar', jar')
  /\ Publish("session")
  /\ UNCHANGED <<server, status, user, budgets>>

(* The refresh was refused: another tab may have won the rotation. *)
Probe(t) ==
  /\ RefreshReply(t, "rotate", {"denied"})
  /\ Put(t, "refresh", Request("probe", jar, 0))
  /\ UNCHANGED <<server, jar, tab, inbox, budgets>>

Converge(t) ==
  /\ RefreshReply(t, "probe", {"ok"})
  /\ csrf' = [csrf EXCEPT ![t] = net[t]["refresh"].sid]
  /\ RefreshSucceeds(t, csrf'[t], jar)
  /\ UNCHANGED <<server, jar, status, user, inbox, budgets>>

GiveUp(t) ==
  /\ \/ RefreshReply(t, "csrf", {"denied", "down"})
     \/ RefreshReply(t, "rotate", {"down"})
     \/ RefreshReply(t, "probe", {"denied", "down"})
  /\ RefreshFails(t)
  /\ UNCHANGED <<server, jar, csrf, inbox, budgets>>

Refresh(t) == CsrfReceived(t) \/ Rotated(t) \/ Probe(t) \/ Converge(t) \/ GiveUp(t)

-----------------------------------------------------------------------------
(* The answers to calls. *)

CallReply(t, s, paths, replies) ==
  net[t][s].at = "replied" /\ net[t][s].path \in paths /\ net[t][s].reply \in replies

(* A first 401 waits for the refresh in flight, or starts one. *)
AwaitRefresh(t, s) ==
  /\ CallReply(t, s, {"session", "api", "logout"}, {"denied"})
  /\ ~ net[t][s].retried
  /\ net' = [net EXCEPT ![t] =
       [net[t] EXCEPT
          ![s] = [net[t][s] EXCEPT !.at = "waiting", !.reply = "none"],
          !["refresh"] = IF Idle(t, "refresh") THEN FirstRefreshFetch(t)
                                               ELSE net[t]["refresh"]]]
  /\ UNCHANGED <<server, jar, tab, inbox, budgets>>

DeniedForGood(t, s) ==
  /\ CallReply(t, s, {"session", "api", "logout"}, {"denied"})
  /\ net[t][s].retried
  /\ ShowDenied(t, net[t][s].latest)
  /\ Put(t, s, None)
  /\ UNCHANGED <<server, jar, csrf, inbox, budgets>>

(* The token of any answer is remembered; its user only when it is the latest. *)
SessionReceived(t, s) ==
  /\ CallReply(t, s, {"session"}, {"ok"})
  /\ csrf' = [csrf EXCEPT ![t] = net[t][s].sid]
  /\ IF net[t][s].latest
       THEN /\ user' = [user EXCEPT ![t] = TRUE]
            /\ status' = [status EXCEPT ![t] = "authenticated"]
       ELSE UNCHANGED <<user, status>>
  /\ Put(t, s, None)
  /\ UNCHANGED <<server, jar, inbox, budgets>>

CallReturns(t, s) ==
  /\ \/ CallReply(t, s, {"api"}, {"ok", "down"})
     \/ CallReply(t, s, {"login", "logout"}, {"down"})
  /\ Put(t, s, None)
  /\ UNCHANGED <<server, jar, tab, inbox, budgets>>

(* A hydration that cannot reach the backend keeps the user it had. *)
Unavailable(t, s) ==
  /\ CallReply(t, s, {"session"}, {"down"})
  /\ status' = IF net[t][s].latest THEN [status EXCEPT ![t] = "unavailable"]
                                   ELSE status
  /\ Put(t, s, None)
  /\ UNCHANGED <<server, jar, csrf, user, inbox, budgets>>

(* login and logout set or clear the cookies and supersede every hydration. *)
Superseded(t, s) == net' = [net EXCEPT ![t] = [Outdated(net[t]) EXCEPT ![s] = None]]

LoggedIn(t, s) ==
  /\ CallReply(t, s, {"login"}, {"ok"})
  /\ jar' = net[t][s].sid
  /\ csrf' = [csrf EXCEPT ![t] = jar']
  /\ user' = [user EXCEPT ![t] = TRUE]
  /\ status' = [status EXCEPT ![t] = "authenticated"]
  /\ Superseded(t, s)
  /\ Publish("login")
  /\ UNCHANGED <<server, budgets>>

LoggedOut(t, s) ==
  /\ CallReply(t, s, {"logout"}, {"ok"})
  /\ jar' = 0
  /\ csrf' = [csrf EXCEPT ![t] = 0]
  /\ user' = [user EXCEPT ![t] = FALSE]
  /\ status' = [status EXCEPT ![t] = "unauthenticated"]
  /\ Superseded(t, s)
  /\ Publish("logout")
  /\ UNCHANGED <<server, budgets>>

Receive(t, s) ==
  AwaitRefresh(t, s) \/ DeniedForGood(t, s) \/ SessionReceived(t, s)
    \/ CallReturns(t, s) \/ Unavailable(t, s) \/ LoggedIn(t, s) \/ LoggedOut(t, s)

-----------------------------------------------------------------------------
(* Time and the network. *)

Quiet(t) == inbox[t] = <<>> /\ \A c \in Channels : Idle(t, c)

Expire ==
  /\ expiries + outages < scenario.troubles
  /\ PromptTabs => \A t \in Tabs : Quiet(t)
  /\ expiries' = expiries + 1
  /\ \E sid \in fresh : fresh' = fresh \ {sid}
  /\ UNCHANGED <<sessions, jar, tab, inbox, net, scenario, actions, outages>>

(* The request or its answer is lost, whether or not the backend served it. *)
Outage(t, c) ==
  /\ expiries + outages < scenario.troubles
  /\ net[t][c].at \in {"sent", "replied"}
  /\ net[t][c].reply # "down"
  /\ outages' = outages + 1
  /\ Answered(t, c, "down", 0)
  /\ UNCHANGED <<server, jar, tab, inbox, scenario, actions, expiries>>

Next ==
  \/ Expire
  \/ \E t \in Tabs :
       \/ Mount(t) \/ TryAgain(t) \/ Listen(t)
       \/ Call(t) \/ Logout(t) \/ Login(t)
       \/ Refresh(t)
       \/ \E s \in Slots : Receive(t, s)
       \/ \E c \in Channels : Serve(t, c) \/ Outage(t, c)

(* The browser and the backend carry on; the user, time and outages need not. *)
Progress(t) ==
  Mount(t) \/ Listen(t) \/ Refresh(t)
    \/ (\E s \in Slots : Receive(t, s)) \/ (\E c \in Channels : Serve(t, c))

Spec == Init /\ [][Next]_vars /\ \A t \in Tabs : WF_vars(Progress(t))

-----------------------------------------------------------------------------
(* "lock the row on PostgreSQL so concurrent rotation is serialized"
   (docs/auth.md:54): however many tabs present one refresh token, it is
   exchanged for one successor. *)
OneSuccessor ==
  \A a, b \in DOMAIN sessions :
    sessions[a].parent # 0 /\ sessions[a].parent = sessions[b].parent => a = b

Over(t) == status[t] \in {"unauthenticated", "expired"}

(* Answers on their way that will change the cookies and be published. *)
Announced(t) ==
  \/ inbox[t] # <<>>
  \/ \E o \in Tabs, c \in Channels :
       net[o][c].path \in {"rotate", "login", "logout"} /\ ~ Idle(o, c)

(* A tab that shows the session as over while the cookies still hold a live one
   is about to be told: the loser of a rotation race converges on the winner. *)
LoserIsTold ==
  \A t \in Tabs : outages = 0 /\ Over(t) /\ Live(jar) => Announced(t)

(* Racing refreshes converge: one of them wins, and every other learns of it. *)
RefreshesConverge == OneSuccessor /\ LoserIsTold

(* Once nothing is in flight, every open tab shows what the cookies say: signed
   in exactly when their session is live (docs/phase-13-auth-audit.md:68, "Both
   converge on one session state"). *)
QuietTabsAgree ==
  outages = 0 /\ (\A t \in Tabs : Quiet(t)) =>
    \A t \in Tabs : status[t] # "closed" =>
      (status[t] = "authenticated") = Live(jar)
=============================================================================
