------------------------------- MODULE Accounts -------------------------------
(***************************************************************************)
(* Accounts and sign-in: AuthService and AuthRepository                    *)
(* (backend/app/auth), the Google callback (google.py, routes.py), the     *)
(* password links (password_reset.py) and the sliding-window limiter of    *)
(* dependencies.py.                                                        *)
(*                                                                         *)
(* Requests run concurrently, each in its own transaction: what a request  *)
(* reads may be gone when it commits, and PostgreSQL makes the later of    *)
(* two equal inserts wait and then fail, so an insert and its commit are   *)
(* one step.  No code clears is_active: its checks pass.  Refresh, logout  *)
(* and the cookies are BrowserSessions.                                    *)
(***************************************************************************)
EXTENDS Naturals, Sequences, SequencesExt, FiniteSets

CONSTANTS
  Requests,       \* requests of this behaviour, each served once
  Emails,         \* normalised addresses
  Subjects,       \* Google's subjects
  Secrets,        \* passwords
  MaxAttempts,    \* login_rate_limit_attempts
  Window,         \* login_rate_limit_window_seconds
  LastTick,       \* bound: ticks of the monotonic clock
  NoOne           \* None

ASSUME AccountsAssumption ==
  /\ MaxAttempts \in Nat \ {0} /\ Window \in Nat \ {0} /\ LastTick \in Nat
  /\ NoOne \notin Secrets \cup {"signed_in"}

VARIABLES
  users,          \* rows of users: [email, password]
  identities,     \* subject -> user, 0 without a row
  links,          \* rows of password_reset_tokens: [user, usable, mailed]
  logins,         \* rows of sessions: [user, revoked]
  buckets,        \* SlidingWindowRateLimiter._hits, per email
  tick,           \* time.monotonic()
  request,        \* what each request does, and what it has read
  refused         \* failed logins answered since the last success, per email

rows == <<users, identities, links, logins>>
accountVars == <<rows, buckets, tick, request, refused>>

Fresh == [does |-> "nothing", at |-> "new", email |-> NoOne, subject |-> NoOne,
          secret |-> NoOne, user |-> 0, stored |-> NoOne, answer |-> NoOne]

AccountsInit ==
  /\ users = <<>> /\ links = <<>> /\ logins = <<>>
  /\ identities = [s \in Subjects |-> 0]
  /\ buckets = [e \in Emails |-> <<>>]
  /\ refused = [e \in Emails |-> <<>>]
  /\ tick = 0
  /\ request = [r \in Requests |-> Fresh]

(* get_user_by_email *)
UserOf(e) == LET found == {u \in DOMAIN users : users[u].email = e}
             IN  IF found = {} THEN 0 ELSE CHOOSE u \in found : TRUE

Reading(r, row) == request' = [request EXCEPT ![r] = row]
Reply(r, answer) ==
  request' = [request EXCEPT ![r] = [@ EXCEPT !.at = "done", !.answer = answer]]

(* _issue_tokens *)
SignIn(r, u) ==
  /\ logins' = Append(logins, [user |-> u, revoked |-> FALSE])
  /\ request' = [request EXCEPT ![r] =
                   [@ EXCEPT !.at = "done", !.answer = "signed_in", !.user = u]]

-----------------------------------------------------------------------------
(* The limiter *)

(* _prune: hits leave at the front, up to the first inside the window *)
Pruned(bucket) ==
  LET stale == {n \in 0..Len(bucket) : \A i \in 1..n : bucket[i] + Window <= tick}
  IN  SubSeq(bucket, Max(stale) + 1, Len(bucket))

Limited(bucket) == Len(Pruned(bucket)) >= MaxAttempts

(* Mutation: only check() refuses, a hit is always recorded. *)
BugHit(r, e) ==
  /\ buckets' = [buckets EXCEPT ![e] = Append(Pruned(@), tick)]
  /\ refused' = [refused EXCEPT ![e] = Append(@, tick)]
  /\ Reply(r, "refused")

(* hit(): other failures may have filled the bucket since check(). *)
Hit(r, e) ==
  IF Limited(buckets[e])
  THEN /\ buckets' = [buckets EXCEPT ![e] = Pruned(@)]
       /\ Reply(r, "limited") /\ UNCHANGED refused
  ELSE /\ buckets' = [buckets EXCEPT ![e] = Append(Pruned(@), tick)]
       /\ refused' = [refused EXCEPT ![e] = Append(@, tick)]
       /\ Reply(r, "refused")

Tick ==
  /\ tick < LastTick
  /\ tick' = tick + 1
  /\ UNCHANGED <<rows, buckets, request, refused>>

-----------------------------------------------------------------------------
(* Password login: check() and the read of the user, then the verification *)

PasswordLogin(r) == \E e \in Emails, secret \in Secrets :
  /\ request[r].at = "new"
  /\ buckets' = [buckets EXCEPT ![e] = Pruned(@)]
  /\ IF Limited(buckets[e]) THEN Reply(r, "limited")
     ELSE Reading(r, [Fresh EXCEPT !.does = "login", !.at = "verify", !.email = e,
                                   !.secret = secret, !.user = UserOf(e),
                                   !.stored = IF UserOf(e) = 0 THEN NoOne
                                              ELSE users[UserOf(e)].password])
  /\ UNCHANGED <<rows, tick, refused>>

Verify(r) ==
  /\ request[r].at = "verify"
  /\ LET e == request[r].email IN
     IF request[r].user # 0 /\ request[r].stored = request[r].secret
     THEN /\ SignIn(r, request[r].user)
          /\ buckets' = [buckets EXCEPT ![e] = <<>>]
          /\ refused' = [refused EXCEPT ![e] = <<>>]
     ELSE Hit(r, e) /\ UNCHANGED logins
  /\ UNCHANGED <<users, identities, links, tick>>

(* register: the address is looked up, then the insert *)
Register(r) == \E e \in Emails, secret \in Secrets :
  /\ request[r].at = "new"
  /\ IF UserOf(e) # 0 THEN Reply(r, "conflict")
     ELSE Reading(r, [Fresh EXCEPT !.does = "register", !.at = "insert",
                                   !.email = e, !.secret = secret])
  /\ UNCHANGED <<rows, buckets, tick, refused>>

Insert(r) ==
  /\ request[r].at = "insert"
  /\ IF UserOf(request[r].email) # 0
     THEN Reply(r, "server_error") /\ UNCHANGED users
     ELSE /\ users' = Append(users, [email |-> request[r].email,
                                     password |-> request[r].secret])
          /\ Reply(r, "registered")
  /\ UNCHANGED <<identities, links, logins, buckets, tick, refused>>

-----------------------------------------------------------------------------
(* Google: the callback checks its transaction and exchanges the code, or
   ends with a flow error; then login_with_google *)

Callback(r) == \E s \in Subjects, e \in Emails :
  /\ request[r].at = "new"
  /\ LET row == [Fresh EXCEPT !.does = "google", !.subject = s, !.email = e,
                              !.user = identities[s]]
     IN  \/ Reply(r, "flow_error")
         \/ Reading(r, [row EXCEPT !.at = "match"])
  /\ UNCHANGED <<rows, buckets, tick, refused>>

(* The identity was read at the callback; now the user of the address. *)
Match(r) ==
  /\ request[r].at = "match"
  /\ LET known == request[r].user  owner == UserOf(request[r].email) IN
     IF known # 0
     THEN IF owner \notin {0, known}
          THEN Reply(r, "conflict") /\ UNCHANGED logins
          ELSE SignIn(r, known)
     ELSE /\ Reading(r, [request[r] EXCEPT !.at = "link", !.user = owner])
          /\ UNCHANGED logins
  /\ UNCHANGED <<users, identities, links, buckets, tick, refused>>

NewGoogleUser(r) == [email |-> request[r].email, password |-> NoOne]

(* Mutation: the user is committed before the identity is inserted. *)
BugLink(r) ==
  /\ request[r].at = "link"
  /\ LET s == request[r].subject
         new == request[r].user = 0
         u == IF new THEN Len(users) + 1 ELSE request[r].user IN
     IF new /\ UserOf(request[r].email) # 0
     THEN Reply(r, "server_error") /\ UNCHANGED <<users, identities, logins>>
     ELSE /\ users' = IF new THEN Append(users, NewGoogleUser(r)) ELSE users
          /\ IF identities[s] # 0
             THEN /\ Reading(r, [request[r] EXCEPT !.at = "converge"])
                  /\ UNCHANGED <<identities, logins>>
             ELSE /\ identities' = [identities EXCEPT ![s] = u]
                  /\ SignIn(r, u)
  /\ UNCHANGED <<links, buckets, tick, refused>>

(* create_user, if there was none: outside the try; then create_identity and
   the session, whose IntegrityError rolls all of it back. *)
Link(r) ==
  /\ request[r].at = "link"
  /\ LET s == request[r].subject
         new == request[r].user = 0
         u == IF new THEN Len(users) + 1 ELSE request[r].user IN
     IF new /\ UserOf(request[r].email) # 0
     THEN Reply(r, "server_error") /\ UNCHANGED <<users, identities, logins>>
     ELSE IF identities[s] # 0
     THEN /\ Reading(r, [request[r] EXCEPT !.at = "converge"])
          /\ UNCHANGED <<users, identities, logins>>
     ELSE /\ users' = IF new THEN Append(users, NewGoogleUser(r)) ELSE users
          /\ identities' = [identities EXCEPT ![s] = u]
          /\ SignIn(r, u)
  /\ UNCHANGED <<links, buckets, tick, refused>>

AgreeOnWinner(r) ==
  /\ request[r].at = "converge"
  /\ LET winner == identities[request[r].subject] IN
     IF winner = 0 \/ users[winner].email # request[r].email
     THEN Reply(r, "conflict") /\ UNCHANGED logins
     ELSE SignIn(r, winner)
  /\ UNCHANGED <<users, identities, links, buckets, tick, refused>>

-----------------------------------------------------------------------------
(* Password links: the address is read, then the old links are spent and the
   new one stored; the mail may be lost. *)

Forgot(r) == \E e \in Emails :
  /\ request[r].at = "new"
  /\ IF UserOf(e) = 0 THEN Reply(r, "accepted")
     ELSE Reading(r, [Fresh EXCEPT !.does = "forgot", !.at = "issue", !.user = UserOf(e)])
  /\ UNCHANGED <<rows, buckets, tick, refused>>

Issue(r) == \E mailed \in BOOLEAN :
  /\ request[r].at = "issue"
  /\ LET u == request[r].user
         spent == [i \in DOMAIN links |->
                    IF links[i].user = u THEN [links[i] EXCEPT !.usable = FALSE] ELSE links[i]]
     IN  links' = Append(spent, [user |-> u, usable |-> TRUE, mailed |-> mailed])
  /\ Reply(r, "accepted")
  /\ UNCHANGED <<users, identities, logins, buckets, tick, refused>>

(* expires_at passes *)
ExpireLink(i) ==
  /\ links[i].usable
  /\ links' = [links EXCEPT ![i].usable = FALSE]
  /\ UNCHANGED <<users, identities, logins, buckets, tick, request, refused>>

Reset(r) == \E i \in DOMAIN links, secret \in Secrets :
  /\ request[r].at = "new" /\ links[i].mailed
  /\ IF ~links[i].usable THEN Reply(r, "refused")
     ELSE Reading(r, [Fresh EXCEPT !.does = "reset", !.at = "replace",
                                   !.user = i, !.secret = secret])
  /\ UNCHANGED <<rows, buckets, tick, refused>>

(* reset_password: the password, the link and the sessions in one commit *)
Replace(r) ==
  /\ request[r].at = "replace"
  /\ LET i == request[r].user  u == links[i].user IN
     /\ users' = [users EXCEPT ![u].password = request[r].secret]
     /\ links' = [links EXCEPT ![i].usable = FALSE]
     /\ logins' = [k \in DOMAIN logins |->
                    IF logins[k].user = u THEN [logins[k] EXCEPT !.revoked = TRUE]
                    ELSE logins[k]]
  /\ Reply(r, "reset")
  /\ UNCHANGED <<identities, buckets, tick, refused>>

AccountsNext ==
  \/ Tick
  \/ \E i \in DOMAIN links : ExpireLink(i)
  \/ \E r \in Requests :
       \/ PasswordLogin(r) \/ Verify(r) \/ Register(r) \/ Insert(r)
       \/ Callback(r) \/ Match(r) \/ Link(r) \/ AgreeOnWinner(r)
       \/ Forgot(r) \/ Issue(r) \/ Reset(r) \/ Replace(r)

AccountsSpec == AccountsInit /\ [][AccountsNext]_accountVars

-----------------------------------------------------------------------------
(* Every committed account has a way in that its owner used: a password or a
   linked Google subject, even when the callback that created it lost a race,
   and a Google sign-in is always a session of the user its subject is linked
   to, whoever registered the address meanwhile. *)
AccountsAreReachable ==
  /\ \A u \in DOMAIN users :
       users[u].password # NoOne \/ u \in Range(identities)
  /\ \A u, v \in DOMAIN users : users[u].email = users[v].email => u = v
  /\ \A r \in Requests :
       request[r].does = "google" /\ request[r].answer = "signed_in"
         => request[r].user = identities[request[r].subject]

(* However many logins pass check() together, no window of the limiter's
   length holds more failed answers than it allows, counted since the last
   success. *)
AttemptsWithinWindow ==
  \A e \in Emails : \A i \in DOMAIN refused[e] :
    Cardinality({k \in DOMAIN refused[e] :
      refused[e][k] \in refused[e][i]..(refused[e][i] + Window - 1)}) <= MaxAttempts

(* "A duplicated callback must converge on the identity that won the unique
   provider+subject insert" (auth/service.py): a second callback of the same
   subject and address is signed in too, and never fails. *)
DuplicateCallbacksConverge ==
  \A r, q \in Requests :
    /\ request[r].does = "google" /\ request[q].does = "google"
    /\ request[r].subject = request[q].subject /\ request[r].email = request[q].email
    /\ request[r].answer = "signed_in"
    => request[q].answer # "server_error"
===============================================================================
