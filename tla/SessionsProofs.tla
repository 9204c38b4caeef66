----------------------------- MODULE SessionsProofs -----------------------------
(***************************************************************************)
(* Proofs about Accounts, for any requests, addresses, Google subjects and *)
(* passwords: no interleaving of registrations, callbacks, links and       *)
(* logins leaves an account without a way in, two accounts with one        *)
(* address, or a Google sign-in in somebody else's account (what the       *)
(* links, the sessions and the limiter hold does not matter for that), and *)
(* the limiter keeps to its limit.  Proofs about BrowserSessions, for any  *)
(* tabs: refresh tokens rotate once and the tabs converge.                 *)
(***************************************************************************)
EXTENDS Accounts, BrowserSessions, SumTheorems

Users == [email : Emails, password : Secrets \cup {NoOne}]

Links == [user : Nat, usable : BOOLEAN, mailed : BOOLEAN]

Steps == {"new", "verify", "insert", "match", "link", "converge", "issue", "replace", "done"}

RequestState ==
  [does : {"nothing", "login", "register", "google", "forgot", "reset"}, at : Steps,
   email : Emails \cup {NoOne}, subject : Subjects \cup {NoOne},
   secret : Secrets \cup {NoOne}, user : Nat, stored : Secrets \cup {NoOne},
   answer : {NoOne, "limited", "refused", "conflict", "server_error", "registered", "signed_in",
             "flow_error", "accepted", "reset"}]

TypeInv ==
  /\ users \in Seq(Users) /\ links \in Seq(Links)
  /\ identities \in [Subjects -> 0..Len(users)]
  /\ request \in [Requests -> RequestState]

EmailsAreUnique == \A u, v \in DOMAIN users : users[u].email = users[v].email => u = v

EveryoneHasAWayIn ==
  \A u \in DOMAIN users : users[u].password # NoOne \/ \E s \in Subjects : identities[s] = u

(* What a request has read is of the past, but a link between a subject and a
   user is never changed again. *)
RowIsSound(row) ==
  /\ row.at = "insert" => row.email \in Emails /\ row.secret \in Secrets
  /\ row.at = "replace" => row.secret \in Secrets
  /\ row.at = "verify" => row.does = "login"
  /\ row.at \in {"match", "link", "converge"} => row.subject \in Subjects /\ row.email \in Emails
  /\ row.at = "match" => row.user \in {0, identities[row.subject]}
  /\ row.at = "link" => row.user <= Len(users)
  /\ row.does = "google" /\ row.answer = "signed_in" =>
       /\ row.subject \in Subjects
       /\ row.user # 0 /\ row.user = identities[row.subject]

IInv ==
  /\ TypeInv /\ EmailsAreUnique /\ EveryoneHasAWayIn
  /\ \A r \in Requests : RowIsSound(request[r])
-----------------------------------------------------------------------------
LEMMA FreshIsState == Fresh \in RequestState
BY DEF Fresh, RequestState, Steps

LEMMA InvInit == AccountsInit => IInv
<1> SUFFICES ASSUME AccountsInit PROVE IInv
  OBVIOUS
<1> USE DEF AccountsInit
<1>1. TypeInv
  BY FreshIsState DEF TypeInv
<1>2. EmailsAreUnique /\ EveryoneHasAWayIn
  BY DEF EmailsAreUnique, EveryoneHasAWayIn
<1>3. ASSUME NEW r \in Requests PROVE RowIsSound(request[r])
  BY DEF RowIsSound, Fresh
<1> QED
  BY <1>1, <1>2, <1>3 DEF IInv

LEMMA UserOfIs ==
  ASSUME TypeInv, NEW e
  PROVE  /\ UserOf(e) \in 0..Len(users)
         /\ UserOf(e) # 0 => UserOf(e) \in DOMAIN users /\ users[UserOf(e)].email = e
         /\ UserOf(e) = 0 => \A u \in DOMAIN users : users[u].email # e
<1> DEFINE found == {u \in DOMAIN users : users[u].email = e}
<1>1. DOMAIN users = 1..Len(users) /\ Len(users) \in Nat
  BY DEF TypeInv
<1>2. CASE found = {}
  BY <1>1, <1>2 DEF UserOf
<1>3. CASE found # {}
  <2>1. UserOf(e) = CHOOSE u \in found : TRUE
    BY <1>3 DEF UserOf
  <2>2. UserOf(e) \in found
    BY <2>1, <1>3
  <2> QED
    BY <2>2, <1>1
<1> QED
  BY <1>2, <1>3

(* One request moves, and rows are only added or keep what matters of them. *)
LEMMA RequestStep ==
  ASSUME IInv, NEW r \in Requests, NEW row \in RequestState,
         request' = [request EXCEPT ![r] = row],
         users' \in Seq(Users), links' \in Seq(Links), Len(users) <= Len(users'),
         identities' \in [Subjects -> 0..Len(users')],
         \A s \in Subjects : identities[s] # 0 => identities'[s] = identities[s],
         EmailsAreUnique', EveryoneHasAWayIn', RowIsSound(request[r])'
  PROVE  IInv'
<1>1. Len(users) \in Nat /\ Len(users') \in Nat
  BY DEF IInv, TypeInv
<1>2. TypeInv'
  BY DEF IInv, TypeInv
<1>3. ASSUME NEW q \in Requests, q # r PROVE RowIsSound(request[q])'
  <2>1. request'[q] = request[q] /\ request[q] \in RequestState
    BY <1>3 DEF IInv, TypeInv
  <2>2. RowIsSound(request[q])
    BY DEF IInv
  <2>3. request[q].subject \in Subjects => identities[request[q].subject] \in Nat
    BY <1>1 DEF IInv, TypeInv
  <2> QED
    BY <1>1, <2>1, <2>2, <2>3 DEF RowIsSound, RequestState
<1> QED
  BY <1>2, <1>3 DEF IInv

(* Most steps only read. *)
LEMMA ReadStep ==
  ASSUME IInv, NEW r \in Requests, NEW row \in RequestState,
         request' = [request EXCEPT ![r] = row],
         UNCHANGED <<users, identities>>, links' \in Seq(Links), RowIsSound(row)
  PROVE  IInv'
<1>1. request'[r] = row
  BY DEF IInv, TypeInv
<1>2. RowIsSound(request[r])'
  BY <1>1 DEF RowIsSound
<1>3. EmailsAreUnique' /\ EveryoneHasAWayIn'
  BY DEF IInv, EmailsAreUnique, EveryoneHasAWayIn
<1>4. /\ users' \in Seq(Users) /\ Len(users) <= Len(users')
      /\ identities' \in [Subjects -> 0..Len(users')]
      /\ \A s \in Subjects : identities[s] # 0 => identities'[s] = identities[s]
  BY DEF IInv, TypeInv
<1> QED
  BY <1>2, <1>3, <1>4, RequestStep

LEMMA ReplyStep ==
  ASSUME IInv, NEW r \in Requests, NEW answer, Reply(r, answer),
         answer \in {"limited", "refused", "conflict", "server_error", "registered",
                     "flow_error", "accepted", "reset"},
         UNCHANGED <<users, identities>>, links' \in Seq(Links)
  PROVE  IInv'
<1> DEFINE row == [request[r] EXCEPT !.at = "done", !.answer = answer]
<1>1. request[r] \in RequestState
  BY DEF IInv, TypeInv
<1>2. row \in RequestState /\ row.at = "done" /\ row.answer = answer
  BY <1>1 DEF RequestState, Steps
<1>3. RowIsSound(row)
  BY <1>2 DEF RowIsSound
<1>4. request' = [request EXCEPT ![r] = row]
  BY DEF Reply
<1> HIDE DEF row
<1> QED
  BY <1>2, <1>3, <1>4, ReadStep

(* A sign-in is harmless without Google, and with it for the linked user. *)
LEMMA SignInStep ==
  ASSUME IInv, NEW r \in Requests, NEW u \in Nat \ {0}, SignIn(r, u),
         UNCHANGED <<users, identities>>, links' \in Seq(Links),
         \/ request[r].does # "google"
         \/ request[r].subject \in Subjects /\ u = identities[request[r].subject]
  PROVE  IInv'
<1> DEFINE row == [request[r] EXCEPT !.at = "done", !.answer = "signed_in", !.user = u]
<1>1. request[r] \in RequestState
  BY DEF IInv, TypeInv
<1>2. /\ row \in RequestState /\ row.at = "done" /\ row.user = u
      /\ row.does = request[r].does /\ row.subject = request[r].subject
  BY <1>1 DEF RequestState, Steps
<1>3. RowIsSound(row)
  BY <1>2 DEF RowIsSound
<1>4. request' = [request EXCEPT ![r] = row]
  BY DEF SignIn
<1> HIDE DEF row
<1> QED
  BY <1>2, <1>3, <1>4, ReadStep
-----------------------------------------------------------------------------
LEMMA PasswordLoginStep ==
  ASSUME IInv, NEW r \in Requests, PasswordLogin(r) PROVE IInv'
<1>1. PICK e \in Emails, secret \in Secrets :
        IF Limited(buckets[e]) THEN Reply(r, "limited")
        ELSE Reading(r, [Fresh EXCEPT !.does = "login", !.at = "verify", !.email = e,
                                      !.secret = secret, !.user = UserOf(e),
                                      !.stored = IF UserOf(e) = 0 THEN NoOne
                                                 ELSE users[UserOf(e)].password])
  BY DEF PasswordLogin
<1>2. UNCHANGED <<users, identities>> /\ links' \in Seq(Links)
  BY DEF PasswordLogin, rows, IInv, TypeInv
<1>3. CASE Limited(buckets[e])
  BY <1>1, <1>2, <1>3, ReplyStep
<1>4. CASE ~ Limited(buckets[e])
  <2> DEFINE u == UserOf(e)
             stored == IF u = 0 THEN NoOne ELSE users[u].password
             row == [Fresh EXCEPT !.does = "login", !.at = "verify", !.email = e,
                                  !.secret = secret, !.user = u, !.stored = stored]
  <2>1. u \in Nat /\ (u # 0 => users[u] \in Users)
    BY UserOfIs DEF IInv, TypeInv
  <2>2. stored \in Secrets \cup {NoOne}
    BY <2>1 DEF Users
  <2> HIDE DEF u, stored
  <2>3. row \in RequestState /\ row.at = "verify" /\ row.does = "login" /\ row.answer = NoOne
    BY <2>1, <2>2 DEF RequestState, Steps, Fresh
  <2>4. request' = [request EXCEPT ![r] = row]
    BY <1>1, <1>4 DEF Reading, u, stored
  <2> HIDE DEF row
  <2>5. RowIsSound(row)
    BY <2>3 DEF RowIsSound
  <2> QED
    BY <1>2, <2>3, <2>4, <2>5, ReadStep
<1> QED
  BY <1>3, <1>4

LEMMA VerifyStep == ASSUME IInv, NEW r \in Requests, Verify(r) PROVE IInv'
<1>1. UNCHANGED <<users, identities>> /\ links' \in Seq(Links)
  BY DEF Verify, IInv, TypeInv
<1>2. CASE request[r].user # 0 /\ request[r].stored = request[r].secret
  <2>1. SignIn(r, request[r].user)
    BY <1>2 DEF Verify
  <2>2. request[r].does = "login" /\ request[r].user \in Nat
    BY DEF Verify, IInv, TypeInv, RowIsSound, RequestState
  <2> QED
    BY <1>1, <1>2, <2>1, <2>2, SignInStep
<1>3. CASE ~ (request[r].user # 0 /\ request[r].stored = request[r].secret)
  <2>1. Reply(r, "limited") \/ Reply(r, "refused")
    BY <1>3 DEF Verify, Hit
  <2> QED
    BY <1>1, <2>1, ReplyStep
<1> QED
  BY <1>2, <1>3

LEMMA RegisterStep == ASSUME IInv, NEW r \in Requests, Register(r) PROVE IInv'
<1>1. PICK e \in Emails, secret \in Secrets :
        IF UserOf(e) # 0 THEN Reply(r, "conflict")
        ELSE Reading(r, [Fresh EXCEPT !.does = "register", !.at = "insert",
                                      !.email = e, !.secret = secret])
  BY DEF Register
<1>2. UNCHANGED <<users, identities>> /\ links' \in Seq(Links)
  BY DEF Register, rows, IInv, TypeInv
<1> DEFINE row == [Fresh EXCEPT !.does = "register", !.at = "insert",
                                !.email = e, !.secret = secret]
<1>3. /\ row \in RequestState /\ row.at = "insert" /\ row.does = "register"
      /\ row.email \in Emails /\ row.secret \in Secrets
  BY DEF RequestState, Steps, Fresh
<1>4. Reply(r, "conflict") \/ request' = [request EXCEPT ![r] = row]
  BY <1>1 DEF Reading
<1> HIDE DEF row
<1>5. RowIsSound(row)
  BY <1>3 DEF RowIsSound
<1> QED
  BY <1>2, <1>3, <1>4, <1>5, ReadStep, ReplyStep

(* A row of users is added for an address that has none, and everybody it
   leaves alone keeps the way in they had. *)
LEMMA AddedUser ==
  ASSUME IInv, NEW added \in Users, UserOf(added.email) = 0, users' = Append(users, added),
         \A s \in Subjects : identities[s] # 0 => identities'[s] = identities[s],
         added.password # NoOne \/ \E s \in Subjects : identities'[s] = Len(users) + 1
  PROVE  /\ users' \in Seq(Users) /\ Len(users') = Len(users) + 1
         /\ EmailsAreUnique' /\ EveryoneHasAWayIn'
<1> DEFINE n == Len(users)
<1>1. n \in Nat /\ DOMAIN users = 1..n /\ users \in Seq(Users)
  BY DEF IInv, TypeInv
<1>2. /\ users' \in Seq(Users) /\ Len(users') = n + 1 /\ DOMAIN users' = 1..(n + 1)
      /\ users'[n + 1] = added /\ \A u \in 1..n : users'[u] = users[u]
  BY <1>1
<1> HIDE DEF n
<1>3. \A u \in 1..(n + 1) : u \in 1..n \/ u = n + 1
  BY <1>1
<1>4. \A u \in 1..n : users'[u].email # added.email
  BY <1>1, <1>2, UserOfIs DEF IInv
<1>5. EmailsAreUnique'
  BY <1>1, <1>2, <1>3, <1>4 DEF IInv, EmailsAreUnique
<1>6. ASSUME NEW u \in 1..(n + 1)
      PROVE  users'[u].password # NoOne \/ \E s \in Subjects : identities'[s] = u
  <2>1. CASE u = n + 1
    BY <1>2, <2>1 DEF n
  <2>2. CASE u \in 1..n
    <3>1. users[u].password # NoOne \/ \E s \in Subjects : identities[s] = u
      BY <1>1, <2>2 DEF IInv, EveryoneHasAWayIn
    <3>2. ASSUME NEW s \in Subjects, identities[s] = u PROVE identities'[s] = u
      BY <1>1, <2>2, <3>2
    <3> QED
      BY <1>2, <2>2, <3>1, <3>2
  <2> QED
    BY <1>3, <2>1, <2>2
<1>7. EveryoneHasAWayIn'
  BY <1>2, <1>6 DEF EveryoneHasAWayIn
<1> QED
  BY <1>2, <1>5, <1>7 DEF n

LEMMA InsertStep == ASSUME IInv, NEW r \in Requests, Insert(r) PROVE IInv'
<1>1. /\ UNCHANGED identities /\ links' = links /\ links' \in Seq(Links)
      /\ request[r] \in RequestState /\ identities \in [Subjects -> 0..Len(users)]
      /\ Len(users) \in Nat
  BY DEF Insert, IInv, TypeInv
<1>2. CASE UserOf(request[r].email) # 0
  <2>1. Reply(r, "server_error") /\ UNCHANGED users
    BY <1>2 DEF Insert
  <2> QED
    BY <1>1, <2>1, ReplyStep
<1>3. CASE UserOf(request[r].email) = 0
  <2> DEFINE added == [email |-> request[r].email, password |-> request[r].secret]
             row == [request[r] EXCEPT !.at = "done", !.answer = "registered"]
  <2>1. request[r].email \in Emails /\ request[r].secret \in Secrets
    BY DEF Insert, IInv, RowIsSound
  <2>2. users' = Append(users, added) /\ request' = [request EXCEPT ![r] = row]
    BY <1>3 DEF Insert, Reply
  <2>3. added \in Users /\ added.email = request[r].email /\ added.password # NoOne
    BY <2>1, AccountsAssumption DEF Users
  <2>4. row \in RequestState /\ row.at = "done" /\ row.answer = "registered"
    BY <1>1 DEF RequestState, Steps
  <2> HIDE DEF added, row
  <2>5. /\ users' \in Seq(Users) /\ Len(users') = Len(users) + 1
        /\ EmailsAreUnique' /\ EveryoneHasAWayIn'
    BY <1>1, <1>3, <2>2, <2>3, AddedUser
  <2>6. request'[r] = row
    BY <2>2 DEF IInv, TypeInv
  <2>7. RowIsSound(request[r])'
    BY <2>4, <2>6 DEF RowIsSound
  <2>8. /\ identities' \in [Subjects -> 0..Len(users')] /\ Len(users) <= Len(users')
        /\ \A s \in Subjects : identities[s] # 0 => identities'[s] = identities[s]
    BY <1>1, <2>5
  <2> QED
    BY <1>1, <2>2, <2>4, <2>5, <2>7, <2>8, RequestStep
<1> QED
  BY <1>2, <1>3
-----------------------------------------------------------------------------
LEMMA CallbackStep == ASSUME IInv, NEW r \in Requests, Callback(r) PROVE IInv'
<1>1. PICK s \in Subjects, e \in Emails :
        LET row == [Fresh EXCEPT !.does = "google", !.subject = s, !.email = e,
                                 !.user = identities[s]]
        IN  Reply(r, "flow_error") \/ Reading(r, [row EXCEPT !.at = "match"])
  BY DEF Callback
<1>2. UNCHANGED <<users, identities>> /\ links' \in Seq(Links) /\ identities[s] \in Nat
  BY DEF Callback, rows, IInv, TypeInv
<1> DEFINE u == identities[s]
           row == [Fresh EXCEPT !.does = "google", !.subject = s, !.email = e,
                                !.user = u]
           matching == [row EXCEPT !.at = "match"]
<1>3. /\ u \in Nat /\ (Reply(r, "flow_error") \/ request' = [request EXCEPT ![r] = matching])
  BY <1>1, <1>2 DEF Reading
<1>4. RowIsSound(matching) /\ matching \in RequestState
  <2>1. u = identities[s]
    OBVIOUS
  <2> HIDE DEF u
  <2>2. /\ row \in RequestState /\ row.does = "google" /\ row.subject = s /\ row.email = e
        /\ row.user = u /\ row.answer = NoOne
    BY <1>3 DEF RequestState, Steps, Fresh
  <2> HIDE DEF row
  <2>3. /\ matching \in RequestState /\ matching.at = "match" /\ matching.subject = s
        /\ matching.email = e /\ matching.user = u /\ matching.answer = NoOne
    BY <2>2 DEF RequestState, Steps
  <2> HIDE DEF matching
  <2>4. RowIsSound(matching)
    BY <2>1, <2>3, AccountsAssumption DEF RowIsSound
  <2> QED
    BY <2>3, <2>4
<1> HIDE DEF matching
<1> QED
  BY <1>2, <1>3, <1>4, ReadStep, ReplyStep

LEMMA MatchStep == ASSUME IInv, NEW r \in Requests, Match(r) PROVE IInv'
<1> DEFINE known == request[r].user
           owner == UserOf(request[r].email)
<1>1. /\ UNCHANGED <<users, identities>> /\ links' \in Seq(Links)
      /\ request[r] \in RequestState /\ request[r].at = "match" /\ Len(users) \in Nat
  BY DEF Match, IInv, TypeInv
<1>2. /\ request[r].subject \in Subjects /\ request[r].email \in Emails
      /\ known \in {0, identities[request[r].subject]}
  BY <1>1 DEF IInv, RowIsSound
<1>3. CASE known # 0
  <2>1. Reply(r, "conflict") \/ SignIn(r, known)
    BY <1>3 DEF Match
  <2>2. known \in Nat \ {0} /\ known = identities[request[r].subject]
    BY <1>1, <1>2, <1>3 DEF RequestState
  <2> HIDE DEF known
  <2> QED
    BY <1>1, <1>2, <2>1, <2>2, ReplyStep, SignInStep
<1>4. CASE known = 0
  <2> DEFINE row == [request[r] EXCEPT !.at = "link", !.user = owner]
  <2>1. request' = [request EXCEPT ![r] = row]
    BY <1>4 DEF Match, Reading
  <2>2. owner \in Nat /\ owner <= Len(users)
    BY <1>1, UserOfIs DEF IInv
  <2> HIDE DEF owner
  <2>3. /\ row \in RequestState /\ row.at = "link" /\ row.user = owner
        /\ row.does = request[r].does /\ row.answer = request[r].answer
        /\ row.subject = request[r].subject /\ row.email = request[r].email
    <3>1. row \in RequestState
      BY <1>1, <2>2 DEF RequestState, Steps
    <3> QED
      BY <1>1, <3>1 DEF RequestState
  <2> HIDE DEF row
  <2>4. RowIsSound(row)
    <3>1. ~ (request[r].does = "google" /\ request[r].answer = "signed_in")
      BY <1>1, <1>4 DEF IInv, RowIsSound
    <3> QED
      BY <1>1, <1>2, <2>2, <2>3, <3>1 DEF RowIsSound
  <2> QED
    BY <1>1, <2>1, <2>3, <2>4, ReadStep
<1> QED
  BY <1>3, <1>4

LEMMA LinkStep == ASSUME IInv, NEW r \in Requests, Link(r) PROVE IInv'
<1> DEFINE s == request[r].subject
           new == request[r].user = 0
           u == IF new THEN Len(users) + 1 ELSE request[r].user
<1>1. /\ UNCHANGED links /\ links' \in Seq(Links) /\ request[r] \in RequestState
      /\ identities \in [Subjects -> 0..Len(users)] /\ Len(users) \in Nat
      /\ request[r].at = "link" /\ users \in Seq(Users)
  BY DEF Link, IInv, TypeInv
<1>2. s \in Subjects /\ request[r].email \in Emails /\ request[r].user <= Len(users)
  BY <1>1 DEF IInv, RowIsSound
<1>3. CASE new /\ UserOf(request[r].email) # 0
  <2>1. Reply(r, "server_error") /\ UNCHANGED <<users, identities>>
    BY <1>3 DEF Link
  <2> QED
    BY <1>1, <2>1, ReplyStep
<1>4. CASE ~ (new /\ UserOf(request[r].email) # 0) /\ identities[s] # 0
  <2> DEFINE row == [request[r] EXCEPT !.at = "converge"]
  <2>1. request' = [request EXCEPT ![r] = row] /\ UNCHANGED <<users, identities>>
    BY <1>4 DEF Link, Reading
  <2>2. /\ row \in RequestState /\ row.at = "converge" /\ row.user = request[r].user
        /\ row.does = request[r].does /\ row.answer = request[r].answer
        /\ row.subject = s /\ row.email = request[r].email
    BY <1>1 DEF RequestState, Steps
  <2> HIDE DEF row
  <2>3. RowIsSound(request[r])
    BY DEF IInv
  <2>4. RowIsSound(row)
    BY <1>2, <2>2, <2>3 DEF RowIsSound
  <2> QED
    BY <1>1, <2>1, <2>2, <2>4, ReadStep
<1>5. CASE ~ (new /\ UserOf(request[r].email) # 0) /\ identities[s] = 0
  <2> DEFINE row == [request[r] EXCEPT !.at = "done", !.answer = "signed_in", !.user = u]
  <2>1. /\ users' = IF new THEN Append(users, NewGoogleUser(r)) ELSE users
        /\ identities' = [identities EXCEPT ![s] = u]
        /\ request' = [request EXCEPT ![r] = row]
    BY <1>5 DEF Link, SignIn
  <2>2. u \in Nat /\ u # 0
    BY <1>1 DEF RequestState
  <2>3. /\ row \in RequestState /\ row.at = "done" /\ row.user = u /\ row.subject = s
    <3> HIDE DEF u
    <3> QED
      BY <1>1, <2>2 DEF RequestState, Steps
  <2>4. /\ identities'[s] = u /\ \A g \in Subjects \ {s} : identities'[g] = identities[g]
        /\ DOMAIN identities' = Subjects
    BY <1>1, <1>2, <2>1
  <2>5. \A g \in Subjects : identities[g] # 0 => identities'[g] = identities[g]
    BY <1>5, <2>4
  <2>6. /\ users' \in Seq(Users) /\ u <= Len(users') /\ Len(users) <= Len(users')
        /\ EmailsAreUnique' /\ EveryoneHasAWayIn'
    <3>1. CASE new
      <4> DEFINE added == NewGoogleUser(r)
      <4>1. added \in Users /\ added.email = request[r].email
        BY <1>2 DEF NewGoogleUser, Users
      <4>2. users' = Append(users, added) /\ UserOf(added.email) = 0 /\ u = Len(users) + 1
        BY <1>5, <2>1, <3>1, <4>1
      <4>3. \E g \in Subjects : identities'[g] = Len(users) + 1
        BY <1>2, <2>4, <4>2
      <4> HIDE DEF added, u
      <4>4. /\ users' \in Seq(Users) /\ Len(users') = Len(users) + 1
            /\ EmailsAreUnique' /\ EveryoneHasAWayIn'
        BY <2>5, <4>1, <4>2, <4>3, AddedUser
      <4> QED
        BY <1>1, <4>2, <4>4
    <3>2. CASE ~ new
      <4>1. users' = users /\ u <= Len(users)
        BY <1>2, <2>1, <3>2
      <4>2. \A v \in 1..Len(users) : \A g \in Subjects :
              identities[g] = v => identities'[g] = v
        BY <1>1, <2>5
      <4>3. EveryoneHasAWayIn'
        BY <1>1, <4>1, <4>2 DEF IInv, EveryoneHasAWayIn
      <4>4. EmailsAreUnique'
        BY <4>1 DEF IInv, EmailsAreUnique
      <4> HIDE DEF u
      <4> QED
        BY <1>1, <4>1, <4>3, <4>4
    <3> QED
      BY <3>1, <3>2
  <2> HIDE DEF u
  <2>7. identities' \in [Subjects -> 0..Len(users')]
    <3>1. Len(users') \in Nat
      BY <2>6
    <3>2. \A g \in Subjects : identities'[g] \in 0..Len(users')
      BY <1>1, <2>2, <2>4, <2>6, <3>1
    <3>3. identities' = [g \in Subjects |-> identities'[g]]
      BY <1>1, <2>1
    <3> QED
      BY <3>2, <3>3
  <2> HIDE DEF row
  <2>8. RowIsSound(request[r])'
    <3>1. request'[r] = row
      BY <2>1 DEF IInv, TypeInv
    <3>2. s \in Subjects /\ u # 0 /\ u = identities'[s]
      BY <1>2, <2>2, <2>4
    <3> HIDE DEF s
    <3> QED
      BY <2>3, <3>1, <3>2 DEF RowIsSound
  <2> QED
    BY <1>1, <2>1, <2>3, <2>5, <2>6, <2>7, <2>8, RequestStep
<1> QED
  BY <1>3, <1>4, <1>5

LEMMA AgreeOnWinnerStep == ASSUME IInv, NEW r \in Requests, AgreeOnWinner(r) PROVE IInv'
<1> DEFINE winner == identities[request[r].subject]
<1>1. /\ UNCHANGED <<users, identities>> /\ links' \in Seq(Links)
      /\ request[r].subject \in Subjects
  BY DEF AgreeOnWinner, IInv, TypeInv, RowIsSound
<1>2. winner \in Nat
  BY <1>1 DEF IInv, TypeInv
<1>3. CASE winner = 0 \/ users[winner].email # request[r].email
  <2>1. Reply(r, "conflict")
    BY <1>3 DEF AgreeOnWinner
  <2> QED
    BY <1>1, <2>1, ReplyStep
<1>4. CASE ~ (winner = 0 \/ users[winner].email # request[r].email)
  <2>1. SignIn(r, winner) /\ winner \in Nat \ {0}
    BY <1>2, <1>4 DEF AgreeOnWinner
  <2> QED
    BY <1>1, <2>1, SignInStep
<1> QED
  BY <1>3, <1>4
-----------------------------------------------------------------------------
LEMMA ForgotStep == ASSUME IInv, NEW r \in Requests, Forgot(r) PROVE IInv'
<1>1. PICK e \in Emails :
        IF UserOf(e) = 0 THEN Reply(r, "accepted")
        ELSE Reading(r, [Fresh EXCEPT !.does = "forgot", !.at = "issue", !.user = UserOf(e)])
  BY DEF Forgot
<1>2. UNCHANGED <<users, identities>> /\ links' \in Seq(Links)
  BY DEF Forgot, rows, IInv, TypeInv
<1> DEFINE u == UserOf(e)
           row == [Fresh EXCEPT !.does = "forgot", !.at = "issue", !.user = u]
<1>3. Reply(r, "accepted") \/ request' = [request EXCEPT ![r] = row]
  BY <1>1 DEF Reading
<1>4. u \in Nat
  BY UserOfIs DEF IInv, TypeInv
<1> HIDE DEF u
<1>5. row \in RequestState /\ row.at = "issue" /\ row.does = "forgot"
  BY <1>4 DEF RequestState, Steps, Fresh
<1> HIDE DEF row
<1>6. RowIsSound(row)
  BY <1>5 DEF RowIsSound
<1> QED
  BY <1>2, <1>3, <1>5, <1>6, ReadStep, ReplyStep

LEMMA IssueStep == ASSUME IInv, NEW r \in Requests, Issue(r) PROVE IInv'
<1>1. /\ Reply(r, "accepted") /\ UNCHANGED <<users, identities>>
      /\ links \in Seq(Links) /\ request[r].user \in Nat
  BY DEF Issue, IInv, TypeInv, RequestState
<1> DEFINE u == request[r].user
           spent == [i \in DOMAIN links |->
                      IF links[i].user = u THEN [links[i] EXCEPT !.usable = FALSE] ELSE links[i]]
<1>2. PICK mailed \in BOOLEAN :
        links' = Append(spent, [user |-> u, usable |-> TRUE, mailed |-> mailed])
  BY DEF Issue
<1>3. spent \in Seq(Links)
  <2>1. ASSUME NEW l \in Links PROVE [l EXCEPT !.usable = FALSE] \in Links
    BY DEF Links
  <2>2. DOMAIN links = 1..Len(links) /\ Len(links) \in Nat /\ \A i \in DOMAIN links : links[i] \in Links
    BY <1>1
  <2>3. \A i \in 1..Len(links) : spent[i] \in Links
    BY <2>1, <2>2
  <2>4. spent \in [1..Len(links) -> Links]
    BY <2>2, <2>3
  <2> QED
    BY <2>2, <2>4
<1>4. [user |-> u, usable |-> TRUE, mailed |-> mailed] \in Links
  BY <1>1 DEF Links
<1> HIDE DEF spent
<1>5. links' \in Seq(Links)
  BY <1>2, <1>3, <1>4
<1> QED
  BY <1>1, <1>5, ReplyStep

(* No proof looks at what a link is worth. *)
LEMMA SpentLink ==
  ASSUME NEW rest \in Seq(Links), NEW i PROVE [rest EXCEPT ![i].usable = FALSE] \in Seq(Links)
<1>1. DOMAIN rest = 1..Len(rest) /\ Len(rest) \in Nat
  OBVIOUS
<1>2. \A l \in Links : [l EXCEPT !.usable = FALSE] \in Links
  BY DEF Links
<1>3. ASSUME NEW k \in 1..Len(rest) PROVE [rest EXCEPT ![i].usable = FALSE][k] \in Links
  <2>1. rest[k] \in Links
    BY <1>1
  <2>2. CASE k = i
    BY <1>1, <1>2, <2>1, <2>2
  <2>3. CASE k # i
    BY <1>1, <2>1, <2>3
  <2> QED
    BY <2>2, <2>3
<1>4. [rest EXCEPT ![i].usable = FALSE] \in [1..Len(rest) -> Links]
  BY <1>1, <1>3
<1> QED
  BY <1>1, <1>4

LEMMA ExpireLinkStep == ASSUME IInv, NEW i, ExpireLink(i) PROVE IInv'
<1>1. links' \in Seq(Links)
  BY SpentLink DEF ExpireLink, IInv, TypeInv
<1> QED
  BY <1>1 DEF ExpireLink, IInv, TypeInv, EmailsAreUnique, EveryoneHasAWayIn, RowIsSound

LEMMA ResetStep == ASSUME IInv, NEW r \in Requests, Reset(r) PROVE IInv'
<1>1. PICK i \in DOMAIN links, secret \in Secrets :
        IF ~links[i].usable THEN Reply(r, "refused")
        ELSE Reading(r, [Fresh EXCEPT !.does = "reset", !.at = "replace",
                                      !.user = i, !.secret = secret])
  BY DEF Reset
<1>2. UNCHANGED <<users, identities>> /\ links' \in Seq(Links) /\ i \in Nat
  BY DEF Reset, rows, IInv, TypeInv
<1> DEFINE row == [Fresh EXCEPT !.does = "reset", !.at = "replace",
                                !.user = i, !.secret = secret]
<1>3. Reply(r, "refused") \/ request' = [request EXCEPT ![r] = row]
  BY <1>1 DEF Reading
<1>4. row \in RequestState /\ row.at = "replace" /\ row.does = "reset" /\ row.secret = secret
  BY <1>2 DEF RequestState, Steps, Fresh
<1> HIDE DEF row
<1>5. RowIsSound(row)
  BY <1>4 DEF RowIsSound
<1> QED
  BY <1>2, <1>3, <1>4, <1>5, ReadStep, ReplyStep

LEMMA ReplaceStep == ASSUME IInv, NEW r \in Requests, Replace(r) PROVE IInv'
<1> DEFINE u == links[request[r].user].user
           row == [request[r] EXCEPT !.at = "done", !.answer = "reset"]
<1>1. /\ users' = [users EXCEPT ![u].password = request[r].secret]
      /\ request' = [request EXCEPT ![r] = row] /\ UNCHANGED identities
      /\ links' = [links EXCEPT ![request[r].user].usable = FALSE]
  BY DEF Replace, Reply
<1>2. /\ request[r] \in RequestState /\ request[r].secret \in Secrets
      /\ request[r].secret # NoOne
  BY AccountsAssumption DEF Replace, IInv, TypeInv, RowIsSound
<1>3. links' \in Seq(Links)
  BY <1>1, SpentLink DEF IInv, TypeInv
<1>4. users \in Seq(Users) /\ DOMAIN users = 1..Len(users) /\ Len(users) \in Nat
  BY DEF IInv, TypeInv
<1>5. row \in RequestState /\ row.at = "done" /\ row.answer = "reset"
  BY <1>2 DEF RequestState, Steps
<1> HIDE DEF row, u
<1>6. \A v \in DOMAIN users : /\ users'[v] \in Users /\ users'[v].email = users[v].email
                              /\ users'[v].password \in {users[v].password, request[r].secret}
  <2>1. \A w \in Users : LET p == [w EXCEPT !.password = request[r].secret]
                         IN  p \in Users /\ p.email = w.email /\ p.password = request[r].secret
    BY <1>2 DEF Users
  <2> QED
    BY <1>1, <1>4, <2>1
<1>7. users' \in Seq(Users) /\ Len(users') = Len(users) /\ DOMAIN users' = DOMAIN users
  <2>1. users' \in [1..Len(users) -> Users]
    BY <1>1, <1>4, <1>6
  <2> QED
    BY <1>4, <2>1
<1>8. EmailsAreUnique'
  BY <1>6, <1>7 DEF IInv, EmailsAreUnique
<1>9. EveryoneHasAWayIn'
  BY <1>1, <1>2, <1>6, <1>7 DEF IInv, EveryoneHasAWayIn
<1>10. RowIsSound(request[r])'
  <2>1. request'[r] = row
    BY <1>1 DEF IInv, TypeInv
  <2> QED
    BY <1>5, <2>1 DEF RowIsSound
<1>11. /\ identities' \in [Subjects -> 0..Len(users')] /\ Len(users) <= Len(users')
       /\ \A s \in Subjects : identities[s] # 0 => identities'[s] = identities[s]
  BY <1>1, <1>4, <1>7 DEF IInv, TypeInv
<1> QED
  BY <1>1, <1>3, <1>5, <1>7, <1>8, <1>9, <1>10, <1>11, RequestStep
-----------------------------------------------------------------------------
LEMMA InvStep == IInv /\ [AccountsNext]_accountVars => IInv'
<1> SUFFICES ASSUME IInv, [AccountsNext]_accountVars PROVE IInv'
  OBVIOUS
<1>1. CASE UNCHANGED accountVars
  BY <1>1 DEF accountVars, rows, IInv, TypeInv, EmailsAreUnique, EveryoneHasAWayIn, RowIsSound
<1>2. CASE Tick
  BY <1>2 DEF Tick, rows, IInv, TypeInv, EmailsAreUnique, EveryoneHasAWayIn, RowIsSound
<1>3. ASSUME NEW i \in DOMAIN links, ExpireLink(i) PROVE IInv'
  BY <1>3, ExpireLinkStep
<1>4. ASSUME NEW r \in Requests,
             \/ PasswordLogin(r) \/ Verify(r) \/ Register(r) \/ Insert(r)
             \/ Callback(r) \/ Match(r) \/ Link(r) \/ AgreeOnWinner(r)
             \/ Forgot(r) \/ Issue(r) \/ Reset(r) \/ Replace(r)
      PROVE  IInv'
  BY <1>4, PasswordLoginStep, VerifyStep, RegisterStep, InsertStep, CallbackStep, MatchStep,
     LinkStep, AgreeOnWinnerStep, ForgotStep, IssueStep, ResetStep, ReplaceStep
<1> QED
  BY <1>1, <1>2, <1>3, <1>4 DEF AccountsNext

(* However registrations, callbacks, links and logins of any number of requests
   interleave: every account has a way in its owner used, no two accounts have
   one address, and a Google sign-in is a session of the user its subject is
   linked to (login_with_google, register, reset_password). *)
THEOREM AccountsStayReachable == AccountsSpec => []AccountsAreReachable
<1>1. IInv => AccountsAreReachable
  <2> SUFFICES ASSUME IInv PROVE AccountsAreReachable
    OBVIOUS
  <2>1. \A u \in DOMAIN users : users[u].password # NoOne \/ u \in Range(identities)
    BY DEF IInv, TypeInv, EveryoneHasAWayIn, Range
  <2> QED
    BY <2>1 DEF IInv, EmailsAreUnique, RowIsSound, AccountsAreReachable
<1> QED
  BY <1>1, InvInit, InvStep, PTL DEF AccountsSpec

-----------------------------------------------------------------------------
(* The limiter.  A bucket is what is left of the refusals of its address: those
   it has dropped are out of the window, and for good. *)
LeftOf(bucket, row, n) ==
  /\ bucket \in Seq(Nat) /\ n \in 0..Len(row) /\ Len(bucket) = Len(row) - n
  /\ \A i \in 1..Len(bucket) : bucket[i] = row[n + i]
  /\ \A i \in 1..n : row[i] + Window <= tick

(* Refusals are in order, and each is at least a window later than the one that
   came as many refusals earlier as are allowed. *)
Spaced(row) ==
  /\ row \in Seq(Nat)
  /\ \A i \in 1..Len(row) : row[i] <= tick
  /\ \A i, j \in 1..Len(row) : i <= j => row[i] <= row[j]
  /\ \A i, j \in 1..Len(row) : i + MaxAttempts <= j => row[i] + Window <= row[j]

WindowInv ==
  /\ tick \in Nat /\ {buckets, refused} \subseteq [Emails -> Seq(Nat)]
  /\ \A e \in Emails : Spaced(refused[e]) /\ \E n \in Nat : LeftOf(buckets[e], refused[e], n)

LEMMA PrunedIs ==
  ASSUME tick \in Nat, NEW row \in Seq(Nat), NEW bucket, NEW n \in Nat, LeftOf(bucket, row, n)
  PROVE  \E m \in Nat : LeftOf(Pruned(bucket), row, m)
<1> DEFINE stale == {k \in 0..Len(bucket) : \A i \in 1..k : bucket[i] + Window <= tick}
           k == Max(stale)
<1>1. bucket \in Seq(Nat) /\ Len(bucket) \in Nat /\ Window \in Nat
  BY AccountsAssumption DEF LeftOf
<1>2. k \in stale
  <2>1. 0 \in stale
    BY <1>1
  <2>2. IsFiniteSet(0..Len(bucket)) /\ stale \subseteq 0..Len(bucket)
    BY <1>1, FS_Interval
  <2>3. IsFiniteSet(stale) /\ stale \subseteq Int
    BY <1>1, <2>2, FS_Subset
  <2> HIDE DEF stale
  <2> QED
    BY <2>1, <2>3, Largest
<1>3. k \in 0..Len(bucket) /\ \A i \in 1..k : bucket[i] + Window <= tick
  BY <1>2
<1>4. Pruned(bucket) = SubSeq(bucket, k + 1, Len(bucket))
  BY DEF Pruned
<1> HIDE DEF k, stale
<1>5. /\ Pruned(bucket) \in Seq(Nat) /\ Len(Pruned(bucket)) = Len(bucket) - k
      /\ \A i \in 1..(Len(bucket) - k) : Pruned(bucket)[i] = bucket[k + i]
  BY <1>1, <1>3, <1>4
<1>6. n \in 0..Len(row) /\ Len(bucket) = Len(row) - n /\ Len(row) \in Nat
  BY DEF LeftOf
<1>7. n + k \in 0..Len(row) /\ Len(Pruned(bucket)) = Len(row) - (n + k)
  BY <1>3, <1>5, <1>6
<1>8. \A i \in 1..Len(Pruned(bucket)) : Pruned(bucket)[i] = row[(n + k) + i]
  <2> SUFFICES ASSUME NEW i \in 1..(Len(bucket) - k) PROVE Pruned(bucket)[i] = row[(n + k) + i]
    BY <1>5
  <2>1. k + i \in 1..Len(bucket) /\ n + (k + i) = (n + k) + i
    BY <1>3, <1>6
  <2> QED
    BY <1>5, <2>1 DEF LeftOf
<1>9. \A i \in 1..(n + k) : row[i] + Window <= tick
  <2> SUFFICES ASSUME NEW i \in 1..(n + k) PROVE row[i] + Window <= tick
    OBVIOUS
  <2>1. CASE i <= n
    BY <2>1 DEF LeftOf
  <2>2. CASE i > n
    <3>1. i - n \in 1..k /\ i - n \in 1..Len(bucket) /\ n + (i - n) = i
      BY <1>3, <1>6, <2>2
    <3>2. bucket[i - n] = row[i]
      BY <3>1 DEF LeftOf
    <3> QED
      BY <1>3, <3>1, <3>2
  <2> QED
    BY <2>1, <2>2
<1>10. LeftOf(Pruned(bucket), row, n + k)
  BY <1>5, <1>7, <1>8, <1>9 DEF LeftOf
<1>11. n + k \in Nat
  BY <1>3
<1> QED
  BY <1>10, <1>11

(* A refusal is recorded only while the bucket has room. *)
LEMMA RoomIsAWindow ==
  ASSUME tick \in Nat, NEW row, Spaced(row), NEW bucket, NEW n \in Nat, LeftOf(bucket, row, n),
         Len(bucket) < MaxAttempts
  PROVE  Spaced(Append(row, tick)) /\ LeftOf(Append(bucket, tick), Append(row, tick), n)
<1> DEFINE longer == Append(row, tick)
           size == Len(row)
<1>1. row \in Seq(Nat) /\ size \in Nat /\ MaxAttempts \in Nat \ {0} /\ Window \in Nat
  BY AccountsAssumption DEF Spaced
<1>2. /\ longer \in Seq(Nat) /\ Len(longer) = size + 1 /\ longer[size + 1] = tick
      /\ \A i \in 1..size : longer[i] = row[i]
  BY <1>1
<1>3. n \in 0..size /\ Len(bucket) = size - n /\ bucket \in Seq(Nat)
  BY DEF LeftOf
<1>4. /\ Append(bucket, tick) \in Seq(Nat) /\ Len(Append(bucket, tick)) = size - n + 1
      /\ Append(bucket, tick)[size - n + 1] = tick
      /\ \A i \in 1..(size - n) : Append(bucket, tick)[i] = bucket[i]
  BY <1>3
<1>5. /\ \A i \in 1..size : row[i] \in Nat /\ row[i] <= tick
      /\ \A i, j \in 1..size : i <= j => row[i] <= row[j]
      /\ \A i, j \in 1..size : i + MaxAttempts <= j => row[i] + Window <= row[j]
  BY <1>1 DEF Spaced
<1>6. /\ \A i \in 1..(size - n) : bucket[i] = row[n + i]
      /\ \A i \in 1..n : row[i] + Window <= tick
  BY <1>3 DEF LeftOf
<1> HIDE DEF longer, size
<1>7. \A i, j \in 1..(size + 1) : i + MaxAttempts <= j => longer[i] + Window <= longer[j]
  <2> SUFFICES ASSUME NEW i \in 1..(size + 1), NEW j \in 1..(size + 1), i + MaxAttempts <= j
               PROVE  longer[i] + Window <= longer[j]
    OBVIOUS
  <2>1. i \in 1..size
    BY <1>1
  <2>2. CASE j \in 1..size
    BY <1>2, <1>5, <2>1, <2>2
  <2>3. CASE j = size + 1
    <3>1. i \in 1..n
      BY <1>1, <1>3, <2>1, <2>3
    <3> QED
      BY <1>2, <1>6, <2>1, <2>3, <3>1
  <2> QED
    BY <1>1, <2>2, <2>3
<1>8. \A i \in 1..(size + 1) : longer[i] \in Nat /\ longer[i] <= tick
  BY <1>1, <1>2, <1>5
<1>9. \A i, j \in 1..(size + 1) : i <= j => longer[i] <= longer[j]
  <2> SUFFICES ASSUME NEW i \in 1..(size + 1), NEW j \in 1..(size + 1), i <= j
               PROVE  longer[i] <= longer[j]
    OBVIOUS
  <2>1. CASE j = size + 1
    BY <1>2, <1>8, <2>1
  <2>2. CASE j \in 1..size
    <3>1. i \in 1..size
      BY <1>1, <2>2
    <3> QED
      BY <1>2, <1>5, <2>2, <3>1
  <2> QED
    BY <1>1, <2>1, <2>2
<1>10. Spaced(longer)
  BY <1>2, <1>7, <1>8, <1>9 DEF Spaced
<1>11. \A i \in 1..(size - n + 1) : Append(bucket, tick)[i] = longer[n + i]
  <2> SUFFICES ASSUME NEW i \in 1..(size - n + 1) PROVE Append(bucket, tick)[i] = longer[n + i]
    OBVIOUS
  <2>1. CASE i \in 1..(size - n)
    <3>1. n + i \in 1..size
      BY <1>1, <1>3, <2>1
    <3> QED
      BY <1>2, <1>4, <1>6, <2>1, <3>1
  <2>2. CASE i = size - n + 1
    <3>1. n + i = size + 1
      BY <1>1, <1>3, <2>2
    <3> QED
      BY <1>2, <1>4, <2>2, <3>1
  <2> QED
    BY <1>1, <1>3, <2>1, <2>2
<1>12. n \in 0..Len(longer) /\ Len(Append(bucket, tick)) = Len(longer) - n
  BY <1>1, <1>2, <1>3, <1>4
<1>13. \A i \in 1..n : longer[i] + Window <= tick
  <2> SUFFICES ASSUME NEW i \in 1..n PROVE longer[i] + Window <= tick
    OBVIOUS
  <2>1. i \in 1..size
    BY <1>1, <1>3
  <2> QED
    BY <1>2, <1>6, <2>1
<1>14. LeftOf(Append(bucket, tick), longer, n)
  BY <1>4, <1>11, <1>12, <1>13 DEF LeftOf
<1> QED
  BY <1>10, <1>14 DEF longer

LEMMA WindowInit == AccountsInit => WindowInv
<1> SUFFICES ASSUME AccountsInit PROVE WindowInv
  OBVIOUS
<1>1. Spaced(<<>>) /\ LeftOf(<<>>, <<>>, 0) /\ <<>> \in Seq(Nat)
  BY DEF Spaced, LeftOf, AccountsInit
<1>2. {buckets, refused} \subseteq [Emails -> Seq(Nat)]
  BY <1>1 DEF AccountsInit
<1> QED
  BY <1>1, <1>2 DEF AccountsInit, WindowInv

(* One address at a time. *)
LEMMA OneBucket ==
  ASSUME WindowInv, NEW e, NEW bucket, NEW row, tick' = tick,
         buckets' = [buckets EXCEPT ![e] = bucket],
         refused' = [refused EXCEPT ![e] = row],
         e \in Emails => Spaced(row) /\ \E n \in Nat : LeftOf(bucket, row, n)
  PROVE  WindowInv'
<1>1. tick' \in Nat /\ {buckets', refused'} \subseteq [Emails -> Seq(Nat)]
  <2>1. e \in Emails => bucket \in Seq(Nat) /\ row \in Seq(Nat)
    BY DEF LeftOf, Spaced
  <2> QED
    BY <2>1 DEF WindowInv
<1>2. ASSUME NEW o \in Emails
      PROVE  Spaced(refused'[o]) /\ \E n \in Nat : LeftOf(buckets'[o], refused'[o], n)
  <2>1. CASE o = e
    BY <2>1, <1>2 DEF WindowInv
  <2>2. CASE o # e
    <3>1. buckets'[o] = buckets[o] /\ refused'[o] = refused[o]
      BY <2>2 DEF WindowInv
    <3> QED
      BY <1>2, <3>1 DEF WindowInv
  <2> QED
    BY <2>1, <2>2
<1>3. \A o \in Emails :
        Spaced(refused[o])' /\ \E n \in Nat : LeftOf(buckets[o], refused[o], n)'
  BY <1>2 DEF Spaced, LeftOf
<1> QED
  BY <1>1, <1>3 DEF WindowInv

LEMMA HitKeeps ==
  ASSUME WindowInv, NEW r, NEW e, Hit(r, e), tick' = tick
  PROVE  WindowInv'
<1> DEFINE kept == Pruned(buckets[e])
<1>1. e \in Emails => /\ Spaced(refused[e])
                      /\ \E n \in Nat : LeftOf(kept, refused[e], n)
  <2> SUFFICES ASSUME e \in Emails
               PROVE  Spaced(refused[e]) /\ \E n \in Nat : LeftOf(kept, refused[e], n)
    OBVIOUS
  <2>1. Spaced(refused[e]) /\ refused[e] \in Seq(Nat) /\ tick \in Nat
    BY DEF WindowInv, Spaced
  <2>2. PICK n \in Nat : LeftOf(buckets[e], refused[e], n)
    BY DEF WindowInv
  <2> QED
    BY <2>1, <2>2, PrunedIs
<1>2. CASE Limited(buckets[e])
  <2>1. /\ buckets' = [buckets EXCEPT ![e] = kept]
        /\ refused' = refused
    BY <1>2 DEF Hit
  <2>2. refused' = [refused EXCEPT ![e] = refused[e]]
    BY <2>1 DEF WindowInv
  <2> HIDE DEF kept
  <2> QED
    BY <1>1, <2>1, <2>2, OneBucket
<1>3. CASE ~ Limited(buckets[e])
  <2>1. /\ buckets' = [buckets EXCEPT ![e] = Append(kept, tick)]
        /\ refused' = [refused EXCEPT ![e] = Append(refused[e], tick)]
    BY <1>3 DEF Hit
  <2>2. ~ (Len(kept) >= MaxAttempts)
    BY <1>3 DEF Limited
  <2> HIDE DEF kept
  <2>3. e \in Emails => /\ Spaced(Append(refused[e], tick))
                        /\ \E n \in Nat : LeftOf(Append(kept, tick), Append(refused[e], tick), n)
    <3> SUFFICES ASSUME e \in Emails
                 PROVE  /\ Spaced(Append(refused[e], tick))
                        /\ \E n \in Nat : LeftOf(Append(kept, tick), Append(refused[e], tick), n)
      OBVIOUS
    <3>1. PICK n \in Nat : LeftOf(kept, refused[e], n)
      BY <1>1
    <3>2. Len(kept) < MaxAttempts /\ tick \in Nat
      BY <2>2, <3>1, AccountsAssumption DEF LeftOf, WindowInv
    <3> QED
      BY <1>1, <3>1, <3>2, RoomIsAWindow
  <2> QED
    BY <2>1, <2>3, OneBucket
<1> QED
  BY <1>2, <1>3

LEMMA WindowStep == WindowInv /\ [AccountsNext]_accountVars => WindowInv'
<1> SUFFICES ASSUME WindowInv, [AccountsNext]_accountVars PROVE WindowInv'
  OBVIOUS
<1>1. CASE Tick
  <2>1. tick \in Nat /\ tick' = tick + 1 /\ buckets' = buckets /\ refused' = refused
    BY <1>1 DEF Tick, WindowInv
  <2>2. ASSUME NEW e \in Emails PROVE Spaced(refused[e])'
    <3>1. Spaced(refused[e])
      BY DEF WindowInv
    <3>2. \A i \in 1..Len(refused[e]) : refused[e][i] <= tick + 1
      BY <2>1, <3>1 DEF Spaced
    <3> QED
      BY <2>1, <3>1, <3>2 DEF Spaced
  <2>3. ASSUME NEW e \in Emails PROVE \E n \in Nat : LeftOf(buckets[e], refused[e], n)'
    <3>1. PICK n \in Nat : LeftOf(buckets[e], refused[e], n)
      BY DEF WindowInv
    <3>2. refused[e] \in Seq(Nat) /\ n \in 0..Len(refused[e]) /\ Window \in Nat
      BY <3>1, AccountsAssumption DEF WindowInv, Spaced, LeftOf
    <3>3. \A i \in 1..n : refused[e][i] + Window <= tick + 1
      BY <2>1, <3>1, <3>2 DEF LeftOf
    <3> QED
      BY <2>1, <3>1, <3>3 DEF LeftOf
  <2> QED
    BY <2>1, <2>2, <2>3 DEF WindowInv
<1>2. ASSUME NEW r \in Requests, PasswordLogin(r) PROVE WindowInv'
  <2>1. PICK e \in Emails : buckets' = [buckets EXCEPT ![e] = Pruned(buckets[e])]
    BY <1>2 DEF PasswordLogin
  <2>2. tick' = tick /\ refused' = [refused EXCEPT ![e] = refused[e]]
    BY <1>2 DEF PasswordLogin, WindowInv
  <2>3. Spaced(refused[e]) /\ refused[e] \in Seq(Nat) /\ tick \in Nat
    BY DEF WindowInv, Spaced
  <2>4. PICK n \in Nat : LeftOf(buckets[e], refused[e], n)
    BY DEF WindowInv
  <2>5. \E k \in Nat : LeftOf(Pruned(buckets[e]), refused[e], k)
    BY <2>3, <2>4, PrunedIs
  <2> QED
    BY <2>1, <2>2, <2>3, <2>5, OneBucket
<1>3. ASSUME NEW r \in Requests, Verify(r) PROVE WindowInv'
  <2> DEFINE e == request[r].email
  <2>1. tick' = tick
    BY <1>3 DEF Verify
  <2>2. CASE Hit(r, e)
    BY <2>1, <2>2, HitKeeps
  <2>3. CASE buckets' = [buckets EXCEPT ![e] = <<>>] /\ refused' = [refused EXCEPT ![e] = <<>>]
    <3>1. Spaced(<<>>) /\ LeftOf(<<>>, <<>>, 0)
      BY DEF Spaced, LeftOf
    <3> QED
      BY <2>1, <2>3, <3>1, OneBucket
  <2> QED
    BY <1>3, <2>2, <2>3 DEF Verify
<1>4. CASE UNCHANGED <<buckets, tick, refused>>
  BY <1>4 DEF WindowInv, Spaced, LeftOf
<1> QED
  BY <1>1, <1>2, <1>3, <1>4 DEF AccountsNext, accountVars, ExpireLink, Register, Insert, Callback,
     Match, Link, AgreeOnWinner, Forgot, Issue, Reset, Replace

(* However many logins pass check() before any of them is verified, and whenever
   the clock ticks, for any limit and any length of the window: no window holds
   more failed answers since the last success than the limit
   (SlidingWindowRateLimiter). *)
THEOREM FailuresStayWithinWindow == AccountsSpec => []AttemptsWithinWindow
<1>1. WindowInv => AttemptsWithinWindow
  <2> SUFFICES ASSUME WindowInv, NEW e \in Emails, NEW i \in DOMAIN refused[e]
               PROVE  Cardinality({k \in DOMAIN refused[e] :
                        refused[e][k] \in refused[e][i]..(refused[e][i] + Window - 1)})
                        <= MaxAttempts
    BY DEF AttemptsWithinWindow
  <2> DEFINE row == refused[e]
             near == {k \in DOMAIN row : row[k] \in row[i]..(row[i] + Window - 1)}
             first == Min(near)
  <2>1. /\ Spaced(row) /\ row \in Seq(Nat) /\ DOMAIN row = 1..Len(row) /\ Len(row) \in Nat
        /\ MaxAttempts \in Nat \ {0} /\ Window \in Nat \ {0}
    BY AccountsAssumption DEF WindowInv, Spaced
  <2>2. i \in near
    BY <2>1
  <2>3. near \subseteq Int /\ IsFiniteSet(near)
    <3>1. near \subseteq 1..Len(row) /\ IsFiniteSet(1..Len(row)) /\ 1..Len(row) \subseteq Int
      BY <2>1, FS_Interval
    <3> HIDE DEF near
    <3> QED
      BY <3>1, FS_Subset
  <2>4. first \in near /\ \A k \in near : first <= k
    <3> HIDE DEF near
    <3> QED
      BY <2>2, <2>3, Smallest
  <2>5. ASSUME NEW k \in near PROVE k \in first..(first + MaxAttempts - 1)
    <3>1. first \in 1..Len(row) /\ k \in 1..Len(row) /\ first <= k
      BY <2>1, <2>4, <2>5
    <3>2. row[first] \in Nat /\ row[k] \in Nat /\ row[i] \in Nat
      <4>1. \A j \in 1..Len(row) : row[j] \in Nat
        BY <2>1
      <4> HIDE DEF first
      <4> QED
        BY <2>1, <2>2, <3>1, <4>1
    <3>3. row[i] <= row[first] /\ row[k] <= row[i] + Window - 1
      BY <2>4, <2>5, <3>2
    <3>4. ~ (row[first] + Window <= row[k])
      <4> DEFINE a == row[first]  b == row[k]  c == row[i]
      <4>1. a \in Nat /\ b \in Nat /\ c \in Nat /\ Window \in Nat /\ c <= a /\ b <= c + Window - 1
        BY <2>1, <3>2, <3>3
      <4> HIDE DEF a, b, c
      <4>2. ~ (a + Window <= b)
        BY <4>1
      <4> QED
        BY <4>2 DEF a, b
    <3>5. ~ (first + MaxAttempts <= k)
      BY <2>1, <3>1, <3>4 DEF Spaced
    <3> HIDE DEF first
    <3> QED
      BY <2>1, <3>1, <3>5
  <2>6. first \in Int
    BY <2>3, <2>4
  <2> HIDE DEF first, near
  <2> DEFINE span == first..(first + MaxAttempts - 1)
  <2>7. IsFiniteSet(span) /\ Cardinality(span) = MaxAttempts
    <3>1. first + MaxAttempts - 1 \in Int
      BY <2>1, <2>6
    <3>2. IsFiniteSet(span)
          /\ Cardinality(span) = IF first > first + MaxAttempts - 1 THEN 0
                                 ELSE (first + MaxAttempts - 1) - first + 1
      BY <2>6, <3>1, FS_Interval
    <3>3. ~ (first > first + MaxAttempts - 1) /\ (first + MaxAttempts - 1) - first + 1 = MaxAttempts
      BY <2>1, <2>6
    <3> HIDE DEF span
    <3> QED
      BY <3>2, <3>3
  <2>8. near \subseteq span
    BY <2>5
  <2> HIDE DEF span
  <2>9. Cardinality(near) <= Cardinality(span)
    BY <2>7, <2>8, FS_Subset
  <2> QED
    BY <2>7, <2>9 DEF near
<1> QED
  BY <1>1, WindowInit, WindowStep, PTL DEF AccountsSpec
-----------------------------------------------------------------------------
(* The browser.  A tab settles within an access token's life, so that as long as
   anything is on its way, only a change of the cookies can make the access token
   of the cookies' session another one. *)

Rows == [live : BOOLEAN, parent : Nat]

Fetches ==
  [path : {"none", "session", "api", "login", "logout", "csrf", "rotate", "probe"},
   at : {"idle", "sent", "resolved", "replied", "waiting"}, latest : BOOLEAN, retried : BOOLEAN,
   jar : Nat, csrf : Nat, reply : {"none", "ok", "denied", "down"}, sid : Nat]

Statuses == {"closed", "checking", "refreshing", "authenticated", "unauthenticated", "expired",
             "unavailable"}

BrowserTypeInv ==
  /\ sessions \in Seq(Rows) /\ fresh \subseteq 1..Len(sessions)
  /\ jar \in 0..Len(sessions) /\ csrf \in [Tabs -> Nat]
  /\ status \in [Tabs -> Statuses] /\ user \in [Tabs -> BOOLEAN]
  /\ inbox \in [Tabs -> Seq({"session", "login", "logout"})]
  /\ net \in [Tabs -> [Channels -> Fetches]]
  /\ outages \in Nat

(* Tabs settle in time, and no answer was lost. *)
Calm == PromptTabs /\ outages = 0

Running(f) == f.at # "idle"
Refused(f) == f.at = "waiting" \/ (f.at = "replied" /\ f.reply = "denied")
Answer(f, paths) == f.at = "replied" /\ f.reply = "ok" /\ f.path \in paths

(* A slot carries the page's calls, the refresh channel the refresh; a request
   names a session that exists. *)
CallIsSound(f) ==
  /\ Running(f) => f.path \in {"session", "api", "login", "logout"}
  /\ f.at = "resolved" => f.path = "logout"
  /\ Running(f) /\ f.latest => f.path = "session"

RefreshIsSound(f) ==
  /\ Running(f) => f.path \in {"csrf", "rotate", "probe"} /\ f.at # "waiting" /\ ~ f.latest
  /\ f.at = "resolved" => f.path = "rotate"

FetchIsSound(f) ==
  /\ f.jar <= Len(sessions) /\ f.sid <= Len(sessions)
  /\ f.at = "resolved" => f.jar # 0
  /\ f.at = "replied" => f.reply \in {"ok", "denied", "down"}
  /\ f.at = "replied" /\ f.reply = "down" => outages > 0

TabIsSound(t) ==
  /\ \A s \in Slots : CallIsSound(net[t][s])
  /\ RefreshIsSound(net[t]["refresh"])
  /\ \A c \in Channels : FetchIsSound(net[t][c])
  /\ status[t] = "closed" =>
       csrf[t] = 0 /\ inbox[t] = <<>> /\ \A c \in Channels : ~ Running(net[t][c])

(* Who was exchanged for a successor is not live, and never will be. *)
ParentsAreOver ==
  \A a \in DOMAIN sessions : sessions[a].parent # 0 =>
    /\ sessions[a].parent \in DOMAIN sessions
    /\ ~ sessions[sessions[a].parent].live

Current == jar \in fresh \/ ~ Live(jar)

Told(t) == inbox[t] # <<>>

Hydrating(t) == \E s \in Slots : Running(net[t][s]) /\ net[t][s].latest

(* Of the latest hydration: what it was sent with, why it was refused, and what
   it was granted are still so, or the tab is about to hear of a change. *)
HydrationIsCurrent(t, f) ==
  Running(f) /\ f.path = "session" =>
    /\ ~ f.latest => Current
    /\ f.latest =>
         /\ f.at = "sent" => f.jar = jar \/ Told(t)
         /\ Refused(f) => jar \notin fresh \/ ~ Live(jar) \/ Told(t)
         /\ Answer(f, {"session"}) => (f.sid = jar /\ jar # 0) \/ Told(t)
         /\ f.retried => Current

(* A refresh that a hydration may have to wait for, of a session whose access
   token has expired, is one the backend will not refuse. *)
RefreshIsCurrent(t, f) ==
  Hydrating(t) /\ ~ Current =>
    /\ csrf[t] \in {0, jar}
    /\ \/ ~ Running(f)
       \/ f.path = "csrf" /\ f.at = "sent" /\ f.jar = jar
       \/ Answer(f, {"csrf"}) /\ f.sid = jar
       \/ f.path = "rotate" /\ f.at \in {"sent", "resolved"} /\ f.jar = jar /\ f.csrf = jar

StatusIsCurrent(t) ==
  /\ Over(t) /\ Live(jar) => Told(t)
  /\ status[t] = "authenticated" /\ jar = 0 => Told(t)
  /\ status[t] \in {"checking", "refreshing"} => Hydrating(t)
  /\ status[t] # "unavailable"

TabIsCurrent(t) ==
  /\ Told(t) => Current /\ (Last(inbox[t]) = "logout" => jar = 0)
  /\ \A s \in Slots : HydrationIsCurrent(t, net[t][s])
  /\ RefreshIsCurrent(t, net[t]["refresh"])
  /\ StatusIsCurrent(t)

(* The cookies that an answer will set are nobody's yet. *)
NewSession(f) == Answer(f, {"rotate", "login"})

NewSessionsAreUnused ==
  \A t \in Tabs, c \in Channels : NewSession(net[t][c]) =>
    LET sid == net[t][c].sid IN
    /\ Live(sid) /\ sid \in fresh /\ sid # jar
    /\ \A o \in Tabs, d \in Channels :
         /\ net[o][d].jar # sid
         /\ NewSession(net[o][d]) /\ net[o][d].sid = sid => o = t /\ d = c

(* The cookies' session is over only when their replacement is on its way. *)
DeathIsAnnounced ==
  jar # 0 /\ ~ Live(jar) =>
    \E t \in Tabs, c \in Channels : Answer(net[t][c], {"rotate", "logout"})

BrowserInv ==
  /\ BrowserTypeInv /\ ParentsAreOver /\ OneSuccessor
  /\ \A t \in Tabs : TabIsSound(t)
  /\ Calm =>
       /\ \A t \in Tabs : TabIsCurrent(t)
       /\ NewSessionsAreUnused /\ DeathIsAnnounced

LEMMA NoneIs ==
  /\ None \in Fetches /\ ~ Running(None) /\ ~ None.latest /\ None.jar = 0
  /\ CallIsSound(None) /\ RefreshIsSound(None) /\ FetchIsSound(None)
  /\ \A paths : ~ Answer(None, paths)
<1>1. None \in Fetches
  BY DEF None, Fetches
<1>2. None.at = "idle" /\ None.latest = FALSE /\ None.jar = 0 /\ None.sid = 0
  BY DEF None
<1>3. FetchIsSound(None)
  BY <1>2 DEF FetchIsSound
<1> QED
  BY <1>1, <1>2, <1>3 DEF Running, CallIsSound, RefreshIsSound, Answer

Paths == {"session", "api", "login", "logout", "csrf", "rotate", "probe"}

LEMMA RequestIs ==
  \A path \in Paths :
  \A cookies, token \in Nat :
    /\ Request(path, cookies, token) \in Fetches
    /\ Request(path, cookies, token).path = path
    /\ Request(path, cookies, token).at = "sent"
    /\ Request(path, cookies, token).latest = FALSE
    /\ Request(path, cookies, token).retried = FALSE
    /\ Request(path, cookies, token).jar = cookies
    /\ Request(path, cookies, token).reply = "none"
    /\ Request(path, cookies, token).sid = 0
    /\ path = "rotate" => Request(path, cookies, token).csrf = token
<1> TAKE path \in Paths
<1> TAKE cookies, token \in Nat
<1> DEFINE given == IF path \in Posts THEN token ELSE 0
           f == [None EXCEPT !.path = path, !.at = "sent", !.jar = cookies, !.csrf = given]
<1>1. given \in Nat /\ (path = "rotate" => given = token)
  BY DEF Posts
<1> HIDE DEF given
<1>2. /\ f \in Fetches /\ f.path = path /\ f.at = "sent" /\ f.latest = FALSE
      /\ f.retried = FALSE /\ f.jar = cookies /\ f.csrf = given /\ f.reply = "none"
      /\ f.sid = 0
  BY <1>1 DEF None, Paths, Fetches
<1>3. Request(path, cookies, token) = f
  BY DEF Request, given
<1> QED
  BY <1>1, <1>2, <1>3

(* What a call is once its answer is on its way. *)
Replies == {"ok", "denied", "down"}

AnswerTo(f, reply, sid) ==
  [f EXCEPT !.at = "replied", !.reply = reply, !.sid = sid, !.jar = 0, !.csrf = 0]

LEMMA AnswerIs ==
  \A f \in Fetches, reply \in Replies, sid \in Nat :
    /\ AnswerTo(f, reply, sid) \in Fetches
    /\ AnswerTo(f, reply, sid).path = f.path
    /\ AnswerTo(f, reply, sid).at = "replied"
    /\ AnswerTo(f, reply, sid).latest = f.latest
    /\ AnswerTo(f, reply, sid).retried = f.retried
    /\ AnswerTo(f, reply, sid).jar = 0
    /\ AnswerTo(f, reply, sid).reply = reply
    /\ AnswerTo(f, reply, sid).sid = sid
<1> TAKE f \in Fetches, reply \in Replies, sid \in Nat
<1>1. /\ AnswerTo(f, reply, sid) \in Fetches
      /\ AnswerTo(f, reply, sid).path = f.path
      /\ AnswerTo(f, reply, sid).at = "replied"
      /\ AnswerTo(f, reply, sid).latest = f.latest
  BY DEF AnswerTo, Replies, Fetches
<1>2. /\ AnswerTo(f, reply, sid).retried = f.retried
      /\ AnswerTo(f, reply, sid).jar = 0
      /\ AnswerTo(f, reply, sid).reply = reply
      /\ AnswerTo(f, reply, sid).sid = sid
  BY DEF AnswerTo, Replies, Fetches
<1> QED
  BY <1>1, <1>2

LEMMA BrowserInvInit == Init => BrowserInv
<1> SUFFICES ASSUME Init PROVE BrowserInv
  OBVIOUS
<1> USE DEF Init
<1>1. sessions \in Seq(Rows) /\ Len(sessions) = 1 /\ sessions[1].parent = 0
      /\ sessions[1].live = (jar = 1)
  BY DEF Rows
<1>2. \A t \in Tabs, c \in Channels : net[t][c] = None
  OBVIOUS
<1>3. BrowserTypeInv
  <2>1. fresh \subseteq 1..Len(sessions) /\ jar \in 0..Len(sessions) /\ outages \in Nat
    BY <1>1
  <2>2. csrf \in [Tabs -> Nat] /\ status \in [Tabs -> Statuses] /\ user \in [Tabs -> BOOLEAN]
        /\ inbox \in [Tabs -> Seq({"session", "login", "logout"})]
    BY DEF Statuses
  <2>3. net \in [Tabs -> [Channels -> Fetches]]
    BY NoneIs
  <2> QED
    BY <1>1, <2>1, <2>2, <2>3 DEF BrowserTypeInv
<1>4. ParentsAreOver /\ OneSuccessor
  BY <1>1 DEF ParentsAreOver, OneSuccessor
<1>5. ASSUME NEW t \in Tabs PROVE TabIsSound(t)
  BY <1>2, NoneIs DEF TabIsSound, Channels
<1>6. ASSUME NEW t \in Tabs PROVE TabIsCurrent(t)
  BY <1>2, NoneIs DEF TabIsCurrent, Told, HydrationIsCurrent, RefreshIsCurrent, Hydrating,
     StatusIsCurrent, Over, Channels
<1>7. NewSessionsAreUnused
  BY <1>2, NoneIs DEF NewSessionsAreUnused, NewSession
<1>8. DeathIsAnnounced
  BY <1>1 DEF DeathIsAnnounced, Live
<1> QED
  BY <1>3, <1>4, <1>5, <1>6, <1>7, <1>8 DEF BrowserInv
-----------------------------------------------------------------------------
(* A tab that does nothing, while the cookies stay and sessions only end. *)
LEMMA TabStays ==
  ASSUME NEW o \in Tabs, TabIsCurrent(o), jar' = jar, Live(jar)' => Live(jar),
         jar \in fresh' <=> jar \in fresh,
         net'[o] = net[o], inbox'[o] = inbox[o], csrf'[o] = csrf[o], status'[o] = status[o]
  PROVE  TabIsCurrent(o)'
<1>1. Current => Current'
  BY DEF Current
<1>2. Told(o)' <=> Told(o)
  BY DEF Told
<1>3. Hydrating(o)' <=> Hydrating(o)
  BY DEF Hydrating
<1>4. ASSUME NEW s \in Slots PROVE HydrationIsCurrent(o, net[o][s])'
  <2>1. HydrationIsCurrent(o, net[o][s])
    BY DEF TabIsCurrent
  <2> QED
    BY <1>1, <1>2, <2>1 DEF HydrationIsCurrent
<1>5. RefreshIsCurrent(o, net[o]["refresh"])'
  <2>1. RefreshIsCurrent(o, net[o]["refresh"])
    BY DEF TabIsCurrent
  <2> QED
    BY <1>1, <1>3, <2>1 DEF RefreshIsCurrent
<1>6. StatusIsCurrent(o)'
  BY <1>2, <1>3 DEF TabIsCurrent, StatusIsCurrent, Over
<1> QED
  BY <1>1, <1>2, <1>4, <1>5, <1>6 DEF TabIsCurrent

LEMMA TabStaysSound ==
  ASSUME NEW o \in Tabs, TabIsSound(o), Len(sessions) \in Nat, Len(sessions') \in Nat,
         Len(sessions) <= Len(sessions'), BrowserTypeInv, outages' \in Nat, outages <= outages',
         net'[o] = net[o], inbox'[o] = inbox[o], csrf'[o] = csrf[o], status'[o] = status[o]
  PROVE  TabIsSound(o)'
<1>1. ASSUME NEW c \in Channels PROVE FetchIsSound(net[o][c])'
  <2>1. /\ FetchIsSound(net[o][c]) /\ net[o][c].jar \in Nat /\ net[o][c].sid \in Nat
        /\ outages \in Nat
    BY DEF TabIsSound, BrowserTypeInv, Fetches
  <2> QED
    BY <2>1 DEF FetchIsSound
<1> QED
  BY <1>1 DEF TabIsSound

(* One tab moves, and neither the cookies nor the sessions change. *)
LEMMA TabMoves ==
  ASSUME BrowserInv, BrowserTypeInv', NEW t \in Tabs, UNCHANGED <<sessions, fresh, jar, outages>>,
         \A o \in Tabs \ {t} : /\ net'[o] = net[o] /\ inbox'[o] = inbox[o]
                               /\ csrf'[o] = csrf[o] /\ status'[o] = status[o],
         TabIsSound(t)', Calm => TabIsCurrent(t)',
         \A c \in Channels :
           /\ net'[t][c].jar \in {0, jar, net[t][c].jar}
           /\ NewSession(net'[t][c]) => NewSession(net[t][c]) /\ net'[t][c].sid = net[t][c].sid
           /\ Answer(net[t][c], {"rotate", "logout"}) => Answer(net'[t][c], {"rotate", "logout"})
  PROVE  BrowserInv'
<1>1. Len(sessions) \in Nat /\ outages \in Nat /\ BrowserTypeInv
  BY DEF BrowserInv, BrowserTypeInv
<1>2. ASSUME NEW o \in Tabs \ {t} PROVE TabIsSound(o)'
  BY <1>1, TabStaysSound DEF BrowserInv
<1>3. ParentsAreOver' /\ OneSuccessor'
  BY DEF BrowserInv, ParentsAreOver, OneSuccessor
<1>4. \A sid : Live(sid)' <=> Live(sid)
  BY DEF Live
<1>5. ASSUME Calm, NEW o \in Tabs \ {t} PROVE TabIsCurrent(o)'
  BY <1>4, <1>5, TabStays DEF BrowserInv
<1>6. ASSUME Calm PROVE NewSessionsAreUnused' /\ DeathIsAnnounced'
  <2>1. ASSUME NEW a \in Tabs, NEW c \in Channels, NewSession(net'[a][c])
        PROVE  NewSession(net[a][c]) /\ net'[a][c].sid = net[a][c].sid
    BY <2>1
  <2>2. ASSUME NEW a \in Tabs, NEW c \in Channels
        PROVE  net'[a][c].jar \in {0, jar, net[a][c].jar}
    OBVIOUS
  <2>3. ASSUME NEW a \in Tabs, NEW c \in Channels, NewSession(net'[a][c])
        PROVE  LET sid == net'[a][c].sid IN
               /\ Live(sid) /\ sid \in fresh /\ sid # jar
               /\ \A o \in Tabs, d \in Channels :
                    /\ net'[o][d].jar # sid
                    /\ NewSession(net'[o][d]) /\ net'[o][d].sid = sid => o = a /\ d = c
    <3> DEFINE sid == net[a][c].sid
    <3>1. NewSession(net[a][c]) /\ net'[a][c].sid = sid
      BY <2>1, <2>3
    <3>2. /\ Live(sid) /\ sid \in fresh /\ sid # jar
          /\ \A o \in Tabs, d \in Channels :
               /\ net[o][d].jar # sid
               /\ NewSession(net[o][d]) /\ net[o][d].sid = sid => o = a /\ d = c
      BY <1>6, <3>1 DEF BrowserInv, NewSessionsAreUnused
    <3>3. sid # 0
      BY <3>2 DEF Live
    <3> HIDE DEF sid
    <3> QED
      BY <2>1, <2>2, <3>1, <3>2, <3>3
  <2>4. NewSessionsAreUnused'
    BY <1>4, <2>3 DEF NewSessionsAreUnused
  <2>5. ASSUME NEW a \in Tabs, NEW c \in Channels, Answer(net[a][c], {"rotate", "logout"})
        PROVE  Answer(net'[a][c], {"rotate", "logout"})
    BY <2>5
  <2>6. DeathIsAnnounced'
    BY <1>4, <1>6, <2>5 DEF BrowserInv, DeathIsAnnounced
  <2> QED
    BY <2>4, <2>6
<1> QED
  BY <1>2, <1>3, <1>5, <1>6 DEF BrowserInv, Calm

(* One call or refresh of an open tab moves on, and nothing else does. *)
LEMMA CallMoves ==
  ASSUME BrowserInv, NEW t \in Tabs, NEW c \in Channels, NEW g \in Fetches, Put(t, c, g),
         UNCHANGED <<server, jar, tab, inbox, outages>>, status[t] # "closed",
         c \in Slots => CallIsSound(g), c = "refresh" => RefreshIsSound(g), FetchIsSound(g),
         g.jar \in {0, jar, net[t][c].jar},
         NewSession(g) => NewSession(net[t][c]) /\ g.sid = net[t][c].sid,
         Answer(net[t][c], {"rotate", "logout"}) => Answer(g, {"rotate", "logout"}),
         Calm =>
           /\ c \in Slots =>
                /\ HydrationIsCurrent(t, g)
                /\ (Running(g) /\ g.latest) = (Running(net[t][c]) /\ net[t][c].latest)
           /\ c = "refresh" => RefreshIsCurrent(t, g)
  PROVE  BrowserInv'
<1>1. /\ UNCHANGED <<sessions, fresh, jar, csrf, status, user, inbox, outages>>
      /\ BrowserTypeInv
  BY DEF server, tab, BrowserInv
<1>2. net[t] \in [Channels -> Fetches] /\ net' = [net EXCEPT ![t] = [net[t] EXCEPT ![c] = g]]
  BY <1>1 DEF Put, BrowserTypeInv
<1>3. BrowserTypeInv'
  BY <1>1, <1>2 DEF BrowserTypeInv
<1>4. /\ net'[t][c] = g /\ \A d \in Channels \ {c} : net'[t][d] = net[t][d]
      /\ \A o \in Tabs \ {t} : net'[o] = net[o]
  BY <1>1, <1>2 DEF BrowserTypeInv
<1>5. TabIsSound(t)'
  <2>1. TabIsSound(t)
    BY DEF BrowserInv
  <2>2. ASSUME NEW d \in Channels PROVE FetchIsSound(net[t][d])'
    BY <1>1, <1>4, <2>1 DEF TabIsSound, FetchIsSound
  <2>3. ASSUME NEW s \in Slots PROVE CallIsSound(net'[t][s])
    BY <1>4, <2>1 DEF TabIsSound, Channels
  <2>4. RefreshIsSound(net'[t]["refresh"])
    BY <1>4, <2>1 DEF TabIsSound, Channels
  <2> QED
    BY <1>1, <2>2, <2>3, <2>4 DEF TabIsSound
<1>6. ASSUME Calm PROVE TabIsCurrent(t)'
  <2>1. TabIsCurrent(t)
    BY <1>6 DEF BrowserInv
  <2>2. (Current' <=> Current) /\ (Told(t)' <=> Told(t))
    BY <1>1 DEF Current, Live, Told
  <2>3. \A s \in Slots : (Running(net'[t][s]) /\ net'[t][s].latest)
                          = (Running(net[t][s]) /\ net[t][s].latest)
    BY <1>4, <1>6 DEF Channels
  <2>4. Hydrating(t)' <=> Hydrating(t)
    BY <2>3 DEF Hydrating
  <2>5. ASSUME NEW s \in Slots PROVE HydrationIsCurrent(t, net[t][s])'
    <3>1. HydrationIsCurrent(t, net'[t][s])
      BY <1>4, <1>6, <2>1 DEF TabIsCurrent, Channels
    <3> QED
      BY <1>1, <2>2, <3>1 DEF HydrationIsCurrent, Live
  <2>6. RefreshIsCurrent(t, net[t]["refresh"])'
    <3>1. RefreshIsCurrent(t, net'[t]["refresh"])
      BY <1>4, <1>6, <2>1 DEF TabIsCurrent, Channels
    <3> QED
      BY <1>1, <2>2, <2>4, <3>1 DEF RefreshIsCurrent
  <2>7. StatusIsCurrent(t)'
    BY <1>1, <2>1, <2>2, <2>4 DEF TabIsCurrent, StatusIsCurrent, Over, Live
  <2> QED
    BY <1>1, <2>1, <2>2, <2>5, <2>6, <2>7 DEF TabIsCurrent
<1>7. \A d \in Channels :
        /\ net'[t][d].jar \in {0, jar, net[t][d].jar}
        /\ NewSession(net'[t][d]) => NewSession(net[t][d]) /\ net'[t][d].sid = net[t][d].sid
        /\ Answer(net[t][d], {"rotate", "logout"}) => Answer(net'[t][d], {"rotate", "logout"})
  BY <1>4
<1> QED
  BY <1>1, <1>3, <1>4, <1>5, <1>6, <1>7, TabMoves
-----------------------------------------------------------------------------
LEMMA FreeSlotIs ==
  ASSUME NEW t, HasRoom(t) PROVE FreeSlot(t) \in Slots /\ ~ Running(net[t][FreeSlot(t)])
BY DEF HasRoom, FreeSlot, Idle, Running

(* What is known of the channels of a tab. *)
LEMMA ChannelsAre ==
  ASSUME BrowserInv, NEW t \in Tabs, NEW c \in Channels
  PROVE  /\ net[t][c] \in Fetches /\ net[t][c].jar \in Nat /\ jar \in Nat /\ csrf[t] \in Nat
         /\ Len(sessions) \in Nat /\ jar <= Len(sessions)
         /\ FetchIsSound(net[t][c])
         /\ c \in Slots => CallIsSound(net[t][c])
         /\ c = "refresh" => RefreshIsSound(net[t][c])
         /\ Running(net[t][c]) => status[t] # "closed"
         /\ Calm /\ c \in Slots => HydrationIsCurrent(t, net[t][c])
         /\ Calm /\ c = "refresh" => RefreshIsCurrent(t, net[t][c])
<1>1. TabIsSound(t) /\ BrowserTypeInv
  BY DEF BrowserInv
<1>2. /\ net[t][c] \in Fetches /\ jar \in Nat /\ csrf[t] \in Nat /\ Len(sessions) \in Nat
      /\ jar <= Len(sessions)
  BY <1>1 DEF BrowserTypeInv
<1>3. net[t][c].jar \in Nat
  BY <1>2 DEF Fetches
<1>4. /\ FetchIsSound(net[t][c])
      /\ c \in Slots => CallIsSound(net[t][c])
      /\ c = "refresh" => RefreshIsSound(net[t][c])
      /\ Running(net[t][c]) => status[t] # "closed"
  BY <1>1 DEF TabIsSound
<1>5. Calm => TabIsCurrent(t)
  BY DEF BrowserInv
<1> QED
  BY <1>2, <1>3, <1>4, <1>5 DEF TabIsCurrent

LEMMA ActStep ==
  ASSUME BrowserInv, NEW t \in Tabs, Call(t) \/ Logout(t) \/ Login(t) PROVE BrowserInv'
<1>1. PICK path \in {"api", "logout", "login"} :
        /\ status[t] # "closed" /\ HasRoom(t)
        /\ Put(t, FreeSlot(t), Request(path, jar, csrf[t]))
        /\ UNCHANGED <<server, jar, tab, inbox, outages>>
  <2>1. ASSUME NEW path \in {"api", "logout", "login"},
               NEW allowed \in SUBSET {"authenticated", "unauthenticated", "expired"},
               Act(t, path, allowed)
        PROVE  /\ status[t] # "closed" /\ HasRoom(t)
               /\ Put(t, FreeSlot(t), Request(path, jar, csrf[t]))
               /\ UNCHANGED <<server, jar, tab, inbox, outages>>
    BY <2>1 DEF Act
  <2> QED
    BY <2>1 DEF Call, Logout, Login
<1> DEFINE s == FreeSlot(t)
           g == Request(path, jar, csrf[t])
<1>2. s \in Slots /\ s \in Channels /\ ~ Running(net[t][s]) /\ s # "refresh"
  BY <1>1, FreeSlotIs, SlotsAssumption DEF Channels
<1>3. /\ jar \in Nat /\ csrf[t] \in Nat /\ jar <= Len(sessions)
  BY <1>2, ChannelsAre
<1>4. /\ g \in Fetches /\ g.path = path /\ g.at = "sent" /\ g.latest = FALSE /\ g.jar = jar
      /\ g.sid = 0
  <2>1. path \in Paths
    BY DEF Paths
  <2> QED
    BY <1>3, <2>1, RequestIs
<1>5. Put(t, s, g)
  BY <1>1
<1> HIDE DEF s, g
<1>6. CallIsSound(g) /\ FetchIsSound(g)
  BY <1>3, <1>4 DEF CallIsSound, FetchIsSound
<1>7. HydrationIsCurrent(t, g) /\ ~ NewSession(g) /\ ~ Answer(net[t][s], {"rotate", "logout"})
  BY <1>2, <1>4 DEF HydrationIsCurrent, NewSession, Answer, Running
<1> QED
  BY <1>1, <1>2, <1>4, <1>5, <1>6, <1>7, CallMoves

LEMMA ServeReadStep ==
  ASSUME BrowserInv, NEW t \in Tabs, NEW c \in Channels, ServeRead(t, c) PROVE BrowserInv'
<1> DEFINE f == net[t][c]
           ok == Authorised(f)
           reply == IF ok THEN "ok" ELSE "denied"
           sid == IF ok THEN f.jar ELSE 0
           g == AnswerTo(f, reply, sid)
<1>1. /\ f.at = "sent" /\ f.path \in {"session", "api", "probe"} /\ Put(t, c, g)
      /\ UNCHANGED <<server, jar, tab, inbox, outages>>
  BY DEF ServeRead, Served, Granted, Answered, AnswerTo, budgets
<1>2. f \in Fetches /\ f.jar \in Nat
  BY ChannelsAre
<1>3. /\ g \in Fetches /\ g.path = f.path /\ g.at = "replied" /\ g.latest = f.latest
      /\ g.retried = f.retried /\ g.jar = 0
      /\ g.reply = (IF ok THEN "ok" ELSE "denied") /\ g.sid = (IF ok THEN f.jar ELSE 0)
  <2>1. reply \in Replies /\ sid \in Nat
    BY <1>2 DEF Replies
  <2>2. reply = (IF ok THEN "ok" ELSE "denied") /\ sid = (IF ok THEN f.jar ELSE 0)
    OBVIOUS
  <2> HIDE DEF reply, sid, ok, f
  <2>3. /\ g \in Fetches /\ g.path = f.path /\ g.at = "replied" /\ g.latest = f.latest
        /\ g.retried = f.retried /\ g.jar = 0 /\ g.reply = reply /\ g.sid = sid
    BY <1>2, <2>1, AnswerIs
  <2> QED
    BY <2>2, <2>3
<1> HIDE DEF g
<1>4. c \in Slots => CallIsSound(g)
  BY <1>1, <1>3, ChannelsAre DEF CallIsSound, Running
<1>5. c = "refresh" => RefreshIsSound(g)
  BY <1>1, <1>3, ChannelsAre DEF RefreshIsSound, Running
<1>6. FetchIsSound(g)
  BY <1>3, ChannelsAre DEF FetchIsSound
<1>7. ~ NewSession(g) /\ ~ Answer(f, {"rotate", "logout"})
  BY <1>1, <1>3 DEF NewSession, Answer
<1>8. ASSUME Calm, c \in Slots PROVE HydrationIsCurrent(t, g)
  <2>1. HydrationIsCurrent(t, f)
    BY <1>8, ChannelsAre
  <2>2. CASE ok
    <3>1. f.jar \in fresh /\ Live(f.jar) /\ f.jar # 0
      BY <2>2 DEF Authorised, Live
    <3> QED
      BY <1>1, <1>3, <2>1, <2>2, <3>1 DEF HydrationIsCurrent, Running, Refused, Answer
  <2>3. CASE ~ ok
    <3>1. f.path = "session" => f.jar \notin fresh \/ ~ Live(f.jar)
      BY <2>3 DEF Authorised
    <3> QED
      BY <1>1, <1>3, <2>1, <2>3, <3>1 DEF HydrationIsCurrent, Running, Refused, Answer
  <2> QED
    BY <2>2, <2>3
<1>9. ASSUME Calm, c = "refresh" PROVE RefreshIsCurrent(t, g)
  BY <1>1, <1>9, ChannelsAre DEF RefreshIsSound, RefreshIsCurrent, Running, Answer
<1>10. (Running(g) /\ g.latest) = (Running(f) /\ f.latest) /\ status[t] # "closed"
  BY <1>1, <1>2, <1>3, ChannelsAre DEF Running
<1> HIDE DEF f
<1> QED
  BY <1>1, <1>3, <1>4, <1>5, <1>6, <1>7, <1>8, <1>9, <1>10, CallMoves DEF f

LEMMA ServeCsrfStep ==
  ASSUME BrowserInv, NEW t \in Tabs, NEW c \in Channels, ServeCsrf(t, c) PROVE BrowserInv'
<1> DEFINE f == net[t][c]
           ok == Resolves(f)
           reply == IF ok THEN "ok" ELSE "denied"
           sid == IF ok THEN f.jar ELSE 0
           g == AnswerTo(f, reply, sid)
<1>1. /\ f.at = "sent" /\ f.path = "csrf" /\ Put(t, c, g)
      /\ UNCHANGED <<server, jar, tab, inbox, outages>>
  BY DEF ServeCsrf, Served, Granted, Answered, AnswerTo, budgets
<1>2. f \in Fetches /\ f.jar \in Nat
  BY ChannelsAre
<1>3. /\ g \in Fetches /\ g.path = f.path /\ g.at = "replied" /\ g.latest = f.latest /\ g.jar = 0
      /\ g.reply = (IF ok THEN "ok" ELSE "denied") /\ g.sid = (IF ok THEN f.jar ELSE 0)
  <2>1. reply \in Replies /\ sid \in Nat
    BY <1>2 DEF Replies
  <2>2. reply = (IF ok THEN "ok" ELSE "denied") /\ sid = (IF ok THEN f.jar ELSE 0)
    OBVIOUS
  <2> HIDE DEF reply, sid, ok, f
  <2>3. /\ g \in Fetches /\ g.path = f.path /\ g.at = "replied" /\ g.latest = f.latest
        /\ g.jar = 0 /\ g.reply = reply /\ g.sid = sid
    BY <1>2, <2>1, AnswerIs
  <2> QED
    BY <2>2, <2>3
<1>4. c \notin Slots /\ c = "refresh"
  BY <1>1, ChannelsAre DEF CallIsSound, Running, Channels
<1> HIDE DEF g
<1>5. RefreshIsSound(g) /\ FetchIsSound(g)
  BY <1>1, <1>3, <1>4, ChannelsAre DEF RefreshIsSound, Running, FetchIsSound
<1>6. ~ NewSession(g) /\ ~ Answer(f, {"rotate", "logout"})
  BY <1>1, <1>3 DEF NewSession, Answer
<1>7. ASSUME Calm PROVE RefreshIsCurrent(t, g)
  <2> SUFFICES ASSUME Hydrating(t), ~ Current
               PROVE  csrf[t] \in {0, jar} /\ Answer(g, {"csrf"}) /\ g.sid = jar
    BY DEF RefreshIsCurrent
  <2>1. RefreshIsCurrent(t, f)
    BY <1>4, <1>7, ChannelsAre
  <2>2. f.jar = jar /\ csrf[t] \in {0, jar}
    BY <1>1, <2>1 DEF RefreshIsCurrent, Running, Answer
  <2>3. ok
    BY <1>1, <2>2 DEF Current, Resolves
  <2> QED
    BY <1>1, <1>3, <2>2, <2>3 DEF Answer
<1>8. status[t] # "closed"
  BY <1>1, ChannelsAre DEF Running
<1> HIDE DEF f
<1> QED
  BY <1>1, <1>3, <1>4, <1>5, <1>6, <1>7, <1>8, CallMoves DEF f

(* A refused logout or rotation, and one that is let through to its row. *)
LEMMA ResolveStep ==
  ASSUME BrowserInv, NEW t \in Tabs, NEW c \in Channels, ResolveLogout(t, c) \/ ResolveRefresh(t, c)
  PROVE  BrowserInv'
<1> DEFINE f == net[t][c]
           resolved == [f EXCEPT !.at = "resolved"]
           denied == AnswerTo(f, "denied", 0)
<1>1. /\ f.at = "sent" /\ f.path \in {"logout", "rotate"}
      /\ UNCHANGED <<server, jar, tab, inbox, outages>>
      /\ \/ Put(t, c, resolved) /\ Live(f.jar)
         \/ Put(t, c, denied) /\ (f.path = "rotate" => ~ Resolves(f))
  BY DEF ResolveLogout, ResolveRefresh, Resolve, Served, Answered, AnswerTo, budgets, Authorised, Resolves
<1>2. f \in Fetches /\ f.jar \in Nat
  BY ChannelsAre
<1>3. /\ resolved \in Fetches /\ resolved.path = f.path /\ resolved.at = "resolved"
      /\ resolved.latest = f.latest /\ resolved.jar = f.jar /\ resolved.csrf = f.csrf
      /\ resolved.sid = f.sid
  BY <1>2 DEF Fetches
<1>4. /\ denied \in Fetches /\ denied.path = f.path /\ denied.at = "replied"
      /\ denied.latest = f.latest /\ denied.jar = 0 /\ denied.reply = "denied" /\ denied.sid = 0
  <2>1. "denied" \in Replies /\ 0 \in Nat
    BY DEF Replies
  <2> HIDE DEF f
  <2> QED
    BY <1>2, <2>1, AnswerIs
<1>5. PICK g \in {resolved, denied} :
        /\ Put(t, c, g) /\ (g = resolved => Live(f.jar)) /\ (g = denied => (f.path = "rotate" => ~ Resolves(f)))
  <2>1. resolved # denied
    BY <1>3, <1>4
  <2> HIDE DEF resolved, denied
  <2> QED
    BY <1>1, <2>1
<1> HIDE DEF resolved, denied
<1>6. g \in Fetches /\ g.path = f.path /\ g.latest = f.latest /\ g.at \in {"resolved", "replied"}
      /\ g.jar \in {0, f.jar}
  BY <1>3, <1>4
<1>7. c \in Slots => CallIsSound(g)
  BY <1>1, <1>6, ChannelsAre DEF CallIsSound, Running
<1>8. c = "refresh" => RefreshIsSound(g)
  BY <1>1, <1>6, ChannelsAre DEF RefreshIsSound, Running
<1>9. FetchIsSound(g)
  BY <1>3, <1>4, <1>5, ChannelsAre DEF FetchIsSound, Live
<1>10. ~ NewSession(g) /\ ~ Answer(f, {"rotate", "logout"})
  BY <1>1, <1>3, <1>4 DEF NewSession, Answer
<1>11. HydrationIsCurrent(t, g)
  BY <1>1, <1>6 DEF HydrationIsCurrent
<1>12. ASSUME Calm, c = "refresh" PROVE RefreshIsCurrent(t, g)
  <2> SUFFICES ASSUME Hydrating(t), ~ Current PROVE RefreshIsCurrent(t, g)
    BY DEF RefreshIsCurrent
  <2>1. RefreshIsCurrent(t, f) /\ f.path = "rotate"
    BY <1>1, <1>12, ChannelsAre DEF RefreshIsSound, Running
  <2>2. f.jar = jar /\ f.csrf = jar /\ csrf[t] \in {0, jar}
    BY <1>1, <2>1 DEF RefreshIsCurrent, Running, Answer
  <2>3. Resolves(f)
    BY <2>2 DEF Current, Resolves
  <2>4. g = resolved
    BY <1>5, <2>1, <2>3
  <2> QED
    BY <1>3, <2>1, <2>2, <2>4 DEF RefreshIsCurrent
<1>13. (Running(g) /\ g.latest) = (Running(f) /\ f.latest) /\ status[t] # "closed"
  BY <1>1, <1>2, <1>6, ChannelsAre DEF Running
<1> HIDE DEF f
<1> QED
  BY <1>1, <1>5, <1>6, <1>7, <1>8, <1>9, <1>10, <1>11, <1>12, <1>13, CallMoves DEF f

LEMMA ProbeStep == ASSUME BrowserInv, NEW t \in Tabs, Probe(t) PROVE BrowserInv'
<1> DEFINE f == net[t]["refresh"]
           g == Request("probe", jar, 0)
<1>1. /\ f.at = "replied" /\ f.path = "rotate" /\ f.reply = "denied" /\ Put(t, "refresh", g)
      /\ UNCHANGED <<server, jar, tab, inbox, outages>>
  BY DEF Probe, RefreshReply, budgets
<1>2. "refresh" \in Channels /\ "refresh" \notin Slots
  BY SlotsAssumption DEF Channels
<1>3. jar \in Nat /\ jar <= Len(sessions)
  BY <1>2, ChannelsAre
<1>4. g \in Fetches /\ g.path = "probe" /\ g.at = "sent" /\ g.latest = FALSE /\ g.jar = jar
      /\ g.sid = 0
  <2>1. "probe" \in Paths /\ 0 \in Nat
    BY DEF Paths
  <2> QED
    BY <1>3, <2>1, RequestIs
<1> HIDE DEF g
<1>5. RefreshIsSound(g) /\ FetchIsSound(g) /\ ~ NewSession(g) /\ ~ Answer(f, {"rotate", "logout"})
  BY <1>1, <1>3, <1>4 DEF RefreshIsSound, FetchIsSound, NewSession, Answer
<1>6. Calm => RefreshIsCurrent(t, g)
  BY <1>1, <1>2, ChannelsAre DEF RefreshIsCurrent, Running, Answer
<1>7. status[t] # "closed"
  BY <1>1, <1>2, ChannelsAre DEF Running
<1> QED
  BY <1>1, <1>2, <1>4, <1>5, <1>6, <1>7, CallMoves

LEMMA CallReturnsStep ==
  ASSUME BrowserInv, NEW t \in Tabs, NEW s \in Slots, CallReturns(t, s) PROVE BrowserInv'
<1>1. /\ net[t][s].at = "replied" /\ Put(t, s, None)
      /\ UNCHANGED <<server, jar, tab, inbox, outages>>
      /\ net[t][s].path \in {"api", "login", "logout"}
      /\ net[t][s].path = "logout" => net[t][s].reply = "down"
  BY DEF CallReturns, CallReply, budgets
<1>2. s \in Channels /\ s # "refresh"
  BY SlotsAssumption DEF Channels
<1>3. status[t] # "closed" /\ ~ (Running(net[t][s]) /\ net[t][s].latest)
  BY <1>1, <1>2, ChannelsAre DEF Running, CallIsSound
<1>4. ~ Answer(net[t][s], {"rotate", "logout"}) /\ HydrationIsCurrent(t, None) /\ ~ NewSession(None)
  BY <1>1, NoneIs DEF Answer, HydrationIsCurrent, NewSession
<1> QED
  BY <1>1, <1>2, <1>3, <1>4, NoneIs, CallMoves
-----------------------------------------------------------------------------
(* The backend changes its rows for a call, and the cookies stay. *)
LEMMA ServerMoves ==
  ASSUME BrowserInv, BrowserTypeInv', NEW t \in Tabs, NEW c \in Channels, NEW g \in Fetches,
         Put(t, c, g), UNCHANGED <<jar, tab, inbox, outages>>, status[t] # "closed",
         Len(sessions) <= Len(sessions'), Live(jar)' => Live(jar), jar \in fresh' <=> jar \in fresh,
         ParentsAreOver', OneSuccessor', FetchIsSound(net[t][c])',
         c \in Slots => CallIsSound(g), c = "refresh" => RefreshIsSound(g),
         Calm => /\ c \in Slots => {g.path, net[t][c].path} \subseteq {"login", "logout"}
                 /\ c = "refresh" => RefreshIsCurrent(t, net[t]["refresh"])'
                 /\ NewSessionsAreUnused' /\ DeathIsAnnounced'
  PROVE  BrowserInv'
<1>1. /\ UNCHANGED <<jar, csrf, status, user, inbox, outages>>
      /\ BrowserTypeInv /\ Len(sessions) \in Nat /\ Len(sessions') \in Nat /\ outages \in Nat
  BY DEF tab, BrowserInv, BrowserTypeInv
<1>2. net[t] \in [Channels -> Fetches] /\ net' = [net EXCEPT ![t] = [net[t] EXCEPT ![c] = g]]
  BY <1>1 DEF Put, BrowserTypeInv
<1>3. /\ net'[t][c] = g /\ \A d \in Channels \ {c} : net'[t][d] = net[t][d]
      /\ \A o \in Tabs \ {t} : net'[o] = net[o]
  BY <1>1, <1>2 DEF BrowserTypeInv
<1>4. TabIsSound(t)'
  <2>1. TabIsSound(t)
    BY DEF BrowserInv
  <2>2. ASSUME NEW d \in Channels \ {c} PROVE FetchIsSound(net[t][d])'
    <3>1. FetchIsSound(net[t][d]) /\ net[t][d].jar \in Nat /\ net[t][d].sid \in Nat
      BY <1>2, <2>1 DEF TabIsSound, Fetches
    <3> QED
      BY <1>1, <1>3, <3>1 DEF FetchIsSound
  <2>3. \A d \in Channels : FetchIsSound(net[t][d])'
    BY <2>2
  <2>4. ASSUME NEW s \in Slots PROVE CallIsSound(net'[t][s])
    BY <1>3, <2>1 DEF TabIsSound, Channels
  <2>5. RefreshIsSound(net'[t]["refresh"])
    BY <1>3, <2>1 DEF TabIsSound, Channels
  <2> QED
    BY <1>1, <2>3, <2>4, <2>5 DEF TabIsSound
<1>5. ASSUME NEW o \in Tabs \ {t} PROVE TabIsSound(o)'
  BY <1>1, <1>3, TabStaysSound DEF BrowserInv
<1>6. ASSUME Calm, NEW o \in Tabs \ {t} PROVE TabIsCurrent(o)'
  BY <1>1, <1>3, <1>6, TabStays DEF BrowserInv
<1>7. ASSUME Calm PROVE TabIsCurrent(t)'
  <2>1. TabIsCurrent(t) /\ TabIsSound(t)
    BY <1>7 DEF BrowserInv
  <2>2. (Current => Current') /\ (Told(t)' <=> Told(t))
    BY <1>1 DEF Current, Told
  <2>3. \A s \in Slots : (Running(net'[t][s]) /\ net'[t][s].latest)
                          <=> (Running(net[t][s]) /\ net[t][s].latest)
    <3> TAKE s \in Slots
    <3>1. CASE s = c
      BY <1>3, <1>7, <2>1, <3>1 DEF TabIsSound, CallIsSound
    <3>2. CASE s # c
      BY <1>3, <3>2 DEF Channels
    <3> QED
      BY <3>1, <3>2
  <2>4. Hydrating(t)' <=> Hydrating(t)
    BY <2>3 DEF Hydrating
  <2>5. ASSUME NEW s \in Slots PROVE HydrationIsCurrent(t, net[t][s])'
    <3>1. HydrationIsCurrent(t, net[t][s])
      BY <2>1 DEF TabIsCurrent
    <3>2. CASE s = c
      BY <1>3, <1>7, <3>2 DEF HydrationIsCurrent
    <3>3. CASE s # c
      <4>1. net'[t][s] = net[t][s]
        BY <1>3, <3>3 DEF Channels
      <4> QED
        BY <1>1, <2>2, <3>1, <4>1 DEF HydrationIsCurrent
    <3> QED
      BY <3>2, <3>3
  <2>6. RefreshIsCurrent(t, net[t]["refresh"])'
    <3>1. RefreshIsCurrent(t, net[t]["refresh"])
      BY <2>1 DEF TabIsCurrent
    <3>2. CASE c # "refresh"
      <4>1. net'[t]["refresh"] = net[t]["refresh"]
        BY <1>3, <3>2 DEF Channels
      <4> QED
        BY <1>1, <2>2, <2>4, <3>1, <4>1 DEF RefreshIsCurrent
    <3> QED
      BY <1>7, <3>2
  <2>7. StatusIsCurrent(t)'
    BY <1>1, <2>1, <2>2, <2>4 DEF TabIsCurrent, StatusIsCurrent, Over
  <2> QED
    BY <1>1, <2>1, <2>2, <2>5, <2>6, <2>7 DEF TabIsCurrent
<1>8. Calm' => Calm
  BY <1>1 DEF Calm
<1>9. \A o \in Tabs : TabIsSound(o)' /\ (Calm => TabIsCurrent(o)')
  BY <1>4, <1>5, <1>6, <1>7
<1> QED
  BY <1>8, <1>9 DEF BrowserInv

(* The cookies change, for a session that was just opened or for none, and every
   open document is told. *)
LEMMA TabHears ==
  ASSUME NEW o \in Tabs, Told(o)', Current', (Last(inbox[o]) = "logout" => jar = 0)',
         status'[o] \in {"checking", "refreshing"} => Hydrating(o)', status'[o] # "unavailable"
  PROVE  TabIsCurrent(o)'
BY DEF TabIsCurrent, HydrationIsCurrent, RefreshIsCurrent, StatusIsCurrent

LEMMA JarMoves ==
  ASSUME BrowserInv, BrowserTypeInv', NEW t \in Tabs, UNCHANGED <<sessions, fresh, outages>>,
         NEW event \in {"session", "login", "logout"}, Publish(event), status[t] # "closed",
         \A o \in Tabs \ {t} : net'[o] = net[o] /\ csrf'[o] = csrf[o] /\ status'[o] = status[o],
         TabIsSound(t)', Calm => Current', jar' = 0 \/ (event # "logout" /\ (Calm => Live(jar)')),
         Calm => /\ status'[t] \in {"checking", "refreshing"} => Hydrating(t)'
                 /\ status'[t] # "unavailable",
         Calm => \A c \in Channels :
                   /\ net'[t][c].jar \in {0, jar', net[t][c].jar}
                   /\ NewSession(net'[t][c]) =>
                        NewSession(net[t][c]) /\ net'[t][c].sid = net[t][c].sid,
         Calm => jar' = 0 \/ \E c \in Channels : /\ NewSession(net[t][c]) /\ net[t][c].sid = jar'
                                                 /\ ~ NewSession(net'[t][c])
  PROVE  BrowserInv'
<1>1. BrowserTypeInv /\ Len(sessions) \in Nat /\ outages \in Nat
  BY DEF BrowserInv, BrowserTypeInv
<1>2. \A o \in Tabs :
        /\ status[o] = "closed" => inbox'[o] = inbox[o]
        /\ status[o] # "closed" =>
             \/ inbox'[o] = Append(inbox[o], event)
             \/ inbox'[o] = inbox[o] /\ inbox[o] # <<>> /\ Last(inbox[o]) = event
  BY DEF Publish
<1>3. \A o \in Tabs : status[o] # "closed" => inbox'[o] # <<>> /\ Last(inbox'[o]) = event
  <2> SUFFICES ASSUME NEW o \in Tabs, status[o] # "closed"
               PROVE  inbox'[o] # <<>> /\ Last(inbox'[o]) = event
    OBVIOUS
  <2>1. inbox[o] \in Seq({"session", "login", "logout"})
    BY <1>1 DEF BrowserTypeInv
  <2>2. CASE inbox'[o] = Append(inbox[o], event)
    BY <2>1, <2>2 DEF Last
  <2> QED
    BY <1>2, <2>2
<1>4. ASSUME NEW o \in Tabs \ {t} PROVE TabIsSound(o)'
  <2>1. TabIsSound(o)
    BY DEF BrowserInv
  <2>2. \A c \in Channels : FetchIsSound(net[o][c])'
    BY <2>1 DEF TabIsSound, FetchIsSound
  <2>3. status[o] = "closed" => inbox'[o] = inbox[o]
    BY <1>2
  <2> QED
    BY <2>1, <2>2, <2>3 DEF TabIsSound
<1>5. ParentsAreOver' /\ OneSuccessor'
  BY DEF BrowserInv, ParentsAreOver, OneSuccessor
<1>6. ASSUME Calm, NEW o \in Tabs, status[o] # "closed" PROVE TabIsCurrent(o)'
  <2>1. Told(o)' /\ (Last(inbox[o]) = "logout" => jar = 0)'
    BY <1>3, <1>6 DEF Told
  <2>2. status'[o] \in {"checking", "refreshing"} => Hydrating(o)'
    <3>1. CASE o # t
      <4>1. Hydrating(o)' <=> Hydrating(o)
        BY <3>1 DEF Hydrating
      <4> QED
        BY <1>6, <3>1, <4>1 DEF BrowserInv, TabIsCurrent, StatusIsCurrent
    <3> QED
      BY <1>6, <3>1
  <2>3. status'[o] # "unavailable"
    <3>1. CASE o # t
      BY <1>6, <3>1 DEF BrowserInv, TabIsCurrent, StatusIsCurrent
    <3> QED
      BY <1>6, <3>1
  <2> QED
    BY <1>6, <2>1, <2>2, <2>3, TabHears
<1>7. ASSUME Calm, NEW o \in Tabs, status[o] = "closed" PROVE TabIsCurrent(o)'
  <2>1. o # t /\ net'[o] = net[o] /\ status'[o] = "closed" /\ csrf'[o] = csrf[o]
    BY <1>7
  <2>2. inbox'[o] = <<>> /\ \A c \in Channels : ~ Running(net'[o][c])
    BY <1>2, <1>7, <2>1 DEF BrowserInv, TabIsSound
  <2>3. ~ Told(o)' /\ ~ Hydrating(o)'
    BY <2>2 DEF Told, Hydrating, Channels
  <2>4. \A s \in Slots : HydrationIsCurrent(o, net[o][s])'
    BY <2>2 DEF HydrationIsCurrent, Channels
  <2>5. RefreshIsCurrent(o, net[o]["refresh"])' /\ StatusIsCurrent(o)'
    BY <2>1, <2>3 DEF RefreshIsCurrent, StatusIsCurrent, Over
  <2> QED
    BY <2>3, <2>4, <2>5 DEF TabIsCurrent
<1>8. ASSUME Calm PROVE NewSessionsAreUnused' /\ DeathIsAnnounced'
  <2>1. ASSUME NEW a \in Tabs, NEW c \in Channels
        PROVE  /\ net'[a][c].jar \in {0, jar', net[a][c].jar}
               /\ NewSession(net'[a][c]) =>
                    NewSession(net[a][c]) /\ net'[a][c].sid = net[a][c].sid
    BY <1>8
  <2>2. ASSUME NEW a \in Tabs, NEW c \in Channels, NewSession(net'[a][c])
        PROVE  LET sid == net'[a][c].sid IN
               /\ Live(sid) /\ sid \in fresh /\ sid # jar'
               /\ \A o \in Tabs, d \in Channels :
                    /\ net'[o][d].jar # sid
                    /\ NewSession(net'[o][d]) /\ net'[o][d].sid = sid => o = a /\ d = c
    <3> DEFINE sid == net[a][c].sid
    <3>1. NewSession(net[a][c]) /\ net'[a][c].sid = sid
      BY <2>1, <2>2
    <3>2. /\ Live(sid) /\ sid \in fresh
          /\ \A o \in Tabs, d \in Channels :
               /\ net[o][d].jar # sid
               /\ NewSession(net[o][d]) /\ net[o][d].sid = sid => o = a /\ d = c
      BY <1>8, <3>1 DEF BrowserInv, NewSessionsAreUnused
    <3>3. sid # 0
      BY <3>2 DEF Live
    <3>4. sid # jar'
      BY <1>8, <2>2, <3>2, <3>3
    <3> HIDE DEF sid
    <3> QED
      BY <2>1, <3>1, <3>2, <3>3, <3>4
  <2>3. NewSessionsAreUnused'
    <3>1. \A sid : Live(sid)' <=> Live(sid)
      BY DEF Live
    <3> QED
      BY <2>2, <3>1 DEF NewSessionsAreUnused
  <2>4. DeathIsAnnounced'
    BY <1>8 DEF DeathIsAnnounced
  <2> QED
    BY <2>3, <2>4
<1>9. Calm' => Calm
  BY DEF Calm
<1>10. \A o \in Tabs : Calm => TabIsCurrent(o)'
  BY <1>6, <1>7
<1>11. \A o \in Tabs : TabIsSound(o)'
  BY <1>4
<1> QED
  BY <1>5, <1>8, <1>9, <1>10, <1>11 DEF BrowserInv
-----------------------------------------------------------------------------
LEMMA RowsAre ==
  ASSUME BrowserInv
  PROVE  /\ sessions \in Seq(Rows) /\ Len(sessions) \in Nat /\ DOMAIN sessions = 1..Len(sessions)
         /\ \A i \in DOMAIN sessions : /\ sessions[i] \in Rows /\ sessions[i].parent \in Nat
                                       /\ sessions[i].live \in BOOLEAN
         /\ fresh \subseteq 1..Len(sessions) /\ jar \in 0..Len(sessions)
<1>1. sessions \in Seq(Rows) /\ fresh \subseteq 1..Len(sessions) /\ jar \in 0..Len(sessions)
  BY DEF BrowserInv, BrowserTypeInv
<1>2. Len(sessions) \in Nat /\ DOMAIN sessions = 1..Len(sessions)
      /\ \A i \in DOMAIN sessions : sessions[i] \in Rows
  BY <1>1
<1> QED
  BY <1>1, <1>2 DEF Rows

(* The rows of a session that ends. *)
LEMMA EndedRow ==
  ASSUME BrowserInv, NEW old \in 1..Len(sessions)
  PROVE  LET ended == [sessions EXCEPT ![old] = [sessions[old] EXCEPT !.live = FALSE]] IN
         /\ ended \in Seq(Rows) /\ Len(ended) = Len(sessions)
         /\ \A i \in 1..Len(sessions) : /\ ended[i].parent = sessions[i].parent
                                        /\ ended[i].live = (sessions[i].live /\ i # old)
<1> DEFINE row == [sessions[old] EXCEPT !.live = FALSE]
           ended == [sessions EXCEPT ![old] = row]
<1>1. sessions[old] \in Rows /\ DOMAIN sessions = 1..Len(sessions) /\ Len(sessions) \in Nat
  BY RowsAre
<1>2. row \in Rows /\ row.live = FALSE /\ row.parent = sessions[old].parent
  BY <1>1 DEF Rows
<1> HIDE DEF row
<1>3. /\ ended \in Seq(Rows) /\ Len(ended) = Len(sessions) /\ ended[old] = row
      /\ \A i \in 1..Len(sessions) : i # old => ended[i] = sessions[i]
  <2>1. ended \in [1..Len(sessions) -> Rows]
    BY <1>1, <1>2, RowsAre
  <2> QED
    BY <1>1, <2>1
<1> HIDE DEF ended
<1>4. ASSUME NEW i \in 1..Len(sessions)
      PROVE  /\ ended[i].parent = sessions[i].parent
             /\ ended[i].live = (sessions[i].live /\ i # old)
  <2>1. CASE i = old
    BY <1>2, <1>3, <2>1
  <2>2. CASE i # old
    BY <1>1, <1>3, <2>2, RowsAre
  <2> QED
    BY <2>1, <2>2
<1> QED
  BY <1>3, <1>4 DEF ended, row

LEMMA ServeLogoutStep ==
  ASSUME BrowserInv, NEW t \in Tabs, NEW c \in Channels, ServeLogout(t, c) PROVE BrowserInv'
<1> DEFINE f == net[t][c]
           old == f.jar
           g == AnswerTo(f, "ok", old)
<1>1. /\ f.at = "resolved" /\ f.path = "logout" /\ Put(t, c, g)
      /\ sessions' = [sessions EXCEPT ![old] = [sessions[old] EXCEPT !.live = FALSE]]
      /\ UNCHANGED <<fresh, jar, tab, inbox, outages>>
  BY DEF ServeLogout, Resolved, Granted, Answered, AnswerTo, budgets
<1>2. f \in Fetches /\ old \in 1..Len(sessions) /\ jar \in Nat /\ Len(sessions) \in Nat
      /\ FetchIsSound(f) /\ old \in Nat
  BY <1>1, ChannelsAre DEF FetchIsSound
<1>3. /\ g \in Fetches /\ g.path = f.path /\ g.at = "replied" /\ g.latest = f.latest
      /\ g.jar = 0 /\ g.reply = "ok" /\ g.sid = old
  <2>1. "ok" \in Replies
    BY DEF Replies
  <2> HIDE DEF f, old
  <2> QED
    BY <1>2, <2>1, AnswerIs
<1>4. c \in Slots /\ c # "refresh"
  BY <1>1, SlotsAssumption, ChannelsAre DEF RefreshIsSound, Running, Channels
<1>5. CallIsSound(g) /\ status[t] # "closed"
  BY <1>1, <1>3, <1>4, ChannelsAre DEF CallIsSound, Running
<1> HIDE DEF g, old
<1>6. /\ sessions' \in Seq(Rows) /\ Len(sessions') = Len(sessions)
      /\ \A i \in 1..Len(sessions) : /\ sessions'[i].parent = sessions[i].parent
                                     /\ sessions'[i].live = (sessions[i].live /\ i # old)
  BY <1>1, <1>2, EndedRow
<1>7. /\ DOMAIN sessions' = 1..Len(sessions) /\ DOMAIN sessions = 1..Len(sessions)
      /\ jar \in 0..Len(sessions)
  BY <1>2, <1>6, RowsAre
<1>8. ASSUME NEW sid \in 0..Len(sessions) PROVE Live(sid)' <=> (Live(sid) /\ sid # old)
  <2>1. CASE sid = 0
    BY <2>1 DEF Live
  <2>2. CASE sid # 0
    <3>1. sid \in 1..Len(sessions)
      BY <1>2, <2>2
    <3>2. sessions'[sid].live = (sessions[sid].live /\ sid # old)
      BY <1>6, <3>1
    <3> QED
      BY <2>2, <3>2 DEF Live
  <2> QED
    BY <2>1, <2>2
<1>9. net' \in [Tabs -> [Channels -> Fetches]] /\ net'[t][c] = g
      /\ \A o \in Tabs, d \in Channels : ~ (o = t /\ d = c) => net'[o][d] = net[o][d]
  BY <1>1, <1>3 DEF Put, BrowserInv, BrowserTypeInv
<1>10. BrowserTypeInv'
  BY <1>1, <1>6, <1>9 DEF BrowserInv, BrowserTypeInv, tab
<1>11. ParentsAreOver' /\ OneSuccessor'
  BY <1>2, <1>6, <1>7, RowsAre DEF BrowserInv, ParentsAreOver, OneSuccessor
<1>12. FetchIsSound(net[t][c])'
  BY <1>2, <1>3, <1>6, <1>9 DEF FetchIsSound
<1>13. ASSUME Calm PROVE NewSessionsAreUnused'
  <2>1. ~ NewSession(g)
    BY <1>1, <1>3 DEF NewSession, Answer
  <2>2. ASSUME NEW a \in Tabs, NEW d \in Channels, NewSession(net'[a][d])
        PROVE  LET sid == net'[a][d].sid IN
               /\ sid \in 0..Len(sessions) /\ Live(sid) /\ sid # old /\ sid \in fresh /\ sid # jar
               /\ \A o \in Tabs, e \in Channels :
                    /\ net'[o][e].jar # sid
                    /\ NewSession(net'[o][e]) /\ net'[o][e].sid = sid => o = a /\ e = d
    <3>1. net'[a][d] = net[a][d] /\ NewSession(net[a][d])
      BY <1>9, <2>1, <2>2
    <3>2. net[a][d].sid \in Nat /\ net[a][d].sid <= Len(sessions)
      BY ChannelsAre DEF FetchIsSound, Fetches
    <3> DEFINE sid == net[a][d].sid
    <3>3. /\ Live(sid) /\ sid \in fresh /\ sid # jar /\ sid # 0
          /\ \A o \in Tabs, e \in Channels :
               /\ net[o][e].jar # sid
               /\ NewSession(net[o][e]) /\ net[o][e].sid = sid => o = a /\ e = d
      BY <1>13, <3>1 DEF BrowserInv, NewSessionsAreUnused, Live
    <3>4. sid # old
      BY <3>3 DEF old
    <3>5. sid \in 0..Len(sessions)
      BY <1>2, <3>2
    <3> HIDE DEF sid
    <3> QED
      BY <1>3, <1>9, <2>1, <3>1, <3>3, <3>4, <3>5 DEF sid
  <2> QED
    BY <1>1, <1>8, <2>2 DEF NewSessionsAreUnused, server
<1>14. DeathIsAnnounced'
  BY <1>1, <1>3, <1>9 DEF DeathIsAnnounced, Answer
<1>15. Live(jar)' => Live(jar)
  BY <1>1, <1>7, <1>8
<1> HIDE DEF f
<1> QED
  BY <1>1, <1>3, <1>4, <1>5, <1>6, <1>10, <1>11, <1>12, <1>13, <1>14, <1>15, <1>2, ServerMoves DEF f

LEMMA OpenedRow ==
  ASSUME BrowserInv, NEW parent \in Nat
  PROVE  /\ Open(parent) \in Seq(Rows) /\ Len(Open(parent)) = Len(sessions) + 1
         /\ \A i \in 1..Len(sessions) : Open(parent)[i] = sessions[i]
         /\ Open(parent)[Len(sessions) + 1].parent = parent
         /\ Open(parent)[Len(sessions) + 1].live = TRUE
<1> DEFINE row == [live |-> TRUE, parent |-> parent]
<1>1. row \in Rows /\ row.live = TRUE /\ row.parent = parent
  BY DEF Rows
<1>2. sessions \in Seq(Rows)
  BY RowsAre
<1>3. Open(parent) = Append(sessions, row)
  BY DEF Open
<1> HIDE DEF row
<1> QED
  BY <1>1, <1>2, <1>3

(* The answer to a login or a rotation carries a session nobody has. *)
LEMMA OpenedIsUnused ==
  ASSUME BrowserInv, Calm, NEW t \in Tabs, NEW c \in Channels, NEW g,
         NEW opened, opened = Len(sessions) + 1, jar' = jar, fresh' = fresh \cup {opened},
         net'[t][c] = g, g.jar = 0, NewSession(g), g.sid = opened,
         \A o \in Tabs, d \in Channels : ~ (o = t /\ d = c) => net'[o][d] = net[o][d],
         Live(opened)',
         \A sid \in 0..Len(sessions) : Live(sid) /\ sid # net[t][c].jar => Live(sid)'
  PROVE  NewSessionsAreUnused'
<1>1. Len(sessions) \in Nat /\ jar \in 0..Len(sessions)
  BY RowsAre
<1>2. ASSUME NEW o \in Tabs, NEW d \in Channels
      PROVE  /\ net[o][d].jar \in 0..Len(sessions) /\ net[o][d].sid \in 0..Len(sessions)
             /\ net'[o][d].jar \in 0..Len(sessions)
  BY <1>1, ChannelsAre DEF FetchIsSound, Fetches
<1>3. ASSUME NEW a \in Tabs, NEW d \in Channels, NewSession(net'[a][d])
      PROVE  LET sid == net'[a][d].sid IN
             /\ sid = opened \/ (sid \in 0..Len(sessions) /\ Live(sid) /\ sid # net[t][c].jar)
             /\ sid \in fresh' /\ sid # jar
             /\ \A o \in Tabs, e \in Channels :
                  /\ net'[o][e].jar # sid
                  /\ NewSession(net'[o][e]) /\ net'[o][e].sid = sid => o = a /\ e = d
  <2>1. CASE a = t /\ d = c
    <3>1. \A o \in Tabs, e \in Channels :
            /\ net'[o][e].jar # opened
            /\ net'[o][e].sid = opened => o = t /\ e = c
      <4> TAKE o \in Tabs, e \in Channels
      <4>1. net'[o][e].jar # opened
        BY <1>1, <1>2
      <4>2. net'[o][e].sid = opened => o = t /\ e = c
        BY <1>1, <1>2
      <4> QED
        BY <4>1, <4>2
    <3> QED
      BY <1>1, <2>1, <3>1
  <2>2. CASE ~ (a = t /\ d = c)
    <3> DEFINE sid == net[a][d].sid
    <3>1. net'[a][d] = net[a][d] /\ NewSession(net[a][d]) /\ sid \in 0..Len(sessions)
      BY <1>2, <1>3, <2>2
    <3>2. /\ Live(sid) /\ sid \in fresh /\ sid # jar /\ sid # 0
          /\ \A o \in Tabs, e \in Channels :
               /\ net[o][e].jar # sid
               /\ NewSession(net[o][e]) /\ net[o][e].sid = sid => o = a /\ e = d
      BY <3>1 DEF BrowserInv, NewSessionsAreUnused, Live
    <3> HIDE DEF sid
    <3>3. sid # opened
      BY <1>1, <3>1
    <3> QED
      BY <2>2, <3>1, <3>2, <3>3 DEF sid
  <2> QED
    BY <2>1, <2>2
<1>4. ASSUME NEW a \in Tabs, NEW d \in Channels, NEW sid, sid = net'[a][d].sid, NewSession(net'[a][d])
      PROVE  Live(sid)'
  <2>1. sid = opened \/ (sid \in 0..Len(sessions) /\ Live(sid) /\ sid # net[t][c].jar)
    BY <1>3, <1>4
  <2> QED
    BY <2>1
<1> QED
  BY <1>3, <1>4 DEF NewSessionsAreUnused

LEMMA ServeLoginStep ==
  ASSUME BrowserInv, NEW t \in Tabs, NEW c \in Channels, ServeLogin(t, c) PROVE BrowserInv'
<1>0. PICK sid : sid = Len(sessions) + 1
  OBVIOUS
<1> DEFINE f == net[t][c]
           g == AnswerTo(f, "ok", sid)
<1>1. Len(sessions) \in Nat /\ DOMAIN sessions = 1..Len(sessions) /\ jar \in 0..Len(sessions)
      /\ fresh \subseteq 1..Len(sessions)
  BY RowsAre
<1>2. /\ sessions' \in Seq(Rows) /\ Len(sessions') = sid
      /\ \A i \in 1..Len(sessions) : sessions'[i] = sessions[i]
      /\ sessions'[sid].parent = 0 /\ sessions'[sid].live = TRUE
  BY <1>0, OpenedRow DEF ServeLogin
<1>3. /\ f.at = "sent" /\ f.path = "login" /\ Put(t, c, g) /\ fresh' = fresh \cup {sid}
      /\ UNCHANGED <<jar, tab, inbox, outages>>
  BY <1>2 DEF ServeLogin, Served, Answered, AnswerTo, budgets
<1>4. f \in Fetches /\ sid \in Nat
  BY <1>0, <1>1, ChannelsAre
<1>5. /\ g \in Fetches /\ g.path = f.path /\ g.at = "replied" /\ g.latest = f.latest
      /\ g.jar = 0 /\ g.reply = "ok" /\ g.sid = sid
  <2>1. "ok" \in Replies
    BY DEF Replies
  <2> HIDE DEF f
  <2> QED
    BY <1>4, <2>1, AnswerIs
<1>6. c \in Slots /\ c # "refresh"
  BY <1>3, SlotsAssumption, ChannelsAre DEF RefreshIsSound, Running, Channels
<1>7. CallIsSound(g) /\ status[t] # "closed"
  BY <1>3, <1>5, <1>6, ChannelsAre DEF CallIsSound, Running
<1> HIDE DEF g
<1>8. net' \in [Tabs -> [Channels -> Fetches]] /\ net'[t][c] = g
      /\ \A o \in Tabs, d \in Channels : ~ (o = t /\ d = c) => net'[o][d] = net[o][d]
  BY <1>3, <1>5 DEF Put, BrowserInv, BrowserTypeInv
<1>9. BrowserTypeInv'
  <2>1. 1..sid = 1..Len(sessions) \cup {sid} /\ 0..Len(sessions) \subseteq 0..sid
    BY <1>0, <1>1
  <2>2. fresh' \subseteq 1..Len(sessions') /\ jar' \in 0..Len(sessions')
    BY <1>1, <1>2, <1>3, <2>1
  <2> QED
    BY <1>2, <1>3, <1>8, <2>2 DEF BrowserInv, BrowserTypeInv, tab
<1>10. DOMAIN sessions' = 1..sid
  BY <1>2
<1>11. ParentsAreOver' /\ OneSuccessor'
  <2>1. ParentsAreOver /\ OneSuccessor
    BY DEF BrowserInv
  <2>2. \A i \in 1..sid : i \in 1..Len(sessions) \/ i = sid
    BY <1>0, <1>1
  <2> QED
    BY <1>0, <1>1, <1>2, <1>10, <2>1, <2>2 DEF ParentsAreOver, OneSuccessor
<1>12. FetchIsSound(net[t][c])'
  BY <1>0, <1>1, <1>2, <1>5, <1>8 DEF FetchIsSound
<1>13. ASSUME NEW old \in 0..Len(sessions) PROVE Live(old)' <=> Live(old)
  BY <1>0, <1>1, <1>2 DEF Live
<1>14. ASSUME Calm PROVE NewSessionsAreUnused'
  <2>1. NewSession(g) /\ Live(sid)'
    BY <1>0, <1>1, <1>2, <1>3, <1>5 DEF NewSession, Answer, Live
  <2> QED
    BY <1>0, <1>3, <1>5, <1>8, <1>13, <1>14, <2>1, OpenedIsUnused
<1>15. ASSUME Calm PROVE DeathIsAnnounced'
  <2>1. ASSUME NEW a \in Tabs, NEW d \in Channels, Answer(net[a][d], {"rotate", "logout"})
        PROVE  Answer(net'[a][d], {"rotate", "logout"})
    BY <1>3, <1>8, <2>1 DEF Answer
  <2>2. Live(jar)' <=> Live(jar)
    BY <1>0, <1>1, <1>2, <1>3 DEF Live
  <2> QED
    BY <1>3, <1>15, <2>1, <2>2 DEF BrowserInv, DeathIsAnnounced
<1>16. /\ Live(jar)' => Live(jar)
       /\ jar \in fresh' <=> jar \in fresh
  BY <1>0, <1>1, <1>2, <1>3 DEF Live
<1>17. Len(sessions) <= Len(sessions')
  BY <1>0, <1>1, <1>2
<1> HIDE DEF f
<1> QED
  BY <1>3, <1>5, <1>6, <1>7, <1>9, <1>11, <1>12, <1>14, <1>15, <1>16, <1>17, ServerMoves DEF f

LEMMA RotateStep ==
  ASSUME BrowserInv, NEW t \in Tabs, NEW c \in Channels, Rotate(t, c) PROVE BrowserInv'
<1>0. PICK sid : sid = Len(sessions) + 1
  OBVIOUS
<1> DEFINE f == net[t][c]
           old == f.jar
           g == AnswerTo(f, "ok", sid)
           denied == AnswerTo(f, "denied", 0)
<1>1. Len(sessions) \in Nat /\ DOMAIN sessions = 1..Len(sessions) /\ jar \in 0..Len(sessions)
      /\ fresh \subseteq 1..Len(sessions)
  BY RowsAre
<1>2. /\ f.at = "resolved" /\ f.path = "rotate" /\ UNCHANGED <<jar, tab, inbox, outages>>
      /\ IF Live(old)
           THEN /\ sessions' = [Open(old) EXCEPT ![old] = [Open(old)[old] EXCEPT !.live = FALSE]]
                /\ fresh' = fresh \cup {Len(sessions')} /\ Put(t, c, AnswerTo(f, "ok", Len(sessions')))
           ELSE Put(t, c, denied) /\ UNCHANGED server
  BY DEF Rotate, Resolved, Answered, AnswerTo, budgets
<1>3. /\ f \in Fetches /\ old \in 1..Len(sessions) /\ FetchIsSound(f) /\ sid \in Nat
  BY <1>0, <1>1, <1>2, ChannelsAre DEF FetchIsSound
<1>4. c \notin Slots /\ c = "refresh"
  BY <1>2, ChannelsAre DEF CallIsSound, Running, Channels
<1>5. status[t] # "closed"
  BY <1>2, ChannelsAre DEF Running
<1>6. ASSUME Calm, Hydrating(t), ~ Current PROVE old = jar /\ Live(jar)
  <2>1. RefreshIsCurrent(t, f)
    BY <1>4, <1>6, ChannelsAre
  <2> QED
    BY <1>2, <1>6, <2>1 DEF RefreshIsCurrent, Current, Running, Answer
<1>7. ~ Answer(f, {"rotate", "logout"})
  BY <1>2 DEF Answer
<1>8. CASE ~ Live(old)
  <2>1. /\ denied \in Fetches /\ denied.path = f.path /\ denied.at = "replied"
        /\ denied.latest = f.latest /\ denied.jar = 0 /\ denied.reply = "denied" /\ denied.sid = 0
    <3>1. "denied" \in Replies /\ 0 \in Nat
      BY DEF Replies
    <3> HIDE DEF f
    <3> QED
      BY <1>3, <3>1, AnswerIs
  <2> HIDE DEF denied
  <2>2. Put(t, c, denied) /\ UNCHANGED <<server, jar, tab, inbox, outages>>
    BY <1>2, <1>8
  <2>3. FetchIsSound(denied) /\ RefreshIsSound(denied) /\ ~ NewSession(denied)
    BY <1>1, <1>2, <1>4, <2>1, ChannelsAre DEF FetchIsSound, RefreshIsSound, Running, NewSession, Answer
  <2>4. Calm => RefreshIsCurrent(t, denied)
    BY <1>6, <1>8 DEF RefreshIsCurrent
  <2> HIDE DEF f
  <2> QED
    BY <1>4, <1>5, <1>7, <2>1, <2>2, <2>3, <2>4, CallMoves DEF f
<1>9. CASE Live(old)
  <2>1. /\ Open(old) \in Seq(Rows) /\ Len(Open(old)) = sid
        /\ \A i \in 1..Len(sessions) : Open(old)[i] = sessions[i]
        /\ Open(old)[sid].parent = old /\ Open(old)[sid].live = TRUE
    <3>1. old \in Nat
      BY <1>1, <1>3
    <3> HIDE DEF old
    <3> QED
      BY <1>0, <3>1, OpenedRow
  <2> DEFINE opened == Open(old)
             row == [opened[old] EXCEPT !.live = FALSE]
  <2>2. row \in Rows /\ row.live = FALSE /\ row.parent = sessions[old].parent
    <3>1. opened[old] = sessions[old] /\ sessions[old] \in Rows
      BY <1>1, <1>3, <2>1, RowsAre
    <3> HIDE DEF opened, old
    <3> QED
      BY <3>1 DEF Rows
  <2>3. sessions' = [opened EXCEPT ![old] = row]
    BY <1>2, <1>9
  <2> HIDE DEF row, opened
  <2>4. opened \in Seq(Rows) /\ Len(opened) = sid /\ DOMAIN opened = 1..sid /\ old \in 1..sid
        /\ \A i \in 1..Len(sessions) : i \in 1..sid /\ opened[i] = sessions[i]
    BY <1>0, <1>1, <1>3, <2>1 DEF opened
  <2>5. sessions' \in Seq(Rows) /\ Len(sessions') = sid /\ DOMAIN sessions' = 1..sid
    <3>1. sessions' \in [1..sid -> Rows]
      BY <2>2, <2>3, <2>4
    <3> QED
      BY <1>3, <3>1
  <2>6. /\ sessions'[old] = row
        /\ \A i \in 1..sid : i # old => sessions'[i] = opened[i]
    BY <2>3, <2>4
  <2>7. ASSUME NEW i \in 1..Len(sessions)
        PROVE  /\ sessions'[i].parent = sessions[i].parent
               /\ sessions'[i].live = (sessions[i].live /\ i # old)
    <3>1. CASE i = old
      BY <2>2, <2>6, <3>1
    <3>2. CASE i # old
      BY <1>1, <2>4, <2>6, <3>2, RowsAre
    <3> QED
      BY <3>1, <3>2
  <2>8. sessions'[sid].parent = old /\ sessions'[sid].live = TRUE
    <3>1. sid \in 1..sid /\ sid # old
      BY <1>0, <1>1, <1>3
    <3> QED
      BY <2>1, <2>6, <3>1 DEF opened
  <2>9. Put(t, c, g) /\ fresh' = fresh \cup {sid}
    BY <1>2, <1>9, <2>5
  <2>10. /\ g \in Fetches /\ g.path = f.path /\ g.at = "replied" /\ g.latest = f.latest
         /\ g.jar = 0 /\ g.reply = "ok" /\ g.sid = sid
    <3>1. "ok" \in Replies
      BY DEF Replies
    <3> HIDE DEF f
    <3> QED
      BY <1>3, <3>1, AnswerIs
  <2> HIDE DEF g
  <2>11. net' \in [Tabs -> [Channels -> Fetches]] /\ net'[t][c] = g
         /\ \A o \in Tabs, d \in Channels : ~ (o = t /\ d = c) => net'[o][d] = net[o][d]
    BY <2>9, <2>10 DEF Put, BrowserInv, BrowserTypeInv
  <2>12. BrowserTypeInv'
    <3>1. 1..sid = 1..Len(sessions) \cup {sid} /\ 0..Len(sessions) \subseteq 0..sid
      BY <1>0, <1>1
    <3>2. fresh' \subseteq 1..Len(sessions') /\ jar' \in 0..Len(sessions')
      BY <1>1, <1>2, <2>5, <2>9, <3>1
    <3> QED
      BY <1>2, <2>5, <2>11, <3>2 DEF BrowserInv, BrowserTypeInv, tab
  <2>13. \A i \in 1..sid : i \in 1..Len(sessions) \/ i = sid
    BY <1>0, <1>1
  <2>14. ParentsAreOver /\ OneSuccessor /\ sessions[old].live
    BY <1>9 DEF BrowserInv, Live
  <2> HIDE DEF old
  <2>15. ParentsAreOver'
    <3> SUFFICES ASSUME NEW a \in 1..sid, sessions'[a].parent # 0
                 PROVE  /\ sessions'[a].parent \in 1..Len(sessions)
                        /\ ~ sessions'[sessions'[a].parent].live
      BY <1>0, <1>1, <2>5 DEF ParentsAreOver
    <3>1. CASE a = sid
      BY <1>3, <2>7, <2>8, <3>1
    <3>2. CASE a \in 1..Len(sessions)
      <4>1. sessions'[a].parent = sessions[a].parent
        BY <2>7, <3>2
      <4>2. sessions[a].parent \in 1..Len(sessions) /\ ~ sessions[sessions[a].parent].live
        BY <1>1, <2>14, <3>2, <4>1 DEF ParentsAreOver
      <4> QED
        BY <2>7, <4>1, <4>2
    <3> QED
      BY <2>13, <3>1, <3>2
  <2>16. OneSuccessor'
    <3>1. ASSUME NEW a \in 1..Len(sessions) PROVE sessions'[a].parent # old
      BY <1>1, <1>3, <2>7, <2>14, <3>1 DEF ParentsAreOver
    <3>2. ASSUME NEW a \in 1..sid, NEW b \in 1..sid, sessions'[a].parent # 0,
                 sessions'[a].parent = sessions'[b].parent
          PROVE  a = b
      <4>1. CASE a \in 1..Len(sessions) /\ b \in 1..Len(sessions)
        BY <1>1, <2>7, <2>14, <3>2, <4>1 DEF OneSuccessor
      <4>2. CASE a = sid \/ b = sid
        BY <2>8, <2>13, <3>1, <3>2, <4>2
      <4> QED
        BY <2>13, <4>1, <4>2
    <3> QED
      BY <2>5, <3>2 DEF OneSuccessor
  <2>17. FetchIsSound(net[t][c])'
    BY <1>3, <2>5, <2>10, <2>11 DEF FetchIsSound
  <2>18. ASSUME NEW i \in 0..Len(sessions) PROVE Live(i)' <=> (Live(i) /\ i # old)
    <3>1. CASE i = 0
      BY <3>1 DEF Live
    <3>2. CASE i # 0
      <4>1. i \in 1..Len(sessions)
        BY <1>1, <3>2
      <4> QED
        BY <2>7, <3>2, <4>1 DEF Live
    <3> QED
      BY <3>1, <3>2
  <2>19. /\ Live(jar)' => Live(jar)
         /\ Live(jar)' => jar # old
         /\ jar \in fresh' <=> jar \in fresh
    <3>1. jar # sid
      BY <1>0, <1>1
    <3> QED
      BY <1>1, <1>2, <2>9, <2>18, <3>1
  <2>20. ASSUME Calm PROVE NewSessionsAreUnused'
    <3>1. NewSession(g) /\ Live(sid)'
      BY <1>0, <1>1, <1>2, <2>8, <2>10 DEF NewSession, Answer, Live
    <3>2. \A i \in 0..Len(sessions) : Live(i) /\ i # net[t][c].jar => Live(i)'
      BY <2>18 DEF old
    <3> QED
      BY <1>0, <1>2, <2>9, <2>10, <2>11, <2>20, <3>1, <3>2, OpenedIsUnused
  <2>21. DeathIsAnnounced'
    BY <1>2, <2>10, <2>11 DEF DeathIsAnnounced, Answer
  <2>22. ASSUME Calm PROVE RefreshIsCurrent(t, net[t]["refresh"])'
    <3> SUFFICES ASSUME Hydrating(t)', ~ Current' PROVE FALSE
      BY DEF RefreshIsCurrent
    <3>1. Hydrating(t)
      BY <1>4, <2>11 DEF Hydrating, Channels
    <3>2. ~ Current /\ Live(jar)'
      BY <1>2, <2>19 DEF Current
    <3> QED
      BY <1>6, <2>19, <2>22, <3>1, <3>2
  <2>23. RefreshIsSound(g)
    BY <1>2, <1>4, <2>10, ChannelsAre DEF RefreshIsSound, Running
  <2>24. Len(sessions) <= Len(sessions')
    BY <1>0, <1>1, <2>5
  <2> HIDE DEF f
  <2> QED
    BY <1>2, <1>4, <1>5, <2>9, <2>10, <2>12, <2>15, <2>16, <2>17, <2>19, <2>20, <2>21, <2>22,
       <2>23, <2>24, ServerMoves DEF f
<1> QED
  BY <1>8, <1>9
-----------------------------------------------------------------------------
(* An answer is lost: nothing more is promised of what tabs show. *)
LEMMA OutageStep ==
  ASSUME BrowserInv, NEW t \in Tabs, NEW c \in Channels, Outage(t, c) PROVE BrowserInv'
<1> DEFINE f == net[t][c]
           g == AnswerTo(f, "down", 0)
<1>1. /\ f.at \in {"sent", "replied"} /\ Put(t, c, g) /\ outages' = outages + 1
      /\ UNCHANGED <<server, jar, tab, inbox>>
  BY DEF Outage, Answered, AnswerTo
<1>2. f \in Fetches /\ BrowserTypeInv /\ outages \in Nat /\ Len(sessions) \in Nat
  BY ChannelsAre DEF BrowserInv, BrowserTypeInv
<1>3. /\ g \in Fetches /\ g.path = f.path /\ g.at = "replied" /\ g.latest = f.latest
      /\ g.jar = 0 /\ g.reply = "down" /\ g.sid = 0
  <2>1. "down" \in Replies /\ 0 \in Nat
    BY DEF Replies
  <2> HIDE DEF f
  <2> QED
    BY <1>2, <2>1, AnswerIs
<1> HIDE DEF g
<1>4. net' \in [Tabs -> [Channels -> Fetches]] /\ net'[t][c] = g
      /\ \A o \in Tabs, d \in Channels : ~ (o = t /\ d = c) => net'[o][d] = net[o][d]
      /\ \A e \in Tabs \ {t} : net'[e] = net[e]
  BY <1>1, <1>2, <1>3 DEF Put, BrowserTypeInv
<1>5. /\ UNCHANGED <<sessions, fresh, jar, csrf, status, user, inbox>>
      /\ outages' \in Nat /\ outages <= outages' /\ outages' > 0
  BY <1>1, <1>2 DEF server, tab
<1>6. BrowserTypeInv'
  BY <1>2, <1>4, <1>5 DEF BrowserTypeInv
<1>7. ParentsAreOver' /\ OneSuccessor' /\ ~ Calm'
  BY <1>5 DEF BrowserInv, ParentsAreOver, OneSuccessor, Calm
<1>8. TabIsSound(t)'
  <2>1. TabIsSound(t)
    BY DEF BrowserInv
  <2>2. ASSUME NEW d \in Channels PROVE FetchIsSound(net[t][d])'
    <3>1. FetchIsSound(net[t][d])
      BY <2>1 DEF TabIsSound
    <3>2. CASE d = c
      BY <1>2, <1>3, <1>4, <1>5, <3>2 DEF FetchIsSound
    <3>3. CASE d # c
      BY <1>4, <1>5, <3>1, <3>3 DEF FetchIsSound
    <3> QED
      BY <3>2, <3>3
  <2>3. ASSUME NEW s \in Slots PROVE CallIsSound(net'[t][s])
    <3>1. CallIsSound(net[t][s]) /\ s \in Channels
      BY <2>1 DEF TabIsSound, Channels
    <3> QED
      BY <1>1, <1>3, <1>4, <3>1 DEF CallIsSound, Running
  <2>4. RefreshIsSound(net'[t]["refresh"])
    <3>1. RefreshIsSound(net[t]["refresh"]) /\ "refresh" \in Channels
      BY <2>1 DEF TabIsSound, Channels
    <3> QED
      BY <1>1, <1>3, <1>4, <3>1 DEF RefreshIsSound, Running
  <2>5. status[t] # "closed"
    BY <1>1, ChannelsAre DEF Running
  <2> QED
    BY <1>5, <2>2, <2>3, <2>4, <2>5 DEF TabIsSound
<1>9. ASSUME NEW o \in Tabs \ {t} PROVE TabIsSound(o)'
  BY <1>2, <1>4, <1>5, TabStaysSound DEF BrowserInv
<1> QED
  BY <1>6, <1>7, <1>8, <1>9 DEF BrowserInv

(* Access tokens expire while nothing is on its way. *)
LEMMA ExpireStep == ASSUME BrowserInv, Expire PROVE BrowserInv'
<1>1. /\ UNCHANGED <<sessions, jar, csrf, status, user, inbox, net, outages>>
      /\ fresh' \subseteq fresh
  BY DEF Expire, tab
<1>2. BrowserTypeInv'
  BY <1>1 DEF BrowserInv, BrowserTypeInv
<1>3. ParentsAreOver' /\ OneSuccessor' /\ \A o \in Tabs : TabIsSound(o)'
  BY <1>1 DEF BrowserInv, ParentsAreOver, OneSuccessor, TabIsSound, FetchIsSound
<1>4. ASSUME Calm
      PROVE  (\A o \in Tabs : TabIsCurrent(o)') /\ NewSessionsAreUnused' /\ DeathIsAnnounced'
  <2>1. \A o \in Tabs : inbox[o] = <<>> /\ \A c \in Channels : ~ Running(net[o][c])
    BY <1>4 DEF Expire, Calm, Quiet, Idle, Running
  <2>2. ASSUME NEW o \in Tabs PROVE TabIsCurrent(o)'
    <3>1. StatusIsCurrent(o)
      BY <1>4 DEF BrowserInv, TabIsCurrent
    <3>2. \A c \in Channels : ~ Running(net[o][c])'
      BY <1>1, <2>1 DEF Running
    <3>3. ~ Told(o)' /\ ~ Hydrating(o)' /\ (\A s \in Slots : HydrationIsCurrent(o, net[o][s])')
      BY <1>1, <2>1, <3>2 DEF Told, Hydrating, HydrationIsCurrent, Channels
    <3>4. StatusIsCurrent(o)'
      <4>1. (Told(o)' <=> Told(o)) /\ (Hydrating(o)' <=> Hydrating(o)) /\ (Live(jar)' <=> Live(jar))
        BY <1>1 DEF Told, Hydrating, Live
      <4> QED
        BY <1>1, <3>1, <4>1 DEF StatusIsCurrent, Over
    <3> QED
      BY <3>3, <3>4 DEF TabIsCurrent, RefreshIsCurrent
  <2>3. NewSessionsAreUnused'
    BY <1>1, <2>1 DEF NewSessionsAreUnused, NewSession, Answer, Running
  <2>4. DeathIsAnnounced'
    BY <1>1, <1>4 DEF BrowserInv, DeathIsAnnounced, Live
  <2> QED
    BY <2>2, <2>3, <2>4
<1>5. Calm' => Calm
  BY <1>1 DEF Calm
<1> QED
  BY <1>2, <1>3, <1>4, <1>5 DEF BrowserInv
-----------------------------------------------------------------------------
(* One tab moves: its calls, what it shows, what it is still to hear. *)
LEMMA TabStep ==
  ASSUME BrowserInv, NEW t \in Tabs, NEW calls \in [Channels -> Fetches],
         net' = [net EXCEPT ![t] = calls], UNCHANGED <<sessions, fresh, jar, outages>>,
         csrf' \in [Tabs -> Nat], status' \in [Tabs -> Statuses], user' \in [Tabs -> BOOLEAN],
         inbox' \in [Tabs -> Seq({"session", "login", "logout"})],
         \A o \in Tabs \ {t} : inbox'[o] = inbox[o] /\ csrf'[o] = csrf[o] /\ status'[o] = status[o],
         status'[t] # "closed", Calm => TabIsCurrent(t)',
         \A s \in Slots : CallIsSound(calls[s]), RefreshIsSound(calls["refresh"]),
         \A c \in Channels :
           /\ FetchIsSound(calls[c]) /\ calls[c].jar \in {0, jar, net[t][c].jar}
           /\ NewSession(calls[c]) => NewSession(net[t][c]) /\ calls[c].sid = net[t][c].sid
           /\ Answer(net[t][c], {"rotate", "logout"}) => Answer(calls[c], {"rotate", "logout"})
  PROVE  BrowserInv'
<1>1. net'[t] = calls /\ \A o \in Tabs \ {t} : net'[o] = net[o]
  BY DEF BrowserInv, BrowserTypeInv
<1>2. BrowserTypeInv'
  BY DEF BrowserInv, BrowserTypeInv
<1>3. \A c \in Channels : FetchIsSound(net[t][c])'
  BY <1>1 DEF FetchIsSound
<1>4. TabIsSound(t)'
  BY <1>1, <1>3 DEF TabIsSound
<1>5. \A c \in Channels :
           /\ net'[t][c].jar \in {0, jar, net[t][c].jar}
           /\ NewSession(net'[t][c]) => NewSession(net[t][c]) /\ net'[t][c].sid = net[t][c].sid
           /\ Answer(net[t][c], {"rotate", "logout"}) => Answer(net'[t][c], {"rotate", "logout"})
  BY <1>1
<1>6. \A o \in Tabs \ {t} : /\ net'[o] = net[o] /\ inbox'[o] = inbox[o]
                            /\ csrf'[o] = csrf[o] /\ status'[o] = status[o]
  BY <1>1
<1> QED
  BY <1>2, <1>4, <1>5, <1>6, TabMoves

LEMMA OutdatedIs ==
  \A calls \in [Channels -> Fetches] :
    /\ Outdated(calls) \in [Channels -> Fetches]
    /\ \A c \in Channels :
         /\ Outdated(calls)[c] \in Fetches /\ Outdated(calls)[c].latest = FALSE
         /\ Outdated(calls)[c].path = calls[c].path /\ Outdated(calls)[c].at = calls[c].at
         /\ Outdated(calls)[c].retried = calls[c].retried /\ Outdated(calls)[c].jar = calls[c].jar
         /\ Outdated(calls)[c].csrf = calls[c].csrf /\ Outdated(calls)[c].reply = calls[c].reply
         /\ Outdated(calls)[c].sid = calls[c].sid
<1> TAKE calls \in [Channels -> Fetches]
<1>1. \A c \in Channels : /\ Outdated(calls)[c] = [calls[c] EXCEPT !.latest = FALSE]
                          /\ calls[c] \in Fetches
  BY DEF Outdated
<1>2. DOMAIN Outdated(calls) = Channels /\ Outdated(calls) = [c \in Channels |-> Outdated(calls)[c]]
  BY DEF Outdated
<1>3. \A c \in Channels :
         /\ Outdated(calls)[c] \in Fetches /\ Outdated(calls)[c].latest = FALSE
         /\ Outdated(calls)[c].path = calls[c].path /\ Outdated(calls)[c].at = calls[c].at
         /\ Outdated(calls)[c].retried = calls[c].retried /\ Outdated(calls)[c].jar = calls[c].jar
         /\ Outdated(calls)[c].csrf = calls[c].csrf /\ Outdated(calls)[c].reply = calls[c].reply
         /\ Outdated(calls)[c].sid = calls[c].sid
  <2> TAKE c \in Channels
  <2> DEFINE f == calls[c]
             g == [f EXCEPT !.latest = FALSE]
  <2>1. f \in Fetches /\ Outdated(calls)[c] = g
    BY <1>1
  <2> HIDE DEF f
  <2>2. /\ g \in Fetches /\ g.latest = FALSE /\ g.path = f.path /\ g.at = f.at
        /\ g.retried = f.retried /\ g.jar = f.jar /\ g.csrf = f.csrf /\ g.reply = f.reply
        /\ g.sid = f.sid
    BY <2>1 DEF Fetches
  <2> HIDE DEF g
  <2> QED
    BY <2>1, <2>2 DEF f
<1>4. Outdated(calls) \in [Channels -> Fetches]
  BY <1>2, <1>3
<1> QED
  BY <1>3, <1>4

(* Where an outdated call stands is what it was. *)
LEMMA OutdatedIsSound ==
  ASSUME BrowserInv, NEW t \in Tabs, NEW c \in Channels
  PROVE  LET f == Outdated(net[t])[c] IN
         /\ c \in Slots => CallIsSound(f) /\ (Calm /\ Current => HydrationIsCurrent(t, f))
         /\ c = "refresh" => RefreshIsSound(f)
         /\ FetchIsSound(f) /\ f.jar = net[t][c].jar /\ f.sid = net[t][c].sid
         /\ NewSession(f) <=> NewSession(net[t][c])
         /\ \A paths : Answer(f, paths) <=> Answer(net[t][c], paths)
<1> DEFINE f == Outdated(net[t])[c]
           e == net[t][c]
<1>1. net[t] \in [Channels -> Fetches]
  BY DEF BrowserInv, BrowserTypeInv
<1>2. /\ f \in Fetches /\ f.latest = FALSE /\ f.path = e.path /\ f.at = e.at
      /\ f.retried = e.retried /\ f.jar = e.jar /\ f.csrf = e.csrf /\ f.reply = e.reply
      /\ f.sid = e.sid
  BY <1>1, OutdatedIs
<1>3. /\ c \in Slots => CallIsSound(e)
      /\ c = "refresh" => RefreshIsSound(e)
      /\ FetchIsSound(e)
  BY ChannelsAre
<1> HIDE DEF f, e
<1>4. c \in Slots => CallIsSound(f) /\ (Calm /\ Current => HydrationIsCurrent(t, f))
  BY <1>2, <1>3 DEF CallIsSound, HydrationIsCurrent, Running
<1>5. c = "refresh" => RefreshIsSound(f)
  BY <1>2, <1>3 DEF RefreshIsSound, Running
<1>6. FetchIsSound(f) /\ (\A paths : Answer(f, paths) <=> Answer(e, paths))
      /\ (NewSession(f) <=> NewSession(e))
  BY <1>2, <1>3 DEF FetchIsSound, Answer, NewSession
<1> QED
  BY <1>2, <1>4, <1>5, <1>6 DEF f, e


LEMMA HydrateStep ==
  ASSUME BrowserInv, NEW t \in Tabs, NEW next \in {"checking", "refreshing"}, Hydrate(t, next),
         UNCHANGED <<server, jar, csrf, user, outages>>,
         inbox' \in [Tabs -> Seq({"session", "login", "logout"})],
         \A o \in Tabs \ {t} : inbox'[o] = inbox[o],
         Told(t)' => Told(t) /\ Last(inbox'[t]) = Last(inbox[t]),
         \/ Told(t) \/ ~ Calm
         \/ csrf[t] = 0 /\ \A c \in Channels : ~ Running(net[t][c])
  PROVE  BrowserInv'
<1> DEFINE s == FreeSlot(t)
           old == Outdated(net[t])
           sent == Request("session", jar, 0)
           g == [sent EXCEPT !.latest = TRUE]
           calls == [old EXCEPT ![s] = g]
<1>1. /\ s \in Slots /\ s \in Channels /\ ~ Running(net[t][s]) /\ s # "refresh"
      /\ net' = [net EXCEPT ![t] = calls] /\ status' = [status EXCEPT ![t] = next]
  BY FreeSlotIs, SlotsAssumption DEF Hydrate, Channels
<1>2. jar \in Nat /\ jar <= Len(sessions) /\ Len(sessions) \in Nat
  BY <1>1, ChannelsAre
<1>3. sent \in Fetches /\ sent.path = "session" /\ sent.at = "sent" /\ sent.jar = jar
      /\ sent.retried = FALSE /\ sent.sid = 0
  <2>1. "session" \in Paths /\ 0 \in Nat
    BY DEF Paths
  <2> QED
    BY <1>2, <2>1, RequestIs
<1> HIDE DEF sent
<1>4. /\ g \in Fetches /\ g.path = "session" /\ g.at = "sent" /\ g.jar = jar /\ g.latest = TRUE
      /\ g.retried = FALSE /\ g.sid = 0
  BY <1>3 DEF Fetches
<1>5. old \in [Channels -> Fetches]
  BY OutdatedIs DEF BrowserInv, BrowserTypeInv
<1> HIDE DEF s, old, g
<1>6. /\ calls \in [Channels -> Fetches] /\ calls[s] = g
      /\ \A c \in Channels : c # s => calls[c] = old[c]
  BY <1>1, <1>4, <1>5
<1> HIDE DEF calls
<1>7. net'[t] = calls
  BY <1>1 DEF BrowserInv, BrowserTypeInv
<1>8. /\ CallIsSound(g) /\ FetchIsSound(g) /\ ~ NewSession(g)
      /\ \A paths : ~ Answer(g, paths)
  BY <1>2, <1>4 DEF CallIsSound, FetchIsSound, NewSession, Answer
<1>9. ASSUME NEW o \in Slots PROVE CallIsSound(calls[o])
  <2>1. o \in Channels
    BY DEF Channels
  <2>2. CallIsSound(old[o])
    BY <2>1, OutdatedIsSound DEF old
  <2> QED
    BY <1>6, <1>8, <2>1, <2>2
<1>10. RefreshIsSound(calls["refresh"]) /\ calls["refresh"] = old["refresh"]
  <2>1. "refresh" \in Channels
    BY DEF Channels
  <2>2. RefreshIsSound(old["refresh"])
    BY <2>1, OutdatedIsSound DEF old
  <2> QED
    BY <1>1, <1>6, <2>1, <2>2
<1>11. ASSUME NEW c \in Channels
       PROVE  /\ FetchIsSound(calls[c]) /\ calls[c].jar \in {0, jar, net[t][c].jar}
              /\ NewSession(calls[c]) => NewSession(net[t][c]) /\ calls[c].sid = net[t][c].sid
              /\ Answer(net[t][c], {"rotate", "logout"}) => Answer(calls[c], {"rotate", "logout"})
  <2>1. CASE c = s
    BY <1>1, <1>4, <1>6, <1>8, <2>1 DEF Answer, Running
  <2>2. CASE c # s
    <3>1. /\ FetchIsSound(old[c]) /\ old[c].jar = net[t][c].jar /\ old[c].sid = net[t][c].sid
          /\ NewSession(old[c]) <=> NewSession(net[t][c])
          /\ Answer(net[t][c], {"rotate", "logout"}) => Answer(old[c], {"rotate", "logout"})
      BY OutdatedIsSound DEF old
    <3> QED
      BY <1>6, <2>2, <3>1
  <2> QED
    BY <2>1, <2>2
<1>12. status' \in [Tabs -> Statuses] /\ status'[t] = next /\ status'[t] # "closed"
       /\ \A o \in Tabs \ {t} : status'[o] = status[o]
  BY <1>1 DEF BrowserInv, BrowserTypeInv, Statuses
<1>13. UNCHANGED <<sessions, fresh, jar, csrf, user, outages>>
  BY DEF server
<1>14. (Current' <=> Current) /\ (Told(t)' => Told(t))
  BY <1>13 DEF Current, Live
<1>15. ASSUME Calm PROVE TabIsCurrent(t)'
  <2>1. TabIsCurrent(t)
    BY <1>15 DEF BrowserInv
  <2>2. Told(t)' => Current' /\ (Last(inbox'[t]) = "logout" => jar = 0)
    BY <1>14, <2>1 DEF TabIsCurrent
  <2>3. Current \/ (csrf[t] = 0 /\ \A c \in Channels : ~ Running(net[t][c]))
    BY <1>15, <2>1 DEF TabIsCurrent
  <2>4. ASSUME NEW c \in Channels
        PROVE  old[c].latest = FALSE /\ (Running(old[c]) <=> Running(net[t][c]))
    BY OutdatedIs DEF old, Running, BrowserInv, BrowserTypeInv
  <2>5. ASSUME NEW o \in Slots PROVE HydrationIsCurrent(t, net[t][o])'
    <3>1. o \in Channels
      BY DEF Channels
    <3>2. CASE o = s
      <4>1. net'[t][o] = g
        BY <1>6, <1>7, <3>2
      <4> QED
        BY <1>4, <1>8, <1>13, <4>1 DEF HydrationIsCurrent, Refused, Answer
    <3>3. CASE o # s
      <4>1. net'[t][o] = old[o] /\ old[o].latest = FALSE
        BY <1>6, <1>7, <2>4, <3>1, <3>3
      <4>2. Current' \/ ~ Running(old[o])
        BY <1>14, <2>3, <2>4, <3>1
      <4> QED
        BY <4>1, <4>2 DEF HydrationIsCurrent
    <3> QED
      BY <3>2, <3>3
  <2>6. RefreshIsCurrent(t, net[t]["refresh"])'
    <3>1. net'[t]["refresh"] = old["refresh"] /\ "refresh" \in Channels
      BY <1>7, <1>10 DEF Channels
    <3>2. Current' \/ (csrf'[t] = 0 /\ ~ Running(old["refresh"]))
      BY <1>13, <1>14, <2>3, <2>4, <3>1
    <3> QED
      BY <3>1, <3>2 DEF RefreshIsCurrent
  <2>7. Hydrating(t)'
    <3>1. Running(net'[t][s]) /\ net'[t][s].latest
      BY <1>4, <1>6, <1>7 DEF Running
    <3>2. PICK o \in Slots : Running(net'[t][o]) /\ net'[t][o].latest
      BY <1>1, <3>1
    <3> QED
      BY <3>2 DEF Hydrating
  <2>8. StatusIsCurrent(t)'
    BY <1>12, <2>7 DEF StatusIsCurrent, Over
  <2> QED
    BY <1>13, <2>2, <2>5, <2>6, <2>8 DEF TabIsCurrent
<1>16. csrf' \in [Tabs -> Nat] /\ user' \in [Tabs -> BOOLEAN]
  BY <1>13 DEF BrowserInv, BrowserTypeInv
<1>17. \A o \in Tabs \ {t} : inbox'[o] = inbox[o] /\ csrf'[o] = csrf[o] /\ status'[o] = status[o]
  BY <1>12, <1>13
<1> QED
  BY <1>1, <1>6, <1>9, <1>10, <1>11, <1>12, <1>13, <1>15, <1>16, <1>17, TabStep


LEMMA MountStep == ASSUME BrowserInv, NEW t \in Tabs, Mount(t) PROVE BrowserInv'
<1>1. /\ Hydrate(t, "checking") /\ UNCHANGED <<server, jar, csrf, user, inbox, outages>>
      /\ status[t] = "closed"
  BY DEF Mount, budgets
<1>2. csrf[t] = 0 /\ \A c \in Channels : ~ Running(net[t][c])
  BY <1>1 DEF BrowserInv, TabIsSound
<1>3. inbox' \in [Tabs -> Seq({"session", "login", "logout"})]
  BY <1>1 DEF BrowserInv, BrowserTypeInv
<1>4. (Told(t)' <=> Told(t)) /\ inbox'[t] = inbox[t] /\ \A o \in Tabs \ {t} : inbox'[o] = inbox[o]
  BY <1>1 DEF Told
<1> QED
  BY <1>1, <1>2, <1>3, <1>4, HydrateStep

LEMMA TryAgainStep == ASSUME BrowserInv, NEW t \in Tabs, TryAgain(t) PROVE BrowserInv'
<1>1. /\ Hydrate(t, "refreshing") /\ UNCHANGED <<server, jar, csrf, user, inbox, outages>>
      /\ status[t] = "unavailable"
  BY DEF TryAgain, budgets
<1>2. ~ Calm
  BY <1>1 DEF BrowserInv, TabIsCurrent, StatusIsCurrent
<1>3. inbox' \in [Tabs -> Seq({"session", "login", "logout"})]
  BY <1>1 DEF BrowserInv, BrowserTypeInv
<1>4. (Told(t)' <=> Told(t)) /\ inbox'[t] = inbox[t] /\ \A o \in Tabs \ {t} : inbox'[o] = inbox[o]
  BY <1>1 DEF Told
<1> QED
  BY <1>1, <1>2, <1>3, <1>4, HydrateStep

LEMMA ListenStep == ASSUME BrowserInv, NEW t \in Tabs, Listen(t) PROVE BrowserInv'
<1>1. inbox[t] # <<>> /\ inbox[t] \in Seq({"session", "login", "logout"}) /\ Told(t)
      /\ inbox' = [inbox EXCEPT ![t] = Tail(inbox[t])]
      /\ UNCHANGED <<server, jar, csrf, outages>>
  BY DEF Listen, BrowserInv, BrowserTypeInv, Told, budgets
<1>2. /\ inbox' \in [Tabs -> Seq({"session", "login", "logout"})] /\ inbox'[t] = Tail(inbox[t])
      /\ \A o \in Tabs \ {t} : inbox'[o] = inbox[o]
  <2>1. Tail(inbox[t]) \in Seq({"session", "login", "logout"})
    BY <1>1
  <2> QED
    BY <1>1, <2>1 DEF BrowserInv, BrowserTypeInv
<1>3. Told(t)' => Last(inbox'[t]) = Last(inbox[t])
  <2> SUFFICES ASSUME Tail(inbox[t]) # <<>> PROVE Last(Tail(inbox[t])) = Last(inbox[t])
    BY <1>2 DEF Told
  <2> DEFINE q == inbox[t]
  <2>1. q \in Seq({"session", "login", "logout"}) /\ q # <<>> /\ Tail(q) # <<>>
    BY <1>1
  <2> HIDE DEF q
  <2>2. Len(q) \in Nat /\ Len(q) > 1 /\ Len(Tail(q)) = Len(q) - 1
    BY <2>1
  <2>3. Tail(q)[Len(q) - 1] = q[Len(q)]
    BY <2>1, <2>2
  <2> QED
    BY <2>2, <2>3 DEF Last, q
<1>4. CASE Head(inbox[t]) # "logout"
  <2>1. PICK next \in {"checking", "refreshing"} : Hydrate(t, next)
    BY <1>4 DEF Listen
  <2>2. UNCHANGED user
    BY <1>4 DEF Listen
  <2> QED
    BY <1>1, <1>2, <1>3, <2>1, <2>2, HydrateStep
<1>5. CASE Head(inbox[t]) = "logout"
  <2> DEFINE old == Outdated(net[t])
  <2>1. /\ net' = [net EXCEPT ![t] = old] /\ user' = [user EXCEPT ![t] = FALSE]
        /\ status' = [status EXCEPT ![t] = "unauthenticated"]
    BY <1>5 DEF Listen
  <2>2. old \in [Channels -> Fetches]
    BY OutdatedIs DEF BrowserInv, BrowserTypeInv
  <2>3. ASSUME NEW c \in Channels
        PROVE  /\ c \in Slots => CallIsSound(old[c])
               /\ c = "refresh" => RefreshIsSound(old[c])
               /\ FetchIsSound(old[c]) /\ old[c].jar \in {0, jar, net[t][c].jar}
               /\ NewSession(old[c]) => NewSession(net[t][c]) /\ old[c].sid = net[t][c].sid
               /\ Answer(net[t][c], {"rotate", "logout"}) => Answer(old[c], {"rotate", "logout"})
    BY OutdatedIsSound
  <2>4. \A c \in Channels : old[c].latest = FALSE
    BY OutdatedIs DEF BrowserInv, BrowserTypeInv
  <2> HIDE DEF old
  <2>5. /\ net'[t] = old /\ status'[t] = "unauthenticated"
        /\ \A o \in Tabs \ {t} : status'[o] = status[o]
        /\ status' \in [Tabs -> Statuses] /\ user' \in [Tabs -> BOOLEAN]
        /\ UNCHANGED <<sessions, fresh, jar, csrf, outages>> /\ csrf' \in [Tabs -> Nat]
    BY <1>1, <2>1 DEF BrowserInv, BrowserTypeInv, Statuses, server
  <2>6. ASSUME Calm PROVE TabIsCurrent(t)'
    <3>1. Current /\ (Last(inbox[t]) = "logout" => jar = 0)
      BY <1>1, <2>6 DEF BrowserInv, TabIsCurrent
    <3>2. Current'
      BY <2>5, <3>1 DEF Current, Live
    <3>3. (Told(t) => Current /\ (Last(inbox[t]) = "logout" => jar = 0))'
      BY <1>3, <2>5, <3>1, <3>2
    <3>4. ASSUME NEW s \in Slots PROVE HydrationIsCurrent(t, net[t][s])'
      BY <2>4, <2>5, <3>2 DEF HydrationIsCurrent, Channels
    <3>5. RefreshIsCurrent(t, net[t]["refresh"])'
      BY <3>2 DEF RefreshIsCurrent
    <3>6. jar' = 0 \/ Told(t)'
      <4> SUFFICES ASSUME inbox'[t] = <<>> PROVE jar' = 0
        BY DEF Told
      <4> DEFINE q == inbox[t]
      <4>0. q \in Seq({"session", "login", "logout"}) /\ q # <<>> /\ Tail(q) = <<>>
        BY <1>1, <1>2
      <4> HIDE DEF q
      <4>3. Len(q) \in Nat /\ Len(q) > 0
        BY <4>0
      <4>4. Len(Tail(q)) = Len(q) - 1
        BY <4>0, <4>3
      <4>5. Len(Tail(q)) = 0
        <5> DEFINE r == Tail(q)
        <5>1. r = <<>>
          BY <4>0
        <5> HIDE DEF r
        <5>2. Len(r) = 0
          BY <5>1
        <5> QED
          BY <5>2 DEF r
      <4>6. Len(q) = 1
        BY <4>3, <4>4, <4>5
      <4>1. Len(inbox[t]) = 1
        BY <4>6 DEF q
      <4>2. Last(inbox[t]) = "logout"
        BY <1>1, <1>5, <4>1 DEF Last
      <4> QED
        BY <2>5, <3>1, <4>2
    <3>7. StatusIsCurrent(t)'
      BY <2>5, <3>6 DEF StatusIsCurrent, Live
    <3> QED
      BY <3>3, <3>4, <3>5, <3>7 DEF TabIsCurrent
  <2>7. \A s \in Slots : CallIsSound(old[s])
    BY <2>3 DEF Channels
  <2>8. RefreshIsSound(old["refresh"])
    BY <2>3 DEF Channels
  <2>9. \A o \in Tabs \ {t} : inbox'[o] = inbox[o] /\ csrf'[o] = csrf[o] /\ status'[o] = status[o]
    BY <1>2, <2>5
  <2>10. \A c \in Channels :
           /\ FetchIsSound(old[c]) /\ old[c].jar \in {0, jar, net[t][c].jar}
           /\ NewSession(old[c]) => NewSession(net[t][c]) /\ old[c].sid = net[t][c].sid
           /\ Answer(net[t][c], {"rotate", "logout"}) => Answer(old[c], {"rotate", "logout"})
    BY <2>3
  <2>11. UNCHANGED <<sessions, fresh, jar, outages>> /\ status'[t] # "closed"
    BY <2>5
  <2> QED
    BY <1>2, <2>1, <2>2, <2>5, <2>6, <2>7, <2>8, <2>9, <2>10, <2>11, TabStep
<1> QED
  BY <1>4, <1>5
-----------------------------------------------------------------------------
(* One channel of a tab moves, and what the tab shows or remembers with it. *)
LEMMA ChannelStep ==
  ASSUME BrowserInv, NEW t \in Tabs, NEW c \in Channels, NEW g \in Fetches, Put(t, c, g),
         UNCHANGED <<server, jar, inbox, outages>>,
         csrf' \in [Tabs -> Nat], status' \in [Tabs -> Statuses], user' \in [Tabs -> BOOLEAN],
         \A o \in Tabs \ {t} : csrf'[o] = csrf[o] /\ status'[o] = status[o],
         status'[t] # "closed", c \in Slots => CallIsSound(g), c = "refresh" => RefreshIsSound(g),
         FetchIsSound(g), g.jar \in {0, jar}, ~ NewSession(g),
         ~ Answer(net[t][c], {"rotate", "logout"}), Calm => TabIsCurrent(t)'
  PROVE  BrowserInv'
<1> DEFINE calls == [net[t] EXCEPT ![c] = g]
<1>1. net[t] \in [Channels -> Fetches] /\ TabIsSound(t)
  BY DEF BrowserInv, BrowserTypeInv
<1>2. /\ calls \in [Channels -> Fetches] /\ net' = [net EXCEPT ![t] = calls]
      /\ calls[c] = g /\ \A d \in Channels : d # c => calls[d] = net[t][d]
  BY <1>1 DEF Put
<1> HIDE DEF calls
<1>3. /\ UNCHANGED <<sessions, fresh, jar, outages, inbox>>
      /\ inbox' \in [Tabs -> Seq({"session", "login", "logout"})]
  BY DEF server, BrowserInv, BrowserTypeInv
<1>4. \A s \in Slots : CallIsSound(calls[s])
  BY <1>1, <1>2 DEF TabIsSound, Channels
<1>5. RefreshIsSound(calls["refresh"])
  BY <1>1, <1>2 DEF TabIsSound, Channels
<1>6. ASSUME NEW d \in Channels
      PROVE  /\ FetchIsSound(calls[d]) /\ calls[d].jar \in {0, jar, net[t][d].jar}
             /\ NewSession(calls[d]) => NewSession(net[t][d]) /\ calls[d].sid = net[t][d].sid
             /\ Answer(net[t][d], {"rotate", "logout"}) => Answer(calls[d], {"rotate", "logout"})
  <2>1. CASE d = c
    BY <1>2, <2>1
  <2>2. CASE d # c
    BY <1>1, <1>2, <2>2 DEF TabIsSound
  <2> QED
    BY <2>1, <2>2
<1>7. \A o \in Tabs \ {t} : inbox'[o] = inbox[o] /\ csrf'[o] = csrf[o] /\ status'[o] = status[o]
  BY <1>3
<1> QED
  BY <1>2, <1>3, <1>4, <1>5, <1>6, <1>7, TabStep

(* A call is over: what remains of the tab's calls is as current as it was. *)
LEMMA SlotIsDone ==
  ASSUME BrowserInv, NEW t \in Tabs, NEW s \in Slots, Put(t, s, None),
         UNCHANGED <<server, jar, inbox, outages>>
  PROVE  /\ \A o \in Slots : Calm => HydrationIsCurrent(t, net[t][o])'
         /\ Hydrating(t)' => Hydrating(t)
         /\ ~ (Running(net[t][s]) /\ net[t][s].latest) => (Hydrating(t)' <=> Hydrating(t))
         /\ net'[t]["refresh"] = net[t]["refresh"]
         /\ (Told(t)' <=> Told(t)) /\ (Current' <=> Current) /\ (Live(jar)' <=> Live(jar))
         /\ Calm => (Told(t) => Current /\ (Last(inbox[t]) = "logout" => jar = 0))'
<1>1. /\ net'[t][s] = None /\ \A c \in Channels : c # s => net'[t][c] = net[t][c]
      /\ s \in Channels /\ s # "refresh"
  BY NoneIs, SlotsAssumption DEF Put, BrowserInv, BrowserTypeInv, Channels
<1>2. /\ UNCHANGED <<sessions, fresh, jar, inbox, outages>>
      /\ (Told(t)' <=> Told(t)) /\ (Current' <=> Current) /\ (Live(jar)' <=> Live(jar))
  BY DEF server, Told, Current, Live
<1>3. ASSUME Calm, NEW o \in Slots PROVE HydrationIsCurrent(t, net[t][o])'
  <2>1. HydrationIsCurrent(t, net[t][o]) /\ o \in Channels
    BY <1>3 DEF BrowserInv, TabIsCurrent, Channels
  <2>2. CASE o = s
    <3>1. ~ Running(net'[t][o])
      BY <1>1, <2>2, NoneIs
    <3> QED
      BY <3>1 DEF HydrationIsCurrent
  <2>3. CASE o # s
    <3>1. net'[t][o] = net[t][o]
      BY <1>1, <2>1, <2>3
    <3> QED
      BY <1>2, <2>1, <3>1 DEF HydrationIsCurrent
  <2> QED
    BY <2>2, <2>3
<1>4. Hydrating(t)' => Hydrating(t)
  BY <1>1, NoneIs DEF Hydrating, Channels
<1>5. ~ (Running(net[t][s]) /\ net[t][s].latest) => (Hydrating(t)' <=> Hydrating(t))
  BY <1>1, <1>4, NoneIs DEF Hydrating, Channels
<1>6. ASSUME Calm PROVE (Told(t) => Current /\ (Last(inbox[t]) = "logout" => jar = 0))'
  BY <1>2, <1>6 DEF BrowserInv, TabIsCurrent
<1>7. net'[t]["refresh"] = net[t]["refresh"]
  BY <1>1 DEF Channels
<1> QED
  BY <1>2, <1>3, <1>4, <1>5, <1>6, <1>7

LEMMA DeniedForGoodStep ==
  ASSUME BrowserInv, NEW t \in Tabs, NEW s \in Slots, DeniedForGood(t, s) PROVE BrowserInv'
<1> DEFINE f == net[t][s]
<1>1. /\ f.at = "replied" /\ f.path \in {"session", "api", "logout"} /\ f.reply = "denied"
      /\ f.retried /\ ShowDenied(t, f.latest) /\ Put(t, s, None)
      /\ UNCHANGED <<server, jar, csrf, inbox, outages>>
  BY DEF DeniedForGood, CallReply, budgets
<1>2. s \in Channels /\ s # "refresh" /\ status[t] # "closed" /\ Running(f)
  BY <1>1, SlotsAssumption, ChannelsAre DEF Channels, Running
<1>3. /\ status' \in [Tabs -> Statuses] /\ user' \in [Tabs -> BOOLEAN] /\ csrf' \in [Tabs -> Nat]
      /\ \A o \in Tabs \ {t} : csrf'[o] = csrf[o] /\ status'[o] = status[o]
      /\ f.latest => status'[t] \in {"expired", "unauthenticated"}
      /\ ~ f.latest => status'[t] = status[t]
  BY <1>1 DEF ShowDenied, BrowserInv, BrowserTypeInv, Statuses
<1>4. ASSUME Calm PROVE TabIsCurrent(t)'
  <2>1. /\ HydrationIsCurrent(t, f) /\ CallIsSound(f) /\ StatusIsCurrent(t)
        /\ RefreshIsCurrent(t, net[t]["refresh"])
    BY <1>4 DEF BrowserInv, TabIsCurrent, TabIsSound
  <2>2. f.latest => ~ Live(jar) \/ Told(t)
    BY <1>1, <1>2, <2>1 DEF HydrationIsCurrent, CallIsSound, Refused, Current
  <2>3. RefreshIsCurrent(t, net[t]["refresh"])'
    BY <1>1, <2>1, SlotIsDone DEF RefreshIsCurrent
  <2>4. StatusIsCurrent(t)'
    BY <1>1, <1>3, <2>1, <2>2, SlotIsDone DEF StatusIsCurrent, Over
  <2> QED
    BY <1>1, <1>4, <2>3, <2>4, SlotIsDone DEF TabIsCurrent
<1>5. ~ Answer(f, {"rotate", "logout"}) /\ ~ NewSession(None) /\ status'[t] # "closed"
  BY <1>1, <1>2, <1>3, NoneIs DEF Answer, NewSession
<1> QED
  BY <1>1, <1>2, <1>3, <1>4, <1>5, NoneIs, ChannelStep

LEMMA SessionReceivedStep ==
  ASSUME BrowserInv, NEW t \in Tabs, NEW s \in Slots, SessionReceived(t, s) PROVE BrowserInv'
<1> DEFINE f == net[t][s]
<1>1. /\ f.at = "replied" /\ f.path = "session" /\ f.reply = "ok" /\ Put(t, s, None)
      /\ csrf' = [csrf EXCEPT ![t] = f.sid]
      /\ IF f.latest THEN /\ user' = [user EXCEPT ![t] = TRUE]
                          /\ status' = [status EXCEPT ![t] = "authenticated"]
                     ELSE UNCHANGED <<user, status>>
      /\ UNCHANGED <<server, jar, inbox, outages>>
  BY DEF SessionReceived, CallReply, budgets
<1>2. s \in Channels /\ s # "refresh" /\ status[t] # "closed" /\ Running(f) /\ f.sid \in Nat
  BY <1>1, SlotsAssumption, ChannelsAre DEF Channels, Running, Fetches
<1>3. /\ status' \in [Tabs -> Statuses] /\ user' \in [Tabs -> BOOLEAN] /\ csrf' \in [Tabs -> Nat]
      /\ csrf'[t] = f.sid
      /\ \A o \in Tabs \ {t} : csrf'[o] = csrf[o] /\ status'[o] = status[o]
      /\ f.latest => status'[t] = "authenticated"
      /\ ~ f.latest => status'[t] = status[t]
  BY <1>1, <1>2 DEF BrowserInv, BrowserTypeInv, Statuses
<1>4. ASSUME Calm PROVE TabIsCurrent(t)'
  <2>1. /\ HydrationIsCurrent(t, f) /\ StatusIsCurrent(t) /\ (Told(t) => Current)
        /\ RefreshIsCurrent(t, net[t]["refresh"])
    BY <1>4 DEF BrowserInv, TabIsCurrent
  <2>2. /\ f.latest => (f.sid = jar /\ jar # 0) \/ Told(t)
        /\ ~ f.latest => Current
    BY <1>1, <1>2, <2>1 DEF HydrationIsCurrent, Answer
  <2>3. f.sid = jar \/ Current
    BY <2>1, <2>2
  <2>4. RefreshIsCurrent(t, net[t]["refresh"])'
    BY <1>1, <1>3, <2>1, <2>3, SlotIsDone DEF RefreshIsCurrent
  <2>5. StatusIsCurrent(t)'
    BY <1>1, <1>3, <2>1, <2>2, SlotIsDone DEF StatusIsCurrent, Over
  <2> QED
    BY <1>1, <1>4, <2>4, <2>5, SlotIsDone DEF TabIsCurrent
<1>5. ~ Answer(f, {"rotate", "logout"}) /\ ~ NewSession(None) /\ status'[t] # "closed"
  BY <1>1, <1>2, <1>3, NoneIs DEF Answer, NewSession
<1> QED
  BY <1>1, <1>2, <1>3, <1>4, <1>5, NoneIs, ChannelStep

LEMMA UnavailableStep ==
  ASSUME BrowserInv, NEW t \in Tabs, NEW s \in Slots, Unavailable(t, s) PROVE BrowserInv'
<1> DEFINE f == net[t][s]
<1>1. /\ f.at = "replied" /\ f.path = "session" /\ f.reply = "down" /\ Put(t, s, None)
      /\ status' = IF f.latest THEN [status EXCEPT ![t] = "unavailable"] ELSE status
      /\ UNCHANGED <<server, jar, csrf, user, inbox, outages>>
  BY DEF Unavailable, CallReply, budgets
<1>2. s \in Channels /\ s # "refresh" /\ status[t] # "closed" /\ ~ Calm
  BY <1>1, SlotsAssumption, ChannelsAre DEF Channels, Running, FetchIsSound, Calm
<1>3. /\ status' \in [Tabs -> Statuses] /\ user' \in [Tabs -> BOOLEAN] /\ csrf' \in [Tabs -> Nat]
      /\ \A o \in Tabs \ {t} : csrf'[o] = csrf[o] /\ status'[o] = status[o]
      /\ status'[t] \in {"unavailable", status[t]}
  BY <1>1 DEF BrowserInv, BrowserTypeInv, Statuses
<1>4. ~ Answer(f, {"rotate", "logout"}) /\ ~ NewSession(None) /\ status'[t] # "closed"
  BY <1>1, <1>2, <1>3, NoneIs DEF Answer, NewSession
<1> QED
  BY <1>1, <1>2, <1>3, <1>4, NoneIs, ChannelStep
-----------------------------------------------------------------------------
(* The refresh channel moves: the page's calls are what they were. *)
LEMMA SlotsStay ==
  ASSUME BrowserInv, NEW t \in Tabs, NEW g \in Fetches, Put(t, "refresh", g),
         UNCHANGED <<server, jar, status, inbox, outages>>
  PROVE  /\ \A o \in Slots : Calm => HydrationIsCurrent(t, net[t][o])'
         /\ net'[t]["refresh"] = g /\ (Hydrating(t)' <=> Hydrating(t))
         /\ (Told(t)' <=> Told(t)) /\ (Current' <=> Current)
         /\ Calm => (Told(t) => Current /\ (Last(inbox[t]) = "logout" => jar = 0))'
         /\ Calm => StatusIsCurrent(t)'
<1>1. /\ net'[t]["refresh"] = g /\ \A s \in Slots : net'[t][s] = net[t][s]
  BY SlotsAssumption DEF Put, BrowserInv, BrowserTypeInv, Channels
<1>2. /\ UNCHANGED <<sessions, fresh, jar, status, inbox, outages>>
      /\ (Told(t)' <=> Told(t)) /\ (Current' <=> Current) /\ (Live(jar)' <=> Live(jar))
  BY DEF server, Told, Current, Live
<1>3. Hydrating(t)' <=> Hydrating(t)
  BY <1>1 DEF Hydrating
<1>4. ASSUME Calm
      PROVE  /\ \A o \in Slots : HydrationIsCurrent(t, net[t][o])'
             /\ (Told(t) => Current /\ (Last(inbox[t]) = "logout" => jar = 0))'
             /\ StatusIsCurrent(t)'
  <2>1. TabIsCurrent(t)
    BY <1>4 DEF BrowserInv
  <2>2. ASSUME NEW o \in Slots PROVE HydrationIsCurrent(t, net[t][o])'
    <3>1. HydrationIsCurrent(t, net[t][o]) /\ net'[t][o] = net[t][o]
      BY <1>1, <2>1 DEF TabIsCurrent
    <3> QED
      BY <1>2, <3>1 DEF HydrationIsCurrent
  <2>3. StatusIsCurrent(t)'
    BY <1>2, <1>3, <2>1 DEF TabIsCurrent, StatusIsCurrent, Over
  <2> QED
    BY <1>2, <2>1, <2>2, <2>3 DEF TabIsCurrent
<1> QED
  BY <1>1, <1>2, <1>3, <1>4

LEMMA CsrfReceivedStep == ASSUME BrowserInv, NEW t \in Tabs, CsrfReceived(t) PROVE BrowserInv'
<1> DEFINE f == net[t]["refresh"]
           g == Request("rotate", jar, f.sid)
<1>1. "refresh" \in Channels /\ "refresh" \notin Slots
  BY SlotsAssumption DEF Channels
<1>2. f.at = "replied" /\ f.path = "csrf" /\ f.reply = "ok"
      /\ csrf' = [csrf EXCEPT ![t] = f.sid] /\ UNCHANGED <<server, jar, status, user, inbox, outages>>
  BY DEF CsrfReceived, RefreshReply, budgets
<1>3. /\ f.sid \in Nat /\ jar \in Nat /\ jar <= Len(sessions) /\ Len(sessions) \in Nat
      /\ status[t] # "closed" /\ Running(f)
  BY <1>1, <1>2, ChannelsAre DEF Fetches, Running
<1>4. csrf' \in [Tabs -> Nat] /\ csrf'[t] = f.sid /\ \A o \in Tabs \ {t} : csrf'[o] = csrf[o]
  BY <1>2, <1>3 DEF BrowserInv, BrowserTypeInv
<1>5. /\ g \in Fetches /\ g.path = "rotate" /\ g.at = "sent" /\ g.latest = FALSE /\ g.jar = jar
      /\ g.csrf = f.sid /\ g.sid = 0
  <2>1. "rotate" \in Paths
    BY DEF Paths
  <2> HIDE DEF f
  <2> QED
    BY <1>3, <2>1, RequestIs
<1>6. Put(t, "refresh", g)
  BY <1>4 DEF CsrfReceived
<1> HIDE DEF g
<1>7. /\ RefreshIsSound(g) /\ FetchIsSound(g) /\ ~ NewSession(g)
      /\ ~ Answer(f, {"rotate", "logout"})
  BY <1>2, <1>3, <1>5 DEF RefreshIsSound, FetchIsSound, NewSession, Answer
<1>8. ASSUME Calm PROVE TabIsCurrent(t)'
  <2>1. RefreshIsCurrent(t, f)
    BY <1>8 DEF BrowserInv, TabIsCurrent
  <2>2. Hydrating(t) /\ ~ Current => f.sid = jar
    BY <1>2, <2>1, <1>3 DEF RefreshIsCurrent, Answer
  <2>3. RefreshIsCurrent(t, net[t]["refresh"])'
    BY <1>2, <1>4, <1>5, <1>6, <2>2, SlotsStay DEF RefreshIsCurrent
  <2> QED
    BY <1>2, <1>5, <1>6, <1>8, <2>3, SlotsStay DEF TabIsCurrent
<1>9. /\ status' \in [Tabs -> Statuses] /\ user' \in [Tabs -> BOOLEAN] /\ status'[t] # "closed"
      /\ \A o \in Tabs \ {t} : csrf'[o] = csrf[o] /\ status'[o] = status[o]
  BY <1>2, <1>3, <1>4 DEF BrowserInv, BrowserTypeInv
<1> QED
  BY <1>1, <1>2, <1>4, <1>5, <1>6, <1>7, <1>8, <1>9, ChannelStep

LEMMA AwaitRefreshStep ==
  ASSUME BrowserInv, NEW t \in Tabs, NEW s \in Slots, AwaitRefresh(t, s) PROVE BrowserInv'
<1> DEFINE f == net[t][s]
           e == net[t]["refresh"]
           waiting == [f EXCEPT !.at = "waiting", !.reply = "none"]
           path == IF csrf[t] = 0 THEN "csrf" ELSE "rotate"
           first == Request(path, jar, csrf[t])
           refresh == IF Idle(t, "refresh") THEN first ELSE e
           calls == [net[t] EXCEPT ![s] = waiting, !["refresh"] = refresh]
<1>1. /\ f.at = "replied" /\ f.path \in {"session", "api", "logout"} /\ f.reply = "denied"
      /\ ~ f.retried /\ net' = [net EXCEPT ![t] = calls]
      /\ UNCHANGED <<server, jar, tab, inbox, outages>>
  BY DEF AwaitRefresh, CallReply, FirstRefreshFetch, budgets
<1>2. s \in Channels /\ s # "refresh" /\ "refresh" \in Channels
  BY SlotsAssumption DEF Channels
<1>3. /\ f \in Fetches /\ e \in Fetches /\ jar \in Nat /\ csrf[t] \in Nat /\ jar <= Len(sessions)
      /\ Len(sessions) \in Nat /\ status[t] # "closed" /\ FetchIsSound(f) /\ FetchIsSound(e)
      /\ CallIsSound(f) /\ RefreshIsSound(e) /\ TabIsSound(t)
  BY <1>1, <1>2, ChannelsAre DEF Running, BrowserInv
<1>4. /\ waiting \in Fetches /\ waiting.at = "waiting" /\ waiting.path = f.path
      /\ waiting.latest = f.latest /\ waiting.retried = f.retried /\ waiting.jar = f.jar
      /\ waiting.sid = f.sid
  <2> HIDE DEF f
  <2> QED
    BY <1>3 DEF Fetches
<1>5. /\ first \in Fetches /\ first.path \in {"csrf", "rotate"} /\ first.at = "sent"
      /\ first.latest = FALSE /\ first.jar = jar /\ first.sid = 0
      /\ csrf[t] = 0 => first.path = "csrf"
      /\ csrf[t] # 0 => first.path = "rotate" /\ first.csrf = csrf[t]
  <2>1. path \in Paths
        /\ path \in {"csrf", "rotate"}
        /\ (csrf[t] = 0 => path = "csrf") /\ (csrf[t] # 0 => path = "rotate")
    BY DEF Paths
  <2> HIDE DEF path
  <2> QED
    BY <1>3, <2>1, RequestIs
<1> HIDE DEF waiting, first
<1>6. /\ refresh \in Fetches /\ (Running(e) => refresh = e) /\ (~ Running(e) => refresh = first)
  BY <1>3, <1>5 DEF Idle, Running
<1> HIDE DEF refresh
<1>7. /\ calls \in [Channels -> Fetches] /\ calls[s] = waiting /\ calls["refresh"] = refresh
      /\ \A c \in Channels : c # s /\ c # "refresh" => calls[c] = net[t][c]
  BY <1>2, <1>4, <1>6 DEF BrowserInv, BrowserTypeInv
<1> HIDE DEF calls
<1>8. net'[t] = calls
  BY <1>1 DEF BrowserInv, BrowserTypeInv
<1>9. /\ CallIsSound(waiting) /\ FetchIsSound(waiting) /\ ~ NewSession(waiting)
      /\ ~ Answer(f, {"rotate", "logout"})
  BY <1>1, <1>3, <1>4 DEF CallIsSound, FetchIsSound, NewSession, Answer, Running
<1>10. /\ RefreshIsSound(refresh) /\ FetchIsSound(refresh) /\ refresh.jar \in {0, jar, e.jar}
       /\ NewSession(refresh) => NewSession(e) /\ refresh.sid = e.sid
       /\ Answer(e, {"rotate", "logout"}) => Answer(refresh, {"rotate", "logout"})
  <2>1. CASE Running(e)
    BY <1>3, <1>6, <2>1
  <2>2. CASE ~ Running(e)
    <3>1. RefreshIsSound(first) /\ FetchIsSound(first) /\ ~ NewSession(first)
      BY <1>3, <1>5 DEF RefreshIsSound, FetchIsSound, NewSession, Answer
    <3>2. ~ Answer(e, {"rotate", "logout"})
      BY <2>2 DEF Answer, Running
    <3> QED
      BY <1>5, <1>6, <2>2, <3>1, <3>2
  <2> QED
    BY <2>1, <2>2
<1>11. ASSUME NEW c \in Channels
       PROVE  /\ FetchIsSound(calls[c]) /\ calls[c].jar \in {0, jar, net[t][c].jar}
              /\ NewSession(calls[c]) => NewSession(net[t][c]) /\ calls[c].sid = net[t][c].sid
              /\ Answer(net[t][c], {"rotate", "logout"}) => Answer(calls[c], {"rotate", "logout"})
  <2>1. CASE c = s
    BY <1>4, <1>7, <1>9, <2>1
  <2>2. CASE c = "refresh"
    BY <1>7, <1>10, <2>2
  <2>3. CASE c # s /\ c # "refresh"
    BY <1>3, <1>7, <2>3 DEF TabIsSound
  <2> QED
    BY <2>1, <2>2, <2>3
<1>12. \A o \in Slots : CallIsSound(calls[o])
  BY <1>3, <1>7, <1>9, SlotsAssumption DEF TabIsSound, Channels
<1>13. UNCHANGED <<sessions, fresh, jar, csrf, status, user, inbox, outages>>
  BY <1>1 DEF server, tab
<1>14. ASSUME Calm PROVE TabIsCurrent(t)'
  <2>1. TabIsCurrent(t) /\ HydrationIsCurrent(t, f) /\ RefreshIsCurrent(t, e)
    BY <1>14 DEF BrowserInv, TabIsCurrent
  <2>2. (Told(t)' <=> Told(t)) /\ (Current' <=> Current) /\ (Live(jar)' <=> Live(jar))
    BY <1>13 DEF Told, Current, Live
  <2>3. \A o \in Slots : /\ calls[o].latest = net[t][o].latest
                         /\ Running(calls[o]) <=> Running(net[t][o])
    BY <1>1, <1>4, <1>7, SlotsAssumption DEF Running, Channels
  <2>4. Hydrating(t)' <=> Hydrating(t)
    BY <1>8, <2>3 DEF Hydrating
  <2>5. ASSUME NEW o \in Slots PROVE HydrationIsCurrent(t, net[t][o])'
    <3>1. CASE o = s
      <4>1. net'[t][o] = waiting
        BY <1>7, <1>8, <3>1
      <4>2. /\ f.path = "session" /\ ~ f.latest => Current
            /\ f.path = "session" /\ f.latest => jar \notin fresh \/ ~ Live(jar) \/ Told(t)
        BY <1>1, <2>1 DEF HydrationIsCurrent, Running, Refused
      <4> QED
        BY <1>1, <1>4, <1>13, <2>2, <4>1, <4>2 DEF HydrationIsCurrent, Running, Refused, Answer
    <3>2. CASE o # s
      <4>1. net'[t][o] = net[t][o] /\ HydrationIsCurrent(t, net[t][o])
        BY <1>7, <1>8, <2>1, <3>2, SlotsAssumption DEF Channels, TabIsCurrent
      <4> QED
        BY <1>13, <2>2, <4>1 DEF HydrationIsCurrent
    <3> QED
      BY <3>1, <3>2
  <2>6. RefreshIsCurrent(t, net[t]["refresh"])'
    <3>1. net'[t]["refresh"] = refresh
      BY <1>7, <1>8
    <3>2. RefreshIsCurrent(t, refresh)
      <4>1. CASE Running(e)
        BY <1>6, <2>1, <4>1
      <4>2. CASE ~ Running(e)
        BY <1>5, <1>6, <2>1, <4>2 DEF RefreshIsCurrent
      <4> QED
        BY <4>1, <4>2
    <3> QED
      BY <1>13, <2>2, <2>4, <3>1, <3>2 DEF RefreshIsCurrent
  <2>7. StatusIsCurrent(t)'
    BY <1>13, <2>1, <2>2, <2>4 DEF TabIsCurrent, StatusIsCurrent, Over
  <2> QED
    BY <1>13, <2>1, <2>2, <2>5, <2>6, <2>7 DEF TabIsCurrent
<1>15. /\ csrf' \in [Tabs -> Nat] /\ status' \in [Tabs -> Statuses] /\ user' \in [Tabs -> BOOLEAN]
       /\ inbox' \in [Tabs -> Seq({"session", "login", "logout"})] /\ status'[t] # "closed"
       /\ \A o \in Tabs \ {t} : inbox'[o] = inbox[o] /\ csrf'[o] = csrf[o] /\ status'[o] = status[o]
  BY <1>3, <1>13 DEF BrowserInv, BrowserTypeInv
<1>16. RefreshIsSound(calls["refresh"])
  BY <1>7, <1>10
<1> QED
  BY <1>1, <1>7, <1>11, <1>12, <1>13, <1>14, <1>15, <1>16, TabStep
-----------------------------------------------------------------------------
(* One tab takes an answer that sets or clears the cookies, and publishes it. *)
LEMMA JarStep ==
  ASSUME BrowserInv, NEW t \in Tabs, NEW calls \in [Channels -> Fetches],
         net' = [net EXCEPT ![t] = calls], UNCHANGED <<server, outages>>,
         NEW event \in {"session", "login", "logout"}, Publish(event), status[t] # "closed",
         jar' \in 0..Len(sessions), csrf' = [csrf EXCEPT ![t] = jar'],
         status' \in [Tabs -> Statuses], user' \in [Tabs -> BOOLEAN],
         \A o \in Tabs \ {t} : status'[o] = status[o], status'[t] # "closed",
         jar' = 0 \/ (/\ event # "logout"
                      /\ Calm => \E c \in Channels : /\ NewSession(net[t][c]) /\ net[t][c].sid = jar'
                                                     /\ ~ NewSession(calls[c])),
         Calm => /\ status'[t] \in {"checking", "refreshing"} =>
                      \E s \in Slots : Running(calls[s]) /\ calls[s].latest
                 /\ status'[t] # "unavailable",
         \A s \in Slots : CallIsSound(calls[s]), RefreshIsSound(calls["refresh"]),
         \A c \in Channels : FetchIsSound(calls[c]),
         \A c \in Channels :
           /\ calls[c].jar \in {0, jar', net[t][c].jar}
           /\ NewSession(calls[c]) => NewSession(net[t][c]) /\ calls[c].sid = net[t][c].sid
  PROVE  BrowserInv'
<1>1. net'[t] = calls /\ \A o \in Tabs \ {t} : net'[o] = net[o]
  BY DEF BrowserInv, BrowserTypeInv
<1>2. jar' \in Nat /\ csrf' \in [Tabs -> Nat] /\ \A o \in Tabs \ {t} : csrf'[o] = csrf[o]
  <2>1. jar' \in Nat
    BY RowsAre
  <2> QED
    BY <2>1 DEF BrowserInv, BrowserTypeInv
<1>3. UNCHANGED <<sessions, fresh, outages>>
  BY DEF server
<1>4. BrowserTypeInv'
  <2>1. inbox' \in [Tabs -> Seq({"session", "login", "logout"})]
    BY DEF Publish, BrowserInv, BrowserTypeInv
  <2>2. net' \in [Tabs -> [Channels -> Fetches]]
    BY DEF BrowserInv, BrowserTypeInv
  <2> QED
    BY <1>2, <1>3, <2>1, <2>2 DEF BrowserInv, BrowserTypeInv
<1>5. TabIsSound(t)'
  <2>1. \A c \in Channels : FetchIsSound(net[t][c])'
    BY <1>1, <1>3 DEF FetchIsSound
  <2> QED
    BY <1>1, <2>1 DEF TabIsSound
<1>6. ASSUME Calm, jar' # 0 PROVE Live(jar)' /\ jar' \in fresh'
  <2>1. PICK c \in Channels : NewSession(net[t][c]) /\ net[t][c].sid = jar'
    BY <1>6
  <2>2. Live(net[t][c].sid) /\ net[t][c].sid \in fresh
    BY <1>6, <2>1 DEF BrowserInv, NewSessionsAreUnused
  <2> QED
    BY <1>3, <2>1, <2>2 DEF Live
<1>7. ASSUME Calm PROVE Current'
  BY <1>6, <1>7 DEF Current, Live
<1>8. jar' = 0 \/ (event # "logout" /\ (Calm => Live(jar)'))
  BY <1>6
<1>9. ASSUME Calm
      PROVE  /\ status'[t] \in {"checking", "refreshing"} => Hydrating(t)'
             /\ status'[t] # "unavailable"
  BY <1>1, <1>9 DEF Hydrating
<1>10. \A c \in Channels :
         /\ net'[t][c].jar \in {0, jar', net[t][c].jar}
         /\ NewSession(net'[t][c]) => NewSession(net[t][c]) /\ net'[t][c].sid = net[t][c].sid
  BY <1>1
<1>11. Calm => jar' = 0 \/ \E c \in Channels : /\ NewSession(net[t][c]) /\ net[t][c].sid = jar'
                                               /\ ~ NewSession(net'[t][c])
  BY <1>1
<1>12. \A o \in Tabs \ {t} : net'[o] = net[o] /\ csrf'[o] = csrf[o] /\ status'[o] = status[o]
  BY <1>1, <1>2
<1> QED
  BY <1>3, <1>4, <1>5, <1>7, <1>8, <1>9, <1>10, <1>11, <1>12, JarMoves

(* A login or a logout supersedes the hydrations of its tab. *)
LEMMA SupersededStep ==
  ASSUME BrowserInv, NEW t \in Tabs, NEW s \in Slots, LoggedIn(t, s) \/ LoggedOut(t, s)
  PROVE  BrowserInv'
<1> DEFINE f == net[t][s]
           old == Outdated(net[t])
           calls == [old EXCEPT ![s] = None]
<1>1. PICK event \in {"login", "logout"} :
        /\ f.at = "replied" /\ f.path = event /\ f.reply = "ok"
        /\ IF event = "login" THEN jar' = f.sid ELSE jar' = 0
        /\ csrf' = [csrf EXCEPT ![t] = jar'] /\ Publish(event)
        /\ user' = [user EXCEPT ![t] = (event = "login")]
        /\ status' = [status EXCEPT ![t] = IF event = "login" THEN "authenticated"
                                                              ELSE "unauthenticated"]
        /\ net' = [net EXCEPT ![t] = calls] /\ UNCHANGED <<server, outages>>
  <2>1. CASE LoggedIn(t, s)
    BY <2>1 DEF LoggedIn, CallReply, Superseded, budgets
  <2>2. CASE LoggedOut(t, s)
    BY <2>2 DEF LoggedOut, CallReply, Superseded, budgets
  <2> QED
    BY <2>1, <2>2
<1>2. s \in Channels /\ s # "refresh"
  BY SlotsAssumption DEF Channels
<1>3. /\ f.sid \in 0..Len(sessions) /\ status[t] # "closed" /\ Len(sessions) \in Nat
  BY <1>1, <1>2, ChannelsAre DEF Fetches, FetchIsSound, Running
<1>4. old \in [Channels -> Fetches]
  BY OutdatedIs DEF BrowserInv, BrowserTypeInv
<1>5. ASSUME NEW c \in Channels
      PROVE  /\ c \in Slots => CallIsSound(old[c])
             /\ c = "refresh" => RefreshIsSound(old[c])
             /\ FetchIsSound(old[c]) /\ old[c].jar = net[t][c].jar
             /\ NewSession(old[c]) => NewSession(net[t][c]) /\ old[c].sid = net[t][c].sid
  BY OutdatedIsSound
<1> HIDE DEF old
<1>6. /\ calls \in [Channels -> Fetches] /\ calls[s] = None
      /\ \A c \in Channels : c # s => calls[c] = old[c]
  BY <1>2, <1>4, NoneIs
<1> HIDE DEF calls
<1>7. /\ \A o \in Slots : CallIsSound(calls[o])
      /\ RefreshIsSound(calls["refresh"])
      /\ \A c \in Channels : FetchIsSound(calls[c])
      /\ \A c \in Channels :
           /\ calls[c].jar \in {0, jar', net[t][c].jar}
           /\ NewSession(calls[c]) => NewSession(net[t][c]) /\ calls[c].sid = net[t][c].sid
  <2>1. ASSUME NEW c \in Channels
        PROVE  /\ c \in Slots => CallIsSound(calls[c])
               /\ c = "refresh" => RefreshIsSound(calls[c])
               /\ FetchIsSound(calls[c]) /\ calls[c].jar \in {0, net[t][c].jar}
               /\ NewSession(calls[c]) => NewSession(net[t][c]) /\ calls[c].sid = net[t][c].sid
    <3>1. CASE c = s
      BY <1>6, <3>1, NoneIs DEF NewSession
    <3>2. CASE c # s
      BY <1>5, <1>6, <3>2
    <3> QED
      BY <3>1, <3>2
  <2>2. Slots \subseteq Channels /\ "refresh" \in Channels
    BY DEF Channels
  <2> QED
    BY <2>1, <2>2
<1>8. /\ status' \in [Tabs -> Statuses] /\ user' \in [Tabs -> BOOLEAN]
      /\ \A o \in Tabs \ {t} : status'[o] = status[o]
      /\ status'[t] \in {"authenticated", "unauthenticated"}
  BY <1>1 DEF BrowserInv, BrowserTypeInv, Statuses
<1>9. jar' \in 0..Len(sessions)
  BY <1>1, <1>3
<1>10. jar' = 0 \/ (/\ event # "logout"
                    /\ Calm => \E c \in Channels : /\ NewSession(net[t][c]) /\ net[t][c].sid = jar'
                                                   /\ ~ NewSession(calls[c]))
  <2>1. ~ NewSession(calls[s])
    BY <1>6, NoneIs DEF NewSession
  <2>2. event = "login" => NewSession(f) /\ f.sid = jar'
    BY <1>1 DEF NewSession, Answer
  <2> QED
    BY <1>1, <1>2, <2>1, <2>2
<1>11. /\ status'[t] # "closed" /\ status'[t] \notin {"checking", "refreshing"}
       /\ status'[t] # "unavailable"
  BY <1>8
<1>12. /\ event \in {"session", "login", "logout"} /\ Publish(event)
       /\ csrf' = [csrf EXCEPT ![t] = jar'] /\ net' = [net EXCEPT ![t] = calls]
       /\ UNCHANGED <<server, outages>>
  BY <1>1
<1>13. Calm => /\ status'[t] \in {"checking", "refreshing"} =>
                    \E o \in Slots : Running(calls[o]) /\ calls[o].latest
               /\ status'[t] # "unavailable"
  BY <1>11
<1> QED
  BY <1>3, <1>6, <1>7, <1>8, <1>9, <1>10, <1>11, <1>12, <1>13, JarStep
-----------------------------------------------------------------------------
(* The refresh is over, and the calls that waited for it are sent again. *)
Resent(f, cookies, token) ==
  [Request(f.path, cookies, token) EXCEPT !.retried = TRUE, !.latest = f.latest]

LEMMA ResentIs ==
  ASSUME NEW f \in Fetches, f.path \in {"session", "api", "login", "logout"},
         NEW cookies \in Nat, NEW token \in Nat
  PROVE  /\ Resent(f, cookies, token) \in Fetches /\ Resent(f, cookies, token).path = f.path
         /\ Resent(f, cookies, token).at = "sent" /\ Resent(f, cookies, token).latest = f.latest
         /\ Resent(f, cookies, token).jar = cookies /\ Resent(f, cookies, token).sid = 0
<1> DEFINE r == Request(f.path, cookies, token)
           latest == f.latest
<1>1. r \in Fetches /\ r.path = f.path /\ r.at = "sent" /\ r.jar = cookies /\ r.sid = 0
      /\ latest \in BOOLEAN
  <2>1. f.path \in Paths
    BY DEF Paths
  <2>2. latest \in BOOLEAN
    BY DEF Fetches
  <2> QED
    BY <2>1, <2>2, RequestIs
<1>2. Resent(f, cookies, token) = [r EXCEPT !.retried = TRUE, !.latest = latest]
  BY DEF Resent
<1> HIDE DEF r, latest
<1>3. LET g == [r EXCEPT !.retried = TRUE, !.latest = latest] IN
      /\ g \in Fetches /\ g.path = r.path /\ g.at = r.at /\ g.latest = latest
      /\ g.jar = r.jar /\ g.sid = r.sid
  BY <1>1 DEF Fetches
<1> QED
  BY <1>1, <1>2, <1>3 DEF latest

(* How the calls of the tab stand then. *)
AreResent(t, calls, cookies) ==
  /\ calls \in [Channels -> Fetches] /\ net' = [net EXCEPT ![t] = calls]
  /\ calls["refresh"] = None
  /\ \A s \in Slots :
       /\ net[t][s].at # "waiting" => calls[s] = net[t][s]
       /\ net[t][s].at = "waiting" =>
            /\ calls[s].path = net[t][s].path /\ calls[s].at = "sent" /\ calls[s].jar = cookies
            /\ calls[s].latest = net[t][s].latest /\ calls[s].sid = 0

LEMMA RefreshSucceedsIs ==
  ASSUME BrowserInv, NEW t \in Tabs, NEW cookies \in Nat, NEW token \in Nat,
         RefreshSucceeds(t, token, cookies)
  PROVE  \E calls \in [Channels -> Fetches] : AreResent(t, calls, cookies)
<1> DEFINE calls == [c \in Channels |->
                       IF c = "refresh" THEN None
                       ELSE IF c \in Waiting(t) THEN Resent(net[t][c], cookies, token)
                       ELSE net[t][c]]
<1>1. net' = [net EXCEPT ![t] = calls]
  BY DEF RefreshSucceeds, Resent
<1>2. ASSUME NEW s \in Slots
      PROVE  /\ s \in Channels /\ s # "refresh" /\ net[t][s] \in Fetches
             /\ s \in Waiting(t) <=> net[t][s].at = "waiting"
             /\ net[t][s].at = "waiting" =>
                  net[t][s].path \in {"session", "api", "login", "logout"}
  <2>1. s \in Channels /\ s # "refresh"
    BY SlotsAssumption DEF Channels
  <2> QED
    BY <2>1, ChannelsAre DEF Waiting, CallIsSound, Running
<1>3. ASSUME NEW s \in Slots, net[t][s].at = "waiting"
      PROVE  /\ calls[s] \in Fetches
             /\ calls[s].path = net[t][s].path /\ calls[s].at = "sent" /\ calls[s].jar = cookies
             /\ calls[s].latest = net[t][s].latest /\ calls[s].sid = 0
  <2>1. calls[s] = Resent(net[t][s], cookies, token)
    BY <1>2, <1>3
  <2> HIDE DEF calls
  <2> DEFINE f == net[t][s]
  <2>2. f \in Fetches /\ f.path \in {"session", "api", "login", "logout"}
    BY <1>2, <1>3
  <2> HIDE DEF f
  <2>3. /\ Resent(f, cookies, token) \in Fetches /\ Resent(f, cookies, token).path = f.path
        /\ Resent(f, cookies, token).at = "sent" /\ Resent(f, cookies, token).latest = f.latest
        /\ Resent(f, cookies, token).jar = cookies /\ Resent(f, cookies, token).sid = 0
    BY <2>2, ResentIs
  <2> QED
    BY <2>1, <2>3 DEF f
<1>4. ASSUME NEW s \in Slots, net[t][s].at # "waiting" PROVE calls[s] = net[t][s]
  BY <1>2, <1>4
<1>5. calls["refresh"] = None
  BY DEF Channels
<1>6. \A c \in Channels : calls[c] \in Fetches
  BY <1>2, <1>3, <1>4, <1>5, NoneIs DEF Channels
<1>7. calls \in [Channels -> Fetches]
  BY <1>6
<1> HIDE DEF calls
<1>8. AreResent(t, calls, cookies)
  BY <1>1, <1>3, <1>4, <1>5, <1>7 DEF AreResent
<1> QED
  BY <1>7, <1>8

LEMMA ResentAreSound ==
  ASSUME BrowserInv, NEW t \in Tabs, NEW cookies \in 0..Len(sessions), NEW calls,
         AreResent(t, calls, cookies)
  PROVE  /\ \A s \in Slots : CallIsSound(calls[s])
         /\ RefreshIsSound(calls["refresh"])
         /\ \A c \in Channels :
              /\ FetchIsSound(calls[c]) /\ calls[c].jar \in {0, cookies, net[t][c].jar}
              /\ NewSession(calls[c]) => NewSession(net[t][c]) /\ calls[c].sid = net[t][c].sid
              /\ c # "refresh" /\ Answer(net[t][c], {"rotate", "logout"}) =>
                                  Answer(calls[c], {"rotate", "logout"})
         /\ \A s \in Slots : (Running(calls[s]) /\ calls[s].latest)
                             <=> (Running(net[t][s]) /\ net[t][s].latest)
<1>1. Len(sessions) \in Nat
  BY RowsAre
<1>2. ASSUME NEW s \in Slots
      PROVE  /\ CallIsSound(calls[s]) /\ FetchIsSound(calls[s])
             /\ calls[s].jar \in {0, cookies, net[t][s].jar}
             /\ NewSession(calls[s]) => NewSession(net[t][s]) /\ calls[s].sid = net[t][s].sid
             /\ Answer(net[t][s], {"rotate", "logout"}) => Answer(calls[s], {"rotate", "logout"})
             /\ (Running(calls[s]) /\ calls[s].latest) <=> (Running(net[t][s]) /\ net[t][s].latest)
  <2>1. s \in Channels /\ CallIsSound(net[t][s]) /\ FetchIsSound(net[t][s])
    BY ChannelsAre DEF Channels
  <2>2. CASE net[t][s].at # "waiting"
    <3>1. calls[s] = net[t][s]
      BY <2>2 DEF AreResent
    <3> QED
      BY <2>1, <3>1
  <2>3. CASE net[t][s].at = "waiting"
    <3>1. /\ calls[s].path = net[t][s].path /\ calls[s].at = "sent" /\ calls[s].jar = cookies
          /\ calls[s].latest = net[t][s].latest /\ calls[s].sid = 0
      BY <2>3 DEF AreResent
    <3>2. CallIsSound(calls[s]) /\ FetchIsSound(calls[s])
      BY <1>1, <2>1, <2>3, <3>1 DEF CallIsSound, FetchIsSound, Running
    <3> QED
      BY <2>3, <3>1, <3>2 DEF NewSession, Answer, Running
  <2> QED
    BY <2>2, <2>3
<1>3. /\ RefreshIsSound(calls["refresh"]) /\ FetchIsSound(calls["refresh"])
      /\ calls["refresh"].jar = 0 /\ ~ NewSession(calls["refresh"])
  BY NoneIs DEF AreResent, NewSession
<1> QED
  BY <1>2, <1>3 DEF Channels

LEMMA RotatedStep == ASSUME BrowserInv, NEW t \in Tabs, Rotated(t) PROVE BrowserInv'
<1> DEFINE f == net[t]["refresh"]
<1>1. PICK sid : sid = f.sid
  OBVIOUS
<1>2. /\ f.at = "replied" /\ f.path = "rotate" /\ f.reply = "ok" /\ jar' = sid
      /\ csrf' = [csrf EXCEPT ![t] = jar'] /\ RefreshSucceeds(t, sid, sid)
      /\ Publish("session") /\ UNCHANGED <<server, status, user, outages>>
  BY <1>1 DEF Rotated, RefreshReply, budgets
<1>3. "refresh" \in Channels
  BY DEF Channels
<1>4. sid \in 0..Len(sessions) /\ sid \in Nat /\ status[t] # "closed" /\ Len(sessions) \in Nat
  BY <1>1, <1>2, <1>3, ChannelsAre DEF Fetches, FetchIsSound, Running
<1>5. PICK calls \in [Channels -> Fetches] : AreResent(t, calls, sid)
  BY <1>2, <1>4, RefreshSucceedsIs
<1>6. /\ \A s \in Slots : CallIsSound(calls[s])
      /\ RefreshIsSound(calls["refresh"])
      /\ \A c \in Channels :
           /\ FetchIsSound(calls[c]) /\ calls[c].jar \in {0, sid, net[t][c].jar}
           /\ NewSession(calls[c]) => NewSession(net[t][c]) /\ calls[c].sid = net[t][c].sid
      /\ \A s \in Slots : (Running(calls[s]) /\ calls[s].latest)
                          <=> (Running(net[t][s]) /\ net[t][s].latest)
  BY <1>4, <1>5, ResentAreSound
<1>7. /\ net' = [net EXCEPT ![t] = calls] /\ ~ NewSession(calls["refresh"])
  BY <1>5, NoneIs DEF AreResent, NewSession
<1>8. /\ status' \in [Tabs -> Statuses] /\ user' \in [Tabs -> BOOLEAN] /\ status'[t] # "closed"
      /\ \A o \in Tabs \ {t} : status'[o] = status[o]
  BY <1>2, <1>4 DEF BrowserInv, BrowserTypeInv
<1>9. NewSession(f) /\ f.sid = jar'
  BY <1>1, <1>2 DEF NewSession, Answer
<1>10. ASSUME Calm
       PROVE  /\ status'[t] \in {"checking", "refreshing"} =>
                   \E s \in Slots : Running(calls[s]) /\ calls[s].latest
              /\ status'[t] # "unavailable"
  <2>1. StatusIsCurrent(t)
    BY <1>10 DEF BrowserInv, TabIsCurrent
  <2> QED
    BY <1>2, <1>6, <2>1 DEF StatusIsCurrent, Hydrating
<1>11. jar' \in 0..Len(sessions) /\ "session" \in {"session", "login", "logout"} /\ "session" # "logout"
  BY <1>2, <1>4
<1>12. \E c \in Channels : /\ NewSession(net[t][c]) /\ net[t][c].sid = jar'
                           /\ ~ NewSession(calls[c])
  BY <1>3, <1>7, <1>9
<1>13. \A c \in Channels :
         /\ FetchIsSound(calls[c])
         /\ calls[c].jar \in {0, jar', net[t][c].jar}
         /\ NewSession(calls[c]) => NewSession(net[t][c]) /\ calls[c].sid = net[t][c].sid
  BY <1>2, <1>6
<1>14. UNCHANGED <<server, outages>> /\ Publish("session") /\ csrf' = [csrf EXCEPT ![t] = jar']
  BY <1>2
<1> HIDE DEF f
<1> QED
  BY <1>4, <1>5, <1>6, <1>7, <1>8, <1>10, <1>11, <1>12, <1>13, <1>14, JarStep


LEMMA ConvergeStep == ASSUME BrowserInv, NEW t \in Tabs, Converge(t) PROVE BrowserInv'
<1> DEFINE f == net[t]["refresh"]
<1>1. PICK sid : sid = f.sid
  OBVIOUS
<1>2. "refresh" \in Channels
  BY DEF Channels
<1>3. /\ f.at = "replied" /\ f.path = "probe" /\ f.reply = "ok"
      /\ csrf' = [csrf EXCEPT ![t] = sid] /\ UNCHANGED <<server, jar, status, user, inbox, outages>>
  BY <1>1 DEF Converge, RefreshReply, budgets
<1>4. /\ sid \in Nat /\ jar \in Nat /\ jar \in 0..Len(sessions) /\ status[t] # "closed"
  BY <1>1, <1>2, <1>3, ChannelsAre, RowsAre DEF Fetches, Running
<1>5. /\ csrf' \in [Tabs -> Nat] /\ csrf'[t] = sid /\ \A o \in Tabs \ {t} : csrf'[o] = csrf[o]
  BY <1>3, <1>4 DEF BrowserInv, BrowserTypeInv
<1>6. RefreshSucceeds(t, sid, jar)
  BY <1>5 DEF Converge
<1>7. PICK calls \in [Channels -> Fetches] : AreResent(t, calls, jar)
  BY <1>4, <1>6, RefreshSucceedsIs
<1>8. /\ \A s \in Slots : CallIsSound(calls[s])
      /\ RefreshIsSound(calls["refresh"])
      /\ \A c \in Channels :
           /\ FetchIsSound(calls[c]) /\ calls[c].jar \in {0, jar, net[t][c].jar}
           /\ NewSession(calls[c]) => NewSession(net[t][c]) /\ calls[c].sid = net[t][c].sid
           /\ c # "refresh" /\ Answer(net[t][c], {"rotate", "logout"}) =>
                               Answer(calls[c], {"rotate", "logout"})
      /\ \A s \in Slots : (Running(calls[s]) /\ calls[s].latest)
                          <=> (Running(net[t][s]) /\ net[t][s].latest)
  BY <1>4, <1>7, ResentAreSound
<1>9. /\ net' = [net EXCEPT ![t] = calls] /\ net'[t] = calls /\ calls["refresh"] = None
  BY <1>7 DEF AreResent, BrowserInv, BrowserTypeInv
<1>10. ~ Answer(f, {"rotate", "logout"}) /\ Running(f)
  BY <1>3 DEF Answer, Running
<1>11. UNCHANGED <<sessions, fresh, jar, status, user, inbox, outages>>
  BY <1>3 DEF server
<1>12. ASSUME Calm PROVE TabIsCurrent(t)'
  <2>1. TabIsCurrent(t) /\ RefreshIsCurrent(t, f)
    BY <1>12 DEF BrowserInv, TabIsCurrent
  <2>2. Hydrating(t) => Current
    BY <1>3, <1>10, <2>1 DEF RefreshIsCurrent, Answer
  <2>3. /\ (Told(t)' <=> Told(t)) /\ (Current' <=> Current) /\ (Live(jar)' <=> Live(jar))
        /\ (Hydrating(t)' <=> Hydrating(t))
    BY <1>8, <1>9, <1>11 DEF Told, Current, Live, Hydrating
  <2>4. ASSUME NEW s \in Slots PROVE HydrationIsCurrent(t, net[t][s])'
    <3>1. HydrationIsCurrent(t, net[t][s])
      BY <2>1 DEF TabIsCurrent
    <3>2. CASE net[t][s].at # "waiting"
      <4>1. net'[t][s] = net[t][s]
        BY <1>7, <1>9, <3>2 DEF AreResent
      <4> QED
        BY <1>11, <2>3, <3>1, <4>1 DEF HydrationIsCurrent
    <3>3. CASE net[t][s].at = "waiting"
      <4>1. /\ net'[t][s].path = net[t][s].path /\ net'[t][s].at = "sent" /\ net'[t][s].jar = jar
            /\ net'[t][s].latest = net[t][s].latest
        BY <1>7, <1>9, <3>3 DEF AreResent
      <4>2. net[t][s].latest => Current
        BY <2>2, <3>3 DEF Hydrating, Running
      <4>3. net[t][s].path = "session" /\ ~ net[t][s].latest => Current
        BY <3>1, <3>3 DEF HydrationIsCurrent, Running
      <4> QED
        BY <1>11, <2>3, <4>1, <4>2, <4>3 DEF HydrationIsCurrent, Refused, Answer
    <3> QED
      BY <3>2, <3>3
  <2>5. RefreshIsCurrent(t, net[t]["refresh"])'
    BY <2>2, <2>3 DEF RefreshIsCurrent
  <2>6. StatusIsCurrent(t)'
    BY <1>11, <2>1, <2>3 DEF TabIsCurrent, StatusIsCurrent, Over
  <2> QED
    BY <1>11, <2>1, <2>3, <2>4, <2>5, <2>6 DEF TabIsCurrent
<1>13. /\ status' \in [Tabs -> Statuses] /\ user' \in [Tabs -> BOOLEAN] /\ status'[t] # "closed"
       /\ inbox' \in [Tabs -> Seq({"session", "login", "logout"})]
       /\ \A o \in Tabs \ {t} : inbox'[o] = inbox[o] /\ csrf'[o] = csrf[o] /\ status'[o] = status[o]
  BY <1>4, <1>5, <1>11 DEF BrowserInv, BrowserTypeInv
<1>14. \A c \in Channels :
         /\ FetchIsSound(calls[c]) /\ calls[c].jar \in {0, jar, net[t][c].jar}
         /\ NewSession(calls[c]) => NewSession(net[t][c]) /\ calls[c].sid = net[t][c].sid
         /\ Answer(net[t][c], {"rotate", "logout"}) => Answer(calls[c], {"rotate", "logout"})
  BY <1>8, <1>10
<1> HIDE DEF f
<1> QED
  BY <1>5, <1>7, <1>8, <1>9, <1>11, <1>12, <1>13, <1>14, TabStep

LEMMA GiveUpStep == ASSUME BrowserInv, NEW t \in Tabs, GiveUp(t) PROVE BrowserInv'
<1> DEFINE f == net[t]["refresh"]
           calls == [c \in Channels |->
                       IF c = "refresh" \/ c \in Waiting(t) THEN None ELSE net[t][c]]
           hydrating == \E s \in Waiting(t) : net[t][s].latest
<1>1. "refresh" \in Channels
  BY DEF Channels
<1>2. /\ f.at = "replied"
      /\ \/ f.path \in {"csrf", "probe"} /\ f.reply = "denied"
         \/ f.reply = "down"
      /\ net' = [net EXCEPT ![t] = calls] /\ ShowDenied(t, hydrating)
      /\ UNCHANGED <<server, jar, csrf, inbox, outages>>
  BY DEF GiveUp, RefreshReply, RefreshFails, budgets
<1>3. Running(f) /\ status[t] # "closed" /\ FetchIsSound(f) /\ TabIsSound(t)
      /\ ~ Answer(f, {"rotate", "logout"})
  BY <1>1, <1>2, ChannelsAre DEF Running, Answer, BrowserInv
<1>4. ASSUME NEW c \in Channels
      PROVE  calls[c] \in {None, net[t][c]} /\ net[t][c] \in Fetches
             /\ (calls[c] # net[t][c] => c = "refresh" \/ net[t][c].at = "waiting")
             /\ (c = "refresh" => calls[c] = None)
             /\ (c \in Slots /\ net[t][c].at # "waiting" => calls[c] = net[t][c])
             /\ (c \in Slots /\ net[t][c].at = "waiting" => calls[c] = None)
  BY ChannelsAre, SlotsAssumption DEF Waiting
<1>5. calls \in [Channels -> Fetches]
  <2>1. \A c \in Channels : calls[c] \in Fetches
    BY <1>4, NoneIs
  <2> QED
    BY <2>1
<1>6. hydrating <=> \E s \in Slots : net[t][s].at = "waiting" /\ net[t][s].latest
  BY DEF Waiting
<1> HIDE DEF calls, hydrating
<1>7. /\ \A s \in Slots : CallIsSound(calls[s])
      /\ RefreshIsSound(calls["refresh"])
      /\ \A c \in Channels :
           /\ FetchIsSound(calls[c]) /\ calls[c].jar \in {0, jar, net[t][c].jar}
           /\ NewSession(calls[c]) => NewSession(net[t][c]) /\ calls[c].sid = net[t][c].sid
           /\ Answer(net[t][c], {"rotate", "logout"}) => Answer(calls[c], {"rotate", "logout"})
  <2>1. ASSUME NEW s \in Slots PROVE CallIsSound(calls[s])
    BY <1>3, <1>4, NoneIs DEF TabIsSound, Channels
  <2>2. RefreshIsSound(calls["refresh"])
    BY <1>1, <1>4, NoneIs
  <2>3. ASSUME NEW c \in Channels
        PROVE  /\ FetchIsSound(calls[c]) /\ calls[c].jar \in {0, jar, net[t][c].jar}
               /\ NewSession(calls[c]) => NewSession(net[t][c]) /\ calls[c].sid = net[t][c].sid
               /\ Answer(net[t][c], {"rotate", "logout"}) => Answer(calls[c], {"rotate", "logout"})
    <3>1. CASE calls[c] = net[t][c]
      BY <1>3, <3>1 DEF TabIsSound
    <3>2. CASE calls[c] # net[t][c]
      <4>1. ~ Answer(net[t][c], {"rotate", "logout"})
        BY <1>3, <1>4, <3>2 DEF Answer
      <4> QED
        BY <1>4, <3>2, <4>1, NoneIs DEF NewSession
    <3> QED
      BY <3>1, <3>2
  <2> QED
    BY <2>1, <2>2, <2>3
<1>8. net'[t] = calls /\ UNCHANGED <<sessions, fresh, jar, csrf, inbox, outages>>
  BY <1>2 DEF BrowserInv, BrowserTypeInv, server
<1>9. /\ status' \in [Tabs -> Statuses] /\ user' \in [Tabs -> BOOLEAN] /\ csrf' \in [Tabs -> Nat]
      /\ inbox' \in [Tabs -> Seq({"session", "login", "logout"})]
      /\ \A o \in Tabs \ {t} : inbox'[o] = inbox[o] /\ csrf'[o] = csrf[o] /\ status'[o] = status[o]
      /\ hydrating => status'[t] \in {"expired", "unauthenticated"}
      /\ ~ hydrating => status'[t] = status[t]
  BY <1>2, <1>8 DEF ShowDenied, BrowserInv, BrowserTypeInv, Statuses
<1>10. status'[t] # "closed"
  BY <1>3, <1>9
<1>11. ASSUME Calm PROVE TabIsCurrent(t)'
  <2>1. TabIsCurrent(t) /\ RefreshIsCurrent(t, f) /\ f.reply # "down"
    BY <1>2, <1>3, <1>11 DEF BrowserInv, TabIsCurrent, Calm, FetchIsSound
  <2>2. Hydrating(t) => Current
    BY <1>2, <1>3, <2>1 DEF RefreshIsCurrent, Answer
  <2>3. /\ (Told(t)' <=> Told(t)) /\ (Current' <=> Current) /\ (Live(jar)' <=> Live(jar))
    BY <1>8 DEF Told, Current, Live
  <2>4. ASSUME NEW s \in Slots
        PROVE  /\ HydrationIsCurrent(t, net[t][s])'
               /\ Running(net'[t][s]) => net'[t][s] = net[t][s]
               /\ net[t][s].at # "waiting" => net'[t][s] = net[t][s]
    <3>1. s \in Channels /\ HydrationIsCurrent(t, net[t][s])
      BY <2>1 DEF TabIsCurrent, Channels
    <3>2. CASE net'[t][s] = net[t][s]
      BY <1>8, <2>3, <3>1, <3>2 DEF HydrationIsCurrent
    <3>3. CASE net'[t][s] # net[t][s]
      <4>1. net'[t][s] = None /\ net[t][s].at = "waiting"
        BY <1>4, <1>8, <3>1, <3>3
      <4>2. ~ Running(net'[t][s])
        BY <4>1, NoneIs
      <4> QED
        BY <4>1, <4>2 DEF HydrationIsCurrent
    <3> QED
      BY <3>2, <3>3
  <2>5. Hydrating(t)' => Hydrating(t)
    BY <2>4 DEF Hydrating
  <2>6. ~ hydrating => (Hydrating(t) => Hydrating(t)')
    BY <1>6, <2>4 DEF Hydrating
  <2>7. hydrating => ~ Live(jar) \/ Told(t)
    <3> SUFFICES ASSUME NEW s \in Slots, net[t][s].at = "waiting", net[t][s].latest
                 PROVE  ~ Live(jar) \/ Told(t)
      BY <1>6
    <3>1. s \in Channels /\ Hydrating(t)
      BY DEF Channels, Hydrating, Running
    <3>2. net[t][s].path = "session"
      BY <1>3 DEF TabIsSound, CallIsSound, Running
    <3>3. jar \notin fresh \/ ~ Live(jar) \/ Told(t)
      BY <2>1, <3>2 DEF TabIsCurrent, HydrationIsCurrent, Running, Refused
    <3> QED
      BY <2>2, <3>1, <3>3 DEF Current
  <2>8. RefreshIsCurrent(t, net[t]["refresh"])'
    BY <2>2, <2>3, <2>5 DEF RefreshIsCurrent
  <2>9. StatusIsCurrent(t)'
    BY <1>8, <1>9, <2>1, <2>3, <2>6, <2>7 DEF TabIsCurrent, StatusIsCurrent, Over
  <2> QED
    BY <1>8, <2>1, <2>3, <2>4, <2>8, <2>9 DEF TabIsCurrent
<1> HIDE DEF f
<1> QED
  BY <1>2, <1>5, <1>7, <1>8, <1>9, <1>10, <1>11, TabStep
-----------------------------------------------------------------------------
LEMMA BrowserInvStep == BrowserInv /\ [Next]_vars => BrowserInv'
<1> SUFFICES ASSUME BrowserInv, [Next]_vars PROVE BrowserInv'
  OBVIOUS
<1>1. CASE UNCHANGED vars
  <2>1. /\ UNCHANGED <<sessions, fresh, jar, csrf, status, user, inbox, net, outages>>
    BY <1>1 DEF vars, server, tab, budgets
  <2> QED
    BY <2>1 DEF BrowserInv, BrowserTypeInv, ParentsAreOver, OneSuccessor, TabIsSound, FetchIsSound,
       Calm, TabIsCurrent, Told, Current, Live, HydrationIsCurrent, RefreshIsCurrent, Hydrating,
       StatusIsCurrent, Over, NewSessionsAreUnused, DeathIsAnnounced
<1>2. CASE Expire
  BY <1>2, ExpireStep
<1>3. ASSUME NEW t \in Tabs, Mount(t) \/ TryAgain(t) \/ Listen(t) PROVE BrowserInv'
  BY <1>3, MountStep, TryAgainStep, ListenStep
<1>4. ASSUME NEW t \in Tabs, Call(t) \/ Logout(t) \/ Login(t) PROVE BrowserInv'
  BY <1>4, ActStep
<1>5. ASSUME NEW t \in Tabs, Refresh(t) PROVE BrowserInv'
  BY <1>5, CsrfReceivedStep, RotatedStep, ProbeStep, ConvergeStep, GiveUpStep DEF Refresh
<1>6. ASSUME NEW t \in Tabs, NEW s \in Slots, Receive(t, s) PROVE BrowserInv'
  BY <1>6, AwaitRefreshStep, DeniedForGoodStep, SessionReceivedStep, CallReturnsStep,
     UnavailableStep, SupersededStep DEF Receive
<1>7. ASSUME NEW t \in Tabs, NEW c \in Channels, Serve(t, c) \/ Outage(t, c) PROVE BrowserInv'
  <2>1. CASE Serve(t, c)
    BY <2>1, ServeReadStep, ServeCsrfStep, ServeLoginStep, ResolveStep, ServeLogoutStep, RotateStep
       DEF Serve
  <2> QED
    BY <1>7, <2>1, OutageStep
<1> QED
  BY <1>1, <1>2, <1>3, <1>4, <1>5, <1>6, <1>7 DEF Next

(* However the tabs' requests, answers and refreshes overtake each other, are
   lost or find an expired token: a refresh token is exchanged for one successor
   (AuthService.refresh, the row lock). *)
THEOREM RefreshTokensRotateOnce == Spec => []OneSuccessor
<1>1. BrowserInv => OneSuccessor
  BY DEF BrowserInv
<1> QED
  BY <1>1, BrowserInvInit, BrowserInvStep, PTL DEF Spec

(* For any number of tabs whose calls settle within an access token's life: a
   tab that shows the session as over while the cookies hold a live one is about
   to be told (performRefresh, hydrate, subscribeAuthEvents). *)
THEOREM RefreshesStayConverging == ASSUME PromptTabs PROVE Spec => []RefreshesConverge
<1>1. BrowserInv => RefreshesConverge
  <2> SUFFICES ASSUME BrowserInv PROVE RefreshesConverge
    OBVIOUS
  <2>1. ASSUME NEW t \in Tabs, outages = 0, Over(t), Live(jar) PROVE Announced(t)
    <3>1. StatusIsCurrent(t)
      BY <2>1 DEF BrowserInv, Calm, TabIsCurrent
    <3> QED
      BY <2>1, <3>1 DEF StatusIsCurrent, Told, Announced
  <2> QED
    BY <2>1 DEF BrowserInv, RefreshesConverge, LoserIsTold
<1> QED
  BY <1>1, BrowserInvInit, BrowserInvStep, PTL DEF Spec

(* And once nothing is on its way, every open tab shows what the cookies say. *)
THEOREM QuietTabsStayInAgreement == ASSUME PromptTabs PROVE Spec => []QuietTabsAgree
<1>1. BrowserInv => QuietTabsAgree
  <2> SUFFICES ASSUME BrowserInv, outages = 0, \A t \in Tabs : Quiet(t),
                      NEW t \in Tabs, status[t] # "closed"
               PROVE  (status[t] = "authenticated") = Live(jar)
    BY DEF QuietTabsAgree
  <2>1. /\ StatusIsCurrent(t) /\ DeathIsAnnounced /\ status[t] \in Statuses /\ jar \in Nat
    BY RowsAre DEF BrowserInv, BrowserTypeInv, Calm, TabIsCurrent
  <2>2. \A o \in Tabs, c \in Channels : ~ Running(net[o][c])
    BY DEF Quiet, Idle, Running
  <2>3. ~ Told(t) /\ ~ Hydrating(t)
    BY <2>2 DEF Quiet, Told, Hydrating, Channels
  <2>4. jar = 0 \/ Live(jar)
    BY <2>1, <2>2 DEF DeathIsAnnounced, Answer, Running
  <2>5. status[t] = "authenticated" <=> Live(jar)
    BY <2>1, <2>3, <2>4 DEF StatusIsCurrent, Over, Statuses, Live
  <2>6. Live(jar) \in BOOLEAN
    BY RowsAre DEF Live
  <2> QED
    BY <2>5, <2>6
<1> QED
  BY <1>1, BrowserInvInit, BrowserInvStep, PTL DEF Spec
=============================================================================
