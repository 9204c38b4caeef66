------------------------------- MODULE MCSessions -------------------------------
(* TLC instances of the two halves of authentication: how accounts and sign-ins
   come about (Accounts), and what becomes of a browser's session once there is
   one (BrowserSessions).  They share no variable, so that a behaviour is about
   one of them, its subject. *)
EXTENDS BrowserSessions, Accounts, TLC

VARIABLE subject

SessionsInit ==
  /\ subject \in {"accounts", "browser"}
  /\ Init /\ AccountsInit

SessionsNext ==
  \/ subject = "accounts" /\ AccountsNext /\ UNCHANGED <<subject, vars>>
  \/ subject = "browser" /\ Next /\ UNCHANGED <<subject, accountVars>>

SessionsSpec == SessionsInit /\ [][SessionsNext]_<<subject, vars, accountVars>>

Alike == Permutations(Tabs) \cup Permutations(Slots)

Scenario(d, a, t) ==
  [documents |-> d, actions |-> a, troubles |-> t]

(* The more documents, the less happens to them. *)
AllScenarios == {Scenario(2, 1, 0), Scenario(2, 0, 1), Scenario(1, 2, 2)}
===============================================================================
