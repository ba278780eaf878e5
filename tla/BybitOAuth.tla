--------------------------- MODULE BybitOAuth ---------------------------
(***************************************************************************)
(* Agent Connect, app/api/routes_bybit_oauth.py: authorization sessions in *)
(* the memory of the process, the two ways to authorize one (the callback  *)
(* of the browser, a value pasted by hand), and the choice of a            *)
(* sub-account, which becomes a profile. A step is the code between two    *)
(* awaits; the routes share a session without any lock.                    *)
(***************************************************************************)
EXTENDS Integers, Sequences, FiniteSets

CONSTANTS Users,      \* who starts a session; nobody else can use it
          AuthIds,    \* sessions; each has a label of its own
          Subs,       \* sub-accounts at Bybit
          Callers,    \* requests under way at once
          Shared      \* sessions that were started with the same label

VARIABLES auth,       \* auth[s]: the dict of _sessions
          call,       \* call[c]: a request, at an await
          codes,      \* Bybit: sessions whose authorization code is not used
          subs,       \* Bybit: sub-accounts that exist
          linked      \* profiles, in the order they were saved

vars == <<auth, call, codes, subs, linked>>

Free == [pc |-> "free", id |-> "none", sub |-> "none"]
NoAuth == [user |-> "none", status |-> "NONE", token |-> FALSE, verifier |-> FALSE,
           listed |-> FALSE]

Auths == [user : Users \cup {"none"}, status : {"NONE", "WAITING", "AUTHORIZED", "FAILED"},
          token : BOOLEAN, verifier : BOOLEAN, listed : BOOLEAN]
Calls == [pc : {"free", "bearer", "exchange", "accounts", "callback", "choose", "wallet"},
          id : AuthIds \cup {"none"}, sub : Subs \cup {"none", "new"}]

Label(s) == IF s \in Shared THEN "shared" ELSE s

Init == /\ auth = [s \in AuthIds |-> NoAuth]
        /\ call = [c \in Callers |-> Free]
        /\ codes = AuthIds
        /\ subs \in {{}} \cup {{x} : x \in Subs}
        /\ linked = <<>>

Go(c, pc) == call' = [call EXCEPT ![c].pc = pc]
End(c) == call' = [call EXCEPT ![c] = Free]
Enter(c, pc, s, sub) == /\ call[c] = Free
                        /\ call' = [call EXCEPT ![c] = [pc |-> pc, id |-> s, sub |-> sub]]
Set(s, status, token, verifier) ==
  auth' = [auth EXCEPT ![s].status = status, ![s].token = token, ![s].verifier = verifier]
Authorize(s) == Set(s, "AUTHORIZED", TRUE, FALSE)
AtBybit == UNCHANGED <<codes, subs, linked>>

StartAuth(s, user) ==
  /\ auth[s] = NoAuth
  /\ auth' = [auth EXCEPT ![s] = [user |-> user, status |-> "WAITING", token |-> FALSE,
                                  verifier |-> TRUE, listed |-> TRUE]]
  /\ UNCHANGED call /\ AtBybit

\* _cleanup: requests that hold the dict go on with it.
Forget(s) == /\ auth[s].listed
             /\ auth' = [auth EXCEPT ![s].listed = FALSE]
             /\ UNCHANGED call /\ AtBybit

(***************************************************************************)
(* A pasted value is tried as a token, then as a code.                     *)
(***************************************************************************)
StartManual(c, s) ==
  /\ auth[s].listed
  /\ auth[s].status \in {"WAITING", "FAILED"}
  /\ Enter(c, "bearer", s, "none")
  /\ UNCHANGED auth /\ AtBybit

\* Mutant: the status is not taken back with the token.
GiveUpToken(c) ==
  /\ End(c)
  /\ auth' = [auth EXCEPT ![call[c].id].token = FALSE]

\* A value that fails gives up what another request may have authorized.
GiveUpManual(c) ==
  /\ End(c)
  /\ Set(call[c].id, "WAITING", FALSE, auth[call[c].id].verifier)

Bearer(c) ==
  LET s == call[c].id
  IN  /\ call[c].pc = "bearer"
      /\ AtBybit
      /\ \/ Authorize(s) /\ End(c)
         \/ auth[s].verifier /\ Go(c, "exchange") /\ UNCHANGED auth
         \/ ~auth[s].verifier /\ GiveUpManual(c)

\* Bybit takes a code once.
Exchange(c) ==
  LET s == call[c].id
  IN  /\ call[c].pc = "exchange"
      /\ UNCHANGED <<subs, linked>>
      /\ \/ /\ s \in codes
            /\ codes' = codes \ {s}
            /\ Authorize(s)
            /\ Go(c, "accounts")
         \/ GiveUpManual(c) /\ UNCHANGED codes

\* The token may be refused where the accounts are read, for want of 2FA.
Accounts(c) == /\ call[c].pc = "accounts"
               /\ AtBybit
               /\ \/ End(c) /\ UNCHANGED auth
                  \/ GiveUpManual(c)

(***************************************************************************)
(* The browser comes back, as often as its page is loaded.                 *)
(***************************************************************************)
Reject(s) == auth' = [auth EXCEPT ![s].status = "FAILED"]

StartCallback(c, s) ==
  /\ auth[s].listed
  /\ AtBybit
  /\ \/ Reject(s) /\ UNCHANGED call
     \/ auth[s].verifier /\ Enter(c, "callback", s, "none") /\ UNCHANGED auth

Callback(c) ==
  LET s == call[c].id
  IN  /\ call[c].pc = "callback"
      /\ End(c)
      /\ UNCHANGED <<subs, linked>>
      /\ \/ s \in codes /\ codes' = codes \ {s} /\ Authorize(s)
         \/ Reject(s) /\ UNCHANGED codes

(***************************************************************************)
(* An existing sub-account is chosen, or a new one is created.             *)
(***************************************************************************)
StartSelect(c, s, sub) ==
  /\ auth[s].listed
  /\ auth[s].status = "AUTHORIZED"
  /\ Enter(c, "choose", s, sub)
  /\ UNCHANGED auth /\ AtBybit

\* Without a token the request ends before it asks Bybit.
Choose(c) ==
  /\ call[c].pc = "choose"
  /\ UNCHANGED <<auth, codes, linked>>
  /\ \/ End(c) /\ UNCHANGED subs
     \/ /\ call[c].sub = "new"
        /\ \E x \in Subs \ subs : /\ subs' = subs \cup {x}
                                  /\ call' = [call EXCEPT ![c].pc = "wallet", ![c].sub = x]
     \/ /\ call[c].sub \in subs
        /\ Go(c, "wallet")
        /\ UNCHANGED subs

\* The profile that a choice of sub in session s becomes.
Profile(s, sub) == [owner |-> auth[s].user, label |-> Label(s), sub |-> sub]
Profiles == [owner : Users \cup {"none"}, label : {"shared"} \cup AuthIds, sub : Subs]
Saved == {linked[i] : i \in DOMAIN linked}

\* Mutant: accounts are not compared.
LinkedLabel(p) == \E q \in Saved : q.owner = p.owner /\ q.label = p.label

\* _duplicate of routes_accounts.py, by the label or by the account, among
\* the profiles of the same owner.
Linked(p) == \E q \in Saved : q.owner = p.owner /\ (q.label = p.label \/ q.sub = p.sub)

Link(c) ==
  LET s == call[c].id
      p == Profile(s, call[c].sub)
  IN  /\ call[c].pc = "wallet"
      /\ End(c)
      /\ UNCHANGED <<codes, subs>>
      /\ \/ UNCHANGED <<auth, linked>>
         \/ /\ ~Linked(p)
            /\ linked' = Append(linked, p)
            /\ auth' = [auth EXCEPT ![s].listed = FALSE]

Next == \/ \E s \in AuthIds : Forget(s) \/ \E user \in Users : StartAuth(s, user)
        \/ \E c \in Callers :
             \/ \E s \in AuthIds :
                  \/ StartManual(c, s)
                  \/ StartCallback(c, s)
                  \/ \E sub \in Subs \cup {"new"} : StartSelect(c, s, sub)
             \/ Bearer(c) \/ Exchange(c) \/ Accounts(c) \/ Callback(c)
             \/ Choose(c) \/ Link(c)

(***************************************************************************)
(* Properties.                                                             *)
(***************************************************************************)
TypeOK == /\ auth \in [AuthIds -> Auths]
          /\ call \in [Callers -> Calls]
          /\ codes \subseteq AuthIds
          /\ subs \subseteq Subs
          /\ Saved \subseteq Profiles /\ \A p \in Saved : p.sub \in subs

\* A session that reports AUTHORIZED has a token, however its requests
\* authorize it, fail and give it up in between each other's awaits.
AuthorizedHasToken == \A s \in AuthIds : auth[s].status = "AUTHORIZED" => auth[s].token

\* Of one owner a sub-account has one profile, and a label one, although two
\* choices of one session, or of two, may both have passed their checks. Two
\* owners may both link one sub-account: nothing compares them.
OneProfilePerSub ==
  \A i, j \in DOMAIN linked :
    (i # j /\ linked[i].owner = linked[j].owner)
      => linked[i].label # linked[j].label /\ linked[i].sub # linked[j].sub
=============================================================================
