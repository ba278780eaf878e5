---------------------------- MODULE Sessions ----------------------------
(***************************************************************************)
(* Users and their sessions: app/services/auth.py, routes_auth.py,         *)
(* routes_admin.py and the dependencies every route begins with. These     *)
(* handlers run in a pool of threads, so their transactions interleave: a  *)
(* login is two transactions, an update reads before it writes.            *)
(*                                                                         *)
(* era is history: how often a user was disabled or got a new password.    *)
(* crossed is history: two updates of users were under way at once.        *)
(***************************************************************************)
EXTENDS Integers, FiniteSets

CONSTANTS Users, Admins, Tokens, Threads,
          MaxEra     \* bound: disablings and resets of a user

VARIABLES user,      \* user[u]: role and active
          session,   \* session[t]: a row of user_sessions; ended: revoked, or expired
          thread,    \* thread[i]: a request between two transactions
          era, crossed

vars == <<user, session, thread, era, crossed>>

Roles == {"ADMIN", "USER"}
NoSession == [of |-> "none", ended |-> FALSE, made |-> 0]
Ready == [kind |-> "none", target |-> "none", role |-> "none", active |-> "none",
          copy |-> "none"]

Init == /\ user = [u \in Users |-> [role |-> IF u \in Admins THEN "ADMIN" ELSE "USER",
                                    active |-> TRUE]]
        /\ session = [t \in Tokens |-> NoSession]
        /\ thread = [i \in Threads |-> Ready]
        /\ era = [u \in Users |-> 0]
        /\ crossed = FALSE

\* get_user_for_token.
Usable(t) == /\ session[t].of # "none"
             /\ ~session[t].ended
             /\ user[session[t].of].active

\* require_admin.
ActsAsAdmin(a) == \E t \in Tokens : Usable(t) /\ session[t].of = a /\ user[a].role = "ADMIN"

(***************************************************************************)
(* authenticate_user commits its audit row; create_session follows.        *)
(***************************************************************************)
Authenticate(i, u) ==
  /\ thread[i] = Ready
  /\ user[u].active
  /\ thread' = [thread EXCEPT ![i] = [Ready EXCEPT !.kind = "login", !.target = u]]
  /\ UNCHANGED <<user, session, era, crossed>>

CreateSession(i, t) ==
  /\ thread[i].kind = "login"
  /\ session[t] = NoSession
  /\ session' = [session EXCEPT ![t] = [NoSession EXCEPT !.of = thread[i].target,
                                                         !.made = era[thread[i].target]]]
  /\ thread' = [thread EXCEPT ![i] = Ready]
  /\ UNCHANGED <<user, era, crossed>>

Logout(t) == /\ Usable(t)
             /\ session' = [session EXCEPT ![t].ended = TRUE]
             /\ UNCHANGED <<user, thread, era, crossed>>

ExpireSession(t) == /\ session[t].of # "none" /\ ~session[t].ended
                    /\ session' = [session EXCEPT ![t].ended = TRUE]
                    /\ UNCHANGED <<user, thread, era, crossed>>

(***************************************************************************)
(* Administration.                                                         *)
(***************************************************************************)
ActiveAdmins == {u \in Users : user[u].role = "ADMIN" /\ user[u].active}

\* Mutant: demoting the last administrator is not refused.
AllowedToDemote(a, u, role, active) ==
  /\ ~(/\ user[u].role = "ADMIN" /\ user[u].active /\ active = "no"
       /\ Cardinality(ActiveAdmins) <= 1)
  /\ ~(a = u /\ active = "no")

\* The checks of update_user; "keep" is a field the request leaves out.
Allowed(a, u, role, active) ==
  /\ ~(user[u].role = "ADMIN" /\ role = "USER" /\ Cardinality(ActiveAdmins) <= 1)
  /\ ~(/\ user[u].role = "ADMIN" /\ user[u].active /\ active = "no"
       /\ Cardinality(ActiveAdmins) <= 1)
  /\ ~(a = u /\ active = "no")

Updating == {i \in Threads : thread[i].kind = "update"}

CheckUpdate(i, a, u, role, active) ==
  /\ thread[i] = Ready
  /\ ActsAsAdmin(a)
  /\ Allowed(a, u, role, active)
  /\ thread' = [thread EXCEPT ![i] = [kind |-> "update", target |-> u, role |-> role,
                                      active |-> active, copy |-> user[u]]]
  /\ crossed' = (crossed \/ Updating # {})
  /\ UNCHANGED <<user, session, era>>

\* Mutant: one session of the user is revoked.
RevokedOne(u) ==
  LET mine == {t \in Tokens : session[t].of = u /\ ~session[t].ended}
  IN  IF mine = {} THEN session
      ELSE [session EXCEPT ![CHOOSE t \in mine : TRUE].ended = TRUE]

\* All sessions of a user that are not revoked yet.
Revoked(u) == [t \in Tokens |-> IF session[t].of = u THEN [session[t] EXCEPT !.ended = TRUE]
                                ELSE session[t]]

\* Columns that differ from what was loaded are written.
Changed(old, loaded, new) == IF new = loaded THEN old ELSE new

WriteUpdate(i) ==
  LET r == thread[i]
      u == r.target
      role == IF r.role = "keep" THEN r.copy.role ELSE r.role
      active == IF r.active = "keep" THEN r.copy.active ELSE r.active = "yes"
  IN  /\ r.kind = "update"
      /\ r.active = "no" => era[u] < MaxEra
      /\ user' = [user EXCEPT ![u].role = Changed(@, r.copy.role, role),
                              ![u].active = Changed(@, r.copy.active, active)]
      /\ session' = IF r.active = "no" THEN Revoked(u) ELSE session
      /\ era' = IF r.active = "no" THEN [era EXCEPT ![u] = @ + 1] ELSE era
      /\ thread' = [thread EXCEPT ![i] = Ready]
      /\ UNCHANGED crossed

ResetPassword(a, u) ==
  /\ ActsAsAdmin(a)
  /\ era[u] < MaxEra
  /\ session' = Revoked(u)
  /\ era' = [era EXCEPT ![u] = @ + 1]
  /\ UNCHANGED <<user, thread, crossed>>

Next == \/ \E i \in Threads :
             \/ \E u \in Users : Authenticate(i, u)
             \/ \E t \in Tokens : CreateSession(i, t)
             \/ \E a, u \in Users, role \in {"keep"} \cup Roles, active \in {"keep", "yes", "no"} :
                  CheckUpdate(i, a, u, role, active)
             \/ WriteUpdate(i)
        \/ \E t \in Tokens : Logout(t) \/ ExpireSession(t)
        \/ \E a, u \in Users : ResetPassword(a, u)

(***************************************************************************)
(* Properties.                                                             *)
(***************************************************************************)
TypeOK == /\ user \in [Users -> [role : Roles, active : BOOLEAN]]
          /\ \A t \in Tokens : session[t].of \in Users \cup {"none"}
          /\ \A i \in Threads : thread[i].target \in Users \cup {"none"}
          /\ era \in [Users -> 0 .. MaxEra]

\* routes_admin.py:78: an active administrator remains, through any sequence
\* of demotions, disablings and promotions that do not overlap. (Two requests
\* that disable each other's administrator both count two.)
AnAdminRemains == ActiveAdmins # {} \/ crossed

\* A session ends for good when its user is disabled or gets a new password,
\* and comes back with neither the user nor an update written late.
SessionsEnd == \A t \in Tokens : Usable(t) => session[t].made = era[session[t].of]
=============================================================================
